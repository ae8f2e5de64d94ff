# A verification model of react-foundation-lib

The library (`src/src/<module>/`) is a collection of React and TypeScript
building blocks. About two dozen of its modules keep state that several
callers, timers, tabs, renders and transactions change in orders nobody wrote
down; most of the others are conversions whose input is a whole language of
values (filters, dates, pipelines of formatters, reports of errors), or typing.
This directory models both kinds in TLA+, checks them with TLC on small
instances and proves the most important results of the first kind with TLAPS
for every value of the constants.

How to read it: a file `X.tla` is the model of a component, its comment says
which functions it stands for; the `.cfg` files give its constants values for
TLC, directly or through an `MCX.tla` that adds definitions or puts components
together; `XProofs.tla` holds theorems. `PROJECT.json` maps every definition to
the source lines it translates, lists the runs, and for every checked property a
*mutant*: a definition `WrongD` of the model, written as a plausible bug of the
code (a dropped guard, a missing reset), under which TLC finds the property
violated.

## 1. The system and its parts

| Component (`src/src/...`) | State | Operations | Interacts with | Hard part |
|---|---|---|---|---|
| `async-task-runner` coalescing runner | active generation (pending promise, rerun flag, poll timer, scheduled wake, reported failure), `stopping` | `start`, `wake`, `stop`, timer and poll callbacks, microtasks of the attempt | the task and `onError` of the caller, for example a delivery loop over the error-report queue | overlapping starts and stops, late timers, retry backoff, promises that must settle |
| `async-task-runner` deadline timer | generation, timer handle | `schedule`, `cancel`, timer callback | `Date.now`, `setTimeout` | waits beyond 2^31-1 ms, clock corrections, late callbacks |
| `error-report` queue | records in a shared store (IndexedDB or any `update`) | `enqueue`, `leaseNext`, `acknowledge`, `reschedule`, `getNextWakeUtc` | delivery workers of several tabs | leases that run out, crashes, capacity, skewed clocks |
| `error-report` runtime deduplication | map of recent fingerprints, timers, capture promises | `coalesceRuntimeErrorReportCapture`, timer, rejection, clear | transport and runtime capture | late rejections and timers of replaced entries |
| `error-report` transport and runtime reports | recent keys, suppressed errors, delayed reports | `reportTransportError`, suppression, timers | http client, deduplication | a report delayed 250 ms and a query report that suppresses it |
| `error-report` captures, drafts, breadcrumbs | phases of a capture, bounded lists in `sessionStorage` with a memory fallback | capture, create, update, remove, append, opt-out | storage that may refuse | stale copies, one-way fallback, eviction, an opt-out between two awaits |
| `error-report` values, payload, schema | capture options, sanitizer | describe, clean, shorten, drop, validate | everything above | byte limits against UTF-16 units, cycles, policies, the size limit of the transport |
| `query-client` session reset | registrations, reset marker, TanStack query cache, BroadcastChannel | `resetSessionScopedQueries`, `installSessionScopedQueryReset`, lifecycle listeners | auth code, other tabs | late answers of the old session, overlapping resets, echo between tabs |
| `query-client` session cache | active scope, object store, prune queue | `setItem`, prune, `setSessionQueryPersistenceScope`, cleanup | IndexedDB shared by tabs | scope switches during writes, prunes of several tabs, failed transactions |
| `query-client` query restore | operation tokens, scheduler of notifications | `persisterFn`, `getItem`, abort | session cache, TanStack persister | restore cancelled or superseded between two awaits |
| `query-client` broadcasts | queue of invalidations, channel | send, receive | other tabs | a received message must not be sent again |
| `query-client` optimistic mutations | snapshots of query data | patch, roll back, invalidate | query cache | overlapping mutations |
| `notifications` | visible stack, history, one timer per toast | `push`, `update`, `upsert`, `remove`, `clear`, `clearHistory`, `notify.progress` | UI, error reports | toasts pushed out while their timer is armed, updates of what is gone |
| `hooks` debounce and throttle | last value, timer, last invocation | call, flush, cancel, timer, cleanup | components | trailing values, unmount, options that change |
| `hooks` floating listbox | options, active option, focus, saved sizes | effects and event handlers | Floating UI, keyboard | options that change while the list is open, a caller that keeps `open` itself, sizes to be restored |
| `pwa` | pending update, reload marker in storage | apply, message, `controllerchange` | service worker, tabs | reload chains, several tabs updating at once |
| `dom`, `context-menu` | scroll-lock leases, touch guard, focus stack, viewport frames | acquire, release, frame callbacks | document | releases in any order, nested overlays |
| `media`, `browser-notifications` | subscriptions, permission | subscribe, unsubscribe | browser | shared subscriptions |
| `file`, `file-system`, `binary` | one reader per operation | read, abort | browser | abort racing completion |
| `virtualizer`, `three-scene`, `promise`, `copy` | refs of one effect | effects, timers, promises | components | late timers and promises after unmount |
| `odata-service` filters | none | clean, compile, write `$filter` | filters of a view, dictionaries | nested ands and ors, inherited columns |
| `odata-service` metadata, queries | none | read EDMX, sort, write parameters, pair columns | server | links between columns, literals of every type |
| `formatters` dates, `date-segments` | none | parse, format, periods, school years, fields of segments | inputs, services, spreadsheets | a dozen formats tried in turn, boundaries of the calendar |
| `formatters` pipeline, value states | a registry of resolvers | validate, compile, execute, copy | formulas, rows, an editor | user-drawn graphs, fields that must be fetched |
| `table`, `table-document`, `tree-table`, `analytical-table` | selections, documents, trees | pure updates | components | agreement of index and order |
| `formulas` | a registry | register, validate, execute | table rows | what is read against what is declared, throwing formulas |
| `number-scale`, `value-transformers`, `decimal` | none | conversions | inputs | boundaries |
| `http`, `range-output`, `xml` | none | read headers and elements | server | grammar, escaping |
| `array`, `indexed-records`, `bounded-copy-stack`, `string-comparison`, `utils`, `validators` | none | helpers | everything | boundaries |
| `excel`, `seo`, `crypto`, `fingerprint`, `form`, `presets`, `session-storage`, `error`, `types`, `error-report-build`, `error-report-source-maps` | none or files | generation, thin wrappers | build, browser | file formats |

What makes each stateful component correct, in a sentence:

* **runner**: one attempt at a time, no signal forgotten, a stop that came last
  wins over every start before it, a backoff is honoured, every promise settles;
* **deadline timer**: the pending deadline is met once, not early, by exactly
  one native timer;
* **queue**: an enqueued report is delivered by one tab at a time, leaves the
  queue only for a stated reason, and the next wake-up is exact;
* **deduplication**: equal errors share one capture per window and no late
  callback breaks a newer sharing;
* **capture and drafts**: everybody who shares a capture finds its draft, and
  nothing of the browser storage is kept after the opt-out;
* **transport reports**: a failure is passed over only for a reason, and an
  endpoint is reported once per interval;
* **session reset**: nothing of an old session is seen after the reset, every
  tab is reset, no listener is half told, tabs do not echo;
* **session cache**: no snapshot of another session, at most `maxEntries` at
  rest, no older revision over a newer one of the same build;
* **notifications**: a timer closes the toast it was armed for and no other,
  erased or opted-out text does not come back to the history;
* **debounce, throttle**: no value stranded, none delivered after a newer one,
  a throttled callback is invoked at most once per interval;
* **query restore**: nothing of another session or of a superseded attempt is
  published, and no cancellation costs a usable snapshot;
* **broadcasts**: no tab keeps old data as fresh, and tabs do not echo;
* **optimistic mutations**: what rollbacks leave is the server's data, or marked
  as stale;
* **service worker update**: every tab follows the active version, and no chain
  of reloads is endless;
* **overlays**: the page is fixed exactly while an overlay needs it, the focus
  stays inside the one that traps it, and its touches stop at edges only;
* **listbox**: the active option can be chosen, and sizes are restored;
* **media, files, system notifications**: what is released or settled leaves no
  observer, listener or notification behind;
* **next page**: a failed request is not repeated by scrolling;
* **filters**: the text that is sent selects the rows the definitions mean;
* **queries, metadata**: what headers show is what is sent; links between
  columns and sets are mutual;
* **dates**: what was written is read back as the same day or moment;
* **pipelines, formulas**: an accepted pipeline is one chain, reads only the
  fields it declares and means the same after a copy;
* **reports**: bounded, accepted by their own schema, free of what the policy
  forbids, and true about what was left out.

The list of hazards in `PROJECT.json` names, line by line, where these can go
wrong, the properties that would notice, and the hazards no model covers yet.

## 2. The modules

### 2.1 `SerialTask` and `CoalescingTaskRunner`

`createCoalescingTaskRunner.ts`. A *generation* is one life of the runner
between start and stop; the code keeps it in an object that old closures still
hold, the model in a function from generation numbers to its fields. JavaScript
runs to completion, so one action is one synchronous stretch of the code: a call
of the API (`Start`, `Wake`, `Stop`), a microtask (`RunMicrotask`,
`StartDeferred`, `DrainCompletes`, `RunSettles`, `ReporterSucceeds`,
`ReporterFails`, `Finish`), a timer (`TimeoutFires`, `PollFires`) or the late
callback of a timer that was cleared after the host had queued it
(`LateTimeout`). The code tests of a callback (`generation === active`,
`scheduledWake.timer === timer`) are the guards.

`SerialTask` is the contract without timers, promises or generations: open,
signal, begin, succeed or fail, close. `CoalescingTaskRunner` implements it; the
refinement mapping hides the preparation of an attempt (a promise is pending but
the task has not been called) and counts the reporter's handling of a failure as
part of the execution.

Run `runner`: two callers and two stops, poll and retry timers in every order,
under fairness (microtasks run, due timers fire, the task settles). Fairness is what the host's event loop gives;
nothing is assumed of callers. That a due timer eventually fires is weak
fairness of a step that stays enabled until it is taken.

### 2.2 `DeadlineTimer`

`createDeadlineTimer.ts`. `left[g]` is the remaining native delay of the timer
of generation `g` and `part[g]` the number of native timers the wait has used;
`Tick` is the host's time, `AdjustClock` moves `Date.now()` only. `late` holds
the callbacks of cleared timers that the host may still deliver. The run uses a
native limit of 2 and waits of up to 5, so a wait takes one, two or three native
timers, is replaced once and the clock is corrected once.

### 2.3 `ErrorReportQueue`

`queue.ts`, `queueRecord.ts`, `queueContract.ts`. Every operation is one call of
`storage.update`, a transaction: the action reads the normalised records
(`Normalized`: the expired ones are dropped, as `normalizeErrorReportQueueRecords`
does) and writes the result. The time a transaction uses was read before it was
created, and lies up to `MaxLag` in the past (`Recent`): transactions of two
tabs use clocks that are not ordered like they are. A tab may vanish with its
lease. `Enqueue` has its eviction and its refusal, `LeaseNext` its order,
`OwnsLease` the match of lease and owner.

The violation run `queue_refusal` shows that a full queue whose leases have all
run out refuses a report, which the README of the module rules out.

### 2.4 `RuntimeDeduplication` and `ErrorReporting`

`RuntimeDeduplication` is `runtimeDeduplication.ts`. A capture is named by its
number, so that a late timer or rejection names the capture it belongs to
(`IsExpected`). The map is a set of records: an entry is set when its capture
begins and not again, so the order of insertion is the order of the captures'
numbers. The clock may be set back, which
lengthens the sharing (`OneCapturePerWindow` says in which direction).

`ErrorReporting` composes it with what a capture does (`capture.ts`,
`diagnostics.ts`, `drafts.ts`, `errorReportStorage.ts`, `runtime.ts`): `phase`
follows a capture through its awaits, from `reading` the persisted queries over
`read` or `plain` to a draft that is `saved`, `refused` by the schema or whose
making has `thrown`; a runtime capture without a query client does all of that
in the call. `Disable` is the one-way opt-out, at any of these moments. The two
stores of drafts are `browserDrafts` (a copy of `sessionStorage`, loaded lazily,
that may fail to be read and to be written) and `memoryDrafts`. `made` is
history: the captures whose drafts were made in the present mode.

### 2.5 `SessionScopedReset`

`sessionScoped.ts`, `sessionScopedResetLifecycle.ts`. Data and requests carry
the number of the server session that answers. A reset goes through the awaits
of `resetSessionScopedQueries`: `retiring` (callbacks before), `cancelling`,
`refetching`, `completing` (callbacks after); `Begin` is everything up to the
first await. Installation of a listener is refused while a reset is under way
(`MayInstall`). TanStack Query is external: cancel drops a request, reset
restores the hydrated state, and the following `setState` clears it.

`floor[t]` is history: the session in which the last reset to clear tab `t` was
called. Liveness assumes that requests and callbacks
settle and that the channel delivers; a reset with a failing callback does not
tell the other tabs, which `AllTabsReset` states.

### 2.6 `SessionCache`

`persistence.ts`. IndexedDB runs the transactions of one object store in
creation order; the model keeps them in one queue, whatever tab made them, and a
step runs the first one with the code its completion resumes. `setItem` creates
a put, its completion appends a prune to the persister's `pruneQueue`; a prune
is a listing and one transaction of removals, that may fail half way. A change
of scope moves the boundary at once and cleans up through a database of its own.

A put under a monotonic revision field keeps what is stored only when both entries
are of one build (`buster`) and both revisions can be read and the stored one is
larger (`KeepsStored`, `persistence.ts:381-387`). Each tab has the buster of its
build, and an entry the revision 0 when none can be read of it. `RevisionsGrow`
therefore speaks of an entry and the one put in its place (`MayFollow`); an entry of
another build, or without a revision, replaces what is stored and is replaced by
whatever comes, so that over three entries a revision may go back. The constraint
`BuildsOrMoves` of the run lets behaviours have either changes of scope or several
builds and revisions; the proof has no such bound.

Two violation runs state what comments of the module promise and the code does
not keep: the newest entries survive a prune (`cache_keeps_the_last`), and the
limit holds again after a failed prune (`cache_after_failure`). `NameExtends`
models that the key prefix of a cache is also a prefix of the keys of a cache
whose name extends it by a dash; the runs use names that do not.

### 2.7 `QueryRestore`, `QueryBroadcast`, `OptimisticMutation` (run `query_client`)

`MCQueryClient` runs one of the three in each behaviour; they share no state.

`QueryRestore` is `persisterFn` of one session-scoped query with its storage and
its scheduler guard (`persistence.ts`, `createQueryRestoreStorage.ts`,
`createQueryRestoreSchedulerGuard.ts`). An operation is one call; its `step` names
the await it is in (`reading`, `removing`, `fetching`, ...) and the action of that
name is the code up to the next one. `tasks` are the macrotasks TanStack's
persister schedules after a restore; they run after anything else may have
happened. Aborts, resets, newer fetches, other tabs that store and switches of
the session come between any two steps.

`QueryBroadcast` is both installers of `broadcast.ts` and
`invalidationBroadcast.ts` in every tab, on a channel that keeps order; a request
is split into being sent, being read by the server and being answered, since the
hazard is an answer that is older than an invalidation.

`OptimisticMutation` holds the four handlers of `queryClient.ts`. Data is the set
of mutations it reflects, so a rollback that undoes too much or too little is
seen. `raced` and `overlapped` are history and bound what is claimed:
`StaleIsMarked` speaks of overlapping mutations too, `SequentialIsExact` of those
that follow one another.

`StampOfTheData` of the restore (the time stamp of a query is that of its data)
is claimed for data of operations that carry a token. The data of a query
function without one may get the stamp of an older snapshot: its session ends,
a new one begins, and the macrotask of a restore of the first is still to run.
The proof needs that case told apart, and two switches of the session show it
to TLC, so the run has two.

What TanStack does (cancel, join, invalidate, mark) is external and follows how
these files use it.

### 2.8 The components of a page (run `page`)

`MCPage` runs one of eleven components in each behaviour.

* `RateLimitedCallback`: `useDebounceCallback.ts`, `useThrottledCallback.ts`, one
  module for both; `throttled` chooses `call`, the rest is shared. The interval
  is fixed. A value of `null`, which the hooks use for "nothing waits", is
  excluded as their README does. `flush` may invoke a throttled callback again
  within the interval, and a call after the unmount is delivered by its timer:
  the model does both as the code does, and the properties speak of calls and
  timers only.
* `Notifications`: `store.ts`, `notify.ts`. Every call carries a text of its own
  (a number), so that properties can say which text is where. `Progress` and
  `Finish` are the facade `notify.progress`; its toast has the default lifetime,
  so `Finish` may find it gone and then changes nothing. `Drop`, the `filter` of
  the store, is a function on the beginnings of the stack, which the prover can
  reason about as it cannot about `SelectSeq`; so is `PrunedKeys` below.
* `TransportReports`: `transport.ts`. A failed request is told to the reporter
  after a delay, unless a query capture suppresses it by then. `recentKeys` is
  the map in insertion order with its eviction; `heard` is history: what the
  present reporter was told, in the times of `Date.now()` and of the host.
* `ServiceWorkerUpdate`: `serviceWorker.ts`, `useServiceWorkerUpdate.ts` in every
  tab, with the reload marker of `sessionStorage`, against the worker of the
  application. Events of a page arrive in order and a reload drops the rest.
* `DocumentScrollLock`: the lock of `acquireDocumentScrollLock.ts` with the touch
  guard; leases are released in any order, repeatedly, during gestures. A move is of
  the finger that is observed, of another one or of a zoomed page, or has become one
  of the browser's own (a selection, a control): the last three end the gesture for
  the guard (`MovesAlone`). A move may also come prevented or not cancelable, and is
  then left alone. `OnlyEdgePansStop` says which moves are stopped, in both directions.
* `OverlayFocus`: `useOverlayFocus.ts`. The container of an overlay may appear
  frames after it opened, or outlive it for an animation.
* `FloatingListbox`: `useFloatingListbox.ts`: the options, the keys, the focus, the
  dismissal and the sizes. Options are loaded, filtered and disabled while the
  list is open; the parameters are those of the last render (`settings`; `Settings`
  has the default ones, a disabled list, and all the others at once), so a
  controlled list may refuse to open or close; sizes are applied when Floating UI
  likes. The popup is mounted as long as the list is open.
* `MatchMedia`: the store of `useMatchMedia.ts`; media events and observers are
  late, the rebuild is debounced.
* `FileReading`: `readFile.ts`, `readImageFile.ts` against an abort at any time. The
  extension of the name decides what is refused, the type only where there is none.
* `NotificationPresenter`: `createBrowserNotificationPresenter.ts`; released or
  disposed between any two awaits of a delivery. Clicks and the error event of a
  notification the page made itself are events: they wait (`clicks`, at most
  `MaxClicks`, and `unshown`) while the page releases it, and `Tells` is what the
  listeners and the catch ask before they call its owner. `told` holds the calls:
  `ReleasedIsSilent` is an action property, no call after the release or the end of
  the presenter and no second call.
* `FetchNextPage`: `useFetchNextPageEffect.ts` against renders, failures and its
  reporter.

### 2.9 The conversions (run `conversions`)

Conversions keep no state. `MCConversions` chooses one of 30 *areas* and an input
of it (a payload is collected, cleaned and limited in the order of the code, `Clean`
being the step between); the invariants compare the operators with an independent definition:
rows selected by a `$filter` with rows meant by its definition, a day read with
the day written, fields read with fields declared, a payload with what was
collected. The modules follow the files, one operator per function:

* `ODataFilters`: `filterDefinitions.ts`, `filters.ts`. A `$filter` is a sequence
  of tokens and is evaluated by a reading of its own (precedence of and and or,
  parentheses), against the meaning of the expression. The area `ranges` merges a
  filter with a range of any two bounds: none, 0, FALSE, the empty text and others.
  `createFilterBetween` tests an only bound for truth, so those three alone ask for
  nothing, which `RangeIsAsked` states (the README of the module says it too).
* `ODataMetadata`: `parser.ts`. `ODataQueries`: `sorts.ts`, `builder.ts`,
  `formatters.ts`, `schema.ts`, `sqlFilters.ts`, `findCollectionPairs.ts`,
  `buildSeparatedArrays.ts`. Sequences of up to four clicks on the headers of a
  table are one area.
* `CalendarDates`, `DateParsing`, `DateFormats`: `formatters/date/`. A Date is a
  day number and a second; texts are pieces (pairs of digits, literals), so that
  each recogniser of `parseDate.ts` is tried on each text in the code's order.
  `DateFormats` also holds `date-segments/mask.ts`: a mask is a sequence of
  characters, cut into segments by its tokens; a field is read with the values its
  segments hold, over a default date. The areas `shown` (a date, its field, the date
  read) and `typed` (values of any segments, also of days that do not exist) ask it.
* `Formulas`: `formulas/`, `formatters/rowBased/`. The function of a formula is the
  host's: it sums, throws, returns nothing, reads beyond its arguments.
* `FormatterPipelines` (validation, normalisation, value states) and
  `FormatterRuntime` (execution, dependencies, copies): `formatters/pipeline/`,
  `formatters/valueState/`. The graphs are those a user can draw with up to three
  edges between two ends and two steps, broken ones included.
* `ErrorReportValues` and `ErrorReportPayloads`: `safeValue.ts`, `dataPreview.ts`,
  `errorInfo.ts`, `captureOptions.ts`, `breadcrumbs.ts`, `diagnostics.ts`,
  `payload.ts`, `schema.ts`, and the form in which `queueRecord.ts` stores a report:
  the area `records` reads up to three records, each with one damage or none, into a
  queue of two; `retries` writes, leases and reschedules a report and reads it again
  (an owner is cut to two symbols). A text is a sequence of symbols of one UTF-16 unit,
  some of two UTF-8 bytes, some halves of a surrogate pair, some that JSON
  escapes. An e-mail address is two symbols and is recognised only whole, so that a
  limit may cut it in two: the code cuts first and redacts then. The no-secrets parts
  of `ReportsAgree` say what that leaves: `TextsAreBounded` that half of an address is
  told exactly when the limit falls into it, the others that nothing else of it is. The
  limits are scaled down in the
  proportions of the code, so that payloads occur that are cut, reduced, lose
  some sections, lose all and still do not fit. The policy may have changed
  between the collection of the data and the capture.

## 3. What the runs show

| Run | Bounds | Shows |
|---|---|---|
| `runner` | 2 callers' starts, 2 stops (three generations), poll, retry, late callbacks | no lost signal, later stop wins, backoff, complete drain; every promise settles; implements `SerialTask` |
| `deadline_timer` | native limit 2, waits to 5, 2 schedules, 1 correction | due on time, late callbacks disturb nothing, met |
| `error_report_queue` | 3 reports, room for 2, 2 tabs, lease 2, skewed clocks | exclusive delivery, no silent loss, exact wake-up |
| `queue_refusal` | as above | *violated*: refusal only for active leases |
| `error_reporting` | 2 fingerprints on a map of 1, 3 captures, 2 drafts, clock set back once | entries last, sharers find their draft, one capture per window, the opt-out holds |
| `query_client` | 2 operations of a restore, 2 sessions, 2 switches; 2 tabs, 2 writes; 2 mutations, 2 fetches | nothing foreign or superseded is published, no old data is kept as fresh, what rollbacks leave is right or marked |
| `session_reset` | 2 tabs, a change of the session, overlapping resets | no old snapshot, exact resets; all tabs reset, resets end |
| `session_cache` | 2 tabs, 2 scopes, 2 builds, 2 revisions or none, 3 writes, 2 switches, 1 failure | no foreign snapshot, bounded at rest, revisions grow within a build |
| `cache_keeps_the_last`, `cache_after_failure` | 1 tab, 1 scope | *violated*: the last entry stays; bounded after a failure |
| `page` | see `Page.cfg`; each limit is 1 to 3, so it is met and passed | the eleven components of 2.8, a property or two of each |
| `conversions` | see the areas of `MCConversions` | the five agreements of 2.9 |

Properties of `page` and `conversions` are conjunctions, one conjunct per hazard;
the conjuncts are defined, with a comment of their own, in the module they are
about (`ToastsAgree` is `TimerPerToast`, `HistoryAgrees` and `ErasedStaysOut` of
`Notifications`).

### Why the bounds are enough

Each bound lets the interesting case happen at least twice: two tabs (the
messages between them, and a third would only repeat the second), one more
element than a limit holds (eviction), two generations after each other and one
late callback of the first in the second (stale callbacks), an interval or a
lease of at least two moments (so that something happens inside it). The bounds
are guards named `Max...` in the modules; nothing else cuts the behaviours.

In `conversions` the inputs of an area are chosen so that every branch of the
operators is taken; that the rare ones occur (a payload that never fits, a graph
that is a chain by another order of edges, a text that two recognisers accept)
was looked at in the coverage of TLC. Sequences are of two or three elements, as
the code treats elements one by one, or by pairs.

Deadlock is not checked where a component stops when its bounds are used up or,
in `conversions`, when an input has been chosen.

### Fairness

Liveness is claimed by `runner`, `deadline_timer` and `session_reset`. These
runs assume only what the host gives: a microtask that is queued runs, a timer
that is due fires, a channel delivers. Of the program's environment they assume
that a task, a request and a callback settle, because the code awaits them
without a timeout. No caller is assumed to call anything, except that a tab that
changed the session calls the reset, which is the contract of that function.

## 4. What is proved

TLAPS proves the theorems listed in `PROJECT.json` for every value of the
constants that the modules' named assumptions admit. Every safety invariant and
every safety action property of the runs of state machines is stated by one. Each
argument has an inductive invariant, established by the initial states and kept by
one lemma per action; the invariant itself was checked by TLC first.

* `CoalescingTaskRunnerProofs`: the invariant says which generation may have a
  pending attempt (the active one, or a revoked one that only drains), that
  timers belong to the active, healthy generation, and that calls remembered by
  callers are older than the stop that revoked them. Single flight,
  owners of timers, lost signals, later stops and backoff follow.
  `ImplementsContractSafety` is the refinement of `SerialTask` without its
  fairness: initial states map to initial states, every step to a step or a
  stutter.
* `DeadlineTimerProofs`: `Stale` says that a callback that is still queued names
  a generation that was issued and a part that is over; with it a late callback
  cannot be taken for the running timer. Bounds, one native timer, due on time
  and no overshoot follow.
* `ErrorReportProofs`: the queue and the captures. Of the queue: leases carry
  distinct identities and the record of a lease is the one in the store;
  transactions that use an old clock are bounded by `MaxLag`, which has to be
  shorter than the lifetime of a record (the assumption of the exclusive-delivery
  theorem). Of the captures: `EntriesApart` and `TimersMatch` (a fingerprint and a
  capture have one entry, an entry has one timer) make a late timer or rejection
  take out the entry of its own capture or none. `Findable` says that the last
  drafts of the list are, counted from its end, those of the last captures that
  made one, whatever copy was loaded in between; eviction cuts at the other end.
  `OptOut` holds through every await because `MakeDraft` asks again.
* `SessionScopedResetProofs`: `Marker` (the counter of a tab is the number of
  its resets under way), `Ages` (requests, data and clearings are ordered by
  session) and `Commands` (commands received, to be received and to be caused
  are fewer than the changes of the session). `NoEcho` is not inductive without
  counting the resets of other tabs that may still post, which `Commands` does.
* `SessionCacheProofs`: the invariant speaks of positions in the queue of
  transactions. `Cleaned`: an entry of a session, and each put of one still in the
  queue, has a tab in that session, or a cleanup *after* it that will list it, or
  one that has listed it (without failures: a failed cleanup is not repeated).
  `PruneRuns`: a persister that prunes has one transaction of its prune in the
  queue. `Pruned`: a cache above its limit has a persister that is poisoned or
  whose removals to come leave no more than `MaxEntries`. `Apart` (time stamps
  are distinct) is what makes the survivors of a prune few enough.
  `RevisionsGrowHolds` assumes `Monotonic`, the caller's option it is about.
* `QueryClientProofs`: `MutationInv`, `BroadcastInv` and `RestoreInv`, one for each
  component; a step of the run is a step of one and a stutter of the others.
  Mutations: what the snapshot of each step knows of the others, and `Leaves`,
  what a mutation that is alone will leave, whether its answer is lost or not.
  Broadcasts: a tab has been told of the version (a message is on its channel), or
  its data, the answer of its request and what cancelling it brings back are no
  older or marked. Restores: the current operation is the last with a token, and
  what reads or refreshes does so within its session.
* `PageProofs`: one invariant for each component of the page. `PageStarts` and
  `PageMoves` carry the components' arguments to `PageSpec`: a step of a page is a
  step or a stutter of every component.
  - the hooks (`RateInv`): flush, cancel, timer, unmount and a changed option are
    one lemma (`StepSettles`): they keep, drop or deliver the one waiting value;
  - toasts (`ToastInv`): stack and history are sequences whose elements have
    distinct ids; `FilterKeeps`, `ReplaceKeeps`, `PrependKeeps` and
    `BeginningKeeps` say what each update does to the elements;
  - transport (`TransportInv`): what the reporter was told of a key less than an
    interval of the host ago is still in `recentKeys`, unless the key was evicted,
    and `Date.now()`, which is only set back, has not passed further than the host;
  - updates (`UpdateInv`): a page of another version than the active one is being
    reloaded, has the message in its inbox, or could not listen;
  - overlays (`LockInv`, `GuardInv`, `FocusInv`): what is held is of the epoch of the
    lock; the guard observes exactly the gestures of one finger begun under it;
    a gesture that became the browser's own, or that a second finger joined, is no
    longer observed; the focus is never in a container that is gone;
  - listbox (`ListboxInv`, `SizesInv`): what is kept to undo a resolver is the value
    each property has without one;
  - media, files, system notifications, next page (`MediaInv`, `FileInv`,
    `PresenterInv`, `FetchInv`): the late event, callback or await that makes up for
    what is not yet true. Of notifications: what waits for its event is wanted and
    not yet told, or nobody is called for it (`Unheard`), so every step that calls
    an owner is the first and of what is wanted (`FirstAndWanted`).
* `DateProofs`: no invariant but the operators of `CalendarDates`, `DateParsing` and
  `DateFormats`, for every day instead of the days the run asks.
  - the calendar: years are counted from March within an era of 400
    (`YearHoldsDay`), months by one index, `12 * year + month`. `FirstOfMonth`, the
    day a month begins on, ascends with that index, so a day has one month:
    `DateOfDayIsIts` and `DayOfDateIsIts` are the two directions;
  - ranges, periods and weeks: the first day of a period and that of the next are
    the bounds of exactly its days (`PeriodBounds`), for each of the four modes;
    `RangesAreOrdered`, `PeriodIsOfItsDays` and `WeekIsChosen` follow. They are
    stated from the year 101, and 1001 for the keys of weeks: `new Date` takes the
    years 0 to 99 for those of the 20th century, and a key has a year of four digits;
  - texts: `createCalendarDate` is exact because a date that was carried over has
    other components; of each of the four ways to write a date, the recognisers of
    `parseDate.ts` that come before its own refuse it place by place, and
    `NoOtherDay` follows for every day, month, year and time of such a text;
  - fields of segments: an editable segment is the first of its component, its value
    is the number of that component, and a date is the one of its components;
    `SegmentsReadWhatTheyShow` is for every mask, `SegmentsShowWhatIsTyped` for every
    mask in which a component has one segment, and for values of at most two digits
    where the segment has two. The dates shown and the default are of the years 100
    to 9999; that a year of two digits is of 1970 to 2069 is a condition of the
    property itself;
  - moments: `Shift` counts seconds and can be undone (`ShiftIs`, `ShiftBack`), the
    zone at the end of a text is cut off and is the offset that was written
    (`ZoneIsCut`, `OffsetIs`), and so `MomentsAreTheSame` (`SameMoment`) for every
    moment, every offset of less than a day and every zone of the host in seconds,
    where the clock shown is of the years 100 to 9999, and `TimesComeBack`
    (`TimeComesBack`) for every time of a day.

Assumptions are the named `ASSUME` of the modules: counts and bounds are natural
numbers (not 0 where the code divides, waits or keeps at least one), markers such
as `NoScope` are not what they stand beside, the key of an error is a key
(`PageAssumption`), the lag of a clock is shorter than the lifetime of a record
(`QueueAssumption`), sets of tabs and of reports are finite. TLC evaluates them in
the runs. No theorem assumes fairness.

Two claims were changed by an attempt to prove them: `StampOfTheData` (2.7) was
false of operations without a token, and the map of the deduplication was given
the form in which its order is that of the captures (2.4).

Proved and not repeated in a run, since the proof covers every instance: the type
invariants of the runner, the timer, the queue, the session reset, the hooks and the
three models of `query_client`; `SingleFlight`, `TimersHaveOwner`, `OnePassPerBatch`
and `RunBeginsAdmitted` of the runner; `OneNativeTimer`, `NoOvershoot` and
`TimerNotReplaced` of the deadline timer; `LeaseEndsByOwner` of the queue;
`NoMissedBefore` and `NoEcho` of the session reset; `ValueHasTimer` and
`TimerAtTheEnd` of the hooks.

Only model-checked:

* liveness under fairness, which is out of the prover's reach with `ENABLED`:
  `CallsSettle` and the fair half of `ImplementsContract`, `DeadlineMet`,
  `AllTabsReset`, `ResetsEnd`;
* of `DatesAgree`, the conjuncts `ReadsWhatItWrites` and
  `PatternReadsWhatItWrites`, which are about texts built by a fold over a pattern;
  the others are theorems of `DateProofs`;
* the other four agreements of `conversions`. Their operators compute over recursive
  data: filters, queries and reports with `RECURSIVE` operators, which the prover
  does not take, and what a recursion returns for every input needs induction over
  data, which the installed provers cannot instantiate.

## 5. What is not modelled, and why

* Typing, React rendering, JSX, styles and stories: no behaviour to check.
* Formats (Excel, XML, archives, source maps, hashes): large and sequential,
  their difficulty is in the bytes; the tests of the modules compare files.
* What TanStack Query, IndexedDB, the service worker, Floating UI and React do is
  external: actions stand for it as far as `src/` depends on it.
* Of the modelled components: a worker that cannot be registered and a
  `sessionStorage` that cannot be used (`pwa/serviceWorker.ts:49-63`); that the last
  check of a restore and its `setData` are one step (`Publish`), as nothing runs
  between them; an interval of a hook that changes between two
  renders; the expiry of a persisted scope (`maxAge`) and the public persister;
  the data messages of `broadcastQueryClient`; the placement of the listbox and
  the small hooks beside it; anchors and viewport frames of the context menu; the
  tone player; listeners that make breadcrumbs, and the environment a report
  describes, which are inputs of its payload.
* Of the conversions: daylight saving (the zone is fixed), milliseconds, and, but
  for the theorems of `DateProofs`, years outside 1000 to 9999; names, phones and file sizes; the text of a formula;
  the store of collections, `unwrapODataQueryResult` and date literals of
  `dateUtils.ts`; arithmetic of `decimal` and `number-scale`.
  `CreateEducationDateTime`, `FormatDateRange`, `NormalizeDateRange` and the bounds
  of a range are written down with the rest of their files, but no area asks them.
* Table selections and documents (`table`, `table-document`, `tree-table`,
  `analytical-table`), `indexed-records` and `bounded-copy-stack`: pure updates,
  next in the plan.
* One hazard of the list has no property: two caches whose names extend each other
  by a dash share a prefix of keys (`persistence.ts:391`). `NameExtends` models it;
  what the program wants there is not written down anywhere.

## 6. Observations

What reading and checking showed of the code and that is not a run of its own,
because no document says otherwise, or because a property had to make room for
it. Paths are below `src/src/`.

*Error reports* (`error-report/`). Redaction cuts a text to its limit and then
replaces what it found by marks (`safeValue.ts:94-102`). An e-mail address or a
token that the limit divides is no longer found, and its first half is told: an
address at the very end of a message, a stack or a cached value is not redacted when
its domain is cut off. A text may also end longer than the schema
allows, and the draft is refused. The cut of a redacted text may split a
surrogate pair. A thrown object with an empty name, or a sanitizer that returns
"" for the message, makes a report its own schema refuses. Text that JSON
escapes can stay above the limit after every section is dropped; the second
limit then replaces what the first said was truncated. A mark at the last depth
loses its type when it is cleaned again, `createDataShape` loses the names of
the keys of objects in an array, and throws on getters that throw; shared
references that are no cycle are marked as one. `reschedule` looks at the two
times of a retry only: a failure of an unknown kind, or of a status outside 100 to
599, is stored, and the next reading drops the report (`queue.ts:178`).

*Pipelines* (`formatters/pipeline/`). A configuration with a plan and another valid
graph is validated by the plan and copied by the graph. Ids with surrounding
blanks pass validation, are collected trimmed and read raw. The canonical key
of a fixed resolver is ambiguous when its texts hold ":" or ",", and short
hashes that collide would replace an earlier resolver. A cell of blanks has the
state of 0. `normalizeLeadingZeros` makes texts of null, "" and true, and without `fixed` it
does not return the value unchanged, as `normalizeLeadingZeros.ts:17` says. NaN from a
row formula is a value and gets no fallback.

*OData* (`odata-service/`). A range whose only bound is 0, FALSE or "" asks for nothing
(`filters.ts:280`, as `README.mdx:1394` says). An option of a list without conditions filters by the
column of its owner, which `columnIds` leaves out (`filterDefinitions.ts:181`). A
fractional number makes `odataFormatValue` throw (`filters.ts:93`). A measure may be
taken as the text of a code column when only its name fits. `buildSeparatedArrays`
joins code and text by a bar, which both may hold. The length of a literal is
compared after its quotes are doubled. `toggleSort` moves a sorted column to the
end. Two sets that are each other's results are both hidden.

*Dates* (`formatters/date/`). Invalid days of eight or fourteen digits are read as
Unix time; milliseconds before September 2001 as seconds; months and years of
ABAP at the precision of a day come back as 1970. The first week of a school year
whose Monday is in August cannot be chosen. `addCalendarMonths` does not clamp.

*State.* A refetch that begins while an optimistic mutation is pending may
answer after the mutation settled, although `query-client/queryClient.ts:198`
calls the cache actual by then (`raced` excludes it). A presenter whose
`getNotifications` fails cannot close its notification (`unlisted`). A notification
the browser could not show is told to its owner but not released: its `release` stays
with the presenter until its owner calls it or the presenter ends
(`createBrowserNotificationPresenter.ts:80`), as does that of one closed by hand. `notify.progress`
shows its toast with the default lifetime, so the toast may be gone before the
outcome. `copy/useCopyFeedback.ts:12` does not clear the timer of an earlier copy.
`useFetchNextPageEffect` stands still when data is rendered before its promise
settles and nothing else changes.

## 7. Plan

Done: the modules of section 2 with their runs, and the eight proof modules. Next,
most important first:

1. Proofs: the operators of the conversions that do not recurse (toggles of sorts,
   validation of pipelines) in modules of their own; exclusive
   delivery composed with the runner's single flight.
2. Operator modules for tree tables, table documents and selections, indexed
   records and the bounded copy stack.
3. Number scales and decimals against reference definitions.
4. The data messages of `broadcastQueryClient` composed with `QueryRestore`.
