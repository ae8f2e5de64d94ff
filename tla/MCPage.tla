--------------------------------- MODULE MCPage ---------------------------------
(***************************************************************************)
(* Small instances of the components of a page: rate limited callbacks,    *)
(* toasts, transport reports, the update of the service worker, the scroll *)
(* lock, the focus of overlays, the listbox, media queries, files, system  *)
(* notifications and virtualized lists.  They are independent of each      *)
(* other: a behaviour runs one of them, and the others stay in one of      *)
(* their initial states.                                                   *)
(***************************************************************************)
EXTENDS RateLimitedCallback, Sequences

CONSTANTS
  Ids, Absent, NoTtl, MaxVisible, DefaultTtl, Ttls, MaxPushes, MaxLife,
  Errors, Keys, KeyOf, Delay, KeyInterval, MaxKeys, MaxClock, MaxAdjusts,
  Tabs, MaxReloads, Grace, MaxVersion, MaxActs,
  Overlays, Paddings, Scrollbar, Offsets, Paths, MaxTouches,
  Layers, MaxFocusable, MaxOpenings,
  MaxOptions, Settings, Standard, Based, Custom,
  Components, Widths, Ems, Threshold, MaxChanges,
  MaxBytes, MaxAborts,
  Publications, MaxClicks,
  MaxItems,
  last_, busy, quiet \* an error that happens once, and the keys of reports

VARIABLES
  component,
  items, toastHistory, timers, clockOfToasts, pushes, running, erased,
  reporter, delayed, failed, suppressed, recentKeys, heard, clock, skew, adjusts,
  active, waiting, skipping, page, count, inbox, autos, acts,
  lock, leases, bodyStyle, scroll, guard, fingers, gesture, panned, touches,
  focus, overlay, openings, cause,
  options, selected, open, current, settings, focused, frame, chosen, style, applied,
  width, em, listeners, queries, snapshot, observing, events, rebuildTimer, changes,
  file, asks, reading, aborted, listens, image, answer, late,
  granted, worker, disposed, delivery, released, releases, handles, screen,
  clicks, unshown, told, unlisted,
  rows, more, atEnd, rendered, fetching, failedAt, request, begunAt, permit, requests

N == INSTANCE Notifications WITH
       history <- toastHistory, now <- clockOfToasts, calls <- pushes,
       MaxCalls <- MaxPushes, MaxTime <- MaxLife
T == INSTANCE TransportReports WITH MaxTime <- MaxClock
S == INSTANCE ServiceWorkerUpdate
D == INSTANCE DocumentScrollLock WITH style <- bodyStyle
F == INSTANCE OverlayFocus WITH Overlays <- Layers
L == INSTANCE FloatingListbox
M == INSTANCE MatchMedia WITH timer <- rebuildTimer
R == INSTANCE FileReading
P == INSTANCE NotificationPresenter
G == INSTANCE FetchNextPage WITH items <- rows, mounted <- rendered

nvars == <<items, toastHistory, timers, clockOfToasts, pushes, running, erased>>
tvars == <<reporter, delayed, failed, suppressed, recentKeys, heard, clock, skew, adjusts>>
svars == <<active, waiting, skipping, page, count, inbox, autos, acts>>
dvars == <<lock, leases, bodyStyle, scroll, guard, fingers, gesture, panned, touches>>
fvars == <<focus, overlay, openings, cause>>
lvars == <<options, selected, open, current, settings, focused, frame, chosen, style, applied>>
mvars == <<width, em, listeners, queries, snapshot, observing, events, rebuildTimer, changes>>
rvars == <<file, asks, reading, aborted, listens, image, answer, late>>
pvars == <<granted, worker, disposed, delivery, released, releases, handles, screen,
           clicks, unshown, told, unlisted>>
gvars == <<rows, more, atEnd, rendered, fetching, failedAt, request, begunAt, permit, requests>>

allVars == <<component, vars, nvars, tvars, svars, dvars, fvars, lvars, mvars, rvars, pvars, gvars>>

\* What the components assume of their constants.
ASSUME PageAssumption ==
  /\ {MaxVisible, DefaultTtl, Delay, KeyInterval, MaxKeys, MaxReloads, Grace, MaxVersion, Threshold}
       \subseteq Nat \ {0}
  /\ NoTtl \notin Int /\ Ttls \subseteq Int /\ Absent \notin BOOLEAN
  /\ KeyOf \in [Errors -> Keys]
  /\ Paddings \cup Offsets \cup Widths \cup Ems \cup {Scrollbar, MaxAborts, MaxFocusable} \subseteq Nat
  /\ Based \subseteq Standard /\ Standard \cap Custom = {}
  /\ Settings \subseteq L!Setting
  /\ Layers \cap {"document", "user", "tab", "restore"} = {}

\* A listbox with the default parameters.
Plain ==
  [disabled |-> FALSE, closeOnSelect |-> TRUE, focusFloatingOnOpen |-> TRUE,
   allowOpenWithoutOptions |-> FALSE, restoreFocusOnClose |-> TRUE,
   resolves |-> FALSE, controlled |-> FALSE]

Starts(c, idle) == component = c \/ idle

PageInit ==
  /\ component \in {"limit", "toast", "transport", "update", "scroll", "focus", "listbox",
                    "media", "file", "system", "list"}
  /\ Init   /\ Starts("limit", ~throttled /\ ~flushOnUnmount)
  /\ N!Init /\ T!Init /\ S!Init
  /\ D!Init /\ Starts("scroll", bodyStyle.padding = 0 /\ scroll = 0)
  /\ F!Init
  /\ L!Init /\ Starts("listbox", options = <<>> /\ settings = Plain)
  /\ M!Init /\ Starts("media", \A w \in Widths, e \in Ems : width <= w /\ em <= e)
  /\ R!Init /\ Starts("file", file.mime = "image" /\ file.extension = "listed" /\ file.size = MaxBytes
                                /\ asks.image /\ ~asks.buffer /\ ~asks.limited
                                /\ asks.list = "any" /\ ~aborted)
  /\ P!Init /\ Starts("system", worker)
  /\ G!Init /\ Starts("list", rows = 0 /\ ~more /\ ~atEnd)

\* Of the components but the one that runs, nothing changes.
Rest(c, v) == component # c => UNCHANGED v

PageNext ==
  /\ component' = component
  /\ Rest("limit", vars) /\ Rest("toast", nvars) /\ Rest("transport", tvars)
  /\ Rest("update", svars) /\ Rest("scroll", dvars) /\ Rest("focus", fvars)
  /\ Rest("listbox", lvars) /\ Rest("media", mvars) /\ Rest("file", rvars)
  /\ Rest("system", pvars) /\ Rest("list", gvars)
  /\ \/ component = "limit" /\ Next
     \/ component = "toast" /\ N!Next
     \/ component = "transport" /\ T!Next
     \/ component = "update" /\ S!Next
     \/ component = "scroll" /\ D!Next
     \/ component = "focus" /\ F!Next
     \/ component = "listbox" /\ L!Next
     \/ component = "media" /\ M!Next
     \/ component = "file" /\ R!Next
     \/ component = "system" /\ P!Next
     \/ component = "list" /\ G!Next

PageSpec == PageInit /\ [][PageNext]_allVars

-------------------------------------------------------------------------------
(* The instances.                                                          *)

\* Lists as they are by default, disabled, and with every other default changed and a
\* caller that opens and closes them.
ListSettings ==
  {Plain, [Plain EXCEPT !.disabled = TRUE],
   [Plain EXCEPT !.closeOnSelect = FALSE, !.focusFloatingOnOpen = FALSE,
                 !.allowOpenWithoutOptions = TRUE, !.restoreFocusOnClose = FALSE,
                 !.resolves = TRUE, !.controlled = TRUE]}

CallerTtls == {0, 1}
\* All errors but one are failures of one endpoint.
Endpoints == [e \in Errors |-> IF e = last_ THEN quiet ELSE busy]
Scroller(top, maximum, contains) ==
  [top |-> top, maximum |-> maximum, contains |-> contains, reversed |-> FALSE]
\* A page without scrollers, and a scroller at its top inside another.
ScrollPaths == {<<>>, <<Scroller(1, 3, TRUE), Scroller(2, 3, FALSE)>>}

-------------------------------------------------------------------------------
(* The properties; see the modules.                                        *)

\* One timer for every toast that closes itself, a history that agrees with the
\* toasts, and nothing erased that comes back by itself.
ToastsAgree == N!TimerPerToast /\ N!HistoryAgrees /\ N!ErasedStaysOut
TransportIsFair == T!SilenceIsJustified /\ T!OneReportPerKey
\* Updates reach all tabs that could hear of them, without a chain of reloads.
UpdatesSpread == S!ChainIsBounded /\ S!TabsFollow
\* The page is fixed, and its touches stopped at an edge, while an overlay needs it,
\* and the focus stays inside one that keeps it.
OverlaysHoldThePage == [](D!FixedWhileHeld /\ D!OnlyEdgePansStop) /\ F!FocusIsKept
\* The list shows an option that can be chosen, in the sizes it was given.
ListboxIsUsable == L!ActiveIsUsable /\ L!SizesAreRestored
\* What is released or settled leaves nothing behind: queries, observers and timers,
\* listeners of a signal, notifications on the screen and calls of their owner; and what
\* is told until then is current.
NothingIsLeft ==
  /\ [](/\ M!StoreIsReleased /\ M!SnapshotIsCurrent
        /\ R!NothingListens /\ R!AbortedHasNoValue
        /\ P!ReleasedIsClosed)
  /\ P!ReleasedIsSilent
NoRetryByScroll == G!NoRetryByScroll

PageTypes ==
  /\ TypeOK /\ N!TypeOK /\ S!TypeOK /\ D!TypeOK /\ F!TypeOK /\ L!TypeOK
  /\ M!TypeOK /\ R!TypeOK /\ P!TypeOK /\ G!TypeOK
===============================================================================
