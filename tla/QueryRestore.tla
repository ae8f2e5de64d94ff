------------------------------ MODULE QueryRestore ------------------------------
(***************************************************************************)
(* persisterFn of one session-scoped query: the restore of its snapshot,   *)
(* the fallback to the network, and the macrotasks the persister of        *)
(* TanStack leaves behind.  An operation is one call of persisterFn; code  *)
(* between two awaits is one step.  The stored entry is shared with other  *)
(* tabs of the scope.                                                      *)
(***************************************************************************)
EXTENDS Integers, FiniteSets

CONSTANTS
  Scopes, NoScope,
  Nothing,    \* no entry, no data, no operation
  MaxOps, MaxSwitches, MaxStores \* bounds on the behaviours

VARIABLES
  scope,    \* getSessionQueryPersistenceScope
  stored,   \* the entry of each scope's cache under the key of the query
  ops,      \* the calls of persisterFn, the latest last
  current,  \* restoreOperations.get(query)
  data,     \* query.state.data: which operation published what, of which scope
  stamp,    \* the operation that set query.state.dataUpdatedAt last
  tasks,    \* macrotasks of upstream: <<operation, "refresh" or "persist">>
  switches, stores

vars == <<scope, stored, ops, current, data, stamp, tasks, switches, stores>>

\* What an entry turns out to be when it is read back.
Qualities == {"good", "expired", "foreign", "unparsable"}
Steps == {"reading", "removing", "fallback", "fetching", "returned", "done", "cancelled"}
Operation == [step : Steps, scope : Scopes \cup {NoScope}, parser : BOOLEAN,
              aborted : BOOLEAN, from : {"network", "cache"}]
Ids == DOMAIN ops
Running(o) == ops[o].step \notin {"done", "cancelled"}

TypeOK ==
  /\ scope \in Scopes \cup {NoScope}
  /\ stored \in [Scopes -> Qualities \cup {Nothing}]
  /\ Ids = 1 .. Cardinality(Ids) /\ \A o \in Ids : ops[o] \in Operation
  /\ current \in Ids \cup {Nothing}
  /\ data = Nothing \/ data \in [by : Ids, from : {"network", "cache"}, scope : Scopes \cup {NoScope}]
  /\ stamp \in Ids \cup {Nothing}
  /\ tasks \subseteq Ids \X {"refresh", "persist"}

Init ==
  /\ scope \in Scopes
  /\ stored \in [Scopes -> Qualities \cup {Nothing}]
  /\ ops = [o \in {} |-> 0] /\ current = Nothing
  /\ data = Nothing /\ stamp = Nothing /\ tasks = {}
  /\ switches = 0 /\ stores = 0

Advance(o, step) == ops' = [ops EXCEPT ![o].step = step]

-------------------------------------------------------------------------------
\* assertCurrentRestore; an operation without a parser has no such check.
WrongCurrent(o) == ~ops[o].aborted /\ current = o \* the scope is not looked at again

Current(o) == ~ops[o].aborted /\ current = o /\ scope = ops[o].scope

MayGoOn(o) == ops[o].parser => Current(o)

\* The query fetches: its running operation is aborted, and persisterFn is called.
\* Without a scope queryFn is called directly; with data there is nothing to
\* restore; the bounded storage reads only for the active scope.
Aborted == [o \in Ids |-> IF Running(o) THEN [ops[o] EXCEPT !.aborted = TRUE] ELSE ops[o]]

PersisterFn(parser) ==
  LET o == Cardinality(Ids) + 1
      step == IF scope = NoScope THEN "fetching"
              ELSE IF data = Nothing THEN "reading" ELSE "fallback" IN
  /\ Cardinality(Ids) < MaxOps
  /\ ops' = [p \in Ids \cup {o} |->
       IF p = o THEN [step |-> step, scope |-> scope, parser |-> parser /\ scope # NoScope,
                      aborted |-> FALSE, from |-> "network"]
       ELSE Aborted[p]]
  /\ current' = IF scope = NoScope THEN current ELSE IF parser THEN o ELSE Nothing

Fetch(parser) ==
  /\ PersisterFn(parser)
  /\ UNCHANGED <<scope, stored, data, stamp, tasks, switches, stores>>

\* getItem answers, and the code after it runs up to the next await: a restored
\* entry is returned and its refresh scheduled, a bad one is to be removed.  An
\* operation that is not current any more throws, which upstream takes for a bad
\* entry.  Without a parser only the expiry is checked.
Read(o) ==
  LET entry == stored[ops[o].scope] IN
  /\ ops[o].step = "reading"
  /\ \/ /\ entry = Nothing
        /\ Advance(o, "fallback") /\ tasks' = tasks
     \/ /\ entry # Nothing
        /\ \/ ~MayGoOn(o)
           \/ entry = "expired"
           \/ ops[o].parser /\ entry # "good"
        /\ Advance(o, "removing") /\ tasks' = tasks
     \/ /\ entry # Nothing /\ entry # "expired"
        /\ MayGoOn(o) /\ (ops[o].parser => entry = "good")
        /\ ops' = [ops EXCEPT ![o].step = "returned", ![o].from = "cache"]
        /\ tasks' = tasks \cup {<<o, "refresh">>}
  /\ UNCHANGED <<scope, stored, current, data, stamp, switches, stores>>

\* removeItem: a cancelled operation leaves the entry alone.
Remove(o) ==
  /\ ops[o].step = "removing"
  /\ stored' = IF MayGoOn(o) THEN [stored EXCEPT ![ops[o].scope] = Nothing] ELSE stored
  /\ Advance(o, "fallback")
  /\ UNCHANGED <<scope, current, data, stamp, tasks, switches, stores>>

\* The queryFn given to upstream checks again before the network is asked.
Fallback(o) ==
  /\ ops[o].step = "fallback"
  /\ Advance(o, IF MayGoOn(o) THEN "fetching" ELSE "cancelled")
  /\ UNCHANGED <<scope, stored, current, data, stamp, tasks, switches, stores>>

\* queryFn answers, or fails; upstream schedules the write of an answer.
Answer(o) ==
  /\ ops[o].step = "fetching"
  /\ \/ /\ Advance(o, "returned")
        /\ tasks' = IF ops[o].scope = NoScope THEN tasks ELSE tasks \cup {<<o, "persist">>}
     \/ /\ Advance(o, "cancelled") /\ tasks' = tasks
  /\ UNCHANGED <<scope, stored, current, data, stamp, switches, stores>>

\* The last check after the await, and the result in the hands of the query, which
\* ignores what an aborted request returns.
Publish(o) ==
  /\ ops[o].step = "returned"
  /\ IF MayGoOn(o) /\ ~ops[o].aborted
       THEN /\ Advance(o, "done")
            /\ data' = [by |-> o, from |-> ops[o].from, scope |-> ops[o].scope]
            /\ stamp' = o
       ELSE Advance(o, "cancelled") /\ UNCHANGED <<data, stamp>>
  /\ UNCHANGED <<scope, stored, current, tasks, switches, stores>>

\* The macrotask of a restore: setState and fetch of the scheduler guard.  A stale
\* query is fetched again, which aborts an operation still under way.
Refresh(o) ==
  /\ <<o, "refresh">> \in tasks
  /\ tasks' = tasks \ {<<o, "refresh">>}
  /\ IF MayGoOn(o)
       THEN stamp' = o /\ (PersisterFn(ops[o].parser) \/ UNCHANGED <<ops, current>>)
       ELSE UNCHANGED <<stamp, ops, current>>
  /\ UNCHANGED <<scope, stored, data, switches, stores>>

\* The macrotask after a network answer: the state of the query is written, if
\* the scope of the operation is still the active one.
Persist(o) ==
  /\ <<o, "persist">> \in tasks
  /\ tasks' = tasks \ {<<o, "persist">>}
  /\ stored' = IF scope = ops[o].scope
                 THEN [stored EXCEPT ![scope] = IF data = Nothing THEN "expired" ELSE "good"]
                 ELSE stored
  /\ UNCHANGED <<scope, ops, current, data, stamp, switches, stores>>

-------------------------------------------------------------------------------
(* The surroundings.                                                       *)

\* The request is cancelled by its consumer.
Abort(o) ==
  /\ Running(o) /\ ~ops[o].aborted
  /\ ops' = [ops EXCEPT ![o].aborted = TRUE]
  /\ UNCHANGED <<scope, stored, current, data, stamp, tasks, switches, stores>>

\* setSessionQueryPersistenceScope, and the session reset that follows it.
SwitchScope(s) ==
  /\ switches < MaxSwitches /\ s # scope
  /\ scope' = s /\ switches' = switches + 1
  /\ UNCHANGED <<stored, ops, current, data, stamp, tasks, stores>>

ResetQuery ==
  /\ ops' = Aborted /\ data' = Nothing /\ stamp' = Nothing
  /\ data # Nothing \/ \E o \in Ids : Running(o) /\ ~ops[o].aborted
  /\ UNCHANGED <<scope, stored, current, tasks, switches, stores>>

\* Another tab stores its result, or the entry grows old.
OthersStore(s) ==
  /\ stores < MaxStores /\ stores' = stores + 1
  /\ \E q \in {"good", "expired"} : stored' = [stored EXCEPT ![s] = q]
  /\ UNCHANGED <<scope, ops, current, data, stamp, tasks, switches>>

Step(o) ==
  Read(o) \/ Remove(o) \/ Fallback(o) \/ Answer(o) \/ Publish(o) \/ Refresh(o) \/ Persist(o)

Next ==
  \/ \E parser \in BOOLEAN : Fetch(parser)
  \/ \E o \in Ids : Step(o) \/ Abort(o)
  \/ \E s \in Scopes \cup {NoScope} : SwitchScope(s)
  \/ ResetQuery
  \/ \E s \in Scopes : OthersStore(s)

Spec == Init /\ [][Next]_vars

-------------------------------------------------------------------------------
Guarded(o) == ops[o].parser

\* What a guarded operation publishes is of the session active at that moment, and
\* no newer operation is under way; and it asks the network only in that session:
\* cancellations, newer fetches and changes of the session may come at every await.
NothingForeign ==
  [][\A o \in Ids : Guarded(o) =>
       /\ data' # data /\ data' # Nothing /\ data'.by = o
            => scope = ops[o].scope /\ \A p \in Ids : p > o => ~Guarded(p)
       /\ ops'[o].step = "fetching" /\ ops[o].step # "fetching"
            => scope = ops[o].scope /\ ~ops[o].aborted]_vars

\* The time of guarded data is never one that an older restore carries: a macrotask
\* of a superseded or cancelled restore does not touch the query.  Operations of a
\* session without a parser are not guarded and excluded.
StampOfTheData ==
  /\ \A o \in Ids : Guarded(o) \/ ops[o].scope = NoScope
  /\ data # Nothing /\ stamp # Nothing /\ Guarded(data.by)
  => stamp >= data.by

\* A usable snapshot is removed only by a restore that was neither cancelled nor
\* superseded; no cancellation costs a snapshot.
SnapshotOutlivesCancel ==
  [][\A s \in Scopes : stored[s] # Nothing /\ stored'[s] = Nothing =>
       \E o \in Ids : /\ ops[o].scope = s /\ ops[o].step = "removing"
                      /\ Guarded(o) => ~ops[o].aborted /\ scope = s]_vars
===============================================================================
