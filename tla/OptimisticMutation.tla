--------------------------- MODULE OptimisticMutation ---------------------------
(***************************************************************************)
(* The helpers of queryClient.ts for optimistic mutations of one query key, *)
(* called by TanStack in the order onMutate, the request, onError or        *)
(* onSuccess, onSettled; mutations may overlap, and the query may be        *)
(* fetched at any time.  Data is the set of the mutations it reflects.      *)
(***************************************************************************)
EXTENDS Integers, FiniteSets

CONSTANTS
  Mutations,
  NoData, NoRequest, Sent,
  MaxFetches \* bound on the fetches

VARIABLES
  cache,    \* query.state.data
  invalid,  \* query.state.isInvalidated
  request,  \* the request of the query: NoRequest, Sent, or what it will answer
  before,   \* the mark its cancellation brings back
  server,   \* the mutations the server has accepted
  step,     \* where a mutation is
  previous, \* its OptimisticContext
  fetches,
  \* history: two mutations were under way at once, a fetch began during one, the
  \* mutations that created data from nothing
  overlapped, raced, created

query == <<cache, invalid, request, before>>
history == <<overlapped, raced, created>>
vars == <<query, server, step, previous, fetches, history>>

Data == SUBSET Mutations
Steps == {"idle", "cancelling", "patched", "accepted", "refused", "lost", "answered", "done"}

TypeOK ==
  /\ cache \in Data \cup {NoData} /\ {invalid, before} \subseteq BOOLEAN
  /\ request \in Data \cup {NoRequest, Sent}
  /\ server \in Data /\ step \in [Mutations -> Steps]
  /\ previous \in [Mutations -> Data \cup {NoData}]

Init ==
  /\ cache \in {{}, NoData} /\ invalid = FALSE /\ request = NoRequest /\ before = FALSE
  /\ server = {}
  /\ step = [m \in Mutations |-> "idle"] /\ previous = [m \in Mutations |-> NoData]
  /\ fetches = 0 /\ overlapped = FALSE /\ raced = FALSE /\ created = {}

UnderWay(m) == step[m] \notin {"idle", "done"}
Advance(m, s) == step' = [step EXCEPT ![m] = s]

-------------------------------------------------------------------------------
(* The query.                                                              *)

\* setQueryData: an undefined result changes nothing, any other is fresh data, and
\* the state a cancellation brings back.
SetQueryData(d) ==
  IF d = NoData THEN UNCHANGED query
  ELSE cache' = d /\ invalid' = FALSE /\ before' = FALSE /\ request' = request

StartFetch ==
  /\ request = NoRequest /\ fetches < MaxFetches
  /\ \A m \in Mutations : step[m] # "cancelling" \* a few microtasks only
  /\ fetches' = fetches + 1
  /\ request' = Sent /\ before' = invalid
  /\ raced' = (raced \/ \E m \in Mutations : UnderWay(m))
  /\ UNCHANGED <<cache, invalid, server, step, previous, overlapped, created>>

ServerReads ==
  /\ request = Sent /\ request' = server
  /\ UNCHANGED <<cache, invalid, before, server, step, previous, fetches, history>>

FetchEnds ==
  /\ request \notin {NoRequest, Sent}
  /\ cache' = request /\ invalid' = FALSE /\ request' = NoRequest /\ before' = FALSE
  /\ UNCHANGED <<server, step, previous, fetches, history>>

-------------------------------------------------------------------------------
(* The helpers.                                                            *)

\* onMutateOptimistic up to its await: the requests of the key are cancelled.
OnMutate(m) ==
  /\ step[m] = "idle"
  /\ Advance(m, "cancelling")
  /\ IF request = NoRequest THEN UNCHANGED query
     ELSE request' = NoRequest /\ invalid' = before /\ UNCHANGED <<cache, before>>
  /\ overlapped' = (overlapped \/ \E n \in Mutations : UnderWay(n))
  /\ UNCHANGED <<server, previous, fetches, raced, created>>

\* What the caller's patcher makes of the data; it may create data or return undefined.
Patched(m) == IF cache = NoData THEN {NoData, {m}} ELSE {cache \cup {m}}

\* The rest: the snapshot and the patch.
Patch(m) ==
  /\ step[m] = "cancelling"
  /\ Advance(m, "patched")
  /\ previous' = [previous EXCEPT ![m] = cache]
  /\ \E d \in Patched(m) :
       /\ SetQueryData(d)
       /\ created' = IF cache = NoData /\ d # NoData THEN created \cup {m} ELSE created
  /\ UNCHANGED <<server, fetches, overlapped, raced>>

\* The server accepts or refuses, or accepts and its answer is lost.
ServerDecides(m) ==
  /\ step[m] = "patched"
  /\ \E s \in {"accepted", "refused", "lost"} :
       /\ Advance(m, s)
       /\ server' = IF s = "refused" THEN server ELSE server \cup {m}
  /\ UNCHANGED <<query, previous, fetches, history>>

WrongOnError(m) == \* the snapshot is forgotten
  /\ step[m] \in {"refused", "lost"}
  /\ UNCHANGED query
  /\ Advance(m, "answered")
  /\ UNCHANGED <<server, previous, fetches, history>>

\* onErrorOptimistic: a snapshot without data restores nothing.
OnError(m) ==
  /\ step[m] \in {"refused", "lost"}
  /\ SetQueryData(previous[m])
  /\ Advance(m, "answered")
  /\ UNCHANGED <<server, previous, fetches, history>>

\* onSuccessOptimistic with a merger of the item, or no call of it at all.
OnSuccess(m) ==
  /\ step[m] = "accepted"
  /\ \/ SetQueryData(IF cache = NoData THEN NoData ELSE cache \cup {m})
     \/ UNCHANGED query
  /\ Advance(m, "answered")
  /\ UNCHANGED <<server, previous, fetches, history>>

WrongOnSettled(m) == \* nothing is invalidated
  /\ step[m] = "answered"
  /\ Advance(m, "done")
  /\ UNCHANGED <<query, server, previous, fetches, history>>

\* onSettledOptimistic with the default refetchType none, or an active one: a
\* request of a query with data is started anew, a first one joined.
OnSettled(m) ==
  /\ step[m] = "answered"
  /\ Advance(m, "done")
  /\ invalid' = TRUE /\ cache' = cache
  /\ \/ UNCHANGED <<request, before, raced>>
     \/ /\ request = NoRequest \/ cache # NoData
        /\ request' = Sent /\ before' = TRUE
        /\ raced' = (raced \/ \E n \in Mutations \ {m} : UnderWay(n))
  /\ UNCHANGED <<server, previous, fetches, overlapped, created>>

Next ==
  \/ StartFetch \/ ServerReads \/ FetchEnds
  \/ \E m \in Mutations :
       OnMutate(m) \/ Patch(m) \/ ServerDecides(m) \/ OnError(m) \/ OnSuccess(m) \/ OnSettled(m)

Spec == Init /\ [][Next]_vars

-------------------------------------------------------------------------------
Quiet == \A m \in Mutations : ~UnderWay(m)
Ended == {m \in Mutations : step[m] = "done"}

\* When no mutation is under way, data that differs from the server's is marked or
\* being fetched, whatever the rollbacks of overlapping mutations wrote over each
\* other, provided no fetch began during a mutation.
StaleIsMarked ==
  Quiet /\ ~raced /\ Ended # {} /\ cache # NoData =>
    cache = server \/ invalid \/ request # NoRequest

\* Mutations that follow each other leave data with exactly the accepted ones; a
\* request that was under way does not bring back the time before.  Data made from
\* nothing is not rolled back.
SequentialIsExact ==
  Quiet /\ ~raced /\ ~overlapped /\ created = {} /\ cache # NoData /\ request = NoRequest
    => \/ cache = server
       \/ \E m \in Ended : m \in server \ cache /\ invalid \* the answer was lost
===============================================================================
