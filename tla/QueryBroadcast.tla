----------------------------- MODULE QueryBroadcast -----------------------------
(***************************************************************************)
(* Invalidations between the tabs of an application, with either installer *)
(* of the library: installReactQueryBroadcast ("events", all queries, the  *)
(* receivers only mark) and installQueryInvalidationBroadcast ("scoped",   *)
(* matching queries, the receivers cancel and refetch).  The query cache   *)
(* of TanStack is external: a query is its data, the mark isInvalidated    *)
(* and the request under way.  The server's value of a key is a version.   *)
(***************************************************************************)
EXTENDS Integers, Sequences, FiniteSets

CONSTANTS
  Tabs, Keys,
  NoRequest, Sent,
  MaxWrites, MaxFetches, MaxPosted \* bounds on the behaviours

VARIABLES
  installed,  \* which installer the application uses
  refetch,    \* the refetchType it gives: "none" or "active"
  matching,   \* the keys matchesQuery of a tab accepts
  closed,     \* tabs after their cleanup
  query,      \* the query of a key in a tab's cache
  channel,    \* messages on their way to a tab
  server,     \* the version of a key on the server
  owed,       \* writes whose tab has not invalidated yet
  posted,     \* messages posted so far
  causes,     \* invalidations tabs made on their own so far
  announced,  \* the version of a key when it was announced to a tab last
  begun

vars == <<installed, refetch, matching, closed, query, channel, server, owed, posted,
          causes, announced, begun>>

NoAnswer == -1
Versions == 0 .. MaxWrites
Query == [data : Versions \cup {NoAnswer}, invalid : BOOLEAN,
          request : Versions \cup {NoRequest, Sent},
          before : BOOLEAN] \* the mark when the request began, for its cancellation

TypeOK ==
  /\ closed \subseteq Tabs
  /\ query \in [Tabs -> [Keys -> Query]]
  /\ channel \in [Tabs -> Seq([from : Tabs, key : Keys])]
  /\ server \in [Keys -> Versions] /\ announced \in [Tabs -> [Keys -> Versions]]
  /\ owed \subseteq Tabs \X Keys

Init ==
  /\ installed \in {"events", "scoped"} /\ refetch \in {"none", "active"}
  /\ matching \in [Tabs -> SUBSET Keys]
  /\ installed = "events" => matching = [t \in Tabs |-> Keys]
  /\ closed = {}
  /\ query = [t \in Tabs |-> [k \in Keys |->
       [data |-> NoAnswer, invalid |-> FALSE, request |-> NoRequest, before |-> FALSE]]]
  /\ channel = [t \in Tabs |-> <<>>]
  /\ server = [k \in Keys |-> 0] /\ announced = [t \in Tabs |-> [k \in Keys |-> 0]]
  /\ owed = {} /\ posted = 0 /\ causes = 0 /\ begun = 0

-------------------------------------------------------------------------------
(* The query cache.                                                        *)

\* query.fetch with cancelRefetch: a request of a query with data starts anew, a
\* first request is joined.
Fetched(q) ==
  IF q.request # NoRequest /\ q.data = NoAnswer THEN q
  ELSE [q EXCEPT !.request = Sent, !.before = q.invalid]

\* cancelQueries: the state from before the request comes back.
Cancelled(q) ==
  IF q.request = NoRequest THEN q
  ELSE [q EXCEPT !.request = NoRequest, !.invalid = q.before]

Invalidated(q, type) ==
  IF type = "active" THEN Fetched([q EXCEPT !.invalid = TRUE]) ELSE [q EXCEPT !.invalid = TRUE]

StartFetch(t, k) ==
  /\ begun < MaxFetches /\ begun' = begun + 1
  /\ query[t][k].request = NoRequest
  /\ query' = [query EXCEPT ![t][k] = Fetched(@)]
  /\ UNCHANGED <<installed, refetch, matching, closed, channel, server, owed, posted, causes,
                 announced>>

ServerReads(t, k) ==
  /\ query[t][k].request = Sent
  /\ query' = [query EXCEPT ![t][k].request = server[k]]
  /\ UNCHANGED <<installed, refetch, matching, closed, channel, server, owed, posted, causes,
                 announced, begun>>

Answer(t, k) ==
  /\ query[t][k].request \in Versions
  /\ query' = [query EXCEPT ![t][k] =
       [data |-> @.request, invalid |-> FALSE, request |-> NoRequest, before |-> FALSE]]
  /\ UNCHANGED <<installed, refetch, matching, closed, channel, server, owed, posted, causes,
                 announced, begun>>

-------------------------------------------------------------------------------
(* The installers.                                                         *)

\* Whether the listener broadcasts an invalidation of the query: the cache tells
\* only of a query that was not marked before, and the listener keeps silent while
\* a message is applied.
Heard(applying, q) == ~applying /\ ~q.invalid

MayPost(t, k) == t \notin closed /\ (installed = "scoped" => k \in matching[t])

Deliver(t, k) ==
  channel' = [u \in Tabs |->
    IF u # t /\ u \notin closed THEN Append(channel[u], [from |-> t, key |-> k]) ELSE channel[u]]

Broadcast(t, k) ==
  IF MayPost(t, k)
    THEN /\ posted < MaxPosted /\ posted' = posted + 1
         /\ Deliver(t, k)
         /\ announced' = [u \in Tabs |->
              IF u = t THEN announced[u] ELSE [announced[u] EXCEPT ![k] = server[k]]]
    ELSE UNCHANGED <<posted, channel, announced>>

\* A write of the tab succeeds on the server.
Write(t, k) ==
  /\ server[k] < MaxWrites
  /\ server' = [server EXCEPT ![k] = @ + 1]
  /\ owed' = owed \cup {<<t, k>>}
  /\ UNCHANGED <<installed, refetch, matching, closed, query, channel, posted, causes,
                 announced, begun>>

\* The tab invalidates what it wrote, and the cache tells its listener at once.
Invalidate(t, k, type) ==
  /\ <<t, k>> \in owed
  /\ owed' = owed \ {<<t, k>>}
  /\ query' = [query EXCEPT ![t][k] = Invalidated(@, type)]
  /\ IF Heard(FALSE, query[t][k])
       THEN causes' = causes + 1 /\ Broadcast(t, k)
       ELSE UNCHANGED <<causes, posted, channel, announced>>
  /\ UNCHANGED <<installed, refetch, matching, closed, server, begun>>

\* broadcast called by the application, without a change of its own cache.
Announce(t, k) ==
  /\ <<t, k>> \in owed /\ MayPost(t, k)
  /\ owed' = owed \ {<<t, k>>}
  /\ causes' = causes + 1 /\ Broadcast(t, k)
  /\ UNCHANGED <<installed, refetch, matching, closed, query, server, begun>>

WrongReceived(q) == Invalidated(q, refetch) \* no cancellation: the old request is joined

\* What a message does to the query; "events" sends refetchType none by itself.
Received(q) ==
  IF installed = "scoped" THEN Invalidated(Cancelled(q), refetch)
  ELSE Invalidated(q, "none")

Receive(t) ==
  /\ channel[t] # <<>>
  /\ LET k == Head(channel[t]).key
         q == query[t][k]
         answer == Heard(TRUE, q) /\ MayPost(t, k) IN
     /\ query' = IF installed = "scoped" /\ k \notin matching[t] THEN query
                 ELSE [query EXCEPT ![t][k] = Received(q)]
     /\ answer => posted < MaxPosted
     /\ posted' = IF answer THEN posted + 1 ELSE posted
     /\ channel' = [u \in Tabs |->
          IF u = t THEN Tail(channel[t])
          ELSE IF answer /\ u \notin closed THEN Append(channel[u], [from |-> t, key |-> k])
          ELSE channel[u]]
  /\ UNCHANGED <<installed, refetch, matching, closed, server, owed, causes, announced, begun>>

\* cleanup: the channel is closed with what it has not delivered.
Cleanup(t) ==
  /\ t \notin closed
  /\ closed' = closed \cup {t}
  /\ channel' = [channel EXCEPT ![t] = <<>>]
  /\ UNCHANGED <<installed, refetch, matching, query, server, owed, posted, causes, announced, begun>>

Next ==
  \E t \in Tabs :
    \/ \E k \in Keys :
         \/ StartFetch(t, k) \/ ServerReads(t, k) \/ Answer(t, k)
         \/ Write(t, k) \/ Announce(t, k)
         \/ \E type \in {"none", "active"} : Invalidate(t, k, type)
    \/ Receive(t)
    \/ Cleanup(t)

Spec == Init /\ [][Next]_vars

-------------------------------------------------------------------------------
\* Tabs do not answer each other's messages: every message has an invalidation of
\* its own that a tab made by itself.
NoEndlessEcho == posted <= causes

\* Of a matching key no open tab that has received its messages takes data older
\* than what was announced for fresh: a request sent before the write is not
\* joined and its answer does not hide the invalidation.
FreshOrMarked ==
  installed = "scoped" =>
    \A t \in Tabs \ closed : \A k \in matching[t] :
      LET q == query[t][k] IN
      channel[t] = <<>> /\ q.data # NoAnswer /\ ~q.invalid /\ q.request = NoRequest
        => q.data >= announced[t][k]
===============================================================================
