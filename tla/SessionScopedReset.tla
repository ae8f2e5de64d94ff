--------------------------- MODULE SessionScopedReset ---------------------------
(***************************************************************************)
(* resetSessionScopedQueries and its lifecycle boundary, in several tabs.  *)
(* A tab that logs in (or out) changes the server session for all tabs and *)
(* then resets its session-scoped queries; the other tabs learn of it over *)
(* a BroadcastChannel.  Resets of one tab overlap freely.  A step of the   *)
(* model is the code between two awaits.                                   *)
(*                                                                         *)
(* Each tab has one session-scoped query; its data, and the request in     *)
(* flight, carry the number of the server session that answers.  What      *)
(* TanStack Query does is taken from how the code uses it: cancel drops a  *)
(* request at once, reset returns to the initial (hydrated) state.         *)
(***************************************************************************)
EXTENDS Integers, FiniteSets

CONSTANTS
  Tabs,
  Listeners,  \* callers of installSessionScopedQueryResetLifecycle
  MaxSessions \* bound on the server sessions

ASSUME SessionAssumption ==
  IsFiniteSet(Tabs) /\ Tabs # {} /\ MaxSessions \in Nat \ {0}

VARIABLES
  session,      \* the session the server knows the browser by
  owes,         \* tabs that changed the session and have not called reset yet
  data,         \* query data: the session that answered, or NoSession
  request,      \* the request in flight
  registered,   \* registrations of the QueryClient
  activeResets, \* the marker counting resets
  started,      \* number of resets begun
  reset,        \* the resets of all tabs
  channel,      \* reset commands posted to a tab and not delivered
  floor         \* history: the session the last clearing of a tab ended

vars == <<session, owes, data, request, registered, activeResets,
          started, reset, channel, floor>>

query == <<data, request>>
boundary == <<registered, activeResets, started, reset>>

\* One reset of the tab that changed the session, one in every other tab.
Resets == 1 .. ((MaxSessions - 1) * Cardinality(Tabs))
NoReset == 0
Sessions == 1 .. MaxSessions
NoSession == 0
Initial == 1 \* the session whose data hydration left in the query
NoRequest == [session |-> NoSession, by |-> NoReset]

Phases == {"retiring", "cancelling", "refetching", "completing", "done"}
Reset == [tab : Tabs, phase : Phases, captured : SUBSET Listeners,
          failed : BOOLEAN, broadcast : BOOLEAN, since : Sessions]

Begun == 1 .. started
Active(r) == reset[r].phase # "done"

TypeOK ==
  /\ session \in Sessions /\ owes \in SUBSET Tabs
  /\ data \in [Tabs -> Sessions \cup {NoSession}]
  /\ request \in [Tabs -> [session : Sessions \cup {NoSession}, by : 0 .. started]]
  /\ registered \in [Tabs -> SUBSET Listeners]
  /\ activeResets \in [Tabs -> Nat]
  /\ started \in Nat
  /\ reset \in [Begun -> Reset]
  /\ channel \in [Tabs -> 0 .. MaxSessions]
  /\ floor \in [Tabs -> Sessions]

Init ==
  /\ session = 1 /\ owes = {}
  /\ data = [t \in Tabs |-> Initial]
  /\ request = [t \in Tabs |-> NoRequest]
  /\ registered = [t \in Tabs |-> {}]
  /\ activeResets = [t \in Tabs |-> 0]
  /\ started = NoReset /\ reset = [r \in {} |-> <<>>]
  /\ channel = [t \in Tabs |-> 0]
  /\ floor = [t \in Tabs |-> Initial]

-------------------------------------------------------------------------------
(* The application and the server.                                         *)

ChangeSession(t) ==
  /\ session < MaxSessions
  /\ session' = session + 1
  /\ owes' = owes \cup {t}
  /\ UNCHANGED <<query, boundary, channel, floor>>

Fetch(t) ==
  /\ request[t] = NoRequest
  /\ request' = [request EXCEPT ![t] = [session |-> session, by |-> NoReset]]
  /\ UNCHANGED <<session, owes, data, boundary, channel, floor>>

\* The answer arrives, or the request fails and leaves the data.
FetchEnds(t) ==
  /\ request[t] # NoRequest
  /\ \/ data' = [data EXCEPT ![t] = request[t].session]
     \/ data' = data
  /\ request' = [request EXCEPT ![t] = NoRequest]
  /\ UNCHANGED <<session, owes, boundary, channel, floor>>

-------------------------------------------------------------------------------
(* installSessionScopedQueryResetLifecycle                                 *)

WrongMayInstall(t) == TRUE \* a late registration misses its before

MayInstall(t) == activeResets[t] = 0

Install(t, l) ==
  /\ l \notin registered[t]
  /\ MayInstall(t)
  /\ registered' = [registered EXCEPT ![t] = @ \cup {l}]
  /\ UNCHANGED <<session, owes, query, activeResets, started, reset, channel,
                 floor>>

Cleanup(t, l) ==
  /\ l \in registered[t]
  /\ registered' = [registered EXCEPT ![t] = @ \ {l}]
  /\ UNCHANGED <<session, owes, query, activeResets, started, reset, channel,
                 floor>>

-------------------------------------------------------------------------------
(* resetSessionScopedQueries                                               *)

Cancelled(t) == [request EXCEPT ![t] = NoRequest]

\* The code up to the first await: beginSessionScopedQueryReset and, without
\* registrations, the synchronous part of cancelQueries.
Begin(t, broadcast) ==
  LET r == started + 1 IN
  /\ started' = r
  /\ activeResets' = [activeResets EXCEPT ![t] = @ + 1]
  /\ reset' = [i \in Begun \cup {r} |->
                 IF i # r THEN reset[i] ELSE
                 [tab |-> t, captured |-> registered[t], failed |-> FALSE,
                  phase |-> IF registered[t] = {} THEN "cancelling" ELSE "retiring",
                  broadcast |-> broadcast, since |-> session]]
  /\ request' = IF registered[t] = {} THEN Cancelled(t) ELSE request
  /\ UNCHANGED <<session, data, registered, floor>>

LocalReset(t) ==
  /\ t \in owes
  /\ owes' = owes \ {t}
  /\ Begin(t, TRUE)
  /\ UNCHANGED channel

RemoteBroadcasts == FALSE

\* channel.onmessage.  The guard on started only binds when a tab echoes.
RemoteReset(t) ==
  /\ channel[t] > 0
  /\ started + 1 \in Resets
  /\ channel' = [channel EXCEPT ![t] = @ - 1]
  /\ Begin(t, RemoteBroadcasts)
  /\ UNCHANGED owes

Step(r, phase, failed) ==
  reset' = [reset EXCEPT ![r].phase = phase, ![r].failed = failed]

\* Every beforeReset of the pair has settled, some of them perhaps failing.
Retired(r) ==
  LET t == reset[r].tab IN
  /\ reset[r].phase = "retiring"
  /\ \E failed \in BOOLEAN : Step(r, "cancelling", failed)
  /\ request' = Cancelled(t)
  /\ UNCHANGED <<session, owes, data, registered, activeResets,
                 started, channel, floor>>

WrongClearedData == Initial \* query.reset() alone: hydrated data comes back

ClearedData == NoSession

\* cancelQueries has settled: the query is removed or emptied and, unless
\* something failed, requested again if an enabled observer uses it now.
Clear(r) ==
  LET t == reset[r].tab IN
  /\ reset[r].phase = "cancelling"
  /\ \E error, active \in BOOLEAN :
       LET failed == error \/ reset[r].failed IN
       /\ Step(r, IF failed THEN "completing" ELSE "refetching", failed)
       /\ request' = IF ~failed /\ active
                       THEN [request EXCEPT ![t] = [session |-> session, by |-> r]]
                       ELSE [request EXCEPT ![t] = NoRequest]
  /\ data' = [data EXCEPT ![t] = ClearedData]
  /\ floor' = [floor EXCEPT ![t] = IF reset[r].since > @ THEN reset[r].since ELSE @]
  /\ UNCHANGED <<session, owes, registered, activeResets, started,
                 channel>>

WrongSettled(r) == request[reset[r].tab] = NoRequest \* waits for strangers

\* The requests of refetchQueries have settled, or were cancelled by others.
Settled(r) == request[reset[r].tab].by # r

WrongTold(r) == \* only once the new session has answered
  IF reset[r].broadcast /\ data[reset[r].tab] # NoSession
    THEN Tabs \ {reset[r].tab} ELSE {}

\* The tabs the reset posts its command to.
Told(r) == IF reset[r].broadcast THEN Tabs \ {reset[r].tab} ELSE {}

Refetched(r) ==
  /\ reset[r].phase = "refetching"
  /\ Settled(r)
  /\ Step(r, "completing", FALSE)
  /\ channel' = [t \in Tabs |-> IF t \in Told(r) THEN channel[t] + 1 ELSE channel[t]]
  /\ UNCHANGED <<session, owes, query, registered, activeResets, started, floor>>

Released(r) == 1

\* Every afterReset has settled: the pair is complete.
Complete(r) ==
  /\ reset[r].phase = "completing"
  /\ Step(r, "done", reset[r].failed)
  /\ activeResets' = [activeResets EXCEPT ![reset[r].tab] = @ - Released(r)]
  /\ UNCHANGED <<session, owes, query, registered, started, channel, floor>>

Next ==
  \/ \E t \in Tabs :
       \/ ChangeSession(t) \/ Fetch(t) \/ FetchEnds(t)
       \/ LocalReset(t) \/ RemoteReset(t)
       \/ \E l \in Listeners : Install(t, l) \/ Cleanup(t, l)
  \/ \E r \in Begun : Retired(r) \/ Clear(r) \/ Refetched(r) \/ Complete(r)

SafeSpec == Init /\ [][Next]_vars

\* Requests settle, callbacks settle, the channel delivers, and a tab that
\* changed the session calls reset.
Fairness ==
  /\ \A t \in Tabs :
       WF_vars(FetchEnds(t)) /\ WF_vars(LocalReset(t)) /\ WF_vars(RemoteReset(t))
  /\ \A r \in Resets :
       WF_vars(r \in Begun /\ (Retired(r) \/ Clear(r) \/ Refetched(r) \/ Complete(r)))

Spec == SafeSpec /\ Fairness

-------------------------------------------------------------------------------
\* Once a reset has cleared the queries of a tab, nothing of a session before
\* the one it was called in is there again: no late answer, no hydrated state.
NoOldSnapshot ==
  \A t \in Tabs : data[t] # NoSession => data[t] >= floor[t]

\* A listener that is registered was told of every reset under way: whatever is
\* being cleared, the resources it guards were retired first.
NoMissedBefore ==
  \A r \in Begun : Active(r) => registered[reset[r].tab] \subseteq reset[r].captured

\* One change of the session costs every tab at most one reset: tabs do not
\* answer commands with commands.
NoEcho ==
  \A t \in Tabs :
    channel[t] + Cardinality({r \in Begun : reset[r].tab = t}) <= session - 1

\* Every reset is told to all listeners, and no tab makes it go on for ever.
ResetsAreExact == NoMissedBefore /\ NoEcho

\* Every tab drops what it knew of an old session, unless a reset fails.
AllTabsReset ==
  \A s \in Sessions, t \in Tabs :
    session = s ~> floor[t] >= s \/ \E r \in Begun : reset[r].failed

\* Every reset ends, and its pair of callbacks with it.
ResetsEnd == \A r \in Resets : r \in Begun ~> r \in Begun /\ ~Active(r)
===============================================================================
