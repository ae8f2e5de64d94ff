------------------------ MODULE SessionScopedResetProofs ------------------------
(***************************************************************************)
(* Proofs about SessionScopedReset, for every set of tabs and listeners    *)
(* and every bound on the sessions.                                        *)
(***************************************************************************)
EXTENDS SessionScopedReset, FiniteSetTheorems, TLAPS

Own(t) == {r \in Begun : reset[r].tab = t}
Live(t) == {r \in Own(t) : Active(r)}

\* Resets of other tabs that may still post their command to t.
Telling(t) ==
  {r \in Begun : /\ reset[r].tab # t /\ reset[r].broadcast
                 /\ reset[r].phase \in {"retiring", "cancelling", "refetching"}}

\* The marker of a tab counts its resets under way.
Marker == \A t \in Tabs : activeResets[t] = Cardinality(Live(t))

\* Only the current session is ahead of what was cleared, asked for or begun.
Ages ==
  /\ \A t \in Tabs :
       /\ floor[t] <= session
       /\ request[t] # NoRequest => request[t].session \in floor[t] .. session
  /\ \A r \in Begun : reset[r].since <= session

\* The commands a tab has received, will receive and has yet to cause.
Commands ==
  \A t \in Tabs :
    channel[t] + Cardinality(Own(t)) + Cardinality(Telling(t)) + Cardinality(owes)
      <= session - 1

\* The inductive invariant.
ResetInv == TypeOK /\ Marker /\ Ages /\ Commands /\ NoOldSnapshot /\ NoMissedBefore

-------------------------------------------------------------------------------
(* What the transactions of a reset do.                                    *)

LEMMA Finite ==
  ASSUME TypeOK, NEW S \in SUBSET Begun
  PROVE  IsFiniteSet(S) /\ Cardinality(S) \in Nat
<1>1. IsFiniteSet(Begun)
  BY FS_Interval DEF TypeOK, Begun
<1>. QED BY <1>1, FS_Subset, FS_CardinalityType

LEMMA BeginEffect ==
  ASSUME TypeOK, NEW t \in Tabs, NEW b \in BOOLEAN, Begin(t, b)
  PROVE  LET r == started + 1 IN
         /\ started' = r /\ r \notin Begun /\ Begun' = Begun \cup {r}
         /\ reset' \in [Begun' -> Reset]
         /\ \A i \in Begun : reset'[i] = reset[i]
         /\ reset'[r].tab = t /\ reset'[r].captured = registered[t]
         /\ reset'[r].phase \in {"retiring", "cancelling"}
         /\ reset'[r].broadcast = b /\ reset'[r].since = session
<1>. DEFINE r == started + 1
<1>1. r \notin Begun /\ started' = r /\ Begun' = Begun \cup {r}
  BY DEF Begin, TypeOK, Begun
<1>. DEFINE new == [tab |-> t, captured |-> registered[t], failed |-> FALSE,
                    phase |-> IF registered[t] = {} THEN "cancelling" ELSE "retiring",
                    broadcast |-> b, since |-> session]
<1>2. new \in Reset
  BY DEF TypeOK, Reset, Phases
<1>3. reset' = [i \in Begun \cup {r} |-> IF i # r THEN reset[i] ELSE new]
  BY DEF Begin
<1>4. /\ reset' \in [Begun' -> Reset]
      /\ \A i \in Begun : reset'[i] = reset[i]
      /\ reset'[r] = new
  BY <1>1, <1>2, <1>3 DEF TypeOK
<1>. QED BY <1>1, <1>4

LEMMA BeginCounts ==
  ASSUME TypeOK, NEW t \in Tabs, NEW b \in BOOLEAN, Begin(t, b), NEW u \in Tabs
  PROVE  /\ Cardinality(Own(u)') = Cardinality(Own(u)) + (IF u = t THEN 1 ELSE 0)
         /\ Cardinality(Live(u)') = Cardinality(Live(u)) + (IF u = t THEN 1 ELSE 0)
         /\ Cardinality(Telling(u)') =
              Cardinality(Telling(u)) + (IF b /\ u # t THEN 1 ELSE 0)
<1>. DEFINE r == started + 1
<1>0. /\ r \notin Begun /\ Begun' = Begun \cup {r}
      /\ \A i \in Begun : reset'[i] = reset[i]
      /\ reset'[r].tab = t /\ reset'[r].phase \in {"retiring", "cancelling"}
      /\ reset'[r].broadcast = b
  BY BeginEffect
<1>. HIDE DEF r
<1>1. Own(u)' = IF u = t THEN Own(u) \cup {r} ELSE Own(u)
  BY <1>0 DEF Own
<1>2. Live(u)' = IF u = t THEN Live(u) \cup {r} ELSE Live(u)
  BY <1>0 DEF Own, Live, Active
<1>3. Telling(u)' = IF b /\ u # t THEN Telling(u) \cup {r} ELSE Telling(u)
  BY <1>0 DEF Telling
<1>4. /\ {Own(u), Live(u), Telling(u)} \subseteq SUBSET Begun
      /\ r \notin Own(u) /\ r \notin Live(u) /\ r \notin Telling(u)
  BY <1>0 DEF Own, Live, Telling
<1>5. ASSUME NEW S \in {Own(u), Live(u), Telling(u)}
      PROVE  Cardinality(S \cup {r}) = Cardinality(S) + 1 /\ Cardinality(S) \in Nat
  BY <1>4, <1>5, Finite, FS_AddElement
<1>6. /\ Cardinality(Own(u) \cup {r}) = Cardinality(Own(u)) + 1
      /\ Cardinality(Own(u)) \in Nat
  BY <1>5
<1>7. /\ Cardinality(Live(u) \cup {r}) = Cardinality(Live(u)) + 1
      /\ Cardinality(Live(u)) \in Nat
  BY <1>5
<1>8. /\ Cardinality(Telling(u) \cup {r}) = Cardinality(Telling(u)) + 1
      /\ Cardinality(Telling(u)) \in Nat
  BY <1>5
<1>. QED BY <1>1, <1>2, <1>3, <1>6, <1>7, <1>8

\* A step of reset r to another phase.
LEMMA StepEffect ==
  ASSUME TypeOK, NEW r \in Begun, NEW phase \in Phases, NEW failed \in BOOLEAN,
         Step(r, phase, failed), started' = started
  PROVE  /\ Begun' = Begun /\ reset' \in [Begun -> Reset]
         /\ \A i \in Begun :
              /\ reset'[i].tab = reset[i].tab
              /\ reset'[i].captured = reset[i].captured
              /\ reset'[i].broadcast = reset[i].broadcast
              /\ reset'[i].since = reset[i].since
              /\ reset'[i].phase = IF i = r THEN phase ELSE reset[i].phase
<1>1. Begun' = Begun
  BY DEF Begun
<1>2. \A i \in Begun : reset[i] \in Reset
  BY DEF TypeOK
<1>3. reset' = [reset EXCEPT ![r] = [reset[r] EXCEPT !.phase = phase, !.failed = failed]]
  BY <1>2 DEF Step, TypeOK
<1>4. [reset[r] EXCEPT !.phase = phase, !.failed = failed] \in Reset
  BY <1>2 DEF Reset
<1>5. /\ reset' \in [Begun -> Reset]
      /\ \A i \in Begun : i # r => reset'[i] = reset[i]
      /\ reset'[r] = [reset[r] EXCEPT !.phase = phase, !.failed = failed]
  BY <1>3, <1>4 DEF TypeOK
<1>6. /\ reset'[r].tab = reset[r].tab /\ reset'[r].captured = reset[r].captured
      /\ reset'[r].broadcast = reset[r].broadcast
      /\ reset'[r].since = reset[r].since /\ reset'[r].phase = phase
  BY <1>2, <1>5 DEF Reset
<1>. QED BY <1>1, <1>5, <1>6

Tells == {"retiring", "cancelling", "refetching"}

LEMMA StepCounts ==
  ASSUME TypeOK, NEW r \in Begun, NEW phase \in Phases, NEW failed \in BOOLEAN,
         Step(r, phase, failed), started' = started,
         Active(r), phase \in Tells => reset[r].phase \in Tells,
         NEW u \in Tabs
  PROVE  /\ Own(u)' = Own(u)
         /\ Live(u)' = IF phase = "done" THEN Live(u) \ {r} ELSE Live(u)
         /\ Telling(u)' = IF phase \in Tells THEN Telling(u) ELSE Telling(u) \ {r}
<1>1. /\ Begun' = Begun
      /\ \A i \in Begun :
           /\ reset'[i].tab = reset[i].tab
           /\ reset'[i].broadcast = reset[i].broadcast
           /\ reset'[i].phase = IF i = r THEN phase ELSE reset[i].phase
  BY StepEffect
<1>2. Own(u)' = Own(u)
  BY <1>1 DEF Own
<1>3. Live(u)' = IF phase = "done" THEN Live(u) \ {r} ELSE Live(u)
  BY <1>1, <1>2 DEF Live, Own, Active
<1>4. Telling(u)' = IF phase \in Tells THEN Telling(u) ELSE Telling(u) \ {r}
  BY <1>1 DEF Telling, Tells
<1>. QED BY <1>2, <1>3, <1>4

LEMMA SameCounts ==
  ASSUME UNCHANGED <<started, reset>>, NEW u \in Tabs
  PROVE  Begun' = Begun /\ Own(u)' = Own(u) /\ Live(u)' = Live(u)
         /\ Telling(u)' = Telling(u)
BY DEF Begun, Own, Live, Telling, Active

-------------------------------------------------------------------------------
(* The inductive invariant.                                                *)

LEMMA InvInit == Init => ResetInv
<1> SUFFICES ASSUME Init PROVE ResetInv
  OBVIOUS
<1>1. Begun = {}
  BY DEF Init, Begun, NoReset
<1>2. TypeOK
  BY <1>1, SessionAssumption
     DEF Init, TypeOK, Sessions, NoSession, NoRequest, NoReset, Initial
<1>3. Marker /\ Commands
  <2>1. ASSUME NEW t \in Tabs PROVE Own(t) = {} /\ Live(t) = {} /\ Telling(t) = {}
    BY <1>1 DEF Own, Live, Telling
  <2>2. Cardinality({}) = 0
    BY FS_EmptySet
  <2>3. Marker
    BY <2>1, <2>2 DEF Init, Marker
  <2>4. Commands
    <3>1. Cardinality(owes) = 0 /\ session - 1 = 0
      BY <2>2 DEF Init
    <3>2. ASSUME NEW t \in Tabs
          PROVE  /\ channel[t] = 0
                 /\ Cardinality(Own(t)) = 0 /\ Cardinality(Telling(t)) = 0
      BY <2>1, <2>2 DEF Init
    <3>. QED BY <3>1, <3>2 DEF Commands
  <2>. QED BY <2>3, <2>4
<1>4. Ages /\ NoOldSnapshot /\ NoMissedBefore
  BY <1>1 DEF Init, Ages, NoOldSnapshot, NoMissedBefore, Initial
<1>. QED BY <1>2, <1>3, <1>4 DEF ResetInv

\* Steps of the application and of the registrations leave the resets alone.
LEMMA Outside ==
  ASSUME ResetInv, NEW t \in Tabs,
         \/ ChangeSession(t) \/ Fetch(t) \/ FetchEnds(t)
         \/ \E l \in Listeners : Install(t, l) \/ Cleanup(t, l)
  PROVE  ResetInv'
<1> USE DEF ResetInv
<1>0. UNCHANGED <<started, reset, activeResets, channel, floor>>
  BY DEF ChangeSession, Fetch, FetchEnds, Install, Cleanup, boundary
<1>1. /\ Begun' = Begun
      /\ \A u \in Tabs : Own(u)' = Own(u) /\ Live(u)' = Live(u) /\ Telling(u)' = Telling(u)
  <2>1. Begun' = Begun
    BY <1>0 DEF Begun
  <2>. QED BY <1>0, <2>1, SameCounts
<1>2. Marker'
  BY <1>0, <1>1 DEF Marker
<1>3. CASE ChangeSession(t)
  <2>1. /\ session' = session + 1 /\ session' \in Sessions
        /\ owes' = owes \cup {t}
        /\ UNCHANGED <<data, request, registered>>
    BY <1>3, SessionAssumption DEF ChangeSession, query, boundary, TypeOK, Sessions
  <2>2. TypeOK'
    BY <1>0, <1>1, <2>1 DEF TypeOK
  <2>3. Ages'
    BY <1>0, <1>1, <2>1 DEF Ages, TypeOK, Sessions, Reset
  <2>4. Commands'
    <3>1. IsFiniteSet(owes)
      BY SessionAssumption, FS_Subset DEF TypeOK
    <3>2. Cardinality(owes') <= Cardinality(owes) + 1 /\ Cardinality(owes) \in Nat
          /\ Cardinality(owes') \in Nat
      <4>1. Cardinality(owes) \in Nat
        BY <3>1, FS_CardinalityType
      <4>2. /\ IsFiniteSet(owes \cup {t})
            /\ Cardinality(owes \cup {t}) =
                 IF t \in owes THEN Cardinality(owes) ELSE Cardinality(owes) + 1
        BY <3>1, FS_AddElement
      <4>. QED BY <2>1, <4>1, <4>2
    <3>3. \A u \in Tabs : Cardinality(Own(u)) \in Nat /\ Cardinality(Telling(u)) \in Nat
      BY Finite DEF Own, Telling
    <3>. QED BY <1>0, <1>1, <2>1, <3>2, <3>3 DEF Commands, TypeOK, Sessions
  <2>5. NoOldSnapshot' /\ NoMissedBefore'
    BY <1>0, <1>1, <2>1 DEF NoOldSnapshot, NoMissedBefore, Active
  <2>. QED BY <1>2, <2>2, <2>3, <2>4, <2>5
<1>4. CASE Fetch(t) \/ FetchEnds(t)
  <2>1. UNCHANGED <<session, owes, registered>>
    BY <1>4 DEF Fetch, FetchEnds, boundary
  <2>2. Commands' /\ NoMissedBefore'
    BY <1>0, <1>1, <2>1 DEF Commands, NoMissedBefore, Active
  <2>3. CASE Fetch(t)
    <3>1. TypeOK'
      BY <1>0, <1>1, <2>1, <2>3 DEF Fetch, TypeOK, NoReset
    <3>2. Ages' /\ NoOldSnapshot'
      BY <1>0, <1>1, <2>1, <2>3 DEF Fetch, Ages, NoOldSnapshot, TypeOK, Sessions
    <3>. QED BY <1>2, <2>2, <3>1, <3>2
  <2>4. CASE FetchEnds(t)
    <3>1. TypeOK'
      BY <1>0, <1>1, <2>1, <2>4 DEF FetchEnds, TypeOK, NoRequest, NoReset, NoSession
    <3>2. Ages' /\ NoOldSnapshot'
      BY <1>0, <1>1, <2>1, <2>4 DEF FetchEnds, Ages, NoOldSnapshot, TypeOK, Sessions
    <3>. QED BY <1>2, <2>2, <3>1, <3>2
  <2>. QED BY <1>4, <2>3, <2>4
<1>5. ASSUME NEW l \in Listeners, Install(t, l) \/ Cleanup(t, l)
      PROVE  ResetInv'
  <2>1. UNCHANGED <<session, owes, data, request>>
    BY <1>5 DEF Install, Cleanup, query
  <2>2. registered' \in [Tabs -> SUBSET Listeners]
    BY <1>5 DEF Install, Cleanup, TypeOK
  <2>3. TypeOK'
    BY <1>0, <1>1, <2>1, <2>2 DEF TypeOK
  <2>4. Ages' /\ Commands' /\ NoOldSnapshot'
    BY <1>0, <1>1, <2>1 DEF Ages, Commands, NoOldSnapshot
  <2>5. NoMissedBefore'
    <3>1. CASE Cleanup(t, l)
      BY <1>0, <1>1, <3>1 DEF Cleanup, NoMissedBefore, Active, TypeOK
    <3>2. CASE Install(t, l)
      <4>1. Live(t) = {}
        <5>1. IsFiniteSet(Live(t)) /\ Cardinality(Live(t)) = 0
          BY <3>2, Finite DEF Install, MayInstall, Marker, Live, Own
        <5>. QED BY <5>1, FS_EmptySet
      <4>2. \A r \in Begun : reset[r].tab = t => ~Active(r)
        BY <4>1 DEF Live, Own
      <4>. QED BY <1>0, <1>1, <3>2, <4>2 DEF Install, NoMissedBefore, Active, TypeOK
    <3>. QED BY <1>5, <3>1, <3>2
  <2>. QED BY <1>2, <2>3, <2>4, <2>5
<1>. QED BY <1>3, <1>4, <1>5

\* A reset begins: it is counted at once and captures every registration.
LEMMA Begins ==
  ASSUME ResetInv, NEW t \in Tabs, LocalReset(t) \/ RemoteReset(t)
  PROVE  ResetInv'
<1> USE DEF ResetInv
<1>0. PICK b \in BOOLEAN :
        /\ Begin(t, b)
        /\ \/ t \in owes /\ owes' = owes \ {t} /\ channel' = channel
           \/ /\ ~b /\ owes' = owes
              /\ channel[t] > 0 /\ channel' = [channel EXCEPT ![t] = @ - 1]
  BY DEF LocalReset, RemoteReset, RemoteBroadcasts
<1>. DEFINE r == started + 1
<1>1. /\ started' = r /\ r \notin Begun /\ Begun' = Begun \cup {r}
      /\ reset' \in [Begun' -> Reset]
      /\ \A i \in Begun : reset'[i] = reset[i]
      /\ reset'[r].tab = t /\ reset'[r].captured = registered[t]
      /\ reset'[r].since = session
  BY <1>0, BeginEffect
<1>2. /\ activeResets' = [activeResets EXCEPT ![t] = @ + 1]
      /\ UNCHANGED <<session, data, registered, floor>>
      /\ request' \in {request, [request EXCEPT ![t] = NoRequest]}
  BY <1>0 DEF Begin, Cancelled
<1>. HIDE DEF r
<1>3. \A u \in Tabs :
         /\ Cardinality(Own(u)') = Cardinality(Own(u)) + (IF u = t THEN 1 ELSE 0)
         /\ Cardinality(Live(u)') = Cardinality(Live(u)) + (IF u = t THEN 1 ELSE 0)
         /\ Cardinality(Telling(u)') =
              Cardinality(Telling(u)) + (IF b /\ u # t THEN 1 ELSE 0)
  BY <1>0, BeginCounts
<1>4. \A u \in Tabs : /\ Cardinality(Own(u)) \in Nat /\ Cardinality(Telling(u)) \in Nat
                      /\ Cardinality(Live(u)) \in Nat
  BY Finite DEF Own, Telling, Live
<1>5. Commands' /\ Cardinality(owes') \in Nat
  <2>1. IsFiniteSet(owes) /\ Cardinality(owes) \in Nat
    BY SessionAssumption, FS_Subset, FS_CardinalityType DEF TypeOK
  <2>2. CASE t \in owes /\ owes' = owes \ {t} /\ channel' = channel
    <3>1. Cardinality(owes') = Cardinality(owes) - 1 /\ Cardinality(owes') \in Nat
      BY <2>1, <2>2, FS_RemoveElement, FS_CardinalityType
    <3>2. ASSUME NEW u \in Tabs
          PROVE  channel'[u] + Cardinality(Own(u)') + Cardinality(Telling(u)')
                   + Cardinality(owes') <= session' - 1
      <4>1. Cardinality(Own(u)') + Cardinality(Telling(u)')
              <= Cardinality(Own(u)) + Cardinality(Telling(u)) + 1
        BY <1>3, <1>4
      <4>2. Cardinality(Own(u)') \in Nat /\ Cardinality(Telling(u)') \in Nat
        BY <1>3, <1>4
      <4>3. channel[u] \in Nat /\ session \in Nat
        BY DEF TypeOK, Sessions
      <4>. QED BY <1>2, <1>4, <2>1, <2>2, <3>1, <4>1, <4>2, <4>3 DEF Commands
    <3>. QED BY <3>1, <3>2 DEF Commands
  <2>3. CASE /\ ~b /\ owes' = owes
             /\ channel[t] > 0 /\ channel' = [channel EXCEPT ![t] = @ - 1]
    <3>1. ASSUME NEW u \in Tabs
          PROVE  channel'[u] + Cardinality(Own(u)') + Cardinality(Telling(u)')
                   + Cardinality(owes') <= session' - 1
      <4>1. channel'[u] = channel[u] - (IF u = t THEN 1 ELSE 0)
            /\ channel[u] \in Nat /\ session \in Nat
        BY <2>3 DEF TypeOK, Sessions
      <4>2. /\ Cardinality(Own(u)') = Cardinality(Own(u)) + (IF u = t THEN 1 ELSE 0)
            /\ Cardinality(Telling(u)') = Cardinality(Telling(u))
        BY <1>3, <1>4, <2>3
      <4>. QED BY <1>2, <1>4, <2>1, <2>3, <4>1, <4>2 DEF Commands
    <3>. QED BY <2>1, <2>3, <3>1 DEF Commands
  <2>. QED BY <1>0, <2>2, <2>3
<1>6. TypeOK'
  <2>1. channel' \in [Tabs -> 0 .. MaxSessions] /\ owes' \in SUBSET Tabs
    BY <1>0, SessionAssumption DEF TypeOK
  <2>2. activeResets' \in [Tabs -> Nat]
    BY <1>2 DEF TypeOK
  <2>3. started' \in Nat /\ 0 .. started \subseteq 0 .. started'
    BY <1>1 DEF TypeOK, r
  <2>4. request' \in [Tabs -> [session : Sessions \cup {NoSession}, by : 0 .. started']]
    <3>. DEFINE Requests == [session : Sessions \cup {NoSession}, by : 0 .. started']
    <3>1. \A q \in [session : Sessions \cup {NoSession}, by : 0 .. started] : q \in Requests
      BY <2>3
    <3>2. NoRequest \in Requests
      BY <2>3 DEF NoRequest, NoReset, NoSession
    <3>3. request \in [Tabs -> Requests]
      BY <3>1 DEF TypeOK
    <3>. QED BY <1>2, <3>2, <3>3
  <2>. QED BY <1>1, <1>2, <2>1, <2>2, <2>3, <2>4 DEF TypeOK
<1>7. Marker'
  BY <1>2, <1>3 DEF Marker, TypeOK
<1>8. Ages'
  <2>1. \A u \in Tabs : request'[u] \in {request[u], NoRequest}
    BY <1>2 DEF TypeOK
  <2>2. ASSUME NEW i \in Begun' PROVE reset'[i].since <= session'
    BY <1>1, <1>2 DEF Ages, TypeOK, Sessions
  <2>. QED BY <1>2, <2>1, <2>2 DEF Ages
<1>9. NoOldSnapshot' /\ NoMissedBefore'
  <2>1. NoOldSnapshot'
    BY <1>2 DEF NoOldSnapshot
  <2>2. NoMissedBefore'
    BY <1>1, <1>2 DEF NoMissedBefore, Active
  <2>. QED BY <2>1, <2>2
<1>. QED BY <1>5, <1>6, <1>7, <1>8, <1>9

\* A reset goes on: before its end it stays counted, at its end it is taken out.
LEMMA Continues ==
  ASSUME ResetInv, NEW r \in Begun,
         Retired(r) \/ Clear(r) \/ Refetched(r) \/ Complete(r)
  PROVE  ResetInv'
<1> USE DEF ResetInv
<1>. DEFINE t == reset[r].tab
<1>0. PICK phase \in Phases, failed \in BOOLEAN :
        /\ Step(r, phase, failed)
        /\ Active(r) /\ (phase \in Tells => reset[r].phase \in Tells)
        /\ (phase = "done" <=> Complete(r))
        /\ Refetched(r) => phase = "completing"
  <2>1. reset[r].failed \in BOOLEAN
    BY DEF TypeOK, Reset
  <2>2. CASE Retired(r)
    BY <2>2 DEF Retired, Complete, Refetched, Phases, Active, Tells
  <2>3. CASE Clear(r)
    BY <2>1, <2>3 DEF Clear, Complete, Refetched, Phases, Active, Tells
  <2>4. CASE Refetched(r)
    BY <2>4 DEF Refetched, Complete, Phases, Active, Tells
  <2>5. CASE Complete(r)
    BY <2>1, <2>5 DEF Refetched, Complete, Phases, Active, Tells
  <2>. QED BY <2>2, <2>3, <2>4, <2>5
<1>1. /\ UNCHANGED <<session, owes, registered, started>>
      /\ t \in Tabs
  BY DEF Retired, Clear, Refetched, Complete, query, TypeOK, Reset
<1>2. /\ Begun' = Begun /\ reset' \in [Begun -> Reset]
      /\ \A i \in Begun :
           /\ reset'[i].tab = reset[i].tab
           /\ reset'[i].captured = reset[i].captured
           /\ reset'[i].broadcast = reset[i].broadcast
           /\ reset'[i].since = reset[i].since
           /\ reset'[i].phase = IF i = r THEN phase ELSE reset[i].phase
  BY <1>0, <1>1, StepEffect
<1>3. \A u \in Tabs :
        /\ Own(u)' = Own(u)
        /\ Live(u)' = IF phase = "done" THEN Live(u) \ {r} ELSE Live(u)
        /\ Telling(u)' = IF phase \in Tells THEN Telling(u) ELSE Telling(u) \ {r}
  BY <1>0, <1>1, StepCounts
<1>4. \A u \in Tabs : /\ IsFiniteSet(Own(u)) /\ IsFiniteSet(Live(u)) /\ IsFiniteSet(Telling(u))
                      /\ Cardinality(Own(u)) \in Nat /\ Cardinality(Telling(u)) \in Nat
                      /\ Cardinality(Live(u)) \in Nat
  BY Finite DEF Own, Telling, Live
<1>5. /\ data' \in {data, [data EXCEPT ![t] = NoSession]}
      /\ ~Clear(r) => UNCHANGED <<data, floor>>
      /\ Clear(r) =>
           /\ data' = [data EXCEPT ![t] = NoSession]
           /\ floor' = [floor EXCEPT ![t] = IF reset[r].since > @ THEN reset[r].since ELSE @]
           /\ \/ request' = [request EXCEPT ![t] = NoRequest]
              \/ request' = [request EXCEPT ![t] = [session |-> session, by |-> r]]
      /\ ~Clear(r) => request' \in {request, [request EXCEPT ![t] = NoRequest]}
  BY DEF Retired, Clear, Refetched, Complete, query, ClearedData, Cancelled
<1>6. Marker' /\ activeResets' \in [Tabs -> Nat]
  <2>1. CASE Complete(r)
    <3>1. activeResets' = [activeResets EXCEPT ![t] = @ - 1]
      BY <2>1 DEF Complete, Released
    <3>2. r \in Live(t) /\ \A u \in Tabs : u # t => r \notin Live(u)
      BY <1>0 DEF Live, Own
    <3>3. Cardinality(Live(t) \ {r}) = Cardinality(Live(t)) - 1
      BY <1>1, <1>4, <3>2, FS_RemoveElement
    <3>4. Cardinality(Live(t) \ {r}) \in Nat
      BY <1>1, <1>4, FS_RemoveElement, FS_CardinalityType
    <3>5. \A u \in Tabs : u # t => Live(u)' = Live(u)
      BY <1>3, <3>2
    <3>6. \A u \in Tabs : u = t => Live(u)' = Live(t) \ {r}
      BY <1>0, <1>3, <2>1
    <3>7. \A u \in Tabs :
            /\ activeResets'[u] = Cardinality(Live(u)')
            /\ activeResets'[u] \in Nat
      <4>1. ASSUME NEW u \in Tabs, u = t PROVE activeResets'[u] = Cardinality(Live(u)')
        BY <3>1, <3>3, <3>6, <4>1 DEF Marker, TypeOK
      <4>2. ASSUME NEW u \in Tabs, u # t PROVE activeResets'[u] = Cardinality(Live(u)')
        BY <3>1, <3>5, <4>2 DEF Marker, TypeOK
      <4>3. \A u \in Tabs : Cardinality(Live(u)') \in Nat
        BY <1>4, <3>4, <3>5, <3>6
      <4>. QED BY <4>1, <4>2, <4>3
    <3>. QED BY <3>1, <3>7 DEF Marker, TypeOK
  <2>2. CASE ~Complete(r)
    BY <1>0, <1>3, <2>2 DEF Retired, Clear, Refetched, Marker, TypeOK
  <2>. QED BY <2>1, <2>2
<1>7. Commands'
  <2>1. ASSUME NEW u \in Tabs
        PROVE  channel'[u] + Cardinality(Telling(u)') <= channel[u] + Cardinality(Telling(u))
               /\ channel'[u] \in Nat /\ channel[u] \in Nat
               /\ Cardinality(Telling(u)') \in Nat
    <3>0. channel[u] \in Nat
      BY DEF TypeOK
    <3>1. /\ Cardinality(Telling(u) \ {r}) =
               IF r \in Telling(u) THEN Cardinality(Telling(u)) - 1
                                   ELSE Cardinality(Telling(u))
          /\ Cardinality(Telling(u) \ {r}) \in Nat
      BY <1>4, FS_RemoveElement, FS_CardinalityType
    <3>2. CASE Refetched(r)
      <4>1. phase \notin Tells
        BY <1>0, <3>2 DEF Tells
      <4>2. Cardinality(Telling(u)') = Cardinality(Telling(u) \ {r})
        BY <1>3, <4>1
      <4>3. channel'[u] = IF u \in Told(r) THEN channel[u] + 1 ELSE channel[u]
        BY <3>2 DEF Refetched
      <4>4. u \in Told(r) => r \in Telling(u)
        BY <3>2 DEF Told, Telling, Refetched
      <4>. QED BY <1>4, <3>0, <3>1, <4>2, <4>3, <4>4
    <3>3. CASE ~Refetched(r)
      <4>1. channel' = channel
        BY <3>3 DEF Retired, Clear, Complete
      <4>2. CASE phase \in Tells
        BY <1>3, <1>4, <3>0, <4>1, <4>2
      <4>3. CASE phase \notin Tells
        <5>1. Cardinality(Telling(u)') = Cardinality(Telling(u) \ {r})
          BY <1>3, <4>3
        <5>. QED BY <1>4, <3>0, <3>1, <4>1, <5>1
      <4>. QED BY <4>2, <4>3
    <3>. QED BY <3>2, <3>3
  <2>2. IsFiniteSet(owes) /\ Cardinality(owes) \in Nat
    BY SessionAssumption, FS_Subset, FS_CardinalityType DEF TypeOK
  <2>. QED BY <1>1, <1>3, <1>4, <2>1, <2>2 DEF Commands, TypeOK, Sessions
<1>8. channel' \in [Tabs -> 0 .. MaxSessions]
  <2>1. channel' \in [Tabs -> Nat]
    <3>1. CASE Refetched(r)
      BY <3>1 DEF Refetched, TypeOK
    <3>2. CASE ~Refetched(r)
      BY <3>2 DEF Retired, Clear, Complete, TypeOK
    <3>. QED BY <3>1, <3>2
  <2>2. ASSUME NEW u \in Tabs PROVE channel'[u] <= MaxSessions
    <3>1. /\ Cardinality(Own(u)) \in Nat /\ Cardinality(Telling(u)') \in Nat
          /\ Cardinality(owes) \in Nat
      <4>1. Cardinality(owes) \in Nat
        BY SessionAssumption, FS_Subset, FS_CardinalityType DEF TypeOK
      <4>2. Cardinality(Telling(u)') \in Nat
        BY <1>3, <1>4, FS_RemoveElement, FS_CardinalityType
      <4>. QED BY <1>4, <4>1, <4>2
    <3>2. channel'[u] + Cardinality(Own(u)) + Cardinality(Telling(u)')
            + Cardinality(owes) <= session - 1
      BY <1>1, <1>3, <1>7 DEF Commands
    <3>. QED BY <2>1, <3>1, <3>2, SessionAssumption DEF TypeOK, Sessions
  <2>. QED BY <2>1, <2>2, SessionAssumption
<1>9. TypeOK'
  <2>1. reset[r].since \in Sessions /\ r \in 0 .. started
    BY <1>1 DEF TypeOK, Reset, Begun
  <2>2. data' \in [Tabs -> Sessions \cup {NoSession}]
    BY <1>5 DEF TypeOK
  <2>3. request' \in [Tabs -> [session : Sessions \cup {NoSession}, by : 0 .. started]]
    BY <1>5, <2>1 DEF TypeOK, NoRequest, NoReset, NoSession
  <2>4. floor' \in [Tabs -> Sessions]
    BY <1>5, <2>1 DEF TypeOK
  <2>. QED BY <1>1, <1>2, <1>6, <1>8, <2>2, <2>3, <2>4 DEF TypeOK
<1>10. Ages'
  <2>1. \A i \in Begun' : reset'[i].since <= session'
    BY <1>1, <1>2 DEF Ages
  <2>2. ASSUME NEW u \in Tabs
        PROVE  /\ floor'[u] <= session
               /\ request'[u] # NoRequest => request'[u].session \in floor'[u] .. session
    <3>0. floor[u] \in Nat /\ session \in Nat /\ reset[r].since \in Nat
          /\ reset[r].since <= session
      BY DEF TypeOK, Sessions, Reset, Ages
    <3>1. CASE ~Clear(r)
      BY <1>5, <3>1 DEF Ages, TypeOK
    <3>2. CASE Clear(r) /\ u # t
      BY <1>5, <3>2 DEF Ages, TypeOK
    <3>3. CASE Clear(r) /\ u = t
      <4>1. floor'[u] \in {floor[u], reset[r].since}
        BY <1>5, <3>3 DEF TypeOK
      <4>2. floor'[u] <= session /\ floor'[u] \in Nat
        BY <3>0, <4>1 DEF Ages
      <4>3. request'[u] = NoRequest \/ request'[u].session = session
        BY <1>5, <3>3 DEF TypeOK
      <4>. QED BY <3>0, <4>2, <4>3
    <3>. QED BY <3>1, <3>2, <3>3
  <2>. QED BY <1>1, <2>1, <2>2 DEF Ages
<1>11. NoOldSnapshot'
  <2> SUFFICES ASSUME NEW u \in Tabs, data'[u] # NoSession PROVE data'[u] >= floor'[u]
    BY DEF NoOldSnapshot
  <2>1. CASE Clear(r)
    BY <1>1, <1>5, <2>1 DEF NoOldSnapshot, TypeOK
  <2>2. CASE ~Clear(r)
    BY <1>5, <2>2 DEF NoOldSnapshot
  <2>. QED BY <2>1, <2>2
<1>12. NoMissedBefore'
  BY <1>0, <1>1, <1>2 DEF NoMissedBefore, Active
<1>. QED BY <1>6, <1>7, <1>9, <1>10, <1>11, <1>12

LEMMA InvNext == ResetInv /\ [Next]_vars => ResetInv'
<1> SUFFICES ASSUME ResetInv, [Next]_vars PROVE ResetInv'
  OBVIOUS
<1>1. CASE Next
  BY <1>1, Outside, Begins, Continues DEF Next
<1>2. CASE UNCHANGED vars
  <2>1. \A u \in Tabs : /\ Own(u)' = Own(u) /\ Live(u)' = Live(u)
                        /\ Telling(u)' = Telling(u)
    BY <1>2, SameCounts DEF vars
  <2>2. Begun' = Begun
    BY <1>2 DEF vars, Begun
  <2>. QED
    BY <1>2, <2>1, <2>2
       DEF vars, ResetInv, TypeOK, Marker, Ages, Commands, NoOldSnapshot,
           NoMissedBefore, Active
<1>. QED BY <1>1, <1>2

LEMMA Invariant == SafeSpec => []ResetInv
BY InvInit, InvNext, PTL DEF SafeSpec

-------------------------------------------------------------------------------
\* The state has its types: in particular the marker never becomes negative.
THEOREM TypeCorrect == SafeSpec => []TypeOK
BY Invariant, PTL DEF ResetInv

\* Whatever answers late and however resets overlap, no data of a session before
\* the one a reset of the tab was called in comes back.
THEOREM NoOldSnapshotHolds == SafeSpec => []NoOldSnapshot
BY Invariant, PTL DEF ResetInv

\* Every registered listener took part in the beginning of every reset under way.
THEOREM NoMissedBeforeHolds == SafeSpec => []NoMissedBefore
BY Invariant, PTL DEF ResetInv

\* A tab runs at most one reset for every change of the session.
THEOREM NoEchoHolds == SafeSpec => []NoEcho
<1>1. ResetInv => NoEcho
  <2> SUFFICES ASSUME ResetInv, NEW t \in Tabs
               PROVE  channel[t] + Cardinality(Own(t)) <= session - 1
    BY DEF NoEcho, Own
  <2>1. IsFiniteSet(owes) /\ Cardinality(owes) \in Nat
    BY SessionAssumption, FS_Subset, FS_CardinalityType DEF ResetInv, TypeOK
  <2>2. Cardinality(Own(t)) \in Nat /\ Cardinality(Telling(t)) \in Nat
    BY Finite DEF ResetInv, Own, Telling
  <2>. QED BY <2>1, <2>2 DEF ResetInv, TypeOK, Commands, Sessions
<1>. QED BY <1>1, Invariant, PTL

\* Both together: beginSessionScopedQueryReset tells every listener, and a tab does
\* not repeat what it was told.
THEOREM ResetsAreExactHold == SafeSpec => []ResetsAreExact
BY NoMissedBeforeHolds, NoEchoHolds, PTL DEF ResetsAreExact
===============================================================================
