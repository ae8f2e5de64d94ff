----------------------- MODULE CoalescingTaskRunnerProofs -----------------------
(***************************************************************************)
(* Proofs about CoalescingTaskRunner for any set of callers, any number of *)
(* stops and with or without a poll.                                       *)
(***************************************************************************)
EXTENDS CoalescingTaskRunner, TLAPS

USE DEF admission, stops, wakes, polls, attempt

(* The inductive invariant.  SingleFlight is not inductive: that a start   *)
(* finds nothing under way rests on the drain that separates two           *)
(* generations (Lifecycle), and that a start which waited for a drain does *)
(* so too rests on the revision it carries (Tickets).                      *)
Lifecycle ==
  /\ active # NoGen => stopping = NoGen /\ active = created
  /\ stopping # NoGen => stopping = created
  /\ created <= stopRevision + 1
  /\ active = NoGen => created <= stopRevision
  /\ \A g \in Gens : Pending(g) => g = active \/ g = stopping
  /\ \A g \in broken : g <= created

Tickets ==
  /\ \A c \in Callers : call[c].rev <= stopRevision
  /\ \A c \in Callers : call[c].state = "ready" /\ call[c].rev = stopRevision
                          => stopping = NoGen

Debts ==
  /\ rerun \subseteq owed
  /\ \A g \in Gens : scheduled[g] # "none" => g \in owed
  /\ \A g \in owed : g = active /\ g \notin broken
       => scheduled[g] # "none" \/ (Pending(g) /\ g \in rerun)

Backoffs ==
  /\ \A g \in Gens : phase[g] \in {"queued", "running", "reporting"}
                      => scheduled[g] = "none" /\ g \notin broken
  /\ \A g \in backoff : /\ g = active /\ g \notin broken
                        /\ scheduled[g] = "retry"
                        /\ phase[g] \in {"rejected", "idle"}

RunnerInv ==
  /\ TypeOK /\ Lifecycle /\ Tickets /\ LaterStopWins
  /\ TimersHaveOwner /\ Debts /\ Backoffs

-------------------------------------------------------------------------------
(* The invariant holds initially.                                          *)

LEMMA RunnerInvInit == Init => RunnerInv
<1>. USE RunnerAssumption
<1>1. Init => TypeOK
  BY DEF Init, TypeOK, Gens, NoGen, Phases, Kinds, Causes, Waiting, Settled
<1>2. Init => Lifecycle /\ Tickets /\ LaterStopWins /\ TimersHaveOwner /\ Debts /\ Backoffs
  BY DEF Init, Lifecycle, Tickets, LaterStopWins, TimersHaveOwner, Debts,
     Backoffs,
         Backoffs, Pending, Gens, NoGen
<1>. QED BY <1>1, <1>2 DEF RunnerInv

-------------------------------------------------------------------------------
(* Each step preserves the type invariant.                                 *)

CallType == [state : Waiting \cup Settled,
             gen : Gens \cup {NoGen}, rev : 0 .. MaxStops]

LEMMA Names ==
  /\ NoGen \notin Gens
  /\ {"idle", "queued", "running", "reporting", "resolved", "rejected"} \subseteq Phases
  /\ {"none", "retry", "tail"} \subseteq Kinds
  /\ {"start", "wake", "poll", "timer", "late"} \subseteq Causes
  BY DEF Gens, NoGen, Phases, Kinds, Causes

\* Every promise the runner hands out or settles is a well-formed call.
LEMMA Promises ==
  ASSUME NEW s \in Waiting \cup Settled, NEW g \in Gens \cup {NoGen},
         NEW r \in 0 .. MaxStops
  PROVE  Promise(s, g, r) \in CallType
  BY DEF Promise, CallType

LEMMA CallNames ==
  /\ {"none", "fulfilled", "taskError", "reporterError", "cancelled",
      "deferred", "ready", "attached"} \subseteq Waiting \cup Settled
  /\ 0 \in 0 .. MaxStops
  BY RunnerAssumption DEF Waiting, Settled

LEMMA CallUpdate ==
  ASSUME call \in [Callers -> CallType], NEW c \in Callers
  PROVE  /\ \A s \in Waiting \cup Settled :
              Answer(c, s) => call' \in [Callers -> CallType]
         /\ \A g \in Gens : Attach(c, g) => call' \in [Callers -> CallType]
         /\ \A r \in 0 .. MaxStops :
              call' = [call EXCEPT ![c] = Promise("deferred", NoGen, r)]
                => call' \in [Callers -> CallType]
  BY Promises, CallNames DEF Answer, Attach

LEMMA TypeStep == ASSUME RunnerInv, [Next]_vars PROVE TypeOK'
<1>0. TypeOK /\ call \in [Callers -> CallType] BY DEF RunnerInv, TypeOK,
     CallType
<1>a. (call' \in [Callers -> CallType])
        = (call' \in [Callers -> [state : Waiting \cup Settled,
                           gen : Gens \cup {NoGen}, rev : 0 .. MaxStops]])
  BY DEF CallType
<1>. USE Names, <1>0, <1>a DEF TypeOK
<1>1. ASSUME NEW c \in Callers, NEW r \in 0 .. MaxStops, StartGeneration(c, r),
             UNCHANGED <<stopping, stopRevision, scheduled, broken, lateTimeouts,
                 lateIntervals>>
      PROVE  TypeOK'
  <2>1. CASE ~StillWanted(r)
    BY <1>1, <2>1, CallUpdate, CallNames DEF StartGeneration
  <2>2. CASE StillWanted(r) /\ IsStarted
    BY <1>1, <2>2, CallUpdate, CallNames DEF StartGeneration, IsStarted
  <2>3. CASE StillWanted(r) /\ ~IsStarted
    <3>1. created + 1 \in Gens
      BY <2>3, RunnerAssumption DEF RunnerInv, Lifecycle, IsStarted, Gens, NoGen
    <3>. QED BY <1>1, <2>3, <3>1, CallUpdate DEF StartGeneration, BeginAttempt,
         ClaimRerun
  <2>. QED BY <2>1, <2>2, <2>3
<1>2. ASSUME NEW c \in Callers, Start(c) PROVE TypeOK'
  BY <1>1, <1>2, CallUpdate DEF Start
<1>3. ASSUME NEW c \in Callers, StartDeferred(c) PROVE TypeOK'
  <2>1. call[c].rev \in 0 .. MaxStops BY DEF CallType
  <2>. QED BY <1>1, <1>3, <2>1 DEF StartDeferred
<1>4. ASSUME NEW c \in Callers, Wake(c) PROVE TypeOK'
  BY <1>4, CallUpdate, CallNames DEF Wake, Coalesce, BeginAttempt, ClaimRerun,
     SetRerun, ClearScheduledWake
<1>5. CASE Stop
  BY <1>5, RunnerAssumption DEF Stop, ClearTimers, ClearScheduledWake
<1>6. CASE DrainCompletes
  <2>1. call' \in [Callers -> CallType]
    BY <1>6, Promises, CallNames DEF DrainCompletes, CallType
  <2>. QED BY <1>6, <2>1 DEF DrainCompletes
<1>7. ASSUME NEW g \in Gens, RunMicrotask(g) PROVE TypeOK'
  BY <1>7 DEF RunMicrotask, RevokedPhase
<1>8. ASSUME NEW g \in Gens, RunSettles(g) PROVE TypeOK'
  BY <1>8 DEF RunSettles
<1>9. ASSUME NEW g \in Gens, ReporterSucceeds(g) PROVE TypeOK'
  BY <1>9 DEF ReporterSucceeds, Schedule
<1>10. ASSUME NEW g \in Gens, ReporterFails(g) PROVE TypeOK'
  BY <1>10 DEF ReporterFails, ClearTimers, ClearScheduledWake
<1>11. ASSUME NEW g \in Gens, Finish(g) PROVE TypeOK'
  <2>1. call' \in [Callers -> CallType]
    BY <1>11, Promises, CallNames DEF Finish
  <2>. QED BY <1>11, <2>1 DEF Finish, Schedule
<1>12. ASSUME NEW g \in Gens, TimeoutFires(g) PROVE TypeOK'
  BY <1>12 DEF TimeoutFires, BackgroundWake, Coalesce, BeginAttempt, ClaimRerun,
     SetRerun
<1>13. ASSUME NEW g \in Gens, LateTimeout(g) PROVE TypeOK'
  BY <1>13 DEF LateTimeout, IsScheduledTimer
<1>14. ASSUME NEW g \in Gens, PollFires(g) PROVE TypeOK'
  BY <1>14 DEF PollFires, BackgroundWake, Coalesce, BeginAttempt, ClaimRerun,
     SetRerun, ClearScheduledWake
<1>15. CASE UNCHANGED vars
  BY <1>15 DEF vars
<1>. QED
  BY <1>2, <1>3, <1>4, <1>5, <1>6, <1>7, <1>8, <1>9, <1>10, <1>11, <1>12,
     <1>13, <1>14, <1>15 DEF Next, Chain

-------------------------------------------------------------------------------
(* Each step preserves the rest of the invariant.                          *)

LEMMA StartGenerationStep ==
  ASSUME RunnerInv, TypeOK', NEW c \in Callers, NEW r \in 0 .. MaxStops,
         StartGeneration(c, r), r <= stopRevision,
         r = stopRevision => stopping = NoGen,
         UNCHANGED <<stopping, stopRevision, scheduled, broken, lateTimeouts,
                     lateIntervals>>
  PROVE  RunnerInv'
<1>1. CASE ~StillWanted(r)
  BY <1>1 DEF RunnerInv, StartGeneration, Lifecycle, Tickets, LaterStopWins,
     TimersHaveOwner, Debts, Backoffs, Pending, Answer, Promise, TypeOK
<1>2. CASE StillWanted(r) /\ IsStarted
  BY <1>2 DEF RunnerInv, StartGeneration, IsStarted, Lifecycle, Tickets,
     LaterStopWins, TimersHaveOwner, Debts, Backoffs, Pending, Answer, Attach,
     Promise, TypeOK
<1>3. CASE StillWanted(r) /\ ~IsStarted
  <2>. DEFINE g == created + 1
  <2>1. /\ g \in Gens /\ active = NoGen /\ stopping = NoGen /\ r = stopRevision
        /\ g <= stopRevision + 1 /\ g # NoGen
    BY <1>3, RunnerAssumption DEF RunnerInv, TypeOK, Lifecycle, IsStarted,
       StillWanted, Gens, NoGen
  <2>2. /\ created' = g /\ active' = g
        /\ polling' = (IF HasPoll THEN polling \cup {g} ELSE polling)
        /\ BeginAttempt(g, "start")
        /\ Attach(c, g)
        /\ requestedAt' = [requestedAt EXCEPT ![g] = r]
    BY <1>3 DEF StartGeneration
  <2>. USE <2>2 DEF BeginAttempt, ClaimRerun, Attach
  <2>3. Lifecycle'
    <3>1. \A h \in broken : h <= g
      BY <2>1 DEF RunnerInv, TypeOK, Lifecycle, Gens, NoGen
    <3>2. \A h \in Gens : Pending(h)' => h = g
      BY <2>1, Names DEF RunnerInv, TypeOK, Lifecycle, Pending
    <3>. QED BY <2>1, <3>1, <3>2 DEF Lifecycle
  <2>4. Tickets' BY <2>1, <2>2 DEF RunnerInv, TypeOK, Tickets, Promise
  <2>5. LaterStopWins' BY <2>1, <2>2 DEF RunnerInv, TypeOK, LaterStopWins
  <2>6. TimersHaveOwner'
    <3>1. g \notin broken BY DEF RunnerInv, Lifecycle, TypeOK, Gens, NoGen
    <3>. QED BY <2>1, <3>1, Names DEF RunnerInv, TypeOK, TimersHaveOwner
  <2>7. Debts'
    <3>1. \A h \in Gens : scheduled'[h] = "none"
      BY <2>1, Names DEF RunnerInv, TimersHaveOwner
    <3>2. rerun' \subseteq owed' /\ g \notin owed'
      BY DEF RunnerInv, Debts
    <3>. QED BY <2>1, <3>1, <3>2 DEF Debts
  <2>8. Backoffs'
    <3>1. backoff = {} /\ \A h \in Gens : scheduled[h] = "none"
      BY <2>1, Names DEF RunnerInv, TypeOK, Backoffs, TimersHaveOwner
    <3>2. g \notin broken BY DEF RunnerInv, Lifecycle, TypeOK, Gens, NoGen
    <3>. QED BY <2>1, <3>1, <3>2 DEF RunnerInv, TypeOK, Backoffs
  <2>. QED BY <2>3, <2>4, <2>5, <2>6, <2>7, <2>8 DEF RunnerInv
<1>. QED BY <1>1, <1>2, <1>3

LEMMA RunnerInvStep == ASSUME RunnerInv, [Next]_vars PROVE RunnerInv'
<1>0. TypeOK' /\ TypeOK BY TypeStep DEF RunnerInv
<1>. USE <1>0
<1>2. ASSUME NEW c \in Callers, Start(c) PROVE RunnerInv'
  <2>1. CASE MustDefer
    BY <1>2, <2>1 DEF Start, RunnerInv, Lifecycle, Tickets, LaterStopWins,
       TimersHaveOwner, Debts, Backoffs, Pending, Promise, TypeOK, MustDefer
  <2>2. CASE ~MustDefer
    BY <1>2, <2>2, StartGenerationStep DEF Start, MustDefer, TypeOK
  <2>. QED BY <2>1, <2>2
<1>3. ASSUME NEW c \in Callers, StartDeferred(c) PROVE RunnerInv'
  <2>1. call[c].rev \in 0 .. MaxStops /\ call[c].rev <= stopRevision
        /\ (call[c].rev = stopRevision => stopping = NoGen)
    BY <1>3 DEF StartDeferred, RunnerInv, TypeOK, Tickets
  <2>. QED BY <1>3, <2>1, StartGenerationStep DEF StartDeferred
<1>4. ASSUME NEW c \in Callers, Wake(c) PROVE RunnerInv'
  BY <1>4 DEF Wake, RunnerInv, Lifecycle, Tickets, LaterStopWins,
     TimersHaveOwner, Debts, Backoffs, Pending, Answer, Attach, Promise,
     Coalesce, BeginAttempt, ClaimRerun, SetRerun, ClearScheduledWake, TypeOK
<1>5. CASE Stop
  <2>1. CASE stopping = NoGen /\ active # NoGen
    <3>. USE <1>5, <2>1 DEF Stop, ClearTimers, ClearScheduledWake, RunnerInv, TypeOK
    <3>1. Lifecycle' BY DEF Lifecycle, Pending, Gens, NoGen
    <3>2. Tickets' /\ LaterStopWins' BY DEF Tickets, LaterStopWins
    <3>3. TimersHaveOwner' BY Names DEF TimersHaveOwner
    <3>4. Debts' BY Names DEF Debts, TimersHaveOwner
    <3>5. Backoffs' BY Names DEF Backoffs
    <3>. QED BY <3>1, <3>2, <3>3, <3>4, <3>5
  <2>2. CASE stopping # NoGen \/ active = NoGen
    <3>. USE <1>5, <2>2 DEF Stop, RunnerInv, TypeOK
    <3>1. Lifecycle' /\ Tickets' /\ LaterStopWins'
      BY DEF Lifecycle, Pending, Gens, NoGen, Tickets, LaterStopWins
    <3>2. TimersHaveOwner' /\ Debts' /\ Backoffs'
      BY DEF TimersHaveOwner, Debts, Backoffs, Pending
    <3>. QED BY <3>1, <3>2
  <2>. QED BY <1>5, <2>1, <2>2 DEF Stop
<1>6. CASE DrainCompletes
  BY <1>6 DEF DrainCompletes, Drained, RunnerInv, Lifecycle, Tickets,
     LaterStopWins, TimersHaveOwner, Debts, Backoffs, Pending, Promise, TypeOK
<1>7. ASSUME NEW g \in Gens, RunMicrotask(g) PROVE RunnerInv'
  BY <1>7 DEF RunMicrotask, RevokedPhase, RunnerInv, Lifecycle, Tickets,
     LaterStopWins, TimersHaveOwner, Debts, Backoffs, Pending, TypeOK
<1>8. ASSUME NEW g \in Gens, RunSettles(g) PROVE RunnerInv'
  BY <1>8 DEF RunSettles, RunnerInv, Lifecycle, Tickets, LaterStopWins,
     TimersHaveOwner, Debts, Backoffs, Pending, TypeOK
<1>9. ASSUME NEW g \in Gens, ReporterSucceeds(g) PROVE RunnerInv'
  BY <1>9 DEF ReporterSucceeds, Schedule, MaySchedule, RunnerInv, Lifecycle,
     Tickets, LaterStopWins, TimersHaveOwner, Debts, Backoffs, Pending, TypeOK
<1>10. ASSUME NEW g \in Gens, ReporterFails(g) PROVE RunnerInv'
  <2>. USE <1>10 DEF ReporterFails, ClearTimers, ClearScheduledWake, RunnerInv, TypeOK
  <2>1. Lifecycle' BY DEF Lifecycle, Pending, Gens, NoGen
  <2>2. Tickets' /\ LaterStopWins' BY DEF Tickets, LaterStopWins
  <2>3. TimersHaveOwner' BY DEF TimersHaveOwner
  <2>4. Debts' BY DEF Debts, Pending
  <2>5. Backoffs' BY DEF Backoffs
  <2>. QED BY <2>1, <2>2, <2>3, <2>4, <2>5
<1>11. ASSUME NEW g \in Gens, Finish(g) PROVE RunnerInv'
  BY <1>11 DEF Finish, Schedule, MaySchedule, RunnerInv, Lifecycle, Tickets,
     LaterStopWins, TimersHaveOwner, Debts, Backoffs, Pending, Promise, TypeOK
<1>12. ASSUME NEW g \in Gens, TimeoutFires(g) PROVE RunnerInv'
  BY <1>12 DEF TimeoutFires, MicrotasksDrained, BackgroundWake, Coalesce,
     BeginAttempt, ClaimRerun, SetRerun, RunnerInv, Lifecycle, Tickets,
     LaterStopWins, TimersHaveOwner, Debts, Backoffs, Pending, TypeOK
<1>13. ASSUME NEW g \in Gens, LateTimeout(g) PROVE RunnerInv'
  BY <1>13 DEF LateTimeout, MicrotasksDrained, IsScheduledTimer, RunnerInv,
     Lifecycle, Tickets, LaterStopWins, TimersHaveOwner, Debts, Backoffs,
     Pending, TypeOK
<1>14. ASSUME NEW g \in Gens, PollFires(g) PROVE RunnerInv'
  BY <1>14 DEF PollFires, MicrotasksDrained, BackgroundWake, BackgroundMayWake,
     Coalesce, BeginAttempt, ClaimRerun, SetRerun, ClearScheduledWake,
     RunnerInv, Lifecycle, Tickets, LaterStopWins, TimersHaveOwner, Debts,
     Backoffs, Pending, TypeOK
<1>15. CASE UNCHANGED vars
  BY <1>15 DEF vars, RunnerInv, Lifecycle, Tickets, LaterStopWins,
     TimersHaveOwner, Debts, Backoffs, Pending
<1>. QED
  BY <1>2, <1>3, <1>4, <1>5, <1>6, <1>7, <1>8, <1>9, <1>10, <1>11, <1>12,
     <1>13, <1>14, <1>15 DEF Next, Chain

-------------------------------------------------------------------------------
(* The theorems.                                                           *)

LEMMA RunnerInvariant == SafeSpec => []RunnerInv
  BY RunnerInvInit, RunnerInvStep, PTL DEF SafeSpec

\* Every reachable state is well typed.
THEOREM TypeCorrect == SafeSpec => []TypeOK
<1>1. RunnerInv => TypeOK BY DEF RunnerInv
<1>. QED BY <1>1, RunnerInvariant, PTL

\* At most one attempt is under way, however many generations were started
\* and stopped: a start waits for the drain of the generation before it.
THEOREM SingleFlightHolds == SafeSpec => []SingleFlight
<1>1. RunnerInv => SingleFlight
  BY Names DEF RunnerInv, Lifecycle, SingleFlight
<1>. QED BY <1>1, RunnerInvariant, PTL

\* No timer outlives the generation that armed it or the failure of its
\* failure handler.
THEOREM TimersHaveOwnerHolds == SafeSpec => []TimersHaveOwner
<1>1. RunnerInv => TimersHaveOwner BY DEF RunnerInv
<1>. QED BY <1>1, RunnerInvariant, PTL

\* A coalesced signal or a failed pass always has a timer or a flag that
\* stands for it.
THEOREM NoLostSignalHolds == SafeSpec => []NoLostSignal
<1>1. RunnerInv => NoLostSignal BY DEF RunnerInv, Debts, NoLostSignal
<1>. QED BY <1>1, RunnerInvariant, PTL

\* A start never revives the runner after a stop that was called later.
THEOREM LaterStopWinsHolds == SafeSpec => []LaterStopWins
<1>1. RunnerInv => LaterStopWins BY DEF RunnerInv
<1>. QED BY <1>1, RunnerInvariant, PTL

-------------------------------------------------------------------------------
(* What a step may never do.                                               *)

\* What a step does to the promise chains.
LEMMA PhaseStep ==
  ASSUME RunnerInv, [Next]_vars
  PROVE  \/ phase' = phase
         \/ \E h \in Gens : RunMicrotask(h)
         \/ \E h \in Gens : RunSettles(h)
         \/ \E h \in Gens : phase[h] # "idle" /\ phase' = [phase EXCEPT ![h] = "rejected"]
         \/ \E h \in Gens : phase' = [phase EXCEPT ![h] = "idle"]
         \/ \E h \in Gens : BeginAttempt(h, cause') /\
              \/ cause' = "start" /\ h = created + 1
              \/ cause' = "wake"
              \/ cause' = "timer" /\ scheduled[h] # "none"
              \/ cause' = "poll" /\ scheduled[h] # "retry" /\ h = active /\ h \notin broken
<1>. USE DEF RunnerInv, TypeOK
<1>1. ASSUME NEW c \in Callers, NEW r \in 0 .. MaxStops, StartGeneration(c, r)
      PROVE  phase' = phase \/ (created + 1 \in Gens /\ BeginAttempt(created + 1, cause') /\ cause' = "start")
  BY <1>1, RunnerAssumption DEF StartGeneration, BeginAttempt, Lifecycle,
     IsStarted, Gens, NoGen
<1>2. ASSUME NEW c \in Callers, Start(c) \/ StartDeferred(c) PROVE phase' = phase \/ (created + 1 \in Gens /\ BeginAttempt(created + 1, cause') /\ cause' = "start")
  <2>1. call[c].rev \in 0 .. MaxStops OBVIOUS
  <2>. QED BY <1>1, <1>2, <2>1 DEF Start, StartDeferred
<1>3. ASSUME NEW c \in Callers, Wake(c)
      PROVE  phase' = phase \/ \E h \in Gens : BeginAttempt(h, cause') /\ cause' = "wake"
  BY <1>3 DEF Wake, Coalesce, BeginAttempt
<1>4. ASSUME NEW g \in Gens, TimeoutFires(g)
      PROVE  phase' = phase \/ (BeginAttempt(g, cause') /\ cause' = "timer" /\ scheduled[g] # "none")
  BY <1>4 DEF TimeoutFires, BackgroundWake, Coalesce, BeginAttempt
<1>5. ASSUME NEW g \in Gens, PollFires(g)
      PROVE  phase' = phase \/ (BeginAttempt(g, cause') /\ cause' = "poll" /\ scheduled[g] # "retry" /\ g = active /\ g \notin broken)
  BY <1>5 DEF PollFires, BackgroundMayWake, BackgroundWake, Coalesce,
     BeginAttempt
<1>6. ASSUME NEW g \in Gens, ReporterSucceeds(g) \/ ReporterFails(g)
      PROVE  phase[g] # "idle" /\ phase' = [phase EXCEPT ![g] = "rejected"]
  BY <1>6 DEF ReporterSucceeds, ReporterFails
<1>7. ASSUME NEW g \in Gens, Finish(g) PROVE phase' = [phase EXCEPT ![g] = "idle"]
  BY <1>7 DEF Finish
<1>8. ASSUME NEW g \in Gens, LateTimeout(g) PROVE phase' = phase
  BY <1>8 DEF LateTimeout, IsScheduledTimer
<1>9. CASE Stop \/ DrainCompletes \/ UNCHANGED vars
  BY <1>9 DEF Stop, DrainCompletes, vars
<1>. QED BY <1>2, <1>3, <1>4, <1>5, <1>6, <1>7, <1>8, <1>9 DEF Next, Chain

\* A run begins only in the active generation, and alone.
THEOREM RunBeginsAdmittedHolds == SafeSpec => RunBeginsAdmitted
<1>. DEFINE Admitted == \A g \in Gens : ~Busy(g) /\ Busy(g)'
                          => active = g /\ \A h \in Gens : ~Busy(h)
<1>1. ASSUME RunnerInv, [Next]_vars PROVE Admitted
  <2>. SUFFICES ASSUME NEW g \in Gens, ~Busy(g), Busy(g)'
                PROVE  active = g /\ \A h \in Gens : ~Busy(h)
    OBVIOUS
  <2>1. RunMicrotask(g)
    BY <1>1, PhaseStep DEF RunMicrotask, RunSettles, BeginAttempt, Busy,
       RunnerInv, TypeOK
  <2>2. active = g /\ phase[g] = "queued"
    BY <2>1 DEF RunMicrotask, MayRun, RevokedPhase, Busy, RunnerInv, TypeOK
  <2>. QED BY <1>1, <2>2, Names DEF RunnerInv, Lifecycle, Pending, Busy
<1>2. RunnerInv /\ [Next]_vars => [Admitted]_vars BY <1>1
<1>. QED BY <1>2, RunnerInvariant, PTL DEF SafeSpec, RunBeginsAdmitted

\* After a failure only the retry timer or an explicit wake begins the next
\* attempt: no poll, tail or late callback shortens the backoff.
THEOREM BackoffHonouredHolds == SafeSpec => BackoffHonoured
<1>. DEFINE Honoured == \A g \in backoff : ~Pending(g) /\ Pending(g)'
                 => \/ cause' = "wake"
                    \/ cause' = "timer" /\ scheduled[g] = "retry"
<1>1. ASSUME RunnerInv, [Next]_vars PROVE Honoured
  <2>. SUFFICES ASSUME NEW g \in backoff, ~Pending(g), Pending(g)'
                PROVE  \/ cause' = "wake"
                       \/ cause' = "timer" /\ scheduled[g] = "retry"
    OBVIOUS
  <2>1. /\ g \in Gens /\ scheduled[g] = "retry" /\ g # created + 1
        /\ phase \in [Gens -> Phases]
    BY <1>1 DEF RunnerInv, TypeOK, Backoffs, Lifecycle, Gens, NoGen
  <2>. QED BY <1>1, <2>1, PhaseStep DEF BeginAttempt, RunMicrotask, RunSettles,
       Pending
<1>2. RunnerInv /\ [Next]_vars => [Honoured]_vars BY <1>1
<1>. QED BY <1>2, RunnerInvariant, PTL DEF SafeSpec, BackoffHonoured

\* A timer begins an attempt only for a signal or a failure that came after
\* the previous attempt began.
THEOREM OnePassPerBatchHolds == SafeSpec => OnePassPerBatch
<1>. DEFINE Paid == \A g \in Gens : ~Pending(g) /\ Pending(g)' /\ cause' = "timer"
                      => g \in owed
<1>1. ASSUME RunnerInv, [Next]_vars PROVE Paid
  <2>. SUFFICES ASSUME NEW g \in Gens, ~Pending(g), Pending(g)', cause' = "timer"
                PROVE  g \in owed
    OBVIOUS
  <2>. QED BY <1>1, PhaseStep DEF BeginAttempt, RunMicrotask, RunSettles,
       Pending, RunnerInv, TypeOK, Debts
<1>2. RunnerInv /\ [Next]_vars => [Paid]_vars BY <1>1
<1>. QED BY <1>2, RunnerInvariant, PTL DEF SafeSpec, OnePassPerBatch

\* The drain settles with nothing under way, and tells the starts that wait
\* for it about the failure of the failure handler.
THEOREM DrainIsCompleteHolds == SafeSpec => DrainIsComplete
<1>. DEFINE Complete == stopping # NoGen /\ stopping' # stopping
       => /\ \A g \in Gens : ~Pending(g)
          /\ \A c \in Callers : call[c].state = "deferred"
               => (call'[c].state = "ready" <=> stopping \notin broken)
<1>1. ASSUME RunnerInv, [Next]_vars PROVE Complete
  <2>. SUFFICES ASSUME stopping # NoGen, stopping' # stopping PROVE Complete
    OBVIOUS
  <2>1. DrainCompletes
    BY <1>1 DEF Next, Chain, Start, StartDeferred, Wake, Stop, RunMicrotask,
       RunSettles, ReporterSucceeds, ReporterFails, Finish, TimeoutFires,
       LateTimeout, PollFires, vars
  <2>2. \A g \in Gens : ~Pending(g)
    BY <1>1, <2>1, Names DEF DrainCompletes, Drained, Pending, RunnerInv,
       Lifecycle
  <2>3. ASSUME NEW c \in Callers, call[c].state = "deferred"
        PROVE  call'[c].state = "ready" <=> stopping \notin broken
    <3>1. CASE stopping \in broken
      BY <2>1, <2>3, <3>1 DEF DrainCompletes, Promise
    <3>2. CASE stopping \notin broken
      BY <1>1, <2>1, <2>3, <3>2 DEF DrainCompletes, RunnerInv, TypeOK
    <3>. QED BY <3>1, <3>2
  <2>. QED BY <2>2, <2>3
<1>2. RunnerInv /\ [Next]_vars => [Complete]_vars BY <1>1
<1>. QED BY <1>2, RunnerInvariant, PTL DEF SafeSpec, DrainIsComplete

-------------------------------------------------------------------------------
(* The runner implements the contract of a serial task.  The four state    *)
(* functions of the refinement mapping, named.                             *)

IsOpen == active # NoGen
IsExecuting == \E g \in Gens : Busy(g)
HasDebt ==
  \E g \in Gens : /\ g = active /\ g \notin broken
                  /\ g \in owed \/ phase[g] = "queued"
IsBroken == active # NoGen /\ active \in broken

\* What each contract action demands of them; Same is a stutter.
Same == /\ IsOpen' <=> IsOpen
        /\ IsExecuting' <=> IsExecuting
        /\ HasDebt' <=> HasDebt
        /\ IsBroken' <=> IsBroken
Opens == ~IsOpen /\ ~IsExecuting /\ IsOpen' /\ HasDebt' /\ ~IsBroken' /\ ~IsExecuting'
Signals == IsOpen /\ ~IsBroken /\ HasDebt' /\ IsOpen' /\ ~IsBroken' /\ (IsExecuting' <=> IsExecuting)
Begins == IsOpen /\ ~IsBroken /\ HasDebt /\ ~IsExecuting /\ IsExecuting' /\ IsOpen' /\ ~IsBroken'
Succeeds == /\ IsExecuting /\ ~IsExecuting'
            /\ (IsOpen' <=> IsOpen) /\ (HasDebt' <=> HasDebt) /\ (IsBroken' <=> IsBroken)
Fails == /\ IsExecuting /\ ~IsExecuting' /\ (HasDebt' <=> IsOpen)
         /\ (IsOpen' <=> IsOpen) /\ (IsBroken' <=> IsBroken)
Breaks == /\ IsExecuting /\ ~IsExecuting' /\ ~HasDebt' /\ (IsBroken' <=> IsOpen)
          /\ (IsOpen' <=> IsOpen)
Closes == IsOpen /\ ~IsOpen' /\ ~HasDebt' /\ ~IsBroken' /\ (IsExecuting' <=> IsExecuting)

LEMMA ContractStep ==
  ASSUME RunnerInv, RunnerInv', [Next]_vars
  PROVE  Same \/ Opens \/ Signals \/ Begins \/ Succeeds \/ Fails \/ Breaks \/ Closes
<1>. USE Names DEF RunnerInv, TypeOK, IsOpen, IsBroken
<1>1. ASSUME NEW c \in Callers, NEW r \in 0 .. MaxStops, StartGeneration(c, r),
             r = stopRevision => stopping = NoGen, UNCHANGED <<stopping, broken>>
      PROVE  Same \/ Opens
  <2>1. CASE active' = active /\ phase' = phase /\ owed' = owed
    BY <1>1, <2>1 DEF Same, IsExecuting, HasDebt, Busy
  <2>2. CASE active = NoGen /\ active' = created + 1 /\ r = stopRevision
             /\ phase' = [phase EXCEPT ![created + 1] = "queued"]
    <3>1. created + 1 \in Gens /\ active' \in Gens /\ created + 1 \notin broken
      BY <2>2 DEF Lifecycle, Gens, NoGen
    <3>2. \A h \in Gens : ~Busy(h)
      BY <1>1, <2>2 DEF Lifecycle, Pending, Busy
    <3>3. ~IsExecuting /\ ~IsExecuting'
      BY <2>2, <3>1, <3>2 DEF IsExecuting, Busy
    <3>4. HasDebt' BY <1>1, <2>2, <3>1 DEF HasDebt
    <3>. QED BY <1>1, <2>2, <3>1, <3>3, <3>4 DEF Opens
  <2>. QED BY <1>1, <2>1, <2>2 DEF StartGeneration, BeginAttempt, IsStarted,
       StillWanted
<1>2. ASSUME NEW g \in Gens, g = active, active' = active, broken' = broken, g \notin broken,
             \/ Pending(g) /\ Coalesce(g)
             \/ ~Pending(g) /\ BeginAttempt(g, cause')
      PROVE  Signals
  <2>1. HasDebt' BY <1>2 DEF HasDebt, Coalesce, BeginAttempt
  <2>2. \A h \in Gens : Busy(h)' <=> Busy(h)
    BY <1>2 DEF Busy, Pending, Coalesce, BeginAttempt
  <2>. QED BY <1>2, <2>1, <2>2 DEF Signals, IsExecuting
<1>3. ASSUME active' = active, phase' = phase, owed' = owed, broken' = broken PROVE Same
  BY <1>3 DEF Same, IsExecuting, HasDebt, Busy
<1>4. ASSUME NEW c \in Callers, Start(c) \/ StartDeferred(c) PROVE Same \/ Opens
  <2>1. CASE Start(c)
    BY <1>1, <1>3, <2>1 DEF Start, MustDefer
  <2>2. CASE StartDeferred(c)
    <3>1. call[c].rev \in 0 .. MaxStops /\ (call[c].rev = stopRevision => stopping = NoGen)
      BY <2>2 DEF StartDeferred, Tickets
    <3>. QED BY <1>1, <2>2, <3>1 DEF StartDeferred
  <2>. QED BY <1>4, <2>1, <2>2
<1>5. ASSUME NEW c \in Callers, Wake(c) PROVE Same \/ Signals
  <2>1. CASE active = NoGen \/ active \in broken
    BY <1>3, <1>5, <2>1 DEF Wake
  <2>2. CASE active \in Gens /\ active \notin broken
    BY <1>2, <1>5, <2>2 DEF Wake, BeginAttempt
  <2>. QED BY <2>1, <2>2
<1>6. CASE Stop
  <2>1. CASE stopping = NoGen /\ active # NoGen
    <3>1. active' = NoGen /\ phase' = phase BY <1>6, <2>1 DEF Stop
    <3>2. ~HasDebt' BY <3>1 DEF HasDebt
    <3>3. IsExecuting' <=> IsExecuting BY <3>1 DEF IsExecuting, Busy
    <3>. QED BY <2>1, <3>1, <3>2, <3>3 DEF Closes
  <2>2. CASE stopping # NoGen \/ active = NoGen
    BY <1>3, <1>6, <2>2 DEF Stop
  <2>. QED BY <2>1, <2>2
<1>7. ASSUME NEW g \in Gens, RunMicrotask(g) PROVE Same \/ Begins
  <2>1. \A h \in Gens : ~Busy(h)
    BY <1>7 DEF RunMicrotask, Lifecycle, Pending, Busy
  <2>2. CASE active = g
    <3>1. g \notin broken BY <1>7 DEF RunMicrotask, Backoffs
    <3>2. HasDebt BY <1>7, <2>2, <3>1 DEF RunMicrotask, HasDebt
    <3>3. IsExecuting' BY <1>7, <2>2 DEF RunMicrotask, MayRun, IsExecuting, Busy
    <3>. QED BY <1>7, <2>1, <2>2, <3>1, <3>2, <3>3 DEF RunMicrotask, Begins,
         IsExecuting
  <2>3. CASE active # g
    <3>1. /\ phase' = [phase EXCEPT ![g] = "resolved"]
          /\ UNCHANGED <<active, broken, owed>>
      BY <1>7, <2>3 DEF RunMicrotask, MayRun, RevokedPhase
    <3>2. ~IsExecuting /\ ~IsExecuting' BY <2>1, <3>1 DEF IsExecuting, Busy
    <3>3. HasDebt' <=> HasDebt BY <2>3, <3>1 DEF HasDebt
    <3>. QED BY <3>1, <3>2, <3>3 DEF Same
  <2>. QED BY <2>2, <2>3
<1>8. ASSUME NEW g \in Gens, phase[g] \in {"running", "reporting"},
             phase' = [phase EXCEPT ![g] = "resolved"] \/ phase' = [phase EXCEPT ![g] = "rejected"]
      PROVE  IsExecuting /\ ~IsExecuting'
  BY <1>8 DEF Lifecycle, Pending, IsExecuting, Busy
<1>9. ASSUME NEW g \in Gens, RunSettles(g) PROVE Same \/ Succeeds
  <2>1. CASE phase' = [phase EXCEPT ![g] = "resolved"]
    BY <1>8, <1>9, <2>1 DEF RunSettles, Succeeds, HasDebt
  <2>2. CASE phase' = [phase EXCEPT ![g] = "reporting"]
    BY <1>9, <2>2 DEF RunSettles, Same, HasDebt, IsExecuting, Busy
  <2>. QED BY <1>9, <2>1, <2>2 DEF RunSettles
<1>10. ASSUME NEW g \in Gens, ReporterSucceeds(g) PROVE Fails
  <2>1. HasDebt' <=> IsOpen
    BY <1>10 DEF ReporterSucceeds, HasDebt, Backoffs, Lifecycle, Pending
  <2>. QED BY <1>8, <1>10, <2>1 DEF ReporterSucceeds, Fails
<1>11. ASSUME NEW g \in Gens, ReporterFails(g) PROVE Breaks
  <2>1. active = g \/ active = NoGen
    BY <1>11 DEF ReporterFails, Lifecycle, Pending
  <2>2. /\ active' = active /\ broken' = broken \cup {g}
        /\ IsExecuting /\ ~IsExecuting'
    BY <1>8, <1>11 DEF ReporterFails
  <2>3. ~HasDebt' BY <2>1, <2>2 DEF HasDebt
  <2>. QED BY <2>1, <2>2, <2>3 DEF Breaks
<1>12. ASSUME NEW g \in Gens, Finish(g) PROVE Same
  BY <1>12 DEF Finish, Same, HasDebt, IsExecuting, Busy
<1>13. ASSUME NEW g \in Gens, TimeoutFires(g) PROVE Signals
  <2>1. g \notin broken BY <1>13 DEF TimeoutFires, TimersHaveOwner
  <2>. QED BY <1>2, <1>13, <2>1 DEF TimeoutFires, BackgroundWake, BeginAttempt
<1>14. ASSUME NEW g \in Gens, LateTimeout(g) PROVE Same
  BY <1>3, <1>14 DEF LateTimeout, IsScheduledTimer
<1>15. ASSUME NEW g \in Gens, PollFires(g) PROVE Same \/ Signals
  BY <1>2, <1>3, <1>15 DEF PollFires, BackgroundMayWake, BackgroundWake,
     BeginAttempt
<1>16. CASE DrainCompletes \/ UNCHANGED vars
  BY <1>3, <1>16 DEF DrainCompletes, vars
<1>. QED
  BY <1>4, <1>5, <1>6, <1>7, <1>9, <1>10, <1>11, <1>12, <1>13, <1>14, <1>15,
     <1>16 DEF Next, Chain

\* Every behaviour of the runner is one the contract allows: one pass at a
\* time, admitted by an open runner that owes it, across stops and restarts.
THEOREM ImplementsContractSafety == SafeSpec => Contract!ContractSafety
<1>1. Init => Contract!ContractInit
  BY Names DEF Init, Contract!ContractInit, Busy
<1>2. RunnerInv /\ RunnerInv' /\ [Next]_vars
        => [Contract!ContractNext]_(Contract!contractVars)
  <2>. SUFFICES ASSUME RunnerInv, RunnerInv', [Next]_vars
                PROVE  [Contract!ContractNext]_(Contract!contractVars)
    OBVIOUS
  <2>. USE DEF IsOpen, IsExecuting, HasDebt, IsBroken, Contract!ContractNext
  <2>1. CASE Same BY <2>1 DEF Same, Contract!contractVars
  <2>2. CASE Opens BY <2>2 DEF Opens, Contract!Open
  <2>3. CASE Signals BY <2>3 DEF Signals, Contract!Signal
  <2>4. CASE Begins BY <2>4 DEF Begins, Contract!Begin
  <2>5. CASE Succeeds BY <2>5 DEF Succeeds, Contract!Succeed
  <2>6. CASE Fails BY <2>6 DEF Fails, Contract!Fail
  <2>7. CASE Breaks BY <2>7 DEF Breaks, Contract!Break
  <2>8. CASE Closes BY <2>8 DEF Closes, Contract!Close
  <2>. QED
    BY <2>1, <2>2, <2>3, <2>4, <2>5, <2>6, <2>7, <2>8, ContractStep
<1>. QED BY <1>1, <1>2, RunnerInvariant, PTL DEF SafeSpec,
     Contract!ContractSafety
===============================================================================
