------------------------- MODULE CoalescingTaskRunner -------------------------
(***************************************************************************)
(* createCoalescingTaskRunner: a runner that turns any number of signals   *)
(* into passes of one task.  Callers use start, wake and stop; the host    *)
(* delivers timer callbacks; the task and its failure handler settle when  *)
(* they please.  One step of the model is one piece of JavaScript that     *)
(* runs to completion: a call, a timer callback or a microtask.            *)
(*                                                                         *)
(* A generation is the object a successful start creates.  Its promise     *)
(* chain generation.pending is modelled by phase[g]:                       *)
(*   idle       pending = null                                             *)
(*   queued     the microtask that calls run() has not executed            *)
(*   running    options.run() has been called and has not settled          *)
(*   reporting  run() failed and options.onError() has not settled         *)
(*   resolved, rejected   the chain settled, finally() has not executed    *)
(* The code and its tests allow the host to deliver the callback of a      *)
(* timer that was already cleared: lateTimeouts and lateIntervals hold the *)
(* generations for which one may still come.                               *)
(***************************************************************************)
EXTENDS Naturals

CONSTANTS
  Callers,   \* independent pieces of code holding the runner
  MaxStops,  \* bound on the calls of stop()
  HasPoll    \* options.pollIntervalMs !== undefined

ASSUME RunnerAssumption == MaxStops \in Nat /\ HasPoll \in BOOLEAN

VARIABLES
  active,         \* the active generation, or NoGen
  stopping,       \* the generation being drained, or NoGen
  stopRevision,   \* number of stop() calls
  created,        \* number of generations created
  phase,          \* generation.pending, see above
  rerun,          \* generations with rerun = true
  polling,        \* generations with a live pollTimer
  scheduled,      \* generation.scheduledWake: kind of the live timer
  broken,         \* generations with reportingFailure
  lateTimeouts, lateIntervals,
  call,           \* the promise each caller holds
  \* History, read by properties only.
  owed,           \* generations signalled or failed since their attempt began
  backoff,        \* generations whose last attempt failed
  cause,          \* what began the latest attempt
  requestedAt     \* stopRevision when the start of a generation was called

vars == <<active, stopping, stopRevision, created, phase, rerun, polling,
          scheduled, broken, lateTimeouts, lateIntervals, call,
          owed, backoff, cause, requestedAt>>

admission == <<active, created, requestedAt>>
stops == <<stopping, stopRevision>>
wakes == <<scheduled, lateTimeouts>>
polls == <<polling, lateIntervals>>
attempt == <<phase, rerun, owed, backoff, cause>>

\* Two generations are separated by a stop, so MaxStops bounds them too.
Gens == 1 .. (MaxStops + 1)
NoGen == 0

Phases == {"idle", "queued", "running", "reporting", "resolved", "rejected"}
Kinds == {"none", "retry", "tail"}
Causes == {"none", "start", "wake", "poll", "timer", "late"}
Waiting == {"deferred", "ready", "attached"}
Settled == {"none", "fulfilled", "taskError", "reporterError", "cancelled"}

TypeOK ==
  /\ active \in Gens \cup {NoGen}
  /\ stopping \in Gens \cup {NoGen}
  /\ stopRevision \in 0 .. MaxStops
  /\ created \in Gens \cup {NoGen}
  /\ phase \in [Gens -> Phases]
  /\ rerun \in SUBSET Gens
  /\ polling \in SUBSET Gens
  /\ scheduled \in [Gens -> Kinds]
  /\ broken \in SUBSET Gens
  /\ lateTimeouts \in SUBSET Gens
  /\ lateIntervals \in SUBSET Gens
  /\ call \in [Callers -> [state : Waiting \cup Settled,
                           gen : Gens \cup {NoGen}, rev : 0 .. MaxStops]]
  /\ owed \in SUBSET Gens
  /\ backoff \in SUBSET Gens
  /\ cause \in Causes
  /\ requestedAt \in [Gens -> 0 .. MaxStops]

Init ==
  /\ active = NoGen
  /\ stopping = NoGen
  /\ stopRevision = 0
  /\ created = NoGen
  /\ phase = [g \in Gens |-> "idle"]
  /\ rerun = {} /\ polling = {} /\ broken = {}
  /\ scheduled = [g \in Gens |-> "none"]
  /\ lateTimeouts = {} /\ lateIntervals = {}
  /\ call = [c \in Callers |-> [state |-> "none", gen |-> NoGen, rev |-> 0]]
  /\ owed = {} /\ backoff = {}
  /\ cause = "none"
  /\ requestedAt = [g \in Gens |-> 0]

-------------------------------------------------------------------------------
(* Helpers.  A definition that starts with "Wrong" is a mutated form of    *)
(* the one after it: the properties are shown to tell the two apart.       *)

Free(c) == call[c].state \in Settled

Promise(s, g, r) == [state |-> s, gen |-> g, rev |-> r]
Answer(c, s) == call' = [call EXCEPT ![c] = Promise(s, NoGen, 0)]
Attach(c, g) == call' = [call EXCEPT ![c] = Promise("attached", g, 0)]

Pending(g) == phase[g] # "idle"

ClearScheduledWake(g) ==
  /\ scheduled' = [scheduled EXCEPT ![g] = "none"]
  /\ lateTimeouts' =
       IF scheduled[g] = "none" THEN lateTimeouts ELSE lateTimeouts \cup {g}

ClearTimers(g) ==
  /\ ClearScheduledWake(g)
  /\ polling' = polling \ {g}
  /\ lateIntervals' =
       IF g \in polling THEN lateIntervals \cup {g} ELSE lateIntervals

MaySchedule(g) == active = g /\ g \notin broken /\ scheduled[g] = "none"

Schedule(g, kind) ==
  scheduled' = IF MaySchedule(g) THEN [scheduled EXCEPT ![g] = kind]
                                 ELSE scheduled

ClaimRerun(g) == rerun \ {g}

\* wake() of an idle generation: the part that creates generation.pending.
BeginAttempt(g, why) ==
  /\ phase' = [phase EXCEPT ![g] = "queued"]
  /\ rerun' = ClaimRerun(g)
  /\ owed' = owed \ {g}
  /\ backoff' = backoff \ {g}
  /\ cause' = why

WrongSetRerun(g) == rerun \* a signal during an attempt is dropped

SetRerun(g) == rerun \cup {g}

\* wake() of a generation whose attempt is under way.
Coalesce(g) ==
  /\ rerun' = SetRerun(g)
  /\ owed' = owed \cup {g}
  /\ UNCHANGED <<phase, backoff, cause>>

WrongBackgroundMayWake(g) == \* a poll shortens the backoff
  active = g /\ g \notin broken

BackgroundMayWake(g) ==
  active = g /\ g \notin broken /\ scheduled[g] # "retry"

\* backgroundWake(): wake() on behalf of a timer.  Scheduled wakes are
\* cleared by the caller of this operator.
BackgroundWake(g, why) ==
  IF Pending(g) THEN Coalesce(g) ELSE BeginAttempt(g, why)

-------------------------------------------------------------------------------
(* start()                                                                 *)

WrongStillWanted(rev) == TRUE \* a later stop does not cancel the start

StillWanted(rev) == rev = stopRevision

IsStarted == active # NoGen

\* startGeneration(), for a start that was called at revision rev.
StartGeneration(c, rev) ==
  \/ /\ ~StillWanted(rev)
     /\ Answer(c, "cancelled")
     /\ UNCHANGED <<admission, attempt, polling>>
  \/ /\ StillWanted(rev) /\ IsStarted
     /\ \/ active \in broken /\ Answer(c, "reporterError")
        \/ active \notin broken /\ Pending(active) /\ Attach(c, active)
        \/ active \notin broken /\ ~Pending(active) /\ Answer(c, "fulfilled")
     /\ UNCHANGED <<admission, attempt, polling>>
  \/ /\ StillWanted(rev) /\ ~IsStarted
     /\ LET g == created + 1 IN
        /\ created' = g
        /\ active' = g
        /\ polling' = IF HasPoll THEN polling \cup {g} ELSE polling
        /\ BeginAttempt(g, "start")
        /\ Attach(c, g)
        /\ requestedAt' = [requestedAt EXCEPT ![g] = rev]

WrongMustDefer == FALSE \* a start does not wait for the drain

MustDefer == stopping # NoGen

Start(c) ==
  /\ Free(c)
  /\ \/ /\ MustDefer
        /\ call' = [call EXCEPT ![c] = Promise("deferred", NoGen, stopRevision)]
        /\ UNCHANGED <<admission, attempt, polling>>
     \/ ~MustDefer /\ StartGeneration(c, stopRevision)
  /\ UNCHANGED <<stops, wakes, broken, lateIntervals>>

\* stopping.then(() => startGeneration(...)): the drain has settled.
StartDeferred(c) ==
  /\ call[c].state = "ready"
  /\ StartGeneration(c, call[c].rev)
  /\ UNCHANGED <<stops, wakes, broken, lateIntervals>>

-------------------------------------------------------------------------------
(* wake() and stop()                                                       *)

Wake(c) ==
  /\ Free(c)
  /\ \/ /\ active = NoGen \/ active \in broken
        /\ Answer(c, IF active = NoGen THEN "fulfilled" ELSE "reporterError")
        /\ UNCHANGED <<wakes, attempt>>
     \/ /\ active # NoGen /\ active \notin broken /\ Pending(active)
        /\ Coalesce(active)
        /\ Attach(c, active)
        /\ UNCHANGED wakes
     \/ /\ active # NoGen /\ active \notin broken /\ ~Pending(active)
        /\ ClearScheduledWake(active)
        /\ BeginAttempt(active, "wake")
        /\ Attach(c, active)
  /\ UNCHANGED <<admission, stops, polls, broken>>

\* The promise of stop() is the drain itself, so no caller is recorded.
Stop ==
  /\ stopRevision < MaxStops
  /\ stopRevision' = stopRevision + 1
  /\ \/ /\ stopping = NoGen /\ active # NoGen
        /\ active' = NoGen
        /\ stopping' = active
        /\ rerun' = rerun \ {active}
        /\ ClearTimers(active)
        /\ owed' = owed \ {active}
        /\ backoff' = backoff \ {active}
     \/ /\ stopping # NoGen \/ active = NoGen
        /\ UNCHANGED <<polls, wakes, active, stopping, rerun, owed, backoff>>
  /\ UNCHANGED <<created, phase, broken, call, cause, requestedAt>>

WrongDrained(g) == phase[g] # "running" \* the failure handler is not awaited

Drained(g) == ~Pending(g)

\* The drain promise settles: starts that waited for it may proceed, or
\* inherit the reporter failure.
DrainCompletes ==
  /\ stopping # NoGen
  /\ Drained(stopping)
  /\ stopping' = NoGen
  /\ call' = [c \in Callers |->
       IF call[c].state # "deferred" THEN call[c]
       ELSE IF stopping \in broken THEN Promise("reporterError", NoGen, 0)
       ELSE [call[c] EXCEPT !.state = "ready"]]
  /\ UNCHANGED <<admission, polls, wakes, attempt, stopRevision, broken>>

-------------------------------------------------------------------------------
(* The promise chain of one attempt.                                       *)

MayRun(g) == active = g

WrongRevokedPhase == "queued" \* a revoked attempt waits to be admitted again

RevokedPhase == "resolved"

RunMicrotask(g) ==
  /\ phase[g] = "queued"
  /\ phase' = [phase EXCEPT ![g] = IF MayRun(g) THEN "running" ELSE RevokedPhase]
  /\ UNCHANGED <<admission, stops, polls, wakes, rerun, broken, call, owed,
                 backoff, cause>>

RunSettles(g) ==
  /\ phase[g] = "running"
  /\ \E next \in {"resolved", "reporting"} : phase' = [phase EXCEPT ![g] = next]
  /\ UNCHANGED <<admission, stops, polls, wakes, rerun, broken, call, owed,
                 backoff, cause>>

ReporterSucceeds(g) ==
  /\ phase[g] = "reporting"
  /\ phase' = [phase EXCEPT ![g] = "rejected"]
  /\ Schedule(g, "retry")
  /\ owed' = IF active = g THEN owed \cup {g} ELSE owed
  /\ backoff' = IF active = g THEN backoff \cup {g} ELSE backoff
  /\ UNCHANGED <<admission, stops, polls, rerun, broken, lateTimeouts, call,
                 cause>>

ReporterFails(g) ==
  /\ phase[g] = "reporting"
  /\ phase' = [phase EXCEPT ![g] = "rejected"]
  /\ broken' = broken \cup {g}
  /\ rerun' = rerun \ {g}
  /\ ClearTimers(g)
  /\ UNCHANGED <<admission, stops, call, owed, backoff, cause>>

\* finally(): pending is gone, a coalesced signal gets its own timer task,
\* and the callers attached to the attempt learn its outcome.
Finish(g) ==
  /\ phase[g] \in {"resolved", "rejected"}
  /\ phase' = [phase EXCEPT ![g] = "idle"]
  /\ IF g \in rerun THEN Schedule(g, "tail") ELSE UNCHANGED scheduled
  /\ LET outcome == IF phase[g] = "resolved" THEN "fulfilled" ELSE "taskError"
     IN call' = [c \in Callers |->
          IF call[c].state = "attached" /\ call[c].gen = g
          THEN Promise(outcome, NoGen, 0) ELSE call[c]]
  /\ UNCHANGED <<admission, stops, polls, rerun, broken, lateTimeouts, owed,
                 backoff, cause>>

-------------------------------------------------------------------------------
(* Timer callbacks.  The host runs one only when no microtask is left.     *)

MicrotasksDrained ==
  /\ \A g \in Gens : phase[g] \notin {"queued", "resolved", "rejected"}
  /\ \A c \in Callers : call[c].state # "ready"
  /\ stopping # NoGen => Pending(stopping)

\* The setTimeout callback of schedule(), its timer still being the
\* scheduled one.  For a revoked generation it does nothing.
TimeoutFires(g) ==
  /\ MicrotasksDrained
  /\ scheduled[g] # "none"
  /\ active = g
  /\ scheduled' = [scheduled EXCEPT ![g] = "none"]
  /\ IF g \in broken THEN UNCHANGED attempt
                     ELSE BackgroundWake(g, "timer")
  /\ UNCHANGED <<admission, stops, polls, broken, lateTimeouts, call>>

\* scheduledWake?.timer === timer, in the callback of a cleared timer.
IsScheduledTimer(g) == FALSE

\* The same callback for a timer that was cleared.
LateTimeout(g) ==
  /\ MicrotasksDrained
  /\ g \in lateTimeouts
  /\ lateTimeouts' = lateTimeouts \ {g}
  /\ IF active = g /\ IsScheduledTimer(g)
     THEN /\ scheduled' = [scheduled EXCEPT ![g] = "none"]
          /\ BackgroundWake(g, "late")
     ELSE UNCHANGED <<attempt, scheduled>>
  /\ UNCHANGED <<admission, stops, polls, broken, call>>

\* The setInterval callback: a live poll, or one that was cleared.
PollFires(g) ==
  /\ MicrotasksDrained
  /\ \/ g \in polling /\ UNCHANGED lateIntervals
     \/ g \in lateIntervals /\ lateIntervals' = lateIntervals \ {g}
  /\ IF BackgroundMayWake(g)
     THEN /\ BackgroundWake(g, "poll")
          /\ IF Pending(g) THEN UNCHANGED wakes
                           ELSE ClearScheduledWake(g)
     ELSE UNCHANGED <<wakes, attempt>>
  /\ UNCHANGED <<admission, stops, polling, broken, call>>

-------------------------------------------------------------------------------
Chain(g) ==
  \/ RunMicrotask(g) \/ RunSettles(g) \/ ReporterSucceeds(g)
  \/ ReporterFails(g) \/ Finish(g)

Next ==
  \/ \E c \in Callers : Start(c) \/ StartDeferred(c) \/ Wake(c)
  \/ Stop
  \/ DrainCompletes
  \/ \E g \in Gens : Chain(g) \/ TimeoutFires(g) \/ LateTimeout(g) \/ PollFires(g)

\* The host runs every queued microtask and every timer that is due, and the
\* task and its failure handler settle.  Nothing is assumed of the callers,
\* of the poll, nor of late callbacks.
Fairness ==
  /\ \A g \in Gens : WF_vars(Chain(g)) /\ WF_vars(TimeoutFires(g))
  /\ \A c \in Callers : WF_vars(StartDeferred(c))
  /\ WF_vars(DrainCompletes)

SafeSpec == Init /\ [][Next]_vars
Spec == SafeSpec /\ Fairness
-------------------------------------------------------------------------------
(* Properties.                                                             *)

Busy(g) == phase[g] \in {"running", "reporting"}

\* At most one attempt is under way, whatever the starts and stops: a
\* generation admitted after a stop never overlaps the one being drained.
SingleFlight ==
  \A g, h \in Gens : Pending(g) /\ Pending(h) => g = h

\* Only the active, healthy generation owns timers: stop() and a failed
\* failure handler leave neither a wake nor a poll behind.
TimersHaveOwner ==
  \A g \in Gens : scheduled[g] # "none" \/ g \in polling
                    => g = active /\ g \notin broken

\* A signal coalesced into a pass, or a failed pass, is never forgotten:
\* once the pass is over a timer stands for it.
NoLostSignal ==
  \A g \in owed : g = active /\ g \notin broken /\ ~Pending(g)
                      => scheduled[g] # "none"

\* The start that revived the runner was called after the latest stop: a
\* start that waits for a drain does not outlive a stop called meanwhile.
LaterStopWins == active # NoGen => requestedAt[active] = stopRevision

\* A run begins only in the active generation, with no other run or failure
\* handler executing.
RunBeginsAdmitted ==
  [][\A g \in Gens : ~Busy(g) /\ Busy(g)'
       => active = g /\ \A h \in Gens : ~Busy(h)]_vars

\* After a failed attempt the next one begins when the retry timer expires,
\* or earlier by an explicit wake: never by a poll, a tail or a late callback.
BackoffHonoured ==
  [][\A g \in backoff : ~Pending(g) /\ Pending(g)'
       => \/ cause' = "wake"
          \/ cause' = "timer" /\ scheduled[g] = "retry"]_vars

\* Any number of signals during an attempt buys one pass: a timer begins an
\* attempt only if a signal or a failure came after the previous one began.
OnePassPerBatch ==
  [][\A g \in Gens : ~Pending(g) /\ Pending(g)' /\ cause' = "timer"
       => g \in owed]_vars

\* The drain that stop() returns settles when nothing is under way any more,
\* the failure handler included, and it does not hide that handler's failure
\* from the starts that wait for it.
DrainIsComplete ==
  [][stopping # NoGen /\ stopping' # stopping
       => /\ \A g \in Gens : ~Pending(g)
          /\ \A c \in Callers : call[c].state = "deferred"
               => (call'[c].state = "ready" <=> stopping \notin broken)]_vars

\* Every promise handed out settles: no caller waits forever.
CallsSettle ==
  \A c \in Callers : call[c].state \in Waiting ~> call[c].state \in Settled

\* The runner implements the contract of a serial task.
Contract == INSTANCE SerialTask WITH
  open <- active # NoGen,
  executing <- \E g \in Gens : Busy(g),
  debt <- \E g \in Gens : /\ g = active /\ g \notin broken
                          /\ g \in owed \/ phase[g] = "queued",
  broken <- active # NoGen /\ active \in broken

ImplementsContract == Contract!ContractSpec
===============================================================================
