----------------------------- MODULE DeadlineTimer -----------------------------
(***************************************************************************)
(* createDeadlineTimer: one wake-up at an absolute wall-clock moment.  A   *)
(* native timer counts elapsed time and cannot be longer than MaxDelay,    *)
(* the deadline is read on a wall clock that may be set forward or back:   *)
(* a long wait is a chain of native timers, each rechecking the clock.     *)
(* No callback is trusted to be the one that is awaited: late holds the    *)
(* timers that were cleared, or have fired, and may be delivered (again).  *)
(***************************************************************************)
EXTENDS Integers

CONSTANTS
  MaxDelay,     \* MAX_NATIVE_DELAY_MS
  MaxTime,      \* horizon of the wall clock
  MaxSchedules, \* bound on the deadlines scheduled
  MaxAdjusts    \* bound on the corrections of the wall clock

ASSUME DeadlineAssumption ==
  /\ MaxDelay \in Nat \ {0} /\ MaxTime \in Nat
  /\ MaxSchedules \in Nat /\ MaxAdjusts \in Nat

VARIABLES
  now,      \* Date.now()
  issued,   \* number of generations created
  active,   \* the active generation, or NoGen
  deadline, \* generation.deadlineAtMs
  left,     \* generation.timer: time left on its native timer, or NoTimer
  part,     \* the identity of that timer: how many were armed before it
  late,
  fired,    \* history: generations whose onDue() was called
  adjusts   \* history: corrections of the wall clock

vars == <<now, issued, active, deadline, left, part, late, fired, adjusts>>

Gens == 1 .. MaxSchedules
NoGen == 0
NoTimer == -1
Deadlines == -1 .. MaxTime

TypeOK ==
  /\ now \in 0 .. MaxTime
  /\ issued \in 0 .. MaxSchedules
  /\ active \in Gens \cup {NoGen}
  /\ deadline \in [Gens -> Deadlines]
  /\ left \in [Gens -> NoTimer .. MaxDelay]
  /\ part \in [Gens -> Nat]
  /\ late \in SUBSET (Gens \X Nat)
  /\ fired \in SUBSET Gens
  /\ adjusts \in 0 .. MaxAdjusts

Init ==
  /\ now = 0 /\ issued = 0 /\ active = NoGen /\ adjusts = 0
  /\ deadline = [g \in Gens |-> 0]
  /\ left = [g \in Gens |-> NoTimer]
  /\ part = [g \in Gens |-> 0]
  /\ late = {} /\ fired = {}

Least(a, b) == IF a < b THEN a ELSE b
Greatest(a, b) == IF a > b THEN a ELSE b

\* The delay arm() gives to setTimeout for deadline d.
Delay(d) == Greatest(1, Least(MaxDelay, d - now))

\* cancel(): the timer of the active generation is cleared.
Cleared(timers) ==
  IF active = NoGen THEN timers ELSE [timers EXCEPT ![active] = NoTimer]

StaleAfterCancel ==
  IF active = NoGen THEN late ELSE late \cup {<<active, part[active]>>}

Cancel ==
  /\ active # NoGen
  /\ active' = NoGen
  /\ left' = Cleared(left)
  /\ late' = StaleAfterCancel
  /\ UNCHANGED <<now, issued, deadline, part, fired, adjusts>>

\* schedule(d) for a deadline other than the one that waits already.
Schedule(d) ==
  /\ issued < MaxSchedules
  /\ active # NoGen => deadline[active] # d
  /\ LET g == issued + 1 IN
     /\ issued' = g
     /\ active' = g
     /\ deadline' = [deadline EXCEPT ![g] = d]
     /\ left' = [Cleared(left) EXCEPT ![g] = Delay(d)]
  /\ late' = StaleAfterCancel
  /\ UNCHANGED <<now, part, fired, adjusts>>

WrongIsDue(g) == TRUE \* an intermediate part calls onDue()

IsDue(g) == now >= deadline[g]

WrongNextPart(g) == NoTimer \* the wait is not continued

NextPart(g) == Delay(deadline[g])

\* The timer callback past its guard: the next part of the wait, or the
\* deadline is revoked and onDue() called, which may schedule another.
Elapse(g) ==
  \/ /\ ~IsDue(g)
     /\ left' = [left EXCEPT ![g] = NextPart(g)]
     /\ part' = [part EXCEPT ![g] = @ + 1]
     /\ UNCHANGED <<active, fired>>
  \/ /\ IsDue(g)
     /\ left' = [left EXCEPT ![g] = NoTimer]
     /\ active' = NoGen
     /\ fired' = fired \cup {g}
     /\ UNCHANGED part

\* active === generation && generation.timer === timer.
IsOwnTimer(g, p) == active = g /\ left[g] # NoTimer /\ part[g] = p

TimerFires(g) ==
  /\ left[g] = 0
  /\ IsOwnTimer(g, part[g])
  /\ Elapse(g)
  /\ late' = late \cup {<<g, part[g]>>}
  /\ UNCHANGED <<now, issued, deadline, adjusts>>

LateCallback(g, p) ==
  /\ late' = late \ {<<g, p>>}
  /\ IF IsOwnTimer(g, p) THEN Elapse(g) ELSE UNCHANGED <<left, part, active, fired>>
  /\ UNCHANGED <<now, issued, deadline, adjusts>>

\* Time passes.  The host may be late with a callback that is due.
Tick ==
  /\ now' = Least(now + 1, MaxTime)
  /\ left' = [g \in Gens |-> IF left[g] > 0 THEN left[g] - 1 ELSE left[g]]
  /\ UNCHANGED <<issued, active, deadline, part, late, fired, adjusts>>

AdjustClock(t) ==
  /\ adjusts < MaxAdjusts
  /\ now' = t
  /\ adjusts' = adjusts + 1
  /\ UNCHANGED <<issued, active, deadline, left, part, late, fired>>

Next ==
  \/ Cancel \/ Tick
  \/ \E d \in Deadlines : Schedule(d)
  \/ \E g \in Gens : TimerFires(g)
  \/ \E c \in late : LateCallback(c[1], c[2])
  \/ \E t \in 0 .. MaxTime : AdjustClock(t)

\* Time goes on and the host runs a timer that is due.
Fairness == WF_vars(Tick) /\ \A g \in Gens : WF_vars(TimerFires(g))

SafeSpec == Init /\ [][Next]_vars
Spec == SafeSpec /\ Fairness

-------------------------------------------------------------------------------
\* Exactly the active deadline has a native timer: none is left behind by a
\* replacement or a cancel, and a pending deadline is never stranded.
OneNativeTimer == \A g \in Gens : left[g] # NoTimer <=> g = active

\* Unless the wall clock is corrected, no part of a wait overshoots its
\* deadline.
NoOvershoot ==
  adjusts = 0 /\ active # NoGen
    => left[active] <= Greatest(1, deadline[active] - now)

\* onDue() is called for the pending deadline only, never before it on the
\* clock it is defined on, and never twice.
DueOnTime ==
  [][\A g \in fired' \ fired : active = g /\ now >= deadline[g]]_vars

\* A pending native timer only counts down until it fires or is cleared: the
\* late callback of an earlier part neither replaces nor forgets it.
TimerNotReplaced ==
  [][\A g \in Gens : left[g] > 0 /\ active' = g
       => left'[g] \in {left[g], left[g] - 1}]_vars

\* A pending deadline is eventually met, cancelled or replaced.
DeadlineMet == \A g \in Gens : active = g ~> active # g
===============================================================================
