-------------------------- MODULE DeadlineTimerProofs --------------------------
(***************************************************************************)
(* Proofs about DeadlineTimer, for every bound on the native delay, the    *)
(* clock, the schedules and the corrections.                               *)
(***************************************************************************)
EXTENDS DeadlineTimer, TLAPS

\* What a cleared or fired timer looks like: generations are used once, and a
\* late callback is never that of the timer a generation waits for.
Stale ==
  /\ \A g \in Gens : g > issued => left[g] = NoTimer /\ part[g] = 0
  /\ active <= issued
  /\ \A g \in Gens, p \in Nat :
       <<g, p>> \in late =>
         g <= issued /\ p <= part[g] /\ (p = part[g] => left[g] = NoTimer)

\* The inductive invariant.
DeadlineInv == TypeOK /\ OneNativeTimer /\ Stale

LEMMA DelayRange ==
  ASSUME NEW d \in Int, now \in Int
  PROVE  /\ Delay(d) \in 1 .. MaxDelay
         /\ Delay(d) <= Greatest(1, d - now)
BY DeadlineAssumption DEF Delay, Least, Greatest

LEMMA InvInit == Init => DeadlineInv
BY DeadlineAssumption
   DEF Init, DeadlineInv, TypeOK, OneNativeTimer, Stale, Gens, NoGen, NoTimer,
       Deadlines

LEMMA LateIsNotOwn ==
  ASSUME TypeOK, Stale, NEW c \in late
  PROVE  ~IsOwnTimer(c[1], c[2])
<1>1. PICK g \in Gens, p \in Nat : c = <<g, p>>
  BY DEF TypeOK
<1>2. ~IsOwnTimer(g, p)
  BY <1>1 DEF IsOwnTimer, Stale
<1>. QED BY <1>1, <1>2

LEMMA InvNext == DeadlineInv /\ [Next]_vars => DeadlineInv'
<1> SUFFICES ASSUME DeadlineInv, [Next]_vars PROVE DeadlineInv'
  OBVIOUS
<1> USE DeadlineAssumption DEF DeadlineInv, NoGen, NoTimer
<1>d. ASSUME NEW d \in Deadlines
      PROVE  Delay(d) \in 1 .. MaxDelay /\ Delay(d) \in Int
  BY DelayRange DEF TypeOK, Deadlines
<1>1. CASE Cancel
  <2>1. TypeOK'
    BY <1>1 DEF Cancel, Cleared, StaleAfterCancel, TypeOK
  <2>2. OneNativeTimer'
    BY <1>1 DEF Cancel, Cleared, TypeOK, OneNativeTimer, Gens
  <2>3. \A g \in Gens : left'[g] \in {left[g], NoTimer}
    BY <1>1 DEF Cancel, Cleared, TypeOK
  <2>4. ASSUME NEW g \in Gens, NEW p \in Nat, <<g, p>> \in late'
        PROVE  g <= issued' /\ p <= part'[g] /\ (p = part'[g] => left'[g] = NoTimer)
    <3>1. CASE <<g, p>> \in late
      BY <1>1, <2>3, <3>1 DEF Cancel, Stale
    <3>2. CASE <<g, p>> \notin late
      <4>1. g = active /\ p = part[g]
        BY <1>1, <2>4, <3>2 DEF Cancel, StaleAfterCancel
      <4>2. left'[g] = NoTimer
        BY <1>1, <4>1 DEF Cancel, Cleared, TypeOK
      <4>. QED BY <1>1, <4>1, <4>2 DEF Cancel, Stale, TypeOK
    <3>. QED BY <3>1, <3>2
  <2>5. Stale'
    BY <1>1, <2>3, <2>4 DEF Cancel, TypeOK, Stale, Gens
  <2>. QED BY <2>1, <2>2, <2>5
<1>2. CASE Tick
  BY <1>2 DEF Tick, Least, TypeOK, OneNativeTimer, Stale
<1>3. ASSUME NEW d \in Deadlines, Schedule(d) PROVE DeadlineInv'
  <2>1. TypeOK'
    <3>1. issued + 1 \in Gens
      BY <1>3 DEF Schedule, TypeOK, Gens
    <3>2. late' \in SUBSET (Gens \X Nat)
      BY <1>3 DEF Schedule, StaleAfterCancel, TypeOK
    <3>. QED
      BY <1>3, <1>d, <3>1, <3>2 DEF Schedule, Cleared, TypeOK
  <2>2. OneNativeTimer'
    <3>1. /\ issued + 1 \in Gens /\ active' = issued + 1
          /\ left' = [Cleared(left) EXCEPT ![issued + 1] = Delay(d)]
      BY <1>3 DEF Schedule, TypeOK, Gens
    <3>2. \A g \in Gens : Cleared(left)[g] = NoTimer
      BY DEF Cleared, TypeOK, OneNativeTimer, Gens
    <3>3. Cleared(left) \in [Gens -> NoTimer .. MaxDelay]
      BY DEF Cleared, TypeOK
    <3>. QED BY <1>d, <3>1, <3>2, <3>3 DEF OneNativeTimer
  <2>3. Stale'
    <3>1. \A g \in Gens : g # issued + 1 => left'[g] \in {left[g], NoTimer}
      BY <1>3 DEF Schedule, Cleared, TypeOK
    <3>2. active # NoGen => active # issued + 1 /\ left'[active] = NoTimer
      BY <1>3 DEF Schedule, Cleared, TypeOK, Stale
    <3>3. /\ issued' = issued + 1 /\ active' = issued + 1 /\ part' = part
          /\ issued \in Nat
      BY <1>3 DEF Schedule, TypeOK
    <3>4. ASSUME NEW g \in Gens, NEW p \in Nat, <<g, p>> \in late'
          PROVE  g <= issued' /\ p <= part'[g] /\ (p = part'[g] => left'[g] = NoTimer)
      <4>1. CASE <<g, p>> \in late
        BY <3>1, <3>3, <4>1 DEF Stale, Gens
      <4>2. CASE <<g, p>> \notin late
        <5>1. active # NoGen /\ g = active /\ p = part[g]
          BY <1>3, <3>4, <4>2 DEF Schedule, StaleAfterCancel
        <5>. QED BY <5>1, <3>2, <3>3 DEF Stale, TypeOK, Gens
      <4>. QED BY <4>1, <4>2
    <3>5. \A g \in Gens : g > issued' => left'[g] = NoTimer /\ part'[g] = 0
      BY <3>1, <3>3 DEF Stale, Gens
    <3>. QED BY <3>3, <3>4, <3>5 DEF Stale
  <2>. QED BY <2>1, <2>2, <2>3
<1>4. ASSUME NEW g \in Gens, TimerFires(g) PROVE DeadlineInv'
  <2>d. Delay(deadline[g]) \in 1 .. MaxDelay
    BY <1>d DEF TypeOK
  <2>e. /\ active = g /\ left[g] # NoTimer
        /\ late' = late \cup {<<g, part[g]>>}
        /\ UNCHANGED <<now, issued, deadline, adjusts>>
    BY <1>4 DEF TimerFires, IsOwnTimer
  <2>f. g <= issued
    BY <2>e DEF Stale
  <2>1. CASE /\ left' = [left EXCEPT ![g] = NextPart(g)]
             /\ part' = [part EXCEPT ![g] = @ + 1]
             /\ UNCHANGED <<active, fired>>
    <3>1. TypeOK'
      BY <2>1, <2>d, <2>e DEF NextPart, TypeOK
    <3>2. OneNativeTimer'
      BY <2>1, <2>d, <2>e DEF NextPart, TypeOK, OneNativeTimer
    <3>3. \A h \in Gens : h # g => left'[h] = left[h] /\ part'[h] = part[h]
      BY <2>1 DEF TypeOK
    <3>4. part'[g] = part[g] + 1 /\ part[g] \in Nat
      BY <2>1 DEF TypeOK
    <3>5. ASSUME NEW h \in Gens, NEW p \in Nat, <<h, p>> \in late'
          PROVE  h <= issued' /\ p <= part'[h] /\ (p = part'[h] => left'[h] = NoTimer)
      BY <2>e, <2>f, <3>3, <3>4, <3>5 DEF Stale
    <3>6. Stale'
      BY <2>1, <2>e, <2>f, <3>3, <3>5 DEF Stale, TypeOK, Gens
    <3>. QED BY <3>1, <3>2, <3>6
  <2>2. CASE /\ left' = [left EXCEPT ![g] = NoTimer]
             /\ active' = NoGen
             /\ fired' = fired \cup {g}
             /\ UNCHANGED part
    <3>1. TypeOK'
      BY <2>2, <2>e DEF TypeOK
    <3>2. OneNativeTimer'
      BY <2>2, <2>e DEF TypeOK, OneNativeTimer, Gens
    <3>3. \A h \in Gens : left'[h] \in {left[h], NoTimer}
      BY <2>2 DEF TypeOK
    <3>4. left'[g] = NoTimer /\ part[g] \in Nat
      BY <2>2 DEF TypeOK
    <3>5. ASSUME NEW h \in Gens, NEW p \in Nat, <<h, p>> \in late'
          PROVE  h <= issued' /\ p <= part'[h] /\ (p = part'[h] => left'[h] = NoTimer)
      BY <2>2, <2>e, <2>f, <3>3, <3>4, <3>5 DEF Stale
    <3>6. Stale'
      BY <2>2, <2>e, <2>f, <3>3, <3>5 DEF Stale, TypeOK, Gens
    <3>. QED BY <3>1, <3>2, <3>6
  <2>. QED BY <1>4, <2>1, <2>2 DEF TimerFires, Elapse
<1>5. ASSUME NEW c \in late, LateCallback(c[1], c[2]) PROVE DeadlineInv'
  <2>1. /\ late' \subseteq late
        /\ UNCHANGED <<left, part, active, fired, now, issued, deadline, adjusts>>
    BY <1>5, LateIsNotOwn DEF LateCallback
  <2>. QED BY <2>1 DEF TypeOK, OneNativeTimer, Stale
<1>6. ASSUME NEW t \in 0 .. MaxTime, AdjustClock(t) PROVE DeadlineInv'
  BY <1>6 DEF AdjustClock, TypeOK, OneNativeTimer, Stale
<1>7. CASE UNCHANGED vars
  BY <1>7 DEF vars, TypeOK, OneNativeTimer, Stale
<1>. QED BY <1>1, <1>2, <1>3, <1>4, <1>5, <1>6, <1>7 DEF Next

LEMMA Invariant == SafeSpec => []DeadlineInv
BY InvInit, InvNext, PTL DEF SafeSpec

-------------------------------------------------------------------------------
\* Every delay given to the host fits a native timer, whatever the deadline and
\* the corrections of the clock.
THEOREM TypeCorrect == SafeSpec => []TypeOK
BY Invariant, PTL DEF DeadlineInv

\* The active deadline always has its timer and no other timer is alive.
THEOREM OneNativeTimerHolds == SafeSpec => []OneNativeTimer
BY Invariant, PTL DEF DeadlineInv

\* onDue() is called for the pending deadline, on time and once, by the timer
\* itself and by no late callback.
THEOREM DueOnTimeHolds == SafeSpec => DueOnTime
<1>. DEFINE A == \A g \in fired' \ fired : active = g /\ now >= deadline[g]
<1>1. ASSUME DeadlineInv, [Next]_vars PROVE A
  <2>. USE <1>1 DEF DeadlineInv
  <2>1. ASSUME NEW g \in Gens, TimerFires(g) PROVE A
    BY <2>1 DEF TimerFires, IsOwnTimer, Elapse, IsDue
  <2>2. ASSUME NEW c \in late, LateCallback(c[1], c[2]) PROVE A
    BY <2>2, LateIsNotOwn DEF LateCallback
  <2>. QED
    BY <2>1, <2>2
       DEF Next, vars, Cancel, Tick, Schedule, AdjustClock
<1>2. DeadlineInv /\ [Next]_vars => [A]_vars
  BY <1>1
<1>. QED BY <1>2, Invariant, PTL DEF SafeSpec, DueOnTime

\* No late callback disturbs the part of the wait that is running.
THEOREM TimerNotReplacedHolds == SafeSpec => TimerNotReplaced
<1>. DEFINE A == \A g \in Gens : left[g] > 0 /\ active' = g
                   => left'[g] \in {left[g], left[g] - 1}
<1>1. ASSUME DeadlineInv, [Next]_vars PROVE A
  <2>. USE <1>1, DeadlineAssumption DEF DeadlineInv, NoGen, NoTimer
  <2>1. ASSUME NEW g \in Gens, TimerFires(g) PROVE A
    BY <2>1 DEF TimerFires, IsOwnTimer, Elapse, TypeOK
  <2>2. ASSUME NEW c \in late, LateCallback(c[1], c[2]) PROVE A
    BY <2>2, LateIsNotOwn DEF LateCallback
  <2>3. ASSUME NEW d \in Deadlines, Schedule(d) PROVE A
    BY <2>3 DEF Schedule, Stale, Gens, TypeOK
  <2>4. CASE Tick
    BY <2>4 DEF Tick, TypeOK
  <2>. QED
    BY <2>1, <2>2, <2>3, <2>4
       DEF Next, vars, Cancel, AdjustClock, Gens
<1>2. DeadlineInv /\ [Next]_vars => [A]_vars
  BY <1>1
<1>. QED BY <1>2, Invariant, PTL DEF SafeSpec, TimerNotReplaced

-------------------------------------------------------------------------------
\* A chain of native timers does not overshoot its deadline while the clock is
\* not corrected.
THEOREM NoOvershootHolds == SafeSpec => []NoOvershoot
<1>1. Init => NoOvershoot
  BY DEF Init, NoOvershoot
<1>2. DeadlineInv /\ NoOvershoot /\ [Next]_vars => NoOvershoot'
  <2> SUFFICES ASSUME DeadlineInv, NoOvershoot, [Next]_vars PROVE NoOvershoot'
    OBVIOUS
  <2> USE DeadlineAssumption DEF DeadlineInv, NoGen, NoTimer
  <2>1. CASE Cancel
    BY <2>1 DEF Cancel, NoOvershoot
  <2>2. CASE Tick
    BY <2>2 DEF Tick, Least, Greatest, NoOvershoot, OneNativeTimer, TypeOK,
       Deadlines
  <2>3. ASSUME NEW d \in Deadlines, Schedule(d) PROVE NoOvershoot'
    BY <2>3, DelayRange DEF Schedule, Cleared, NoOvershoot, TypeOK, Gens, Deadlines
  <2>4. ASSUME NEW g \in Gens, TimerFires(g) PROVE NoOvershoot'
    BY <2>4, DelayRange
       DEF TimerFires, Elapse, IsOwnTimer, NextPart, NoOvershoot, TypeOK, Deadlines
  <2>5. ASSUME NEW c \in late, LateCallback(c[1], c[2]) PROVE NoOvershoot'
    BY <2>5, LateIsNotOwn DEF LateCallback, NoOvershoot
  <2>6. ASSUME NEW t \in 0 .. MaxTime, AdjustClock(t) PROVE NoOvershoot'
    BY <2>6 DEF AdjustClock, NoOvershoot, TypeOK
  <2>7. CASE UNCHANGED vars
    BY <2>7 DEF vars, NoOvershoot
  <2>. QED BY <2>1, <2>2, <2>3, <2>4, <2>5, <2>6, <2>7 DEF Next
<1>. QED BY <1>1, <1>2, Invariant, PTL DEF SafeSpec
===============================================================================
