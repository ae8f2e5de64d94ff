-------------------------- MODULE RateLimitedCallback --------------------------
(***************************************************************************)
(* useDebouncedCallback and useThrottledCallback: a callback of one        *)
(* component that is called with the last of many values.  The two hooks   *)
(* share flush, cancel, the timer and the effect; they differ in call.     *)
(* The value null is excluded, as the README does.                         *)
(*                                                                         *)
(* The functions of the hooks are synchronous, and they call cb last: what *)
(* cb calls reentrantly follows as further steps at the same moment.       *)
(***************************************************************************)
EXTENDS Integers

CONSTANTS
  Interval,    \* delayMs, intervalMs
  MaxCalls, MaxTime, MaxRenders \* bounds on the behaviours

ASSUME RateLimitedAssumption ==
  {Interval, MaxCalls, MaxTime, MaxRenders} \subseteq Nat

VARIABLES
  throttled, \* the hook is useThrottledCallback, not useDebouncedCallback
  now,
  mounted,
  flushOnUnmount,
  last,      \* lastRef: the value to deliver, or NoValue
  timer,     \* tRef: the due time of the timer, or NoTimer
  invoked,   \* the last invocation of cb: value, lastInvokeTsRef, cause
  calls,     \* calls so far: each carries a newer value
  calledAt,  \* history: when call was called last
  renders    \* changes of the option so far

vars == <<throttled, now, mounted, flushOnUnmount, last, timer, invoked, calls,
          calledAt, renders>>

NoValue == 0
NoTimer == -1
Causes == {"none", "leading", "timer", "flush"}

TypeOK ==
  /\ {throttled, mounted, flushOnUnmount} \subseteq BOOLEAN
  /\ now \in 0 .. MaxTime
  /\ last \in 0 .. calls /\ calls \in 0 .. MaxCalls
  /\ timer \in {NoTimer} \cup (0 .. MaxTime + Interval)
  /\ invoked \in [value : 0 .. calls, at : (-Interval) .. now, by : Causes,
                  mounted : BOOLEAN]
  /\ calledAt \in 0 .. now /\ renders \in 0 .. MaxRenders

Init ==
  /\ throttled \in BOOLEAN /\ flushOnUnmount \in BOOLEAN
  /\ now = 0 /\ mounted = TRUE
  /\ last = NoValue /\ timer = NoTimer
  \* The first call of a throttled callback finds its window passed long ago.
  /\ invoked = [value |-> NoValue, at |-> -Interval, by |-> "none", mounted |-> TRUE]
  /\ calls = 0 /\ calledAt = 0 /\ renders = 0

Invoke(value, by) ==
  invoked' = [value |-> value, at |-> now, by |-> by, mounted |-> mounted']

-------------------------------------------------------------------------------
(* flush, cancel, the timer and the effect.                                *)

DoCancel == last' = NoValue /\ timer' = NoTimer /\ invoked' = invoked

WrongFlushedTimer == timer \* flush forgets to clear the timer

FlushedTimer == NoTimer

DoFlush(by) ==
  IF last = NoValue
    THEN UNCHANGED <<last, timer, invoked>>
    ELSE last' = NoValue /\ timer' = FlushedTimer /\ Invoke(last, by)

Cancel ==
  /\ DoCancel
  /\ UNCHANGED <<throttled, now, mounted, flushOnUnmount, calls, calledAt, renders>>

Flush ==
  /\ UNCHANGED <<throttled, now, mounted, flushOnUnmount, calls, calledAt, renders>>
  /\ DoFlush("flush")

TimerFires ==
  /\ timer # NoTimer /\ timer <= now
  /\ UNCHANGED <<throttled, now, mounted, flushOnUnmount, calls, calledAt, renders>>
  /\ last' = NoValue /\ timer' = NoTimer
  /\ IF last = NoValue THEN invoked' = invoked ELSE Invoke(last, "timer")

\* The cleanup of the effect, with the option of the render it belongs to.
Cleanup == IF flushOnUnmount THEN DoFlush("flush") ELSE DoCancel

Unmount ==
  /\ mounted
  /\ mounted' = FALSE
  /\ UNCHANGED <<throttled, now, flushOnUnmount, calls, calledAt, renders>>
  /\ Cleanup

\* A render with another option runs the cleanup of the mounted component.
ChangeOption ==
  /\ mounted /\ renders < MaxRenders
  /\ mounted' = mounted
  /\ renders' = renders + 1
  /\ flushOnUnmount' = ~flushOnUnmount
  /\ UNCHANGED <<throttled, now, calls, calledAt>>
  /\ Cleanup

-------------------------------------------------------------------------------
(* call                                                                    *)

WrongPending == IF last = NoValue THEN calls' ELSE last \* the first value wins

Pending == calls'

DebouncedTimer == now + Interval

DebouncedCall == last' = Pending /\ timer' = DebouncedTimer /\ invoked' = invoked

Passed == now - invoked.at >= Interval

\* The end of the window; a timer that is armed already is kept.
TrailingTimer == IF timer = NoTimer THEN now + Interval - (now - invoked.at) ELSE timer

ThrottledCall ==
  \/ /\ Passed
     /\ last' = NoValue /\ timer' = NoTimer
     /\ Invoke(calls', "leading")
  \/ /\ ~Passed
     /\ last' = Pending /\ timer' = TrailingTimer
     /\ invoked' = invoked

\* The function is stable: the component may be gone when it is called.
Call ==
  /\ calls < MaxCalls
  /\ calls' = calls + 1 /\ calledAt' = now
  /\ UNCHANGED <<throttled, now, mounted, flushOnUnmount, renders>>
  /\ IF throttled THEN ThrottledCall ELSE DebouncedCall

Tick ==
  /\ now < MaxTime
  /\ now' = now + 1
  /\ UNCHANGED <<throttled, mounted, flushOnUnmount, last, timer, invoked, calls,
                 calledAt, renders>>

Next ==
  Call \/ Flush \/ Cancel \/ TimerFires \/ Unmount \/ ChangeOption \/ Tick

Spec == Init /\ [][Next]_vars

-------------------------------------------------------------------------------
\* A value waits if and only if a timer will deliver it: none is stranded, and no
\* timer comes for a value that was delivered or cancelled.
ValueHasTimer == last # NoValue <=> timer # NoTimer

\* What waits is the newest value, and cb never sees an older value after a newer.
LastWriteWins == last # NoValue => last = calls /\ last > invoked.value

\* A debounced value is delivered by its timer Interval after the last call, a
\* throttled one at the end of the window that the last invocation opened.
TimerAtTheEnd ==
  timer # NoTimer =>
    timer = (IF throttled THEN invoked.at ELSE calledAt) + Interval

\* Calls and timers alone invoke a throttled callback at most once per interval.
Spaced ==
  [][throttled /\ invoked'.by \in {"leading", "timer"} /\ invoked' # invoked
       => invoked'.at - invoked.at >= Interval]_invoked

===============================================================================
