\* A small instance of CoalescingTaskRunner.  It has no symmetry: the run checks liveness.
\* Two callers, two stops, hence three generations, with a poll.
CONSTANTS
  c1 = c1
  c2 = c2
  Callers = {c1, c2}
  MaxStops = 2
  HasPoll = TRUE
SPECIFICATION Spec
INVARIANTS NoLostSignal LaterStopWins
PROPERTIES BackoffHonoured DrainIsComplete CallsSettle ImplementsContract
