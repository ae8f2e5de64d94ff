\* Waits of up to three native timers, one replacement and one correction of the wall clock.
CONSTANTS
  MaxDelay = 2
  MaxTime = 5
  MaxSchedules = 2
  MaxAdjusts = 1
SPECIFICATION Spec
PROPERTIES DueOnTime DeadlineMet
