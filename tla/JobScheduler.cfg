\* Two adjacent windows, ticks that overlap after their slots are computed,
\* one crash or failed plan.
SPECIFICATION Spec
CONSTANTS
  t1 = t1
  t2 = t2
  t3 = t3
  None = None
  w1 = w1
  w2 = w2
  StartTime <- Begin
  EndTime <- Finish
  Ticks <- ThreeTicks
  Windows <- Adjacent
  Width = 2
  Lookback = 2
  LockDuration = 2
  MaxTickGap = 2
  MaxDelay = 0
  MaxTime = 9
  MaxFaults = 1
SYMMETRY TickSymmetry
CHECK_DEADLOCK FALSE
INVARIANTS
  TypeOK
  OncePerBoundary
  NoBoundaryMissed
