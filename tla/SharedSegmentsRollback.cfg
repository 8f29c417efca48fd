\* Two segments of other accounts; the second may be refused.
SPECIFICATION Spec
CONSTANTS
  r1 = r1
  r2 = r2
  l1 = l1
  None = None
  Remote <- TwoRemote
  Local <- NoLocal
  MaxFaults = 1
CHECK_DEADLOCK FALSE
INVARIANT FailedStartRollsBack
