\* Two segments of other accounts, one fault, and a stop after a start that
\* went well: the states the statements do not speak of are left out.
SPECIFICATION Spec
CONSTANTS
  r1 = r1
  r2 = r2
  l1 = l1
  None = None
  Remote <- TwoRemote
  Local <- NoLocal
  MaxFaults = 1
CHECK_DEADLOCK FALSE
INVARIANTS
  StoppedEverywhere
  StopReaches
SYMMETRY Accounts
CONSTRAINT StartedWell
