\* Two segments of other accounts, the acknowledgement of one comes late, and
\* events of the other set the failed run to running again.
SPECIFICATION Spec
CONSTANTS
  r1 = r1
  r2 = r2
  l1 = l1
  None = None
  Remote <- TwoRemote
  Local <- NoLocal
  MaxFaults = 1
CHECK_DEADLOCK FALSE
INVARIANT StoppedMeansStopped
SYMMETRY Accounts
CONSTRAINT NoEarlyStop
