\* A segment of another account and one of the operator's own, one fault,
\* requests that arrive twice, and a stop after the start.
SPECIFICATION Spec
CONSTANTS
  r1 = r1
  r2 = r2
  l1 = l1
  None = None
  Remote <- OneRemote
  Local <- OneLocal
  MaxFaults = 1
CHECK_DEADLOCK FALSE
INVARIANTS
  TypeOK
  CommandsOnce
  AcceptedIsPosted
  CompletedEverywhere
  StoppedEverywhere
  StopReaches
