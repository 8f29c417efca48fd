\* Chains, forks and loops of three steps, whole or split between accounts.
SPECIFICATION FairSpec
CONSTANTS
  s1 = s1
  s2 = s2
  s3 = s3
  c1 = c1
  c2 = c2
  None = None
  Steps <- ThreeSteps
  Cameras <- TwoCameras
  Definitions <- AllJobs
  Segments <- Relayed
  Window = 1
  MaxDelay = 1
  MaxFaults = 1
CHECK_DEADLOCK FALSE
INVARIANTS
  TypeOK
  SequentialAlone
  EndsQuiet
  StallIsReal
PROPERTIES
  JobEnds
  StopEnds
  SuccessorStarts
  TriggerHeard
