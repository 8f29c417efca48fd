\* A scheduled start and a stop, one fault: abandoned polls, lost results, restarts.
SPECIFICATION Spec
CONSTANTS
  r1 = r1
  r2 = r2
  s1 = s1
  h1 = h1
  h2 = h2
  None = None
  Runs <- OneRun
  Scheduled <- OneRun
  Stops <- OneStop
  Handlers <- TwoHandlers
  MaxId = 3
  MaxCycles = 1
  MaxFaults = 1
SYMMETRY HandlerSymmetry
INVARIANTS
  TypeOK
  ExecutedOnce
  OneLiveCyclePerRun
PROPERTY
  QueueSpec
