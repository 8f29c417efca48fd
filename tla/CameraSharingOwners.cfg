\* Two steps of a job, the direct service and a search, different configurations.
SPECIFICATION FairSpec
CONSTANTS
  c1 = c1
  c2 = c2
  j1 = j1
  j2 = j2
  s1 = s1
  s2 = s2
  q1 = q1
  Cmd = Cmd
  None = None
  Cameras <- TwoCameras
  Jobs <- OneJob
  Steps <- TwoSteps
  Searches <- OneSearch
  JobOf <- SameJob
  CamerasOf <- AllCameras
  SharedCfg = FALSE
  Pressure = FALSE
  MaxRuns = 1
  MaxFaults = 1
CHECK_DEADLOCK FALSE
INVARIANTS
  TypeOK
  NoOrphanSession
PROPERTIES
  NoOverwrite
  MutexReleased
