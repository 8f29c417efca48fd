\* Two jobs on the same two cameras, starts refused for lack of memory.
SPECIFICATION Spec
CONSTANTS
  c1 = c1
  c2 = c2
  j1 = j1
  j2 = j2
  s1 = s1
  s2 = s2
  q1 = q1
  Cmd = Cmd
  None = None
  Cameras <- TwoCameras
  Jobs <- TwoJobs
  Steps <- TwoSteps
  Searches <- NoThreads
  JobOf <- JobEach
  CamerasOf <- AllCameras
  SharedCfg = TRUE
  Pressure = TRUE
  MaxRuns = 2
  MaxFaults = 1
CHECK_DEADLOCK FALSE
INVARIANTS
  SessionInUse
