\* A stop during a wait between two cycles, without any fault.
SPECIFICATION Spec
CONSTANTS
  r1 = r1
  r2 = r2
  s1 = s1
  h1 = h1
  h2 = h2
  None = None
  Runs <- OneRun
  Scheduled <- NoRuns
  Stops <- OneStop
  Handlers <- OneHandler
  MaxId = 4
  MaxCycles = 2
  MaxFaults = 0
PROPERTY
  StopSticks
