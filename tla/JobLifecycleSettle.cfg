\* Two starts that pass the runtime check together, no faults, one of them scheduled.
SPECIFICATION FairSpec
CONSTANTS
  r1 = r1
  r2 = r2
  s1 = s1
  h1 = h1
  h2 = h2
  None = None
  Runs <- TwoRuns
  Scheduled <- OneRun
  Stops <- NoRuns
  Handlers <- OneHandler
  MaxId = 3
  MaxCycles = 1
  MaxFaults = 0
PROPERTIES
  CommandsSettle
