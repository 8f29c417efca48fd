\* Two jobs, three starts, any number of stops, and a shutdown.
SPECIFICATION FairSpec
CONSTANTS
  j1 = j1
  j2 = j2
  i1 = i1
  i2 = i2
  i3 = i3
  None = None
  Jobs <- TwoJobs
  Instances <- ThreeInstances
CHECK_DEADLOCK FALSE
INVARIANTS
  TypeOK
  OneWorkerPerJob
  EventsOwnTag
  MemoryFreed
PROPERTIES
  MemoryKept
  LeaseSpec
  StopReturns
