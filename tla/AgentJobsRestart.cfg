\* A job is started again while it runs.
SPECIFICATION FairSpec
CONSTANTS
  j1 = j1
  j2 = j2
  i1 = i1
  i2 = i2
  i3 = i3
  None = None
  Jobs <- OneJob
  Instances <- TwoInstances
CHECK_DEADLOCK FALSE
PROPERTY
  RestartReturns
