\* Three events, the second always refused, one camera of two refused, one fault.
SPECIFICATION FairSpec
CONSTANTS
  t1 = t1
  t2 = t2
  m1 = m1
  None = None
  MaxEvents = 3
  Poison <- SecondEvent
  EventBatch = 2
  MaxAttempts = 2
  Keys <- ThreeKeys
  Routes = 2
  RouteOf <- TwoTables
  Broken <- RefusedKey
  LatestBatch = 1
  MaxFaults = 1
INVARIANTS
  TypeOK
  NotifiedOnce
PROPERTIES
  InOrder
  DeliverySpec
  EventsSettle
  LatestServed
