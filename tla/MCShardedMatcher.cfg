SPECIFICATION FairShardSpec
CONSTANTS
  s1 = s1
  s2 = s2
  i1 = i1
  i2 = i2
  e1 = e1
  e2 = e2
  Slots = {s1, s2}
  Instruments = {i1, i2}
  Engines = {e1, e2}
  Threads = {e1, e2}
  Home <- MCHome
  EngineOf <- MCEngineOf
  NewOrders <- MCOrders
  FreshIds = TRUE
  MaxHeld = 2
  None = None
  QueueBound = 2
  MaxCommands <- MCMaxCommands
INVARIANTS
  OneOwner
  CountersMatchWork
  IdleMeansDone
  CancelledIsGone
  DestroyedIsDrained
PROPERTIES
  WaitIdleReturns
  DestructorReturns
  FullQueueDrains
\* After the destructor nothing runs any more.
CHECK_DEADLOCK FALSE
