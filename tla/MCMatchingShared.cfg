SPECIFICATION Spec
CONSTANTS
  s1 = s1
  s2 = s2
  s3 = s3
  d1 = d1
  d2 = d2
  d3 = d3
  i1 = i1
  e1 = e1
  t1 = t1
  t2 = t2
  Slots = {s1, s2, s3}
  Instruments = {i1}
  Engines = {e1}
  Home <- MCHome
  EngineOf <- MCEngineOf
  None = None
  Threads = {t1, t2}
  NewOrders <- OneLot
  FreshIds = TRUE
  MaxHeld = 2
SYMMETRY Interchangeable
CONSTRAINT NoneReleased
INVARIANT
  NotCrossed
