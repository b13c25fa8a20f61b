SPECIFICATION StructuresSpec
CONSTANTS
  o1 = o1
  o2 = o2
  o3 = o3
  o4 = o4
  Orders <- MCOrders
  Null = Null
  a = a
  b = b
  Capacity = 4
  Values <- MCValues
  MaxPushes = 9
INVARIANTS
  WellLinked
  TypeOK
  NoCellRace
PROPERTIES
  IsLevelQueue
  IsBoundedFifo
  PushedIsPopped
