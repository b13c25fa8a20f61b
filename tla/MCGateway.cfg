SPECIFICATION GatewaySpec
CONSTANTS
  s1 = s1
  s2 = s2
  s3 = s3
  e1 = e1
  e2 = e2
  c1 = c1
  c2 = c2
  Slots = {s1, s2, s3}
  Instruments = {1, 2}
  Engines = {e1, e2}
  Home <- MCHome
  Pumper = Pumper
  Threads = {Pumper}
  EngineOf <- MCEngineOf
  NewOrders <- MCNewOrders
  FreshIds = TRUE
  MaxHeld = 1
  None = None
  NoMessage = NoMessage
  kByte = 12
  kMaxBodySize = 40
  Clients = {c1, c2}
  Scenarios <- MCScenarios
  Cuts = {5, 8, 20}
SYMMETRY Interchangeable
INVARIANTS
  WireIsTransparent
  MessagesExplainBook
PROPERTIES
  ReasonIsTrue
  ImplementsSession
CHECK_DEADLOCK FALSE
