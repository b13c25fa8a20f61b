SPECIFICATION Spec
CONSTANTS
  c1 = c1
  c2 = c2
  Conns = {c1, c2}
  Fds = {7, 8}
  None = None
  kHeaderSize = 2
  MaxTrades = 1
  Scripts <- MCScripts
INVARIANTS
  StreamIsKept
  OrdersOnlyWhenActive
  OneVerdictEach
  LogoutIsAnswered
  SocketIsMine
  StopLeavesNothing
PROPERTY
  StopReturnsIfWoken
CHECK_DEADLOCK FALSE
