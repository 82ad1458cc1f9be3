SPECIFICATION Spec
CONSTANTS
  Jobs = {j1}  Steps = {}  Gates = {g1}
  Transports <- MCGateway  GatewayHits = FALSE  Troubles = {"credits"}
  HardTtl = 3  SoftTtl = 1  CreditsTtl = 1  MaxNow = 2
  None = None  Unread = Unread
PROPERTY BalanceClearsOnlyDisproved
CHECK_DEADLOCK FALSE
