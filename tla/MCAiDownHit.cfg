SPECIFICATION Spec
CONSTANTS
  Jobs = {j1, j2}  Steps = {}  Gates = {}
  Transports <- MCGateway  GatewayHits = TRUE  Troubles = {"credits"}
  HardTtl = 3  SoftTtl = 1  CreditsTtl = 1  MaxNow = 2
  None = None  Unread = Unread
PROPERTY ClearsOnlyDisproved
CHECK_DEADLOCK FALSE
