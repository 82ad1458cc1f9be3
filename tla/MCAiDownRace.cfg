SPECIFICATION Spec
CONSTANTS
  Jobs = {j1, j2, j3}  Steps = {}  Gates = {}
  Transports <- MCGateway  GatewayHits = FALSE  Troubles = {"credits", "key-limit"}
  HardTtl = 3  SoftTtl = 2  CreditsTtl = 1  MaxNow = 1
  None = None  Unread = Unread
PROPERTY ClearSparesNewer
CHECK_DEADLOCK FALSE
