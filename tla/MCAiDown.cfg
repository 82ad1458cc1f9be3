SPECIFICATION Spec
CONSTANTS
  Jobs = {j1}  Steps = {s1}  Gates = {g1}
  Transports <- MCAnyProducer  GatewayHits = TRUE  Troubles = {"credits"}
  HardTtl = 4  SoftTtl = 2  CreditsTtl = 2  MaxNow = 3
  None = None  Unread = Unread
INVARIANTS GateKnowsBalance
PROPERTIES ClearSparesMidRun StandingSentinelKept
CHECK_DEADLOCK FALSE
