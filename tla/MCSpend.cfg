SPECIFICATION Spec
CONSTANTS
  Attempt = {a1,a2,a3}
  Native = {a3}
  Generation = {g1}
  HeldAmount = {2}
  CostAmount = {1,3}
  DailyCap = 3
  CustomCap = 2
  Day = 2
  Hour = 1
  HoldExpiry = 1
  Cutoff = 0
  Defer = 1
  MaxNow = 2
  Null = Null
CONSTRAINT TwoAttempts
SYMMETRY SymRouted
CHECK_DEADLOCK FALSE
INVARIANTS CapsHold StatusAgrees ChargedOnce ReceiptsBacked NoneStranded
PROPERTIES SettlementFinal
