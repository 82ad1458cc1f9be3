SPECIFICATION Spec
CONSTANTS
  Attempt = {a1, a2, a3}
  Native = {a1, a2, a3}
  Generation = {}
  HeldAmount = {2}
  CostAmount = {1, 3}
  DailyCap = 4
  CustomCap = 3
  Day = 2
  Hour = 1
  HoldExpiry = 1
  Cutoff = 0
  Defer = 1
  MaxNow = 3
  Null = Null
CHECK_DEADLOCK FALSE
INVARIANTS UnknownCostKeepsHold
