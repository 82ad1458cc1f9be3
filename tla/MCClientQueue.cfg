SPECIFICATION QFairSpec
CONSTANTS
  high = high  normal = normal  low1 = low1  low2 = low2
  Tasks = {high, normal, low1, low2}  Priority <- MCPriority
  Concurrency = 2  Reserve = 1  PostRetries = 1  PollCap = 2
INVARIANTS ReserveHeld ForegroundWaitsForForeground FifoWithinTier
PROPERTIES Settles
CHECK_DEADLOCK FALSE
