SPECIFICATION Spec
CONSTANTS
  P = P  Pages = {P}  Stamps = {A, B}  PageOf <- MCPageOf  None = None
  Tasks = {r1, r2, l1}  Reqs = {r1, r2}  Priority <- MCPriority
  Concurrency = 2  Reserve = 1  PostRetries = 0  PollCap = 1
  Refreshes = 1  MaxNavs = 2
SYMMETRY MCSymmetry
INVARIANTS OneRequestOverSettledView HitRenders PinnedFresh
PROPERTIES QSpec
CHECK_DEADLOCK FALSE
