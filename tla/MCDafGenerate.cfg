SPECIFICATION GSpec
CONSTANTS
  Pages = {A, B}  Requests = {r1, r2, r3}  NoPage = NoPage
SYMMETRY MCSymmetry
INVARIANTS OneGeneration SentinelBacked
