SPECIFICATION Spec
CONSTANTS
  r1 = r1  r2 = r2  r3 = r3  s1 = s1  s2 = s2
  Requests = {r1, r2}  Background = {}  Mode <- MCPlain
  Section = {s1, s2}  SectionOf <- MCSectionOf
  Experimental = FALSE  CostPaused = FALSE
  Deliveries = 2  Seconds = {0}  MaxUpsets = 0
  None = None
INVARIANT RecordsMatchSection
CHECK_DEADLOCK FALSE
