SPECIFICATION Spec
CONSTANTS
  r1 = r1  r2 = r2  r3 = r3  s1 = s1  s2 = s2
  Requests = {r1, r2, r3}  Background = {}  Mode <- MCOneBypass
  Section = {s1, s2}  SectionOf <- MCSectionOf
  Experimental = TRUE  CostPaused = TRUE
  Deliveries = 2  Seconds = {0}  MaxUpsets = 1
  None = None
CONSTRAINT TwoActors
INVARIANTS BypassAnsweredFresh ExperimentalOnlyExplicit GuardedAnswersMatchSection
CHECK_DEADLOCK FALSE
