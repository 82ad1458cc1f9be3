CONSTANTS
  geo = geo
  places = places
  essay = essay
  prof = prof
  syn = syn
  gone = gone
  arg = arg
  i1 = i1
  i2 = i2
  Mark <- MCMark
  WholeDaf <- MCWholeDaf
  PerInst <- MCPerInst
  Excluded <- MCExcluded
  DepsOf <- MCDepsOf
  Target <- MCTarget
  Iid <- MCIid
  Outputs <- MCOutputs
  NoDef <- MCNoDef
  Movable = {}
  HePrompt <- MCHePrompt
  Lang = "he"
  Width = 2
  MaxRestarts = 0
  None = None
SPECIFICATION Spec
CHECK_DEADLOCK FALSE
INVARIANT FinishedCoversInstances

