SPECIFICATION Spec
CONSTANTS
  Text <- Texts
  Start <- Starts
  Profile <- MCProfile
  SymbolAt <- MCSymbolAt
  Replacement = 100
  Maps <- SomeMaps
  Foreign <- Brk
  Thread = {1, 2, 3}
  Caller = 1
  Signal = {1, 2}
  None = None
INVARIANTS
  ReadyOnLiveCode
  PlanIsFaithful
  SelectedSignalIsFree
CHECK_DEADLOCK FALSE
