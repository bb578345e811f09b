CONSTANTS
  Files <- MCFiles
  NULL = NULL
SPECIFICATION Spec
INVARIANTS
  TextsFaithful
  NamesResolve
  RaiseHasCause
  
CHECK_DEADLOCK FALSE
