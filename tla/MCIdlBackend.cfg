CONSTANTS
  Directories <- MCDirectories
  Names = {"timer", "monitor", "observer"}
  NULL = NULL
SPECIFICATION Spec
INVARIANTS
  OutputsKept
  UsableIffSupported
  WireAgrees
  FailuresContained
CHECK_DEADLOCK FALSE
