CONSTANTS
  TotalPages = 7
  Layouts <- MCLayouts
INIT Init
NEXT Next
INVARIANT AllocFailureNeverUsed
CHECK_DEADLOCK FALSE
