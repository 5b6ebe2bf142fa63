CONSTANTS
  TotalPages = 10
  Layouts <- MCLayouts
INIT Init
NEXT Next
INVARIANTS TypeOK FrameOwnership BuiltLayout
CHECK_DEADLOCK FALSE
