CONSTANTS
  VCpus = {0, 1, 2}
  Boot = 0
  EntryPoint = 64
  Code = {0}
  Entries = {128}
  Targets = {0, 1, 2}
  WellBehaved = FALSE
INIT Init
NEXT Next
PROPERTY LifecycleForward
CHECK_DEADLOCK FALSE
