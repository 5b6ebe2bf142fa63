\* Each vCPU programs only its own redistributor frame (as xv6 does).
CONSTANTS
  CPUs = {0, 1}
  Privs = {27}
  Spis = {33, 48}
  Targets = {1}
  CrossGicr = FALSE
SPECIFICATION Spec
INVARIANTS
  TypeOK
  EnabledIsForwarded
CHECK_DEADLOCK FALSE
