\* A guest disables an interrupt it enabled (GICD_ICENABLER<n>).  The UART's
\* SPI 33 is left out: boot enables it in hardware before the guest runs.
CONSTANTS
  CPUs = {0, 1}
  Privs = {27}
  Spis = {34, 48}
  Targets = {1}
  CrossGicr = FALSE
SPECIFICATION Spec
INVARIANTS
  DisabledIsMasked
CHECK_DEADLOCK FALSE
