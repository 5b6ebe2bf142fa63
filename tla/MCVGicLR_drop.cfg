\* Two interrupts routed to CPU 0 but a single list register: the second
\* injection fails in vgic_lr_alloc after the interrupt was acknowledged.
CONSTANTS
  CPUs = {0, 1}
  IRQs = {33, 48, 49}
  LevelIRQs = {}
  Target <- MCTarget
  NLR = 1
  Spurious <- MCSpurious
  WfiPolls = 2
SPECIFICATION FairSpec
PROPERTIES
  AckedEventuallyDeactivated
