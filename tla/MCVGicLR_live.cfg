\* Liveness of interrupt completion when CPU 0 has as many list registers
\* as interrupts routed to it (33 and 48) and all sources are edge-like.
CONSTANTS
  CPUs = {0}
  IRQs = {33, 48}
  LevelIRQs = {}
  Target <- MCTarget
  NLR = 2
  Spurious <- MCSpurious
  WfiPolls = 2
SPECIFICATION FairSpec
PROPERTIES
  AckedEventuallyDeactivated
  PendingEventuallyTaken
