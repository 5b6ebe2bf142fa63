\* Safety of list-register bookkeeping with fewer LRs than interrupts
\* routed to CPU 0, and a level-sensitive source that can deassert.
CONSTANTS
  CPUs = {0, 1}
  IRQs = {33, 48, 50, 49}
  LevelIRQs = {33}
  Target <- MCTarget
  NLR = 2
  Spurious <- MCSpurious
  WfiPolls = 2
SPECIFICATION Spec
INVARIANTS
  TypeOK
  NoDuplicateHwIntid
PROPERTIES
  ImplementsVIrq
  LiveLrNeverOverwritten
