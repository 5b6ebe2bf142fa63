\* The UART interrupt (33) is level-sensitive and may deassert between the
\* IRQ exception and the read of ICC_IAR1_EL1.
CONSTANTS
  CPUs = {0, 1}
  IRQs = {33, 48, 49}
  LevelIRQs = {33}
  Target <- MCTarget
  NLR = 2
  Spurious <- MCSpurious
  WfiPolls = 2
SPECIFICATION Spec
INVARIANTS
  NoSpuriousInjection
