\* Two cores, xv6's three-descriptor chains, two requests in flight at most,
\* seven requests so that both rings wrap; 1998 is the last sector xv6 uses.
CONSTANTS
  CPUs = {0, 1}
  NUM = 6
  MaxReqs = 7
  Sectors = {1998}
  FSIMG_SIZE = 1000
  BLOCK_SIZE = 1024
  Boot = 0
  RingPfn = 262150
  Frame0 = 524400
  Frame1 = 524401
SPECIFICATION Spec
INVARIANTS TypeOK VisibleUsedCorrect DriverConfigured
PROPERTIES ImplementsBlkQueue
