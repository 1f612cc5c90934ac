CONSTANTS
  Procs = {p1, p2}
  Blocks = {a, b}
  Values = {0, 1}
  NoData = NoData
  NoBlock = NoBlock
  MAXOPBLOCKS = 2
  LOGSIZE = 4
  NLOG = 3
  OPBLOCKS = 2
  CopyFaults = FALSE
SPECIFICATION Spec
INVARIANTS CacheSound 
PROPERTIES Atomic
