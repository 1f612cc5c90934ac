CONSTANTS
  Procs = {p1, p2}
  Blocks = {a, b, c, d}
  Values = {0}
  NoData = NoData
  NoBlock = NoBlock
  MAXOPBLOCKS = 2
  LOGSIZE = 4
  NLOG = 5
  OPBLOCKS = 1
  CopyFaults = TRUE
SPECIFICATION LiveSpec
INVARIANTS NoPanic
PROPERTIES LogProgress
