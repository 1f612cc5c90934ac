CONSTANTS
  Procs = {p1, p2, p3}
  Blocks = {x, y, z}
  Values = {0, 1}
  None = None
  NBUF = 2
  MaxPinned = 1
CHECK_DEADLOCK FALSE
SPECIFICATION MCSpec
INVARIANTS BufferSound Coherent SleeperNotMissed RefExact EndsExact  Wired PromptReturns HeapSound GrepRight
