CONSTANTS
  Readers = {r1}
  Writers = {w1, w2}
  Bytes = {0, 1}
  None = None
  PIPESIZE = 2
  UINT = 4
  MaxCount = 2
  Killable = {r1, w1}
CHECK_DEADLOCK FALSE
SPECIFICATION EndingSpec
INVARIANTS PipeSafe
PROPERTIES IsFifo CallsReturn
