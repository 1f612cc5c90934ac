CONSTANTS
  b1 = b1
  b2 = b2
  b3 = b3
  Bufs <- MCBufs
  Requests <- MCRequests
  None = None
  Intr = Intr
  NUM = 7
  IDX = 7
SPECIFICATION LiveSpec
VIEW View
INVARIANTS QueueSound
PROPERTIES IsBlockDevice RequestReturns
