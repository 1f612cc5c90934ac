CONSTANTS
  Procs = {p1, p2}
  First = p1
  None = None
  NPAGES = 18
  PGSIZE = 4
  FAN = 3
  WORD = 64
  MAXARG = 2
  Sbrks <- MCSbrks
  Stored = {1}
  Programs <- MCPrograms
SPECIFICATION Spec
VIEW View
INVARIANTS PagesSafe
PROPERTIES IsAddressSpace
