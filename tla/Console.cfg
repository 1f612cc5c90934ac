CONSTANTS
  Readers = {r1, r2}
  Writers = {w1}
  Printers = {k1}
  None = None
  r1 = r1
  r2 = r2
  w1 = w1
  k1 = k1
  Casts <- MCCasts
  Keys = {"a", "nul", "cr", "^D", "^U", "^H", "^P"}
  INPUT_BUF_SIZE = 2
  UART_TX_BUF_SIZE = 1
  UINT = 4
  UINT64 = 3
  FIFO = 3
  Reads = {2}
SPECIFICATION Spec
VIEW View
 
PROPERTIES IsLineDiscipline 
