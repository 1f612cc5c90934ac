CONSTANTS
  Cpus = {c0, c1}
  Cpu0 = c0
  Procs = {p1, p2}
  None = None
SPECIFICATION MCSpec
VIEW View
INVARIANTS LocksMasked TrapsSafe NoPanic Contents BlocksOwned FitsInLog
