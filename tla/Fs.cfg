CONSTANTS
  Procs = {p1, p2}
  None = None
  NINODES = 3
  a = "a"
  b = "b"
  Names = {"a", "b"}
  Calls <- MCCalls
SPECIFICATION Spec
SYMMETRY Symmetry
INVARIANTS TreeSound OpenKept 
