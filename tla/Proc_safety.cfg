CONSTANTS
  Slots = {init, p1, p2}
  CPUs = {c1, c2}
  initproc = init
  None = None
  Calls = {"fork", "exit", "wait", "kill"}
  KillPids = {0, 2, 3}
  MaxPid = 4
SPECIFICATION Spec
INVARIANTS SwitchSafe NoOrphan NoMissedExit
