CONSTANTS
  Slots = {init, p1}
  CPUs = {c1, c2}
  initproc = init
  None = None
  Calls = {"fork", "exit", "wait", "kill", "sleep"}
  KillPids = {2}
  MaxPid = 2
SPECIFICATION LiveSpec
PROPERTIES ZombieReaped KilledExits
