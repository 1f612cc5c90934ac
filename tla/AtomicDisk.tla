----------------------------- MODULE AtomicDisk -----------------------------
(***************************************************************************)
(* What the logging layer (kernel/log.c) promises to the file system: the  *)
(* blocks on the disk change only as a whole, from the state between two   *)
(* groups of system calls to the state between two later groups.  A crash  *)
(* forgets what is not yet on the disk and never leaves half of a call's   *)
(* writes there.                                                           *)
(***************************************************************************)
CONSTANTS Procs, Blocks, Values

VARIABLES
  mem,      \* the blocks as running system calls see them
  disk,     \* the blocks as a reboot would find them
  active    \* the processes between begin_op() and end_op()

vars == <<mem, disk, active>>

Init ==
  /\ disk \in [Blocks -> Values]
  /\ mem = disk
  /\ active = {}

Begin(p) ==
  /\ p \notin active
  /\ active' = active \cup {p}
  /\ UNCHANGED <<mem, disk>>

Write(p, b, v) ==
  /\ p \in active
  /\ mem' = [mem EXCEPT ![b] = v]
  /\ UNCHANGED <<disk, active>>

End(p) ==
  /\ p \in active
  /\ active' = active \ {p}
  /\ UNCHANGED <<mem, disk>>

(* All finished calls become durable at one instant, when none is active. *)
Commit ==
  /\ active = {}
  /\ disk' = mem
  /\ UNCHANGED <<mem, active>>

Crash ==
  /\ mem' = disk
  /\ active' = {}
  /\ UNCHANGED disk

Next ==
  \/ \E p \in Procs : Begin(p) \/ End(p)
  \/ \E p \in Procs, b \in Blocks, v \in Values : Write(p, b, v)
  \/ Commit
  \/ Crash

Spec == Init /\ [][Next]_vars
=============================================================================
