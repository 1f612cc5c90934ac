----------------------------- MODULE ProcProofs -----------------------------
(***************************************************************************)
(* SwitchSafe, NoOrphan and NoMissedExit of module Proc, for any number of *)
(* slots and CPUs and whatever programs call.                              *)
(***************************************************************************)
EXTENDS Proc, TLAPS

Alive == {"SLEEPING", "RUNNABLE", "RUNNING"}

(* A CPU is on the stack of a process in one of three ways: p is switching  *)
(* to it, away from it, or in between.  p->lock is held just in the first   *)
(* two.  Without a CPU a process is in swtch().                             *)
OneCPU == \A c, d \in CPUs : run[c] = run[d] /\ run[c] # None => c = d

SwitchOK ==
  \A p \in Slots :
    /\ ~Running(p) => pc[p] = "sched" /\ ~plock[p] /\ state[p] # "RUNNING"
    /\ Running(p) /\ pc[p] = "sched" => plock[p] /\ state[p] \in {"RUNNABLE", "SLEEPING", "ZOMBIE"}
    /\ pc[p] = "resume" => plock[p] /\ state[p] = "RUNNING"
    /\ pc[p] \notin {"sched", "resume"} => ~plock[p] /\ state[p] = "RUNNING"

(* The code under wait_lock and under tickslock *)
ExitPCs == {"exit_reparent", "exit_wakeinit", "exit_wakeparent", "exit_zombie"}

LocksOK ==
  /\ \A p \in Slots :
       /\ wait_lock = p <=> pc[p] \in ExitPCs \cup {"wait_scan", "wait_sleep"}
       /\ tickslock = p <=> pc[p] \in {"sleep_check", "sleep_sleep"}
  /\ scan # {} => tickslock = "clock"

(* Where a process is, or will be when it is back from sched() *)
Where(p) == IF pc[p] \in {"sched", "resume"} THEN resume[p] ELSE pc[p]

(* A fork() in progress has a child of its own, that has a parent only after  *)
(* fork_parent().                                                             *)
ForkChild ==
  \A p \in Slots :
    np[p] # None =>
      /\ state[p] \in Alive
      /\ state[np[p]] = "USED"
      /\ Where(p) \in {"fork_parent", "fork_run"}
      /\ Where(p) = "fork_run" => parent[np[p]] = p

ForkOwn == \A p, q \in Slots : np[p] = np[q] /\ np[p] # None => p = q

(* init never exits. *)
InitOK == state[initproc] \in Alive /\ pc[initproc] \notin ExitPCs \cup {"exit"} /\ resume[initproc] # "exit"

(* Every parent is alive, every process has one, and whoever is through       *)
(* reparent() is none.                                                        *)
ParentAlive == \A q \in Slots : parent[q] # None => state[parent[q]] \in Alive

HasParent == \A q \in Slots \ {initproc} : state[q] \in Alive \cup {"ZOMBIE"} => parent[q] # None

Childless == \A p, q \in Slots : pc[p] \in ExitPCs \ {"exit_reparent"} => parent[q] # p

(* A process asleep in wait() has a zombie child only as long as the wakeup   *)
(* of init is under way, after reparent(); one about to sleep in wait() has   *)
(* none; and exit() finds the parent awake when it is about to become one.    *)
InWait(p) == state[p] = "SLEEPING" /\ chan[p] = p

ZombieSeen ==
  \A p, q \in Slots : InWait(p) /\ parent[q] = p /\ state[q] = "ZOMBIE" =>
    p = initproc /\ \E r \in Slots : wait_lock = r /\ pc[r] = "exit_wakeinit"

NoZombie == \A p, q \in Slots : pc[p] = "wait_sleep" /\ parent[q] = p => state[q] # "ZOMBIE"

ParentAwake == \A p \in Slots : pc[p] = "exit_zombie" => ~InWait(parent[p])

Inv ==
  /\ TypeOK /\ OneCPU /\ SwitchOK /\ LocksOK
  /\ ForkChild /\ ForkOwn
  /\ InitOK /\ ParentAlive /\ HasParent /\ Childless
  /\ ZombieSeen /\ NoZombie /\ ParentAwake

(* What a process in the middle of a system call relies on *)
LEMMA Types ==
  ASSUME Inv
  PROVE  \A x \in Slots : /\ np[x] \in Slots \cup {None} /\ parent[x] \in Slots \cup {None}
                          /\ state[x] \in States /\ pc[x] \in PCs /\ resume[x] \in LockFreePCs
BY DEF Inv, TypeOK

(* A process in exit() has a parent. *)
LEMMA ParentIs ==
  ASSUME Inv, NEW x \in Slots, pc[x] \in ExitPCs
  PROVE  parent[x] \in Slots /\ x # initproc
<1>1. x # initproc BY DEF Inv, InitOK
<1>2. state[x] = "RUNNING" BY DEF Inv, SwitchOK, ExitPCs
<1>3. parent[x] # None BY <1>1, <1>2 DEF Inv, HasParent, Alive
<1> QED BY <1>1, <1>3, Types

(* Only one process is in exit() or wait() under wait_lock. *)
LEMMA OneWait ==
  ASSUME Inv, NEW p \in Slots, pc[p] \in ExitPCs \cup {"wait_scan", "wait_sleep"}
  PROVE  \A x \in Slots : pc[x] \in ExitPCs \cup {"wait_scan", "wait_sleep"} => x = p
BY DEF Inv, LocksOK

(* exit() still finds the parent awake when no process begins to sleep in    *)
(* wait().                                                                   *)
LEMMA AwakeKept ==
  ASSUME Inv,
         \A x \in Slots : pc'[x] = "exit_zombie" => pc[x] = "exit_zombie" /\ parent'[x] = parent[x],
         \A x \in Slots : InWait(x)' => InWait(x)
  PROVE  ParentAwake'
<1>1. SUFFICES ASSUME NEW x \in Slots, pc'[x] = "exit_zombie"
               PROVE  ~(state'[parent'[x]] = "SLEEPING" /\ chan'[parent'[x]] = parent'[x])
  BY DEF ParentAwake, InWait
<1>2. parent'[x] = parent[x] /\ pc[x] = "exit_zombie" BY <1>1
<1>3. parent[x] \in Slots BY <1>2, ParentIs DEF ExitPCs
<1>4. ~InWait(parent[x]) BY <1>2 DEF Inv, ParentAwake
<1>5. \A k \in Slots : ~InWait(k) => ~(state'[k] = "SLEEPING" /\ chan'[k] = k) BY DEF InWait
<1> QED BY <1>2, <1>3, <1>4, <1>5

(* p may go on to m in its system call, other than fork(), when it touches    *)
(* neither a process nor p->lock.                                             *)
CanJump(p, m) ==
  /\ Running(p)
  /\ pc[p] \notin {"sched", "resume", "fork_parent", "fork_run", "exit_wakeinit"}
  /\ m \in PCs \ {"sched", "resume", "fork_parent", "fork_run", "exit_wakeinit", "exit_wakeparent", "exit_zombie"}
  /\ p = initproc => m \notin {"exit", "exit_reparent"}
  /\ m = "wait_sleep" => \A x \in Slots : parent[x] = p => state[x] # "ZOMBIE"

(* Such a step keeps the invariant when it keeps the types and the locks. *)
LEMMA Jump ==
  ASSUME Inv, TypeOK', LocksOK', NEW p \in Slots, NEW m, CanJump(p, m),
         pc' = [pc EXCEPT ![p] = m],
         UNCHANGED <<state, chan, parent, plock, run, resume, np>>
  PROVE  Inv'
<1> USE DEF Inv, CanJump
<1>1. \A x \in Slots : Running(x)' = Running(x) BY Zenon DEF Running
<1>2. \A x \in Slots : pc'[x] = IF x = p THEN m ELSE pc[x] BY DEF TypeOK
<1>3. OneCPU' BY DEF OneCPU
<1>4. SwitchOK' BY <1>1, <1>2 DEF SwitchOK
<1>5. np[p] = None BY DEF ForkChild, Where
<1>6. ForkChild' BY <1>2, <1>5 DEF ForkChild, Where
<1>7. ForkOwn' BY DEF ForkOwn
<1>8. ParentAlive' /\ HasParent' BY DEF ParentAlive, HasParent
<1>9. InitOK' BY <1>2 DEF InitOK, ExitPCs
<1>10. Childless' BY <1>2 DEF Childless, ExitPCs
<1>11. ZombieSeen'
  <2>1. \A x \in Slots : InWait(x)' = InWait(x) BY DEF InWait
  <2>2. \A x \in Slots : pc[x] = "exit_wakeinit" => pc'[x] = "exit_wakeinit" /\ wait_lock' = x
    BY <1>2 DEF LocksOK, ExitPCs
  <2> QED BY <2>1, <2>2 DEF ZombieSeen
<1>12. NoZombie' BY <1>2 DEF NoZombie
<1>13. ParentAwake'
  <2>1. \A x \in Slots : InWait(x)' => InWait(x) BY DEF InWait
  <2>2. \A x \in Slots : pc'[x] = "exit_zombie" => pc[x] = "exit_zombie" BY <1>2
  <2> QED BY <2>1, <2>2, AwakeKept
<1> QED BY <1>3, <1>4, <1>6, <1>7, <1>8, <1>9, <1>10, <1>11, <1>12, <1>13

(* The scheduler finds p RUNNABLE and unlocked, so no CPU is on its stack. *)
LEMMA schedulerStep ==
  ASSUME Inv, NEW c \in CPUs, NEW p \in Slots, scheduler(c, p)
  PROVE  Inv'
<1> USE ConstantsAssumption DEF Inv, scheduler, At, Goto, procs, locks, thread
<1>0. ~Running(p) /\ pc[p] = "sched" BY DEF SwitchOK
<1>1. TypeOK' BY DEF TypeOK, PCs, LockFreePCs, States
<1>2. OneCPU' BY <1>0 DEF TypeOK, OneCPU, Running
<1>3. SwitchOK' BY <1>0 DEF TypeOK, SwitchOK, Running
<1>4. LocksOK' BY <1>0 DEF TypeOK, LocksOK, ExitPCs
<1>5. ForkChild' BY <1>0 DEF TypeOK, ForkChild, Where, Alive
<1>6. ForkOwn' BY <1>0 DEF TypeOK, ForkOwn
<1>7. InitOK' BY <1>0 DEF TypeOK, InitOK, ExitPCs, Alive
<1>8. ParentAlive' BY <1>0 DEF TypeOK, ParentAlive, Alive
<1>9. HasParent' BY <1>0 DEF TypeOK, HasParent, Alive
<1>10. Childless' BY <1>0 DEF TypeOK, Childless, ExitPCs
<1>11. ZombieSeen' BY <1>0 DEF TypeOK, ZombieSeen, InWait
<1>12. NoZombie' BY <1>0 DEF TypeOK, NoZombie
<1>13. ParentAwake' BY <1>0 DEF TypeOK, ParentAwake, InWait
<1> QED BY <1>1, <1>2, <1>3, <1>4, <1>5, <1>6, <1>7, <1>8, <1>9, <1>10, <1>11, <1>12, <1>13

(* Only one CPU was on the stack of p, and then none is. *)
LEMMA schedStep ==
  ASSUME Inv, NEW c \in CPUs, NEW p \in Slots, sched(c, p)
  PROVE  Inv'
<1> USE ConstantsAssumption DEF Inv, sched, At, Goto, procs, locks, thread
<1>0. /\ Running(p) /\ ~Running(p)'
      /\ \A x \in Slots \ {p} : Running(x)' = Running(x)
  BY DEF TypeOK, OneCPU, Running
<1>1. TypeOK' BY DEF TypeOK, PCs, LockFreePCs, States
<1>2. OneCPU' BY <1>0 DEF TypeOK, OneCPU
<1>3. SwitchOK' BY <1>0 DEF TypeOK, SwitchOK
<1>4. LocksOK' BY <1>0 DEF TypeOK, LocksOK, ExitPCs
<1>5. ForkChild' BY <1>0 DEF TypeOK, ForkChild, Where, Alive
<1>6. ForkOwn' BY <1>0 DEF TypeOK, ForkOwn
<1>7. InitOK' BY <1>0 DEF TypeOK, InitOK, ExitPCs, Alive
<1>8. ParentAlive' BY <1>0 DEF TypeOK, ParentAlive, Alive
<1>9. HasParent' BY <1>0 DEF TypeOK, HasParent, Alive
<1>10. Childless' BY <1>0 DEF TypeOK, Childless, ExitPCs
<1>11. ZombieSeen' BY <1>0 DEF TypeOK, ZombieSeen, InWait
<1>12. NoZombie' BY <1>0 DEF TypeOK, NoZombie
<1>13. ParentAwake' BY <1>0 DEF TypeOK, ParentAwake, InWait
<1> QED BY Zenon, <1>1, <1>2, <1>3, <1>4, <1>5, <1>6, <1>7, <1>8, <1>9, <1>10, <1>11, <1>12, <1>13

(* p goes on where it was, in code that holds no lock. *)
LEMMA ResumeStep ==
  ASSUME Inv, NEW p \in Slots, Resume(p)
  PROVE  Inv'
<1> USE ConstantsAssumption DEF Inv, Resume, At, Goto, procs, locks, thread
<1>0. \A x \in Slots : Running(x)' = Running(x) BY DEF Running
<1>1. TypeOK' BY DEF TypeOK, PCs, LockFreePCs, States
<1>2. OneCPU' BY <1>0 DEF TypeOK, OneCPU
<1>3. SwitchOK' BY <1>0 DEF TypeOK, SwitchOK, LockFreePCs
<1>4. LocksOK' BY DEF TypeOK, LocksOK, ExitPCs, LockFreePCs
<1>5. ForkChild' BY DEF TypeOK, ForkChild, Where, Alive
<1>6. ForkOwn' BY DEF TypeOK, ForkOwn
<1>7. InitOK' BY DEF TypeOK, InitOK, ExitPCs, Alive, LockFreePCs
<1>8. ParentAlive' BY DEF TypeOK, ParentAlive, Alive
<1>9. HasParent' BY DEF TypeOK, HasParent, Alive
<1>10. Childless' BY DEF TypeOK, Childless, ExitPCs, LockFreePCs
<1>11. ZombieSeen' BY DEF TypeOK, ZombieSeen, InWait
<1>12. NoZombie' BY DEF TypeOK, NoZombie, LockFreePCs
<1>13. ParentAwake' BY DEF TypeOK, ParentAwake, InWait, LockFreePCs
<1> QED BY <1>1, <1>2, <1>3, <1>4, <1>5, <1>6, <1>7, <1>8, <1>9, <1>10, <1>11, <1>12, <1>13

(* An interrupted process comes back to the same place. *)
LEMMA yieldStep ==
  ASSUME Inv, NEW p \in Slots, yield(p)
  PROVE  Inv'
<1>1. /\ pc[p] \in LockFreePCs /\ Running(p)
      /\ \A x \in Slots : plock'[x] = IF x = p THEN TRUE ELSE plock[x]
      /\ \A x \in Slots : state'[x] = IF x = p THEN "RUNNABLE" ELSE state[x]
      /\ \A x \in Slots : resume'[x] = IF x = p THEN pc[p] ELSE resume[x]
      /\ \A x \in Slots : pc'[x] = IF x = p THEN "sched" ELSE pc[x]
      /\ UNCHANGED <<chan, parent, wait_lock, tickslock, run, np, scan>>
  BY Zenon DEF Inv, TypeOK, yield, At, Goto, procs, locks, thread
<1>2. TypeOK' BY Zenon, ConstantsAssumption DEF Inv, TypeOK, PCs, LockFreePCs, States, yield, At, Goto, procs, locks, thread
<1>3. \A x \in Slots : Running(x)' = Running(x) BY <1>1, Zenon DEF Running
<1>4. \A x \in Slots : /\ np[x] \in Slots \cup {None} /\ parent[x] \in Slots \cup {None}
                         /\ state[x] \in States /\ pc[x] \in PCs /\ resume[x] \in LockFreePCs
  BY Types
<1> USE ConstantsAssumption, <1>1, <1>3, <1>4 DEF Inv
<1>5. OneCPU' BY DEF OneCPU
<1>6. SwitchOK'
  <2> SUFFICES ASSUME NEW x \in Slots
               PROVE  /\ ~Running(x) => pc'[x] = "sched" /\ ~plock'[x] /\ state'[x] # "RUNNING"
                      /\ Running(x) /\ pc'[x] = "sched" => plock'[x] /\ state'[x] \in {"RUNNABLE", "SLEEPING", "ZOMBIE"}
                      /\ pc'[x] = "resume" => plock'[x] /\ state'[x] = "RUNNING"
                      /\ pc'[x] \notin {"sched", "resume"} => ~plock'[x] /\ state'[x] = "RUNNING"
    BY DEF SwitchOK
  <2>1. CASE x = p BY <2>1, Zenon DEF SwitchOK
  <2>2. CASE x # p
    <3>1. pc'[x] = pc[x] /\ plock'[x] = plock[x] /\ state'[x] = state[x] BY <2>2, Zenon
    <3> HIDE ConstantsAssumption, <1>1, <1>3, <1>4
    <3> QED BY <3>1, Zenon DEF SwitchOK
  <2> QED BY <2>1, <2>2
<1>7. LocksOK' BY DEF LocksOK, ExitPCs, LockFreePCs
<1>8. ForkChild' BY SMTT(30) DEF SwitchOK, ForkChild, Where, Alive, LockFreePCs
<1>9. ForkOwn' BY DEF ForkOwn
<1>10. InitOK' BY DEF InitOK, ExitPCs, Alive
<1>11. ParentAlive' BY DEF ParentAlive, Alive
<1>12. HasParent' BY DEF SwitchOK, HasParent, Alive
<1>13. Childless' BY DEF Childless, ExitPCs
<1>14. ZombieSeen' BY DEF LocksOK, ZombieSeen, ExitPCs, InWait, LockFreePCs
<1>15. NoZombie' BY DEF NoZombie
<1>16. ParentAwake'
  <2>1. \A x \in Slots : InWait(x)' => InWait(x) BY DEF InWait
  <2> QED BY <2>1, AwakeKept
<1> QED BY <1>2, <1>5, <1>6, <1>7, <1>8, <1>9, <1>10, <1>11, <1>12, <1>13, <1>14, <1>15, <1>16

(* An unused slot is in no other fork() and nobody's parent. *)
LEMMA fork_allocStep ==
  ASSUME Inv, NEW p \in Slots, NEW q \in Slots, fork_alloc(p, q)
  PROVE  Inv'
<1> USE ConstantsAssumption DEF Inv, fork_alloc, At, Goto, procs, locks, thread, Syscall
<1>0. \A x \in Slots : Running(x)' = Running(x) BY DEF Running
<1>1. TypeOK' BY DEF TypeOK, PCs, LockFreePCs, States
<1>2. OneCPU' BY <1>0 DEF TypeOK, OneCPU
<1>3. SwitchOK' BY ZenonT(30), <1>0 DEF TypeOK, SwitchOK
<1>4. LocksOK' BY DEF TypeOK, SwitchOK, LocksOK, ExitPCs
<1>5. ForkChild' BY DEF TypeOK, SwitchOK, ForkChild, Where, Alive
<1>6. ForkOwn' BY DEF TypeOK, ForkChild, ForkOwn, Where, Alive
<1>7. InitOK' BY Zenon DEF TypeOK, InitOK, ExitPCs, Alive
<1>8. ParentAlive' BY Zenon DEF TypeOK, ParentAlive, Alive
<1>9. HasParent' BY Zenon DEF TypeOK, HasParent, Alive
<1>10. Childless' BY ZenonT(30) DEF TypeOK, Childless, ExitPCs
<1>11. ZombieSeen' BY DEF TypeOK, SwitchOK, ZombieSeen, InWait, LockFreePCs
<1>12. NoZombie' BY DEF TypeOK, SwitchOK, NoZombie
<1>13. ParentAwake' BY DEF TypeOK, ParentAwake, InWait, LockFreePCs
<1> QED BY <1>1, <1>2, <1>3, <1>4, <1>5, <1>6, <1>7, <1>8, <1>9, <1>10, <1>11, <1>12, <1>13

(* What allocproc() took is given back as it was. *)
LEMMA fork_failStep ==
  ASSUME Inv, NEW p \in Slots, NEW q \in Slots, fork_fail(p, q)
  PROVE  Inv'
<1>1. /\ state[q] = "UNUSED" /\ ~plock[q]
      /\ \A x \in Slots : state'[x] = IF x = q THEN "UNUSED" ELSE state[x]
      /\ \A x \in Slots : parent'[x] = IF x = q THEN None ELSE parent[x]
      /\ \A x \in Slots : chan'[x] = IF x = q THEN None ELSE chan[x]
      /\ UNCHANGED <<plock, wait_lock, tickslock, run, pc, resume, np, scan>>
  BY DEF Inv, TypeOK, fork_fail, Syscall, At, Goto, procs, locks, thread, freeproc
<1>2. TypeOK' BY ConstantsAssumption DEF Inv, TypeOK, PCs, LockFreePCs, States, fork_fail, Syscall, At, Goto, procs, locks, thread, freeproc
<1>3. \A x \in Slots : Running(x)' = Running(x) BY <1>1, Zenon DEF Running
<1>4. \A x \in Slots : /\ np[x] \in Slots \cup {None} /\ parent[x] \in Slots \cup {None}
                         /\ state[x] \in States /\ pc[x] \in PCs /\ resume[x] \in LockFreePCs
  BY Zenon, Types
<1> USE ConstantsAssumption, <1>1, <1>3, <1>4 DEF Inv
<1>5. OneCPU' BY DEF OneCPU
<1>6. SwitchOK' BY DEF SwitchOK
<1>7. LocksOK' BY DEF LocksOK, ExitPCs
<1>8. ForkChild' BY DEF ForkChild, Where, Alive
<1>9. ForkOwn' BY DEF ForkOwn
<1>10. InitOK' BY DEF InitOK, ExitPCs, Alive
<1>11. ParentAlive' BY DEF ParentAlive, Alive
<1>12. HasParent' BY DEF HasParent, Alive
<1>13. Childless' BY DEF Childless, ExitPCs
<1>14. ZombieSeen' BY DEF ZombieSeen, InWait
<1>15. NoZombie' BY DEF NoZombie
<1>16. ParentAwake'
  <2>1. \A x \in Slots : InWait(x)' => InWait(x) BY Zenon DEF InWait
  <2>2. \A x \in Slots : pc[x] = "exit_zombie" => parent'[x] = parent[x] BY Zenon DEF SwitchOK
  <2> QED BY <2>1, <2>2, AwakeKept
<1> QED BY Zenon, <1>2, <1>5, <1>6, <1>7, <1>8, <1>9, <1>10, <1>11, <1>12, <1>13, <1>14, <1>15, <1>16

(* The child is still USED, so it is no zombie its parent could miss. *)
LEMMA fork_parentStep ==
  ASSUME Inv, NEW p \in Slots, fork_parent(p)
  PROVE  Inv'
<1>1. /\ pc[p] = "fork_parent" /\ Running(p) /\ wait_lock = None
      /\ \A x \in Slots : parent'[x] = IF x = np[p] THEN p ELSE parent[x]
      /\ \A x \in Slots : pc'[x] = IF x = p THEN "fork_run" ELSE pc[x]
      /\ UNCHANGED <<state, chan, plock, wait_lock, tickslock, run, resume, np, scan>>
  BY DEF Inv, TypeOK, fork_parent, At, Goto, procs, locks, thread
<1>2. TypeOK' BY Zenon, ConstantsAssumption DEF Inv, TypeOK, PCs, LockFreePCs, States, fork_parent, At, Goto, procs, locks, thread
<1>3. \A x \in Slots : Running(x)' = Running(x) BY <1>1, Zenon DEF Running
<1>4. \A x \in Slots : /\ np[x] \in Slots \cup {None} /\ parent[x] \in Slots \cup {None}
                         /\ state[x] \in States /\ pc[x] \in PCs /\ resume[x] \in LockFreePCs
  BY Types
<1> USE ConstantsAssumption, <1>1, <1>3, <1>4 DEF Inv
<1>5. OneCPU' BY Zenon DEF OneCPU
<1>6. SwitchOK' BY ZenonT(30) DEF SwitchOK
<1>7. LocksOK' BY ZenonT(30) DEF LocksOK, ExitPCs
<1>8. ForkChild' BY DEF ForkChild, ForkOwn, Where, Alive
<1>9. ForkOwn' BY Zenon DEF ForkOwn
<1>10. InitOK' BY Zenon DEF InitOK, ExitPCs, Alive
<1>11. ParentAlive' BY Zenon DEF SwitchOK, ParentAlive, Alive
<1>12. HasParent' BY Zenon DEF HasParent, Alive
<1>13. Childless' BY DEF Childless, ExitPCs
<1>14. ZombieSeen' BY DEF SwitchOK, ZombieSeen, InWait
<1>15. NoZombie' BY DEF NoZombie
<1>16. ParentAwake' BY DEF SwitchOK, ParentAwake, InWait
<1> QED BY Zenon, <1>2, <1>5, <1>6, <1>7, <1>8, <1>9, <1>10, <1>11, <1>12, <1>13, <1>14, <1>15, <1>16

(* The child has its parent before it can run. *)
LEMMA fork_runStep ==
  ASSUME Inv, NEW p \in Slots, fork_run(p)
  PROVE  Inv'
<1>1. /\ pc[p] = "fork_run" /\ Running(p) /\ ~plock[np[p]]
      /\ \A x \in Slots : state'[x] = IF x = np[p] THEN "RUNNABLE" ELSE state[x]
      /\ \A x \in Slots : np'[x] = IF x = p THEN None ELSE np[x]
      /\ \A x \in Slots : pc'[x] = IF x = p THEN "user" ELSE pc[x]
      /\ UNCHANGED <<chan, parent, plock, wait_lock, tickslock, run, resume, scan>>
  BY DEF Inv, TypeOK, fork_run, At, Goto, procs, locks, thread
<1>2. TypeOK' BY Zenon, ConstantsAssumption DEF Inv, TypeOK, PCs, LockFreePCs, States, fork_run, At, Goto, procs, locks, thread
<1>3. \A x \in Slots : Running(x)' = Running(x) BY <1>1, Zenon DEF Running
<1>4. \A x \in Slots : /\ np[x] \in Slots \cup {None} /\ parent[x] \in Slots \cup {None}
                         /\ state[x] \in States /\ pc[x] \in PCs /\ resume[x] \in LockFreePCs
  BY Types
<1> USE ConstantsAssumption, <1>1, <1>3, <1>4 DEF Inv
<1>5. OneCPU' BY Zenon DEF OneCPU
<1>6. SwitchOK'
  <2> SUFFICES ASSUME NEW x \in Slots
               PROVE  /\ ~Running(x) => pc'[x] = "sched" /\ ~plock'[x] /\ state'[x] # "RUNNING"
                      /\ Running(x) /\ pc'[x] = "sched" => plock'[x] /\ state'[x] \in {"RUNNABLE", "SLEEPING", "ZOMBIE"}
                      /\ pc'[x] = "resume" => plock'[x] /\ state'[x] = "RUNNING"
                      /\ pc'[x] \notin {"sched", "resume"} => ~plock'[x] /\ state'[x] = "RUNNING"
    BY ZenonT(30) DEF SwitchOK
  <2>0. np[p] \in Slots => state[np[p]] = "USED" /\ np[p] # p BY Zenon DEF ForkChild, SwitchOK
  <2>1. CASE x = p BY ZenonT(30), <2>0, <2>1 DEF SwitchOK
  <2>2. CASE x # p /\ x # np[p] BY ZenonT(30), <2>2 DEF SwitchOK
  <2>3. CASE x = np[p] BY <2>0, <2>3 DEF SwitchOK
  <2> QED BY Zenon, <2>1, <2>2, <2>3
<1>7. LocksOK' BY ZenonT(30) DEF LocksOK, ExitPCs
<1>8. ForkChild' BY DEF ForkChild, ForkOwn, Where, Alive
<1>9. ForkOwn' BY DEF ForkOwn
<1>10. InitOK' BY Zenon DEF InitOK, ExitPCs, Alive
<1>11. ParentAlive' BY Zenon DEF ParentAlive, Alive
<1>12. HasParent' BY DEF ForkChild, HasParent, Where, Alive
<1>13. Childless' BY ZenonT(30) DEF Childless, ExitPCs
<1>14. ZombieSeen' BY DEF ZombieSeen, InWait
<1>15. NoZombie' BY DEF NoZombie
<1>16. ParentAwake'
  <2>1. \A x \in Slots : InWait(x)' => InWait(x) BY DEF InWait
  <2> QED BY Zenon, <2>1, AwakeKept
<1> QED BY Zenon, <1>2, <1>5, <1>6, <1>7, <1>8, <1>9, <1>10, <1>11, <1>12, <1>13, <1>14, <1>15, <1>16

(* init does not exit. *)
LEMMA exitStep ==
  ASSUME Inv, NEW p \in Slots, exit(p)
  PROVE  Inv'
<1>1. /\ Running(p) /\ pc[p] = "user"
      /\ p # initproc
      /\ pc' = [pc EXCEPT ![p] = "exit"]
      /\ UNCHANGED <<state, chan, parent, plock, run, resume, np>>
      /\ UNCHANGED <<wait_lock, tickslock, scan>>
  BY DEF exit, Syscall, At, Goto, procs, locks
<1>2. TypeOK' BY ConstantsAssumption DEF Inv, TypeOK, PCs, LockFreePCs, exit, Syscall, At, Goto, procs, locks, thread
<1>3. LocksOK'
  <2>1. \A x \in Slots : pc'[x] = IF x = p THEN "exit" ELSE pc[x] BY <1>1 DEF Inv, TypeOK
  <2> QED BY <1>1, <2>1, ConstantsAssumption DEF Inv, LocksOK, ExitPCs
<1>4. CanJump(p, "exit") BY Zenon, <1>1 DEF CanJump, PCs, LockFreePCs
<1> QED BY <1>1, <1>2, <1>3, <1>4, Jump, Zenon

(* exit() takes wait_lock, which nobody holds. *)
LEMMA exit_lockStep ==
  ASSUME Inv, NEW p \in Slots, exit_lock(p)
  PROVE  Inv'
<1>1. /\ Running(p) /\ pc[p] = "exit"
      /\ wait_lock = None /\ wait_lock' = p
      /\ pc' = [pc EXCEPT ![p] = "exit_reparent"]
      /\ UNCHANGED <<state, chan, parent, plock, run, resume, np>>
      /\ UNCHANGED <<tickslock, scan>>
  BY Zenon DEF exit_lock, Syscall, At, Goto, procs, locks
<1>2. TypeOK' BY Zenon, ConstantsAssumption DEF Inv, TypeOK, PCs, LockFreePCs, exit_lock, Syscall, At, Goto, procs, locks, thread
<1>3. LocksOK'
  <2>1. \A x \in Slots : pc'[x] = IF x = p THEN "exit_reparent" ELSE pc[x] BY <1>1 DEF Inv, TypeOK
  <2> QED BY <1>1, <2>1, ConstantsAssumption DEF Inv, LocksOK, ExitPCs
<1>4. CanJump(p, "exit_reparent") BY Zenon, <1>1 DEF CanJump, PCs, LockFreePCs, Inv, InitOK
<1> QED BY <1>1, <1>2, <1>3, <1>4, Jump, Zenon

(* The zombies among the children may be those of a sleeping init now. *)
LEMMA reparentStep ==
  ASSUME Inv, NEW p \in Slots, reparent(p)
  PROVE  Inv'
<1>1. /\ pc[p] = "exit_reparent" /\ Running(p)
      /\ \A x \in Slots : parent'[x] = IF parent[x] = p THEN initproc ELSE parent[x]
      /\ \A x \in Slots \ {p} : pc'[x] = pc[x]
      /\ pc'[p] = IF \E x \in Slots : parent[x] = p THEN "exit_wakeinit" ELSE "exit_wakeparent"
      /\ UNCHANGED <<state, chan, plock, wait_lock, tickslock, run, resume, np, scan>>
  BY Zenon DEF Inv, TypeOK, reparent, At, Goto, procs, locks, thread, Children
<1>2. TypeOK' BY Zenon, ConstantsAssumption DEF Inv, TypeOK, PCs, LockFreePCs, States, reparent, At, Goto, procs, locks, thread, Children
<1>3. \A x \in Slots : Running(x)' = Running(x) BY <1>1, Zenon DEF Running
<1>4. \A x \in Slots : /\ np[x] \in Slots \cup {None} /\ parent[x] \in Slots \cup {None}
                         /\ state[x] \in States /\ pc[x] \in PCs /\ resume[x] \in LockFreePCs
  BY Types
<1> USE ConstantsAssumption, <1>1, <1>3, <1>4 DEF Inv
<1>5. OneCPU' BY Zenon DEF OneCPU
<1>6. SwitchOK' BY ZenonT(30) DEF SwitchOK
<1>7. LocksOK' BY Zenon DEF LocksOK, ExitPCs
<1>8. ForkChild' BY DEF ForkChild, Where, Alive
<1>9. ForkOwn' BY Zenon DEF ForkOwn
<1>10. InitOK' BY Zenon DEF InitOK, ExitPCs, Alive
<1>11. ParentAlive' BY Zenon DEF InitOK, ParentAlive, ExitPCs, Alive
<1>12. HasParent' BY Zenon DEF HasParent, Alive
<1>13. Childless' BY DEF InitOK, Childless, ExitPCs, Alive
<1>14. ZombieSeen' BY DEF LocksOK, ZombieSeen, ExitPCs, InWait
<1>15. NoZombie' BY DEF LocksOK, NoZombie, ExitPCs
<1>16. ParentAwake'
  <2>1. \A x \in Slots : pc'[x] # "exit_zombie" BY OneWait DEF ExitPCs
  <2> QED BY Zenon, <2>1 DEF ParentAwake
<1> QED BY Zenon, <1>2, <1>5, <1>6, <1>7, <1>8, <1>9, <1>10, <1>11, <1>12, <1>13, <1>14, <1>15, <1>16

(* They are no more: init is awake. *)
LEMMA exit_wakeinitStep ==
  ASSUME Inv, NEW p \in Slots, exit_wakeinit(p)
  PROVE  Inv'
<1>1. /\ pc[p] = "exit_wakeinit" /\ Running(p) /\ ~plock[initproc]
      /\ \A x \in Slots : state'[x] = IF x = initproc /\ state[x] = "SLEEPING" /\ chan[x] = initproc THEN "RUNNABLE" ELSE state[x]
      /\ \A x \in Slots : pc'[x] = IF x = p THEN "exit_wakeparent" ELSE pc[x]
      /\ UNCHANGED <<chan, parent, plock, wait_lock, tickslock, run, resume, np, scan>>
  BY Zenon DEF Inv, TypeOK, exit_wakeinit, At, Goto, procs, locks, thread, wakeup
<1>2. TypeOK' BY Zenon, ConstantsAssumption DEF Inv, TypeOK, PCs, LockFreePCs, States, exit_wakeinit, At, Goto, procs, locks, thread, wakeup
<1>3. \A x \in Slots : Running(x)' = Running(x) BY <1>1, Zenon DEF Running
<1>4. \A x \in Slots : /\ np[x] \in Slots \cup {None} /\ parent[x] \in Slots \cup {None}
                         /\ state[x] \in States /\ pc[x] \in PCs /\ resume[x] \in LockFreePCs
  BY Types
<1> USE ConstantsAssumption, <1>1, <1>3, <1>4 DEF Inv
<1>5. OneCPU' BY Zenon DEF OneCPU
<1>6. SwitchOK' BY ZenonT(30) DEF SwitchOK
<1>7. LocksOK' BY Zenon DEF LocksOK, ExitPCs
<1>8. ForkChild' BY DEF ForkChild, Where, Alive
<1>9. ForkOwn' BY Zenon DEF ForkOwn
<1>10. InitOK' BY Zenon DEF InitOK, ExitPCs, Alive
<1>11. ParentAlive' BY Zenon DEF ParentAlive, Alive
<1>12. HasParent' BY Zenon DEF HasParent, Alive
<1>13. Childless' BY DEF Childless, ExitPCs
<1>14. ZombieSeen' BY DEF ZombieSeen, InWait
<1>15. NoZombie' BY DEF NoZombie
<1>16. ParentAwake'
  <2>1. \A x \in Slots : InWait(x)' => InWait(x) BY Zenon DEF InWait
  <2> QED BY Zenon, <2>1, AwakeKept
<1> QED BY Zenon, <1>2, <1>5, <1>6, <1>7, <1>8, <1>9, <1>10, <1>11, <1>12, <1>13, <1>14, <1>15, <1>16

(* p has a parent, and it is awake until p gives up wait_lock. *)
LEMMA exit_wakeparentStep ==
  ASSUME Inv, NEW p \in Slots, exit_wakeparent(p)
  PROVE  Inv'
<1>1. /\ pc[p] = "exit_wakeparent" /\ Running(p) /\ ~plock[parent[p]]
      /\ \A x \in Slots : state'[x] = IF x = parent[p] /\ state[x] = "SLEEPING" /\ chan[x] = parent[p] THEN "RUNNABLE" ELSE state[x]
      /\ \A x \in Slots : pc'[x] = IF x = p THEN "exit_zombie" ELSE pc[x]
      /\ UNCHANGED <<chan, parent, plock, wait_lock, tickslock, run, resume, np, scan>>
  BY DEF Inv, TypeOK, exit_wakeparent, At, Goto, procs, locks, thread, wakeup
<1>2. TypeOK' BY Zenon, ConstantsAssumption DEF Inv, TypeOK, PCs, LockFreePCs, States, exit_wakeparent, At, Goto, procs, locks, thread, wakeup
<1>3. \A x \in Slots : Running(x)' = Running(x) BY <1>1, Zenon DEF Running
<1>4. \A x \in Slots : /\ np[x] \in Slots \cup {None} /\ parent[x] \in Slots \cup {None}
                         /\ state[x] \in States /\ pc[x] \in PCs /\ resume[x] \in LockFreePCs
  BY Types
<1> USE ConstantsAssumption, <1>1, <1>3, <1>4 DEF Inv
<1>5. OneCPU' BY Zenon DEF OneCPU
<1>6. SwitchOK' BY DEF SwitchOK
<1>7. LocksOK' BY ZenonT(30) DEF LocksOK, ExitPCs
<1>8. ForkChild' BY DEF ForkChild, Where, Alive, LockFreePCs
<1>9. ForkOwn' BY Zenon DEF ForkOwn
<1>10. InitOK' BY Zenon DEF InitOK, ExitPCs, Alive
<1>11. ParentAlive' BY Zenon DEF ParentAlive, Alive
<1>12. HasParent' BY Zenon DEF HasParent, Alive
<1>13. Childless' BY DEF Childless, ExitPCs
<1>14. ZombieSeen' BY DEF ZombieSeen, InWait
<1>15. NoZombie' BY DEF NoZombie
<1>16. ParentAwake'
  <2>1. \A x \in Slots : pc'[x] = "exit_zombie" => x = p BY OneWait DEF ExitPCs
  <2>2. parent[p] \in Slots BY ParentIs DEF ExitPCs
  <2>3. ~(state'[parent'[p]] = "SLEEPING" /\ chan'[parent'[p]] = parent'[p]) BY <2>2
  <2> QED BY Zenon, <2>1, <2>3 DEF ParentAwake, InWait
<1> QED BY Zenon, <1>2, <1>5, <1>6, <1>7, <1>8, <1>9, <1>10, <1>11, <1>12, <1>13, <1>14, <1>15, <1>16

(* p has no children left, and its parent is awake. *)
LEMMA exit_zombieStep ==
  ASSUME Inv, NEW p \in Slots, exit_zombie(p)
  PROVE  Inv'
<1>1. /\ pc[p] = "exit_zombie" /\ Running(p) /\ ~plock[p]
      /\ \A x \in Slots : plock'[x] = IF x = p THEN TRUE ELSE plock[x]
      /\ \A x \in Slots : state'[x] = IF x = p THEN "ZOMBIE" ELSE state[x]
      /\ \A x \in Slots : pc'[x] = IF x = p THEN "sched" ELSE pc[x]
      /\ wait_lock' = None
      /\ UNCHANGED <<chan, parent, tickslock, run, resume, np, scan>>
  BY Zenon DEF Inv, TypeOK, exit_zombie, At, Goto, procs, locks, thread
<1>2. TypeOK' BY Zenon, ConstantsAssumption DEF Inv, TypeOK, PCs, LockFreePCs, States, exit_zombie, At, Goto, procs, locks, thread
<1>3. \A x \in Slots : Running(x)' = Running(x) BY <1>1, Zenon DEF Running
<1>4. \A x \in Slots : /\ np[x] \in Slots \cup {None} /\ parent[x] \in Slots \cup {None}
                         /\ state[x] \in States /\ pc[x] \in PCs /\ resume[x] \in LockFreePCs
  BY Types
<1> USE ConstantsAssumption, <1>1, <1>3, <1>4 DEF Inv
<1>5. OneCPU' BY Zenon DEF OneCPU
<1>6. SwitchOK'
  <2> SUFFICES ASSUME NEW x \in Slots
               PROVE  /\ ~Running(x) => pc'[x] = "sched" /\ ~plock'[x] /\ state'[x] # "RUNNING"
                      /\ Running(x) /\ pc'[x] = "sched" => plock'[x] /\ state'[x] \in {"RUNNABLE", "SLEEPING", "ZOMBIE"}
                      /\ pc'[x] = "resume" => plock'[x] /\ state'[x] = "RUNNING"
                      /\ pc'[x] \notin {"sched", "resume"} => ~plock'[x] /\ state'[x] = "RUNNING"
    BY Zenon DEF SwitchOK
  <2>1. CASE x = p BY <2>1, Zenon DEF SwitchOK
  <2>2. CASE x # p
    <3>1. pc'[x] = pc[x] /\ plock'[x] = plock[x] /\ state'[x] = state[x] BY <2>2, Zenon
    <3> HIDE ConstantsAssumption, <1>1, <1>3, <1>4
    <3> QED BY <3>1, Zenon DEF SwitchOK
  <2> QED BY Zenon, <2>1, <2>2
<1>7. LocksOK' BY DEF LocksOK, ExitPCs
<1>8. ForkChild'
  <2>1. np[p] = None BY Zenon DEF ForkChild, Where
  <2>2. \A x \in Slots : x # p => Where(x)' = Where(x) BY Zenon DEF Where
  <2>3. \A x \in Slots : state[x] = "USED" => state'[x] = "USED" BY Zenon DEF SwitchOK
  <2>4. \A x \in Slots : x # p => state'[x] = state[x] OBVIOUS
  <2> QED BY <2>1, <2>2, <2>3, <2>4 DEF ForkChild
<1>9. ForkOwn' BY Zenon DEF ForkOwn
<1>10. InitOK' BY Zenon DEF InitOK, ExitPCs, Alive
<1>11. ParentAlive'
  <2>1. \A q \in Slots : parent[q] # p BY Zenon DEF Childless, ExitPCs
  <2> QED BY Zenon, <2>1 DEF ParentAlive
<1>12. HasParent' BY Zenon DEF SwitchOK, HasParent, Alive
<1>13. Childless' BY Zenon DEF Childless, ExitPCs
<1>14. ZombieSeen'
  <2> SUFFICES ASSUME NEW x \in Slots, NEW q \in Slots, InWait(x)', parent[q] = x, state'[q] = "ZOMBIE"
               PROVE  FALSE
    BY Zenon DEF ZombieSeen
  <2>1. InWait(x) /\ x # p BY Zenon DEF InWait
  <2>2. CASE q = p BY Zenon, <2>1, <2>2 DEF ParentAwake
  <2>3. CASE q # p
    <3>1. PICK r \in Slots : wait_lock = r /\ pc[r] = "exit_wakeinit" BY <2>1, <2>3 DEF ZombieSeen
    <3> QED BY <3>1, OneWait DEF ExitPCs
  <2> QED BY Zenon, <2>2, <2>3
<1>15. NoZombie'
  <2>1. \A x \in Slots : pc'[x] # "wait_sleep" BY OneWait DEF ExitPCs
  <2> QED BY Zenon, <2>1 DEF NoZombie
<1>16. ParentAwake'
  <2>1. \A x \in Slots : InWait(x)' => InWait(x) BY DEF InWait
  <2> QED BY Zenon, <2>1, AwakeKept
<1> QED BY Zenon, <1>2, <1>5, <1>6, <1>7, <1>8, <1>9, <1>10, <1>11, <1>12, <1>13, <1>14, <1>15, <1>16

(* A call of wait() holds nothing yet. *)
LEMMA sys_waitStep ==
  ASSUME Inv, NEW p \in Slots, sys_wait(p)
  PROVE  Inv'
<1>1. /\ Running(p) /\ pc[p] = "user"
      /\ pc' = [pc EXCEPT ![p] = "wait"]
      /\ UNCHANGED <<state, chan, parent, plock, run, resume, np>>
      /\ UNCHANGED <<wait_lock, tickslock, scan>>
  BY Zenon DEF sys_wait, Syscall, At, Goto, procs, locks
<1>2. TypeOK' BY Zenon, ConstantsAssumption DEF Inv, TypeOK, PCs, LockFreePCs, sys_wait, Syscall, At, Goto, procs, locks, thread
<1>3. LocksOK'
  <2>1. \A x \in Slots : pc'[x] = IF x = p THEN "wait" ELSE pc[x] BY <1>1 DEF Inv, TypeOK
  <2> QED BY <1>1, <2>1, ConstantsAssumption DEF Inv, LocksOK, ExitPCs
<1>4. CanJump(p, "wait") BY Zenon, <1>1 DEF CanJump, PCs, LockFreePCs
<1> QED BY <1>1, <1>2, <1>3, <1>4, Jump, Zenon

(* wait() takes wait_lock, which nobody holds. *)
LEMMA waitStep ==
  ASSUME Inv, NEW p \in Slots, wait(p)
  PROVE  Inv'
<1>1. /\ Running(p) /\ pc[p] = "wait"
      /\ wait_lock = None /\ wait_lock' = p
      /\ pc' = [pc EXCEPT ![p] = "wait_scan"]
      /\ UNCHANGED <<state, chan, parent, plock, run, resume, np>>
      /\ UNCHANGED <<tickslock, scan>>
  BY Zenon DEF wait, Syscall, At, Goto, procs, locks
<1>2. TypeOK' BY Zenon, ConstantsAssumption DEF Inv, TypeOK, PCs, LockFreePCs, wait, Syscall, At, Goto, procs, locks, thread
<1>3. LocksOK'
  <2>1. \A x \in Slots : pc'[x] = IF x = p THEN "wait_scan" ELSE pc[x] BY Zenon, <1>1 DEF Inv, TypeOK
  <2> QED BY <1>1, <2>1, ConstantsAssumption DEF Inv, LocksOK, ExitPCs
<1>4. CanJump(p, "wait_scan") BY Zenon, <1>1 DEF CanJump, PCs, LockFreePCs
<1> QED BY <1>1, <1>2, <1>3, <1>4, Jump, Zenon

(* A zombie is in no fork(), on no CPU and nobody's parent. *)
LEMMA wait_reapStep ==
  ASSUME Inv, NEW p \in Slots, NEW q \in Slots, wait_reap(p, q)
  PROVE  Inv'
<1>1. /\ pc[p] = "wait_scan" /\ Running(p) /\ parent[q] = p /\ ~plock[q] /\ state[q] = "ZOMBIE"
      /\ \A x \in Slots : state'[x] = IF x = q THEN "UNUSED" ELSE state[x]
      /\ \A x \in Slots : parent'[x] = IF x = q THEN None ELSE parent[x]
      /\ \A x \in Slots : chan'[x] = IF x = q THEN None ELSE chan[x]
      /\ \A x \in Slots : pc'[x] = IF x = p THEN "user" ELSE pc[x]
      /\ wait_lock' = None
      /\ UNCHANGED <<plock, tickslock, run, resume, np, scan>>
  BY Zenon DEF Inv, TypeOK, wait_reap, At, Goto, procs, locks, thread, freeproc
<1>2. TypeOK' BY Zenon, ConstantsAssumption DEF Inv, TypeOK, PCs, LockFreePCs, States, wait_reap, At, Goto, procs, locks, thread, freeproc
<1>3. \A x \in Slots : Running(x)' = Running(x) BY <1>1, Zenon DEF Running
<1>4. \A x \in Slots : /\ np[x] \in Slots \cup {None} /\ parent[x] \in Slots \cup {None}
                         /\ state[x] \in States /\ pc[x] \in PCs /\ resume[x] \in LockFreePCs
  BY Types
<1> USE ConstantsAssumption, <1>1, <1>3, <1>4 DEF Inv
<1>5. OneCPU' BY ZenonT(30) DEF OneCPU
<1>6. SwitchOK' BY DEF SwitchOK
<1>7. LocksOK' BY DEF LocksOK, ExitPCs
<1>8. ForkChild' BY DEF ForkChild, Where, Alive, LockFreePCs
<1>9. ForkOwn' BY DEF ForkOwn
<1>10. InitOK' BY Zenon DEF InitOK, ExitPCs, Alive
<1>11. ParentAlive' BY DEF ParentAlive, Alive
<1>12. HasParent' BY ZenonT(30) DEF HasParent, Alive
<1>13. Childless' BY DEF Childless, ExitPCs
<1>14. ZombieSeen'
  <2> SUFFICES ASSUME NEW x \in Slots, NEW y \in Slots, InWait(x)', parent'[y] = x, state'[y] = "ZOMBIE"
               PROVE  FALSE
    BY Zenon DEF ZombieSeen
  <2>1. parent[y] = x /\ state[y] = "ZOMBIE" OBVIOUS
  <2>2. InWait(x)
    <3>1. x # q BY Zenon DEF InWait
    <3> QED BY Zenon, <3>1 DEF InWait
  <2>3. PICK r \in Slots : wait_lock = r /\ pc[r] = "exit_wakeinit" BY Zenon, <2>1, <2>2 DEF ZombieSeen
  <2> QED BY <2>3, OneWait DEF ExitPCs
<1>15. NoZombie' BY DEF NoZombie
<1>16. ParentAwake' BY DEF LocksOK, ParentAwake, ExitPCs, InWait, LockFreePCs
<1> QED BY Zenon, <1>2, <1>5, <1>6, <1>7, <1>8, <1>9, <1>10, <1>11, <1>12, <1>13, <1>14, <1>15, <1>16

(* wait() gives up wait_lock and changes no process. *)
LEMMA wait_copyfailStep ==
  ASSUME Inv, NEW p \in Slots, NEW q \in Slots, wait_copyfail(p, q)
  PROVE  Inv'
<1>1. /\ Running(p) /\ pc[p] = "wait_scan"
      /\ wait_lock' = None
      /\ pc' = [pc EXCEPT ![p] = "user"]
      /\ UNCHANGED <<state, chan, parent, plock, run, resume, np>>
      /\ UNCHANGED <<tickslock, scan>>
  BY Zenon DEF wait_copyfail, Syscall, At, Goto, procs, locks
<1>2. TypeOK' BY Zenon, ConstantsAssumption DEF Inv, TypeOK, PCs, LockFreePCs, wait_copyfail, Syscall, At, Goto, procs, locks, thread
<1>3. LocksOK'
  <2>1. \A x \in Slots : pc'[x] = IF x = p THEN "user" ELSE pc[x] BY Zenon, <1>1 DEF Inv, TypeOK
  <2> QED BY <1>1, <2>1, ConstantsAssumption DEF Inv, LocksOK, ExitPCs
<1>4. CanJump(p, "user") BY Zenon, <1>1 DEF CanJump, PCs, LockFreePCs
<1> QED BY <1>1, <1>2, <1>3, <1>4, Jump, Zenon

(* No child is a zombie when wait() decides to sleep. *)
LEMMA wait_noneStep ==
  ASSUME Inv, NEW p \in Slots, wait_none(p)
  PROVE  Inv'
<1>1. /\ Running(p) /\ pc[p] = "wait_scan" /\ UNCHANGED <<tickslock, scan>>
      /\ UNCHANGED <<state, chan, parent, plock, run, resume, np>>
  BY Zenon DEF wait_none, Syscall, At, Goto, procs, locks
<1>2. PICK m \in {"user", "wait_sleep"} :
        /\ pc' = [pc EXCEPT ![p] = m]
        /\ m = "user" => wait_lock' = None
        /\ m = "wait_sleep" => /\ wait_lock' = wait_lock
                              /\ \A x \in Slots : parent[x] = p => state[x] # "ZOMBIE"
  BY Zenon DEF Children, wait_none, Syscall, At, Goto, procs, locks
<1>3. TypeOK' BY ZenonT(30), ConstantsAssumption, <1>1, <1>2 DEF Inv, TypeOK, PCs, LockFreePCs, wait_none, Syscall, At, Goto, procs, locks
<1>4. LocksOK'
  <2>1. \A x \in Slots : pc'[x] = IF x = p THEN m ELSE pc[x] BY Zenon, <1>2 DEF Inv, TypeOK
  <2> QED BY <1>1, <1>2, <2>1, ConstantsAssumption DEF Inv, LocksOK, ExitPCs
<1>5. CanJump(p, m) BY Zenon, <1>1, <1>2 DEF CanJump, PCs, LockFreePCs
<1> QED BY <1>1, <1>2, <1>3, <1>4, <1>5, Jump, Zenon

(* ... nor when it sleeps, as it had wait_lock all the time. *)
LEMMA wait_sleepStep ==
  ASSUME Inv, NEW p \in Slots, wait_sleep(p)
  PROVE  Inv'
<1>1. /\ pc[p] = "wait_sleep" /\ Running(p) /\ ~plock[p]
      /\ \A x \in Slots : plock'[x] = IF x = p THEN TRUE ELSE plock[x]
      /\ \A x \in Slots : state'[x] = IF x = p THEN "SLEEPING" ELSE state[x]
      /\ \A x \in Slots : chan'[x] = IF x = p THEN p ELSE chan[x]
      /\ \A x \in Slots : resume'[x] = IF x = p THEN "wait" ELSE resume[x]
      /\ \A x \in Slots : pc'[x] = IF x = p THEN "sched" ELSE pc[x]
      /\ wait_lock' = None
      /\ UNCHANGED <<parent, tickslock, run, np, scan>>
  BY Zenon DEF Inv, TypeOK, wait_sleep, At, Goto, procs, locks, thread, sleep
<1>2. TypeOK' BY Zenon, ConstantsAssumption DEF Inv, TypeOK, PCs, LockFreePCs, States, wait_sleep, At, Goto, procs, locks, thread, sleep
<1>3. \A x \in Slots : Running(x)' = Running(x) BY <1>1, Zenon DEF Running
<1>4. \A x \in Slots : /\ np[x] \in Slots \cup {None} /\ parent[x] \in Slots \cup {None}
                         /\ state[x] \in States /\ pc[x] \in PCs /\ resume[x] \in LockFreePCs
  BY Types
<1> USE ConstantsAssumption, <1>1, <1>3, <1>4 DEF Inv
<1>5. OneCPU' BY ZenonT(30) DEF OneCPU
<1>6. SwitchOK'
  <2> SUFFICES ASSUME NEW x \in Slots
               PROVE  /\ ~Running(x) => pc'[x] = "sched" /\ ~plock'[x] /\ state'[x] # "RUNNING"
                      /\ Running(x) /\ pc'[x] = "sched" => plock'[x] /\ state'[x] \in {"RUNNABLE", "SLEEPING", "ZOMBIE"}
                      /\ pc'[x] = "resume" => plock'[x] /\ state'[x] = "RUNNING"
                      /\ pc'[x] \notin {"sched", "resume"} => ~plock'[x] /\ state'[x] = "RUNNING"
    BY ZenonT(30) DEF SwitchOK
  <2>1. CASE x = p BY <2>1, Zenon DEF SwitchOK
  <2>2. CASE x # p
    <3>1. pc'[x] = pc[x] /\ plock'[x] = plock[x] /\ state'[x] = state[x] BY <2>2, Zenon
    <3> HIDE ConstantsAssumption, <1>1, <1>3, <1>4
    <3> QED BY <3>1, Zenon DEF SwitchOK
  <2> QED BY Zenon, <2>1, <2>2
<1>7. LocksOK' BY DEF LocksOK, ExitPCs
<1>8. ForkChild'
  <2>1. np[p] = None BY Zenon DEF ForkChild, Where
  <2>2. \A x \in Slots : x # p => Where(x)' = Where(x) BY Zenon DEF Where
  <2>3. \A x \in Slots : state[x] = "USED" => state'[x] = "USED" BY Zenon DEF SwitchOK
  <2>4. \A x \in Slots : x # p => state'[x] = state[x] OBVIOUS
  <2> QED BY <2>1, <2>2, <2>3, <2>4 DEF ForkChild
<1>9. ForkOwn' BY ZenonT(30) DEF ForkOwn
<1>10. InitOK' BY Zenon DEF InitOK, ExitPCs, Alive
<1>11. ParentAlive' BY ZenonT(30) DEF ParentAlive, Alive
<1>12. HasParent' BY Zenon DEF SwitchOK, HasParent, Alive
<1>13. Childless' BY ZenonT(30) DEF Childless, ExitPCs
<1>14. ZombieSeen'
  <2> SUFFICES ASSUME NEW x \in Slots, NEW q \in Slots, InWait(x)', parent'[q] = x, state'[q] = "ZOMBIE"
               PROVE  FALSE
    BY Zenon DEF ZombieSeen
  <2>1. parent[q] = x /\ state[q] = "ZOMBIE" OBVIOUS
  <2>2. CASE x = p BY <2>1, <2>2 DEF NoZombie
  <2>3. CASE x # p
    <3>1. InWait(x) BY Zenon, <2>3 DEF InWait
    <3>2. PICK r \in Slots : wait_lock = r /\ pc[r] = "exit_wakeinit" BY Zenon, <2>1, <3>1 DEF ZombieSeen
    <3> QED BY <3>2, OneWait DEF ExitPCs
  <2> QED BY Zenon, <2>2, <2>3
<1>15. NoZombie' BY DEF NoZombie
<1>16. ParentAwake'
  <2>1. \A x \in Slots : pc'[x] # "exit_zombie" BY OneWait DEF ExitPCs
  <2> QED BY Zenon, <2>1 DEF ParentAwake
<1> QED BY Zenon, <1>2, <1>5, <1>6, <1>7, <1>8, <1>9, <1>10, <1>11, <1>12, <1>13, <1>14, <1>15, <1>16

(* kill() wakes a sleeper that is not switching. *)
LEMMA killStep ==
  ASSUME Inv, NEW p \in Slots, NEW q \in Slots, kill(p, q)
  PROVE  Inv'
<1>1. /\ ~plock[q]
      /\ \A x \in Slots : state'[x] = IF x = q /\ state[x] = "SLEEPING" THEN "RUNNABLE" ELSE state[x]
      /\ UNCHANGED <<chan, parent, plock, wait_lock, tickslock, run, pc, resume, np, scan>>
  BY Zenon DEF Inv, TypeOK, kill, Syscall, At, Goto, procs, locks, thread
<1>2. TypeOK' BY Zenon, ConstantsAssumption DEF Inv, TypeOK, PCs, LockFreePCs, States, kill, Syscall, At, Goto, procs, locks, thread
<1>3. \A x \in Slots : Running(x)' = Running(x) BY <1>1, Zenon DEF Running
<1>4. \A x \in Slots : /\ np[x] \in Slots \cup {None} /\ parent[x] \in Slots \cup {None}
                         /\ state[x] \in States /\ pc[x] \in PCs /\ resume[x] \in LockFreePCs
  BY Types
<1> USE ConstantsAssumption, <1>1, <1>3, <1>4 DEF Inv
<1>5. OneCPU' BY Zenon DEF OneCPU
<1>6. SwitchOK' BY Zenon DEF SwitchOK
<1>7. LocksOK' BY Zenon DEF LocksOK, ExitPCs
<1>8. ForkChild' BY DEF ForkChild, Where, Alive
<1>9. ForkOwn' BY Zenon DEF ForkOwn
<1>10. InitOK' BY Zenon DEF InitOK, ExitPCs, Alive
<1>11. ParentAlive' BY Zenon DEF ParentAlive, Alive
<1>12. HasParent' BY Zenon DEF HasParent, Alive
<1>13. Childless' BY Zenon DEF Childless, ExitPCs
<1>14. ZombieSeen' BY DEF ZombieSeen, InWait
<1>15. NoZombie' BY ZenonT(30) DEF NoZombie
<1>16. ParentAwake'
  <2>1. \A x \in Slots : InWait(x)' => InWait(x) BY Zenon DEF InWait
  <2> QED BY Zenon, <2>1, AwakeKept
<1> QED BY Zenon, <1>2, <1>5, <1>6, <1>7, <1>8, <1>9, <1>10, <1>11, <1>12, <1>13, <1>14, <1>15, <1>16

(* A call of sleep() holds nothing yet. *)
LEMMA sys_sleepStep ==
  ASSUME Inv, NEW p \in Slots, sys_sleep(p)
  PROVE  Inv'
<1>1. /\ Running(p) /\ pc[p] = "user"
      /\ pc' = [pc EXCEPT ![p] = "sleep"]
      /\ UNCHANGED <<state, chan, parent, plock, run, resume, np>>
      /\ UNCHANGED <<wait_lock, tickslock, scan>>
  BY Zenon DEF sys_sleep, Syscall, At, Goto, procs, locks
<1>2. TypeOK' BY Zenon, ConstantsAssumption DEF Inv, TypeOK, PCs, LockFreePCs, sys_sleep, Syscall, At, Goto, procs, locks, thread
<1>3. LocksOK'
  <2>1. \A x \in Slots : pc'[x] = IF x = p THEN "sleep" ELSE pc[x] BY Zenon, <1>1 DEF Inv, TypeOK
  <2> QED BY <1>1, <2>1, ConstantsAssumption DEF Inv, LocksOK, ExitPCs
<1>4. CanJump(p, "sleep") BY Zenon, <1>1 DEF CanJump, PCs, LockFreePCs
<1> QED BY <1>1, <1>2, <1>3, <1>4, Jump, Zenon

(* sys_sleep() takes tickslock, which nobody holds. *)
LEMMA sys_sleep_lockStep ==
  ASSUME Inv, NEW p \in Slots, sys_sleep_lock(p)
  PROVE  Inv'
<1>1. /\ Running(p) /\ pc[p] = "sleep"
      /\ tickslock = None /\ tickslock' = p
      /\ pc' = [pc EXCEPT ![p] = "sleep_check"]
      /\ UNCHANGED <<state, chan, parent, plock, run, resume, np>>
      /\ UNCHANGED <<wait_lock, scan>>
  BY Zenon DEF sys_sleep_lock, Syscall, At, Goto, procs, locks
<1>2. TypeOK' BY Zenon, ConstantsAssumption DEF Inv, TypeOK, PCs, LockFreePCs, sys_sleep_lock, Syscall, At, Goto, procs, locks, thread
<1>3. LocksOK'
  <2>1. \A x \in Slots : pc'[x] = IF x = p THEN "sleep_check" ELSE pc[x] BY Zenon, <1>1 DEF Inv, TypeOK
  <2> QED BY <1>1, <2>1, ConstantsAssumption DEF Inv, LocksOK, ExitPCs
<1>4. CanJump(p, "sleep_check") BY Zenon, <1>1 DEF CanJump, PCs, LockFreePCs
<1> QED BY <1>1, <1>2, <1>3, <1>4, Jump, Zenon

(* sys_sleep() gives it up. *)
LEMMA sys_sleep_returnStep ==
  ASSUME Inv, NEW p \in Slots, sys_sleep_return(p)
  PROVE  Inv'
<1>1. /\ Running(p) /\ pc[p] = "sleep_check"
      /\ tickslock' = None
      /\ pc' = [pc EXCEPT ![p] = "user"]
      /\ UNCHANGED <<state, chan, parent, plock, run, resume, np>>
      /\ UNCHANGED <<wait_lock, scan>>
  BY Zenon DEF sys_sleep_return, Syscall, At, Goto, procs, locks
<1>2. TypeOK' BY Zenon, ConstantsAssumption DEF Inv, TypeOK, PCs, LockFreePCs, sys_sleep_return, Syscall, At, Goto, procs, locks, thread
<1>3. LocksOK'
  <2>1. \A x \in Slots : pc'[x] = IF x = p THEN "user" ELSE pc[x] BY Zenon, <1>1 DEF Inv, TypeOK
  <2> QED BY <1>1, <2>1, ConstantsAssumption DEF Inv, LocksOK, ExitPCs
<1>4. CanJump(p, "user") BY Zenon, <1>1 DEF CanJump, PCs, LockFreePCs
<1> QED BY <1>1, <1>2, <1>3, <1>4, Jump, Zenon

(* sys_sleep() keeps it up to its sleep(). *)
LEMMA sys_sleep_moreStep ==
  ASSUME Inv, NEW p \in Slots, sys_sleep_more(p)
  PROVE  Inv'
<1>1. /\ Running(p) /\ pc[p] = "sleep_check"
      /\ pc' = [pc EXCEPT ![p] = "sleep_sleep"]
      /\ UNCHANGED <<state, chan, parent, plock, run, resume, np>>
      /\ UNCHANGED <<wait_lock, tickslock, scan>>
  BY Zenon DEF sys_sleep_more, Syscall, At, Goto, procs, locks
<1>2. TypeOK' BY Zenon, ConstantsAssumption DEF Inv, TypeOK, PCs, LockFreePCs, sys_sleep_more, Syscall, At, Goto, procs, locks, thread
<1>3. LocksOK'
  <2>1. \A x \in Slots : pc'[x] = IF x = p THEN "sleep_sleep" ELSE pc[x] BY Zenon, <1>1 DEF Inv, TypeOK
  <2> QED BY <1>1, <2>1, ConstantsAssumption DEF Inv, LocksOK, ExitPCs
<1>4. CanJump(p, "sleep_sleep") BY Zenon, <1>1 DEF CanJump, PCs, LockFreePCs
<1> QED BY <1>1, <1>2, <1>3, <1>4, Jump, Zenon

(* It sleeps on no process, so it is not in wait(). *)
LEMMA sys_sleep_sleepStep ==
  ASSUME Inv, NEW p \in Slots, sys_sleep_sleep(p)
  PROVE  Inv'
<1>1. /\ pc[p] = "sleep_sleep" /\ Running(p) /\ ~plock[p]
      /\ \A x \in Slots : plock'[x] = IF x = p THEN TRUE ELSE plock[x]
      /\ \A x \in Slots : state'[x] = IF x = p THEN "SLEEPING" ELSE state[x]
      /\ \A x \in Slots : chan'[x] = IF x = p THEN "ticks" ELSE chan[x]
      /\ \A x \in Slots : resume'[x] = IF x = p THEN "sleep" ELSE resume[x]
      /\ \A x \in Slots : pc'[x] = IF x = p THEN "sched" ELSE pc[x]
      /\ tickslock' = None
      /\ UNCHANGED <<parent, wait_lock, run, np, scan>>
  BY Zenon DEF Inv, TypeOK, sys_sleep_sleep, At, Goto, procs, locks, thread, sleep
<1>2. TypeOK' BY Zenon, ConstantsAssumption DEF Inv, TypeOK, PCs, LockFreePCs, States, sys_sleep_sleep, At, Goto, procs, locks, thread, sleep
<1>3. \A x \in Slots : Running(x)' = Running(x) BY <1>1, Zenon DEF Running
<1>4. \A x \in Slots : /\ np[x] \in Slots \cup {None} /\ parent[x] \in Slots \cup {None}
                         /\ state[x] \in States /\ pc[x] \in PCs /\ resume[x] \in LockFreePCs
  BY Types
<1> USE ConstantsAssumption, <1>1, <1>3, <1>4 DEF Inv
<1>5. OneCPU' BY Zenon DEF OneCPU
<1>6. SwitchOK'
  <2> SUFFICES ASSUME NEW x \in Slots
               PROVE  /\ ~Running(x) => pc'[x] = "sched" /\ ~plock'[x] /\ state'[x] # "RUNNING"
                      /\ Running(x) /\ pc'[x] = "sched" => plock'[x] /\ state'[x] \in {"RUNNABLE", "SLEEPING", "ZOMBIE"}
                      /\ pc'[x] = "resume" => plock'[x] /\ state'[x] = "RUNNING"
                      /\ pc'[x] \notin {"sched", "resume"} => ~plock'[x] /\ state'[x] = "RUNNING"
    BY DEF SwitchOK
  <2>1. CASE x = p BY <2>1, Zenon DEF SwitchOK
  <2>2. CASE x # p
    <3>1. pc'[x] = pc[x] /\ plock'[x] = plock[x] /\ state'[x] = state[x] BY <2>2, Zenon
    <3> HIDE ConstantsAssumption, <1>1, <1>3, <1>4
    <3> QED BY <3>1, Zenon DEF SwitchOK
  <2> QED BY Zenon, <2>1, <2>2
<1>7. LocksOK' BY DEF LocksOK, ExitPCs
<1>8. ForkChild'
  <2>1. np[p] = None BY Zenon DEF ForkChild, Where
  <2>2. \A x \in Slots : x # p => Where(x)' = Where(x) BY Zenon DEF Where
  <2>3. \A x \in Slots : state[x] = "USED" => state'[x] = "USED" BY Zenon DEF SwitchOK
  <2>4. \A x \in Slots : x # p => state'[x] = state[x] OBVIOUS
  <2> QED BY <2>1, <2>2, <2>3, <2>4 DEF ForkChild
<1>9. ForkOwn' BY ZenonT(30) DEF ForkOwn
<1>10. InitOK' BY Zenon DEF InitOK, ExitPCs, Alive
<1>11. ParentAlive' BY ZenonT(30) DEF ParentAlive, Alive
<1>12. HasParent' BY ZenonT(30) DEF SwitchOK, HasParent, Alive
<1>13. Childless' BY ZenonT(30) DEF Childless, ExitPCs
<1>14. ZombieSeen' BY DEF ZombieSeen, InWait
<1>15. NoZombie' BY DEF NoZombie
<1>16. ParentAwake'
  <2>1. \A x \in Slots : InWait(x)' => InWait(x) BY Zenon DEF InWait
  <2> QED BY Zenon, <2>1, AwakeKept
<1> QED BY Zenon, <1>2, <1>5, <1>6, <1>7, <1>8, <1>9, <1>10, <1>11, <1>12, <1>13, <1>14, <1>15, <1>16

(* clockintr() takes tickslock. *)
LEMMA clockintrStep ==
  ASSUME Inv, clockintr
  PROVE  Inv'
<1> USE ConstantsAssumption DEF Inv, clockintr, At, Goto, procs, locks, thread
<1>0. \A x \in Slots : Running(x)' = Running(x) BY Zenon DEF Running
<1>1. TypeOK' BY Zenon DEF TypeOK, PCs, LockFreePCs, States
<1>2. OneCPU' BY Zenon, <1>0 DEF TypeOK, OneCPU
<1>3. SwitchOK' BY Zenon, <1>0 DEF TypeOK, SwitchOK
<1>4. LocksOK' BY Zenon DEF TypeOK, LocksOK, ExitPCs
<1>5. ForkChild' BY Zenon DEF TypeOK, ForkChild, Where, Alive
<1>6. ForkOwn' BY Zenon DEF TypeOK, ForkOwn
<1>7. InitOK' BY Zenon DEF TypeOK, InitOK, ExitPCs, Alive
<1>8. ParentAlive' BY Zenon DEF TypeOK, ParentAlive, Alive
<1>9. HasParent' BY Zenon DEF TypeOK, HasParent, Alive
<1>10. Childless' BY Zenon DEF TypeOK, Childless, ExitPCs
<1>11. ZombieSeen' BY Zenon DEF TypeOK, ZombieSeen, InWait
<1>12. NoZombie' BY Zenon DEF TypeOK, NoZombie
<1>13. ParentAwake' BY Zenon DEF TypeOK, ParentAwake, InWait
<1> QED BY Zenon, <1>1, <1>2, <1>3, <1>4, <1>5, <1>6, <1>7, <1>8, <1>9, <1>10, <1>11, <1>12, <1>13

(* clockintr() wakes sleepers that are not switching. *)
LEMMA clock_wakeupStep ==
  ASSUME Inv, NEW q \in Slots, clock_wakeup(q)
  PROVE  Inv'
<1>1. /\ q \in scan /\ ~plock[q]
      /\ \A x \in Slots : state'[x] = IF x = q /\ state[x] = "SLEEPING" /\ chan[x] = "ticks" THEN "RUNNABLE" ELSE state[x]
      /\ scan' = scan \ {q}
      /\ tickslock' = IF scan' = {} THEN None ELSE tickslock
      /\ UNCHANGED <<chan, parent, plock, wait_lock, run, pc, resume, np>>
  BY Zenon DEF Inv, TypeOK, clock_wakeup, At, Goto, procs, locks, thread, wakeup
<1>2. TypeOK' BY Zenon, ConstantsAssumption DEF Inv, TypeOK, PCs, LockFreePCs, States, clock_wakeup, At, Goto, procs, locks, thread, wakeup
<1>3. \A x \in Slots : Running(x)' = Running(x) BY <1>1, Zenon DEF Running
<1>4. \A x \in Slots : /\ np[x] \in Slots \cup {None} /\ parent[x] \in Slots \cup {None}
                         /\ state[x] \in States /\ pc[x] \in PCs /\ resume[x] \in LockFreePCs
  BY Types
<1> USE ConstantsAssumption, <1>1, <1>3, <1>4 DEF Inv
<1>5. OneCPU' BY Zenon DEF OneCPU
<1>6. SwitchOK' BY Zenon DEF SwitchOK
<1>7. LocksOK' BY Zenon DEF LocksOK, ExitPCs
<1>8. ForkChild'
  <2>1. \A x \in Slots : Where(x)' = Where(x) BY Zenon DEF Where
  <2>2. \A x \in Slots : state[x] = "USED" => state'[x] = "USED" OBVIOUS
  <2>3. \A x \in Slots : state[x] \in Alive => state'[x] \in Alive BY Zenon DEF Alive
  <2> QED BY <2>1, <2>2, <2>3 DEF ForkChild
<1>9. ForkOwn' BY Zenon DEF ForkOwn
<1>10. InitOK' BY Zenon DEF InitOK, ExitPCs, Alive
<1>11. ParentAlive' BY Zenon DEF ParentAlive, Alive
<1>12. HasParent' BY Zenon DEF HasParent, Alive
<1>13. Childless' BY Zenon DEF Childless, ExitPCs
<1>14. ZombieSeen' BY DEF ZombieSeen, InWait
<1>15. NoZombie' BY DEF NoZombie
<1>16. ParentAwake'
  <2>1. \A x \in Slots : InWait(x)' => InWait(x) BY Zenon DEF InWait
  <2> QED BY Zenon, <2>1, AwakeKept
<1> QED BY Zenon, <1>2, <1>5, <1>6, <1>7, <1>8, <1>9, <1>10, <1>11, <1>12, <1>13, <1>14, <1>15, <1>16

-----------------------------------------------------------------------------
(* userinit() establishes the invariant. *)
LEMMA InitInv == Init => Inv
<1> SUFFICES ASSUME Init PROVE Inv OBVIOUS
<1> USE ConstantsAssumption DEF Init
<1>0. \A p \in Slots : ~Running(p) BY Zenon DEF Running
<1>1. TypeOK BY Zenon DEF TypeOK, PCs, LockFreePCs, States
<1>2. OneCPU BY Zenon DEF OneCPU
<1>3. SwitchOK BY Zenon, <1>0 DEF SwitchOK
<1>4. LocksOK BY Zenon DEF LocksOK, ExitPCs
<1>5. ForkChild /\ ForkOwn BY Zenon DEF ForkChild, ForkOwn
<1>6. InitOK BY Zenon DEF InitOK, ExitPCs, Alive
<1>7. ParentAlive /\ HasParent /\ Childless BY Zenon DEF ParentAlive, HasParent, Childless, ExitPCs, Alive
<1>8. ZombieSeen /\ NoZombie /\ ParentAwake BY Zenon DEF ZombieSeen, NoZombie, ParentAwake, InWait
<1> QED BY Zenon, <1>1, <1>2, <1>3, <1>4, <1>5, <1>6, <1>7, <1>8 DEF Inv

(* Every step keeps it. *)
LEMMA InvStep ==
  ASSUME Inv, [Next]_vars
  PROVE  Inv'
<1>1. CASE UNCHANGED vars
  <2> USE <1>1 DEF Inv, vars, procs, locks, thread
  <2>0. \A p \in Slots : Running(p)' = Running(p) BY Zenon DEF Running
  <2>1. TypeOK' BY Zenon DEF TypeOK
  <2>2. OneCPU' BY Zenon DEF OneCPU
  <2>3. SwitchOK' BY Zenon, <2>0 DEF SwitchOK
  <2>4. LocksOK' BY Zenon DEF LocksOK
  <2>5. ForkChild' /\ ForkOwn'
    <3>1. \A q \in Slots : Where(q)' = Where(q) BY Zenon DEF Where
    <3> QED BY Zenon, <3>1 DEF ForkChild, ForkOwn
  <2>6. InitOK' BY Zenon DEF InitOK
  <2>7. ParentAlive' /\ HasParent' /\ Childless' BY Zenon DEF ParentAlive, HasParent, Childless
  <2>8. ZombieSeen' /\ NoZombie' /\ ParentAwake' BY Zenon DEF ZombieSeen, NoZombie, ParentAwake, InWait
  <2> QED BY Zenon, <2>1, <2>2, <2>3, <2>4, <2>5, <2>6, <2>7, <2>8
<1>2. ASSUME NEW c \in CPUs, NEW p \in Slots, scheduler(c, p) \/ sched(c, p) PROVE Inv'
  BY Zenon, <1>2, schedulerStep, schedStep
<1>3. ASSUME NEW p \in Slots, Step(p) PROVE Inv'
  BY Zenon, <1>3, fork_parentStep, fork_runStep, exit_lockStep, reparentStep, exit_wakeinitStep, exit_wakeparentStep,
     exit_zombieStep, waitStep, wait_noneStep, wait_sleepStep, wait_reapStep, sys_sleep_lockStep,
     sys_sleep_returnStep, sys_sleep_sleepStep DEF Step
<1>4. ASSUME NEW p \in Slots,
             Resume(p) \/ yield(p) \/ exit(p) \/ sys_wait(p) \/ sys_sleep(p) \/ sys_sleep_more(p) \/ clock_wakeup(p)
      PROVE  Inv'
  BY <1>4, ResumeStep, yieldStep, exitStep, sys_waitStep, sys_sleepStep, sys_sleep_moreStep, clock_wakeupStep
<1>5. ASSUME NEW p \in Slots, NEW q \in Slots,
             fork_alloc(p, q) \/ fork_fail(p, q) \/ wait_copyfail(p, q) \/ kill(p, q)
      PROVE  Inv'
  BY <1>5, fork_allocStep, fork_failStep, wait_copyfailStep, killStep
<1>6. CASE clockintr BY <1>6, clockintrStep
<1> QED BY Zenon, <1>1, <1>2, <1>3, <1>4, <1>5, <1>6 DEF Next

(* So it always holds. *)
LEMMA InvInvariant == Spec => []Inv
BY InitInv, InvStep, PTL DEF Spec

(* For any number of slots and CPUs: no two CPUs run on one kernel stack, no *)
(* slot is freed under a CPU, and the checks of sched() hold whenever a      *)
(* process switches to the scheduler.                                        *)
THEOREM SwitchSafeInvariant == Spec => []SwitchSafe
<1>1. ASSUME Inv PROVE SwitchSafe
  <2> USE <1>1 DEF Inv
  <2>1. StackSafe
    <3>1. \A c \in CPUs : run[c] # None => Running(run[c]) /\ run[c] \in Slots BY Zenon DEF TypeOK, Running
    <3> QED BY Zenon, <3>1 DEF StackSafe, OneCPU, SwitchOK
  <2>2. SchedSafe BY Zenon DEF SchedSafe, At, SwitchOK, LocksOK, ExitPCs
  <2> QED BY <2>1, <2>2 DEF SwitchSafe
<1> QED BY <1>1, InvInvariant, PTL

(* For any number of slots and CPUs: every process has a parent that is      *)
(* alive, so that some wait() can reap it.                                   *)
THEOREM NoOrphanInvariant == Spec => []NoOrphan
<1>1. ASSUME Inv PROVE NoOrphan
  BY ZenonT(30), <1>1 DEF Inv, TypeOK, States, ParentAlive, HasParent, Alive, NoOrphan
<1> QED BY <1>1, InvInvariant, PTL

(* For any number of slots and CPUs: no process sleeps in wait() while it    *)
(* has a zombie child, once the exit() under way has given up wait_lock.     *)
THEOREM NoMissedExitInvariant == Spec => []NoMissedExit
<1>1. ASSUME Inv PROVE NoMissedExit
  BY Zenon, <1>1, ConstantsAssumption DEF Inv, ZombieSeen, InWait, Children, NoMissedExit
<1> QED BY <1>1, InvInvariant, PTL

=============================================================================
