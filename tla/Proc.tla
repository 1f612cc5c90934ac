-------------------------------- MODULE Proc --------------------------------
(***************************************************************************)
(* Processes of kernel/proc.c: the process table, the per-CPU schedulers,  *)
(* fork, exit, wait, kill, sleep and wakeup, with the locks they take.     *)
(*                                                                         *)
(* A step is one critical section, cut wherever another process or CPU can *)
(* come in between.  A process steps only while a CPU runs it.  A p->lock  *)
(* is held across steps only by (or, in swtch(), on behalf of) p itself;   *)
(* other holders take and release it within one step, which they can take  *)
(* only when it is free.                                                   *)
(***************************************************************************)
EXTENDS Integers, FiniteSets

CONSTANTS
  Slots,        \* proc[NPROC]
  CPUs,
  initproc,     \* the slot of the first process
  None,         \* a null pointer: no process
  Calls,        \* the system calls user programs make
  KillPids,     \* the arguments they give to kill()
  MaxPid        \* bound: no fork once nextpid has passed it

ASSUME ConstantsAssumption ==
  /\ initproc \in Slots
  /\ {None, "ticks", "clock"} \cap Slots = {} /\ None # "clock"
  /\ Calls \subseteq {"fork", "exit", "wait", "kill", "sleep"}
  /\ KillPids \subseteq Nat \ {1}
  /\ MaxPid \in Nat

VARIABLES
  state, chan, killed, pid, parent,   \* fields of struct proc
  plock,        \* p->lock is held by p or by the scheduler switching to or from p
  wait_lock,    \* its holder
  tickslock,    \* its holder
  nextpid,
  run,          \* the process whose kernel stack or user code a CPU executes
  pc,
  resume,       \* where a process goes on after sched() returns
  np,           \* the child that fork() is creating
  scan          \* the slots wakeup(&ticks) has still to visit in clockintr()

procs  == <<state, chan, killed, pid, parent>>
locks  == <<plock, wait_lock, tickslock>>
thread == <<run, pc, resume, np>>
vars   == <<procs, locks, nextpid, thread, scan>>

States == {"UNUSED", "USED", "SLEEPING", "RUNNABLE", "RUNNING", "ZOMBIE"}
LockFreePCs == {"user", "fork_parent", "fork_run", "exit", "wait", "sleep"}
PCs == LockFreePCs \cup
       {"exit_reparent", "exit_wakeinit", "exit_wakeparent", "exit_zombie",
        "wait_scan", "wait_sleep", "sleep_check", "sleep_sleep", "sched", "resume"}

TypeOK ==
  /\ state \in [Slots -> States]
  /\ chan \in [Slots -> Slots \cup {None, "ticks"}]
  /\ killed \in [Slots -> BOOLEAN]
  /\ pid \in [Slots -> Nat]
  /\ parent \in [Slots -> Slots \cup {None}]
  /\ plock \in [Slots -> BOOLEAN]
  /\ wait_lock \in Slots \cup {None}
  /\ tickslock \in Slots \cup {None, "clock"}
  /\ nextpid \in Nat
  /\ run \in [CPUs -> Slots \cup {None}]
  /\ pc \in [Slots -> PCs]
  /\ resume \in [Slots -> LockFreePCs]
  /\ np \in [Slots -> Slots \cup {None}]
  /\ scan \in SUBSET Slots

(* After userinit(): one process, ready to run. *)
Init ==
  /\ state = [p \in Slots |-> IF p = initproc THEN "RUNNABLE" ELSE "UNUSED"]
  /\ chan = [p \in Slots |-> None]
  /\ killed = [p \in Slots |-> FALSE]
  /\ pid = [p \in Slots |-> IF p = initproc THEN 1 ELSE 0]
  /\ parent = [p \in Slots |-> None]
  /\ plock = [p \in Slots |-> FALSE]
  /\ wait_lock = None
  /\ tickslock = None
  /\ nextpid = 2
  /\ run = [c \in CPUs |-> None]
  /\ pc = [p \in Slots |-> "sched"]
  /\ resume = [p \in Slots |-> "user"]
  /\ np = [p \in Slots |-> None]
  /\ scan = {}

Running(p) == \E c \in CPUs : run[c] = p
At(p, l)   == pc[p] = l /\ Running(p)
Goto(p, l) == pc' = [pc EXCEPT ![p] = l]
Children(p) == {q \in Slots : parent[q] = p}

(* A system call of p: usertrap() first checks p->killed. *)
Syscall(p, call) == At(p, "user") /\ ~killed[p] /\ call \in Calls

-----------------------------------------------------------------------------
(* scheduler(), sched(), yield() *)

(* The scheduler takes p->lock and switches to p, which goes on holding it. *)
scheduler(c, p) ==
  /\ run[c] = None
  /\ state[p] = "RUNNABLE" /\ ~plock[p]
  /\ state' = [state EXCEPT ![p] = "RUNNING"]
  /\ plock' = [plock EXCEPT ![p] = TRUE]
  /\ run' = [run EXCEPT ![c] = p]
  /\ Goto(p, "resume")
  /\ UNCHANGED <<chan, killed, pid, parent, wait_lock, tickslock, nextpid, resume, np, scan>>

(* swtch() back to the scheduler of c, which clears c->proc and releases p->lock. *)
sched(c, p) ==
  /\ run[c] = p
  /\ pc[p] = "sched"
  /\ run' = [run EXCEPT ![c] = None]
  /\ plock' = [plock EXCEPT ![p] = FALSE]
  /\ UNCHANGED <<procs, wait_lock, tickslock, nextpid, pc, resume, np, scan>>

(* sched() returns in yield() or sleep(), or forkret() starts: p->lock is released. *)
Resume(p) ==
  /\ At(p, "resume")
  /\ chan' = [chan EXCEPT ![p] = None]
  /\ plock' = [plock EXCEPT ![p] = FALSE]
  /\ Goto(p, resume[p])
  /\ UNCHANGED <<state, killed, pid, parent, wait_lock, tickslock, nextpid, run, resume, np, scan>>

(* p spins in acquire(), which has turned interrupts off. *)
Spinning(p) ==
  \/ pc[p] \in {"fork_parent", "exit", "wait"} /\ wait_lock # None
  \/ pc[p] = "sleep" /\ tickslock # None

(* A timer interrupt, in user code or in the kernel between critical sections. *)
yield(p) ==
  /\ pc[p] \in LockFreePCs /\ Running(p) /\ ~Spinning(p)
  /\ ~plock[p]
  /\ plock' = [plock EXCEPT ![p] = TRUE]
  /\ state' = [state EXCEPT ![p] = "RUNNABLE"]
  /\ resume' = [resume EXCEPT ![p] = pc[p]]
  /\ Goto(p, "sched")
  /\ UNCHANGED <<chan, killed, pid, parent, wait_lock, tickslock, nextpid, run, np, scan>>

-----------------------------------------------------------------------------
(* sleep() and wakeup() *)

(* sleep(ch, lk): p takes its own lock and is asleep; the caller releases lk. *)
sleep(p, ch, then) ==
  /\ ~plock[p]
  /\ plock' = [plock EXCEPT ![p] = TRUE]
  /\ chan' = [chan EXCEPT ![p] = ch]
  /\ state' = [state EXCEPT ![p] = "SLEEPING"]
  /\ resume' = [resume EXCEPT ![p] = then]
  /\ Goto(p, "sched")
  /\ UNCHANGED <<killed, pid, parent, nextpid, run, np, scan>>

(* The visit of wakeup(ch) to slot q.  Only q itself ever sleeps on a channel *)
(* that is a process (in wait()), so for those the other visits do nothing.   *)
wakeup(q, ch) ==
  /\ ~plock[q]
  /\ state' = [state EXCEPT ![q] =
                 IF @ = "SLEEPING" /\ chan[q] = ch THEN "RUNNABLE" ELSE @]

-----------------------------------------------------------------------------
(* fork() *)

freeproc(q) ==
  /\ state' = [state EXCEPT ![q] = "UNUSED"]
  /\ pid' = [pid EXCEPT ![q] = 0]
  /\ parent' = [parent EXCEPT ![q] = None]
  /\ chan' = [chan EXCEPT ![q] = None]
  /\ killed' = [killed EXCEPT ![q] = FALSE]

(* allocproc() finds q, and memory for the child can be had. *)
fork_alloc(p, q) ==
  /\ Syscall(p, "fork")
  /\ nextpid <= MaxPid
  /\ state[q] = "UNUSED" /\ ~plock[q]
  /\ pid' = [pid EXCEPT ![q] = nextpid]
  /\ nextpid' = nextpid + 1
  /\ state' = [state EXCEPT ![q] = "USED"]
  /\ np' = [np EXCEPT ![p] = q]
  /\ pc' = [pc EXCEPT ![p] = "fork_parent", ![q] = "sched"]
  /\ resume' = [resume EXCEPT ![q] = "user"]
  /\ UNCHANGED <<chan, killed, parent, locks, run, scan>>

(* allocproc() finds q, but a page is missing and freeproc() undoes it. *)
fork_fail(p, q) ==
  /\ Syscall(p, "fork")
  /\ nextpid <= MaxPid
  /\ state[q] = "UNUSED" /\ ~plock[q]
  /\ nextpid' = nextpid + 1
  /\ freeproc(q)
  /\ UNCHANGED <<locks, thread, scan>>

fork_parent(p) ==
  /\ At(p, "fork_parent")
  /\ wait_lock = None
  /\ parent' = [parent EXCEPT ![np[p]] = p]
  /\ Goto(p, "fork_run")
  /\ UNCHANGED <<state, chan, killed, pid, locks, nextpid, run, resume, np, scan>>

fork_run(p) ==
  /\ At(p, "fork_run")
  /\ ~plock[np[p]]
  /\ state' = [state EXCEPT ![np[p]] = "RUNNABLE"]
  /\ np' = [np EXCEPT ![p] = None]
  /\ Goto(p, "user")
  /\ UNCHANGED <<chan, killed, pid, parent, locks, nextpid, run, resume, scan>>

-----------------------------------------------------------------------------
(* exit() *)

(* Fault: usertrap() does not look at p->killed. *)
exitByCallOnly(p) ==
  /\ p # initproc
  /\ Syscall(p, "exit")
  /\ Goto(p, "exit")
  /\ UNCHANGED <<procs, locks, nextpid, run, resume, np, scan>>

(* By the system call, or because usertrap() finds p->killed. *)
exit(p) ==
  /\ p # initproc
  /\ Syscall(p, "exit") \/ (At(p, "user") /\ killed[p])
  /\ Goto(p, "exit")
  /\ UNCHANGED <<procs, locks, nextpid, run, resume, np, scan>>

exit_lock(p) ==
  /\ At(p, "exit")
  /\ wait_lock = None
  /\ wait_lock' = p
  /\ Goto(p, "exit_reparent")
  /\ UNCHANGED <<procs, plock, tickslock, nextpid, run, resume, np, scan>>

(* Fault: the children keep their dead parent. *)
reparentNone(p) ==
  /\ At(p, "exit_reparent")
  /\ Goto(p, IF Children(p) # {} THEN "exit_wakeinit" ELSE "exit_wakeparent")
  /\ UNCHANGED <<procs, locks, nextpid, run, resume, np, scan>>

reparent(p) ==
  /\ At(p, "exit_reparent")
  /\ parent' = [q \in Slots |-> IF parent[q] = p THEN initproc ELSE parent[q]]
  /\ Goto(p, IF Children(p) # {} THEN "exit_wakeinit" ELSE "exit_wakeparent")
  /\ UNCHANGED <<state, chan, killed, pid, locks, nextpid, run, resume, np, scan>>

exit_wakeinit(p) ==
  /\ At(p, "exit_wakeinit")
  /\ wakeup(initproc, initproc)
  /\ Goto(p, "exit_wakeparent")
  /\ UNCHANGED <<chan, killed, pid, parent, locks, nextpid, run, resume, np, scan>>

(* Fault: the parent is not woken. *)
exit_wakenobody(p) ==
  /\ At(p, "exit_wakeparent")
  /\ ~plock[parent[p]]
  /\ Goto(p, "exit_zombie")
  /\ UNCHANGED <<procs, locks, nextpid, run, resume, np, scan>>

exit_wakeparent(p) ==
  /\ At(p, "exit_wakeparent")
  /\ wakeup(parent[p], parent[p])
  /\ Goto(p, "exit_zombie")
  /\ UNCHANGED <<chan, killed, pid, parent, locks, nextpid, run, resume, np, scan>>

exit_zombie(p) ==
  /\ At(p, "exit_zombie")
  /\ ~plock[p]
  /\ plock' = [plock EXCEPT ![p] = TRUE]
  /\ state' = [state EXCEPT ![p] = "ZOMBIE"]
  /\ wait_lock' = None
  /\ Goto(p, "sched")
  /\ UNCHANGED <<chan, killed, pid, parent, tickslock, nextpid, run, resume, np, scan>>

-----------------------------------------------------------------------------
(* wait() *)

sys_wait(p) ==
  /\ Syscall(p, "wait")
  /\ Goto(p, "wait")
  /\ UNCHANGED <<procs, locks, nextpid, run, resume, np, scan>>

wait(p) ==
  /\ At(p, "wait")
  /\ wait_lock = None
  /\ wait_lock' = p
  /\ Goto(p, "wait_scan")
  /\ UNCHANGED <<procs, plock, tickslock, nextpid, run, resume, np, scan>>

(* Fault: the child is reaped without its lock. *)
wait_reapUnlocked(p, q) ==
  /\ At(p, "wait_scan")
  /\ parent[q] = p
  /\ state[q] = "ZOMBIE"
  /\ freeproc(q)
  /\ wait_lock' = None
  /\ Goto(p, "user")
  /\ UNCHANGED <<plock, tickslock, nextpid, run, resume, np, scan>>

(* Fault: the child's pid is returned but its slot is not freed. *)
wait_reapKeeps(p, q) ==
  /\ At(p, "wait_scan")
  /\ parent[q] = p /\ ~plock[q]
  /\ state[q] = "ZOMBIE"
  /\ wait_lock' = None
  /\ Goto(p, "user")
  /\ UNCHANGED <<procs, plock, tickslock, nextpid, run, resume, np, scan>>

wait_reap(p, q) ==
  /\ At(p, "wait_scan")
  /\ parent[q] = p /\ ~plock[q]
  /\ state[q] = "ZOMBIE"
  /\ freeproc(q)
  /\ wait_lock' = None
  /\ Goto(p, "user")
  /\ UNCHANGED <<plock, tickslock, nextpid, run, resume, np, scan>>

(* copyout() of the exit status fails: the child stays.  init asks for none *)
(* (user/init.c, line 42).                                                   *)
wait_copyfail(p, q) ==
  /\ p # initproc
  /\ At(p, "wait_scan")
  /\ parent[q] = p /\ ~plock[q]
  /\ state[q] = "ZOMBIE"
  /\ wait_lock' = None
  /\ Goto(p, "user")
  /\ UNCHANGED <<procs, plock, tickslock, nextpid, run, resume, np, scan>>

(* The scan visits every child, each with its lock, and finds no zombie. *)
wait_none(p) ==
  /\ At(p, "wait_scan")
  /\ \A q \in Children(p) : state[q] # "ZOMBIE"
  /\ IF Children(p) = {} \/ killed[p]
     THEN wait_lock' = None /\ Goto(p, "user")
     ELSE Goto(p, "wait_sleep") /\ UNCHANGED wait_lock
  /\ UNCHANGED <<procs, plock, tickslock, nextpid, run, resume, np, scan>>

wait_sleep(p) ==
  /\ At(p, "wait_sleep")
  /\ sleep(p, p, "wait")
  /\ wait_lock' = None
  /\ UNCHANGED tickslock

-----------------------------------------------------------------------------
(* kill() *)

(* The first slot whose pid matches; several do only for pid 0, UNUSED slots. *)
kill(p, q) ==
  /\ Syscall(p, "kill")
  /\ pid[q] \in KillPids
  /\ ~plock[q]
  /\ killed' = [killed EXCEPT ![q] = TRUE]
  /\ state' = [state EXCEPT ![q] = IF @ = "SLEEPING" THEN "RUNNABLE" ELSE @]
  /\ UNCHANGED <<chan, pid, parent, locks, nextpid, thread, scan>>

-----------------------------------------------------------------------------
(* sys_sleep() and clockintr() *)

(* user/init.c does not sleep. *)
sys_sleep(p) ==
  /\ p # initproc
  /\ Syscall(p, "sleep")
  /\ Goto(p, "sleep")
  /\ UNCHANGED <<procs, locks, nextpid, run, resume, np, scan>>

sys_sleep_lock(p) ==
  /\ At(p, "sleep")
  /\ tickslock = None
  /\ tickslock' = p
  /\ Goto(p, "sleep_check")
  /\ UNCHANGED <<procs, plock, wait_lock, nextpid, run, resume, np, scan>>

(* The time has come, or p is killed. *)
sys_sleep_return(p) ==
  /\ At(p, "sleep_check")
  /\ tickslock' = None
  /\ Goto(p, "user")
  /\ UNCHANGED <<procs, plock, wait_lock, nextpid, run, resume, np, scan>>

sys_sleep_more(p) ==
  /\ At(p, "sleep_check")
  /\ ~killed[p]
  /\ Goto(p, "sleep_sleep")
  /\ UNCHANGED <<procs, locks, nextpid, run, resume, np, scan>>

sys_sleep_sleep(p) ==
  /\ At(p, "sleep_sleep")
  /\ sleep(p, "ticks", "sleep")
  /\ tickslock' = None
  /\ UNCHANGED wait_lock

clockintr ==
  /\ "sleep" \in Calls
  /\ tickslock = None
  /\ tickslock' = "clock"
  /\ scan' = Slots
  /\ UNCHANGED <<procs, plock, wait_lock, nextpid, thread>>

clock_wakeup(q) ==
  /\ q \in scan
  /\ wakeup(q, "ticks")
  /\ scan' = scan \ {q}
  /\ tickslock' = IF scan' = {} THEN None ELSE tickslock
  /\ UNCHANGED <<chan, killed, pid, parent, plock, wait_lock, nextpid, thread>>

-----------------------------------------------------------------------------
(* The steps of p that follow from where it is, without a choice of the user *)
Step(p) ==
  \/ fork_parent(p) \/ fork_run(p)
  \/ exit_lock(p) \/ reparent(p) \/ exit_wakeinit(p) \/ exit_wakeparent(p) \/ exit_zombie(p)
  \/ wait(p) \/ wait_none(p) \/ wait_sleep(p)
  \/ \E q \in Slots : wait_reap(p, q)
  \/ sys_sleep_lock(p) \/ sys_sleep_return(p) \/ sys_sleep_sleep(p)

Next ==
  \/ \E c \in CPUs, p \in Slots : scheduler(c, p) \/ sched(c, p)
  \/ \E p \in Slots :
       \/ Resume(p) \/ Step(p)
       \/ yield(p) \/ exit(p) \/ sys_wait(p) \/ sys_sleep(p) \/ sys_sleep_more(p)
       \/ \E q \in Slots : fork_alloc(p, q) \/ fork_fail(p, q) \/ wait_copyfail(p, q) \/ kill(p, q)
       \/ clock_wakeup(p)
  \/ clockintr

Spec == Init /\ [][Next]_vars

-----------------------------------------------------------------------------
(* No two CPUs execute on the same kernel stack, and the slot of a process  *)
(* is not freed while a CPU is still on its stack: wait() takes the child's *)
(* lock, which exit() holds until the scheduler has switched away.          *)
StackSafe ==
  /\ \A c, d \in CPUs : run[c] = run[d] /\ run[c] # None => c = d
  /\ \A c \in CPUs : run[c] # None => state[run[c]] \notin {"UNUSED", "USED"}

(* The panics of sched(), and of exit() if it came back: whoever is about to *)
(* switch to the scheduler holds p->lock and no other lock and has changed   *)
(* p->state, and a zombie never runs again.                                  *)
SchedSafe ==
  /\ \A p \in Slots :
       At(p, "sched") => /\ plock[p] /\ wait_lock # p /\ tickslock # p
                         /\ state[p] # "RUNNING"
  /\ \A p \in Slots : state[p] = "ZOMBIE" => pc[p] = "sched"

(* The switch between a process and a scheduler, in both directions. *)
SwitchSafe == TypeOK /\ StackSafe /\ SchedSafe

(* Every process that can run, sleep or be reaped has a parent that is alive *)
(* to wait() for it: reparent() leaves no child behind, though fork() gives  *)
(* a child its parent and makes it RUNNABLE in separate critical sections.   *)
NoOrphan ==
  \A q \in Slots \ {initproc} :
    state[q] \notin {"UNUSED", "USED"} =>
      parent[q] # None /\ state[parent[q]] \notin {"UNUSED", "USED", "ZOMBIE"}

(* wait() misses no exit: whenever wait_lock is free, a process asleep in    *)
(* wait() has no zombie child.                                               *)
NoMissedExit ==
  \A p \in Slots :
    (wait_lock = None /\ state[p] = "SLEEPING" /\ chan[p] = p) =>
      \A q \in Children(p) : state[q] # "ZOMBIE"

(* proc.c, line 588, "Kill the process with the given pid": a slot that      *)
(* belongs to no process is not marked, so no process is born killed.        *)
NotBornKilled == \A p \in Slots : state[p] = "USED" /\ killed[p] => pid[p] \in KillPids

(* If all that user programs do to end or wait is left to init's loop, every *)
(* child that exits is reaped: exit() wakes init even if it was about to     *)
(* sleep.                                                                    *)
ZombieReaped ==
  \A q \in Slots : (state[q] = "ZOMBIE" /\ parent[q] = initproc) ~> state[q] # "ZOMBIE"

(* usertrap(), trap.c: a process that is killed while it runs, sleeps in     *)
(* sys_sleep() or waits for the CPU comes to exit().                         *)
KilledExits == \A p \in Slots \ {initproc} : killed[p] ~> (state[p] \in {"ZOMBIE", "UNUSED"})

(* proc.c, lines 600-603, "Wake process from sleep()": no process stays      *)
(* asleep in wait() once it is killed.                                       *)
KillWakes == \A p \in Slots : killed[p] ~> ~(killed[p] /\ state[p] = "SLEEPING")

(* A CPU scans the whole table, so a RUNNABLE process is picked if CPUs keep *)
(* coming back to the scheduler; they do, since a timer interrupt stays      *)
(* pending until a process has interrupts on.  A time slice is long enough   *)
(* for a process to get somewhere: it returns from usertrap(), gets a spin   *)
(* lock that is released over and over, and init's loop calls wait().        *)
Fairness ==
  /\ \A c \in CPUs :
       /\ SF_vars(\E p \in Slots : run[c] = p /\ yield(p))
       /\ WF_vars(\E p \in Slots : sched(c, p) \/ (run[c] = p /\ Resume(p)))
  /\ \A p \in Slots :
       /\ SF_vars(\E c \in CPUs : scheduler(c, p))
       /\ SF_vars(Step(p) \/ (killed[p] /\ exit(p)))
  /\ WF_vars(clockintr \/ \E q \in Slots : clock_wakeup(q))
  /\ SF_vars(sys_wait(initproc))

LiveSpec == Spec /\ Fairness
=============================================================================
