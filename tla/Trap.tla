-------------------------------- MODULE Trap --------------------------------
(***************************************************************************)
(* Interrupts and spin locks: acquire(), release(), push_off() and         *)
(* pop_off() (kernel/spinlock.c), traps from user code and from the kernel *)
(* (kernel/trap.c), and the switches between a process and the scheduler   *)
(* of a CPU (kernel/proc.c).                                               *)
(*                                                                         *)
(* A thread is a process or the scheduler of a CPU; it has a stack of      *)
(* frames, the running function first.  An interrupt may come before any   *)
(* step of a CPU whose interrupts are enabled.  Without interrupts a step  *)
(* runs to the next access to memory that the CPUs share.                  *)
(***************************************************************************)
EXTENDS Naturals, Sequences, FiniteSets

CONSTANTS Cpus, Cpu0, Procs, None

Threads == Procs \cup Cpus
Locks == Procs \cup {"tickslock"}      \* p->lock is named p

VARIABLES
  sie, stvec, sepc,         \* registers: interrupts are enabled, the trap vector, the pc trapped
  noff, intena, proc,       \* struct cpu
  run,                      \* the thread that a CPU runs
  lock,                     \* the CPU that holds a lock
  state, epc, stack

regs == <<sie, stvec, sepc>>
cpu == <<noff, intena, proc, run>>
vars == <<regs, cpu, lock, state, epc, stack>>

Frame(f, pc) == [f |-> f, pc |-> pc, lk |-> None, old |-> FALSE, sepc |-> None, timer |-> FALSE, todo |-> {}]

(* Every process is about to run for the first time: forkret(). *)
Init ==
  /\ sie = [c \in Cpus |-> FALSE]
  /\ stvec = [c \in Cpus |-> "kernelvec"]
  /\ sepc = [c \in Cpus |-> None]
  /\ noff = [c \in Cpus |-> 0]
  /\ intena = [c \in Cpus |-> FALSE]
  /\ proc = [c \in Cpus |-> None]
  /\ run = [c \in Cpus |-> c]
  /\ lock = [l \in Locks |-> None]
  /\ state = [p \in Procs |-> "RUNNABLE"]
  /\ epc = [p \in Procs |-> "user"]
  /\ stack = [t \in Threads |-> <<IF t \in Cpus THEN Frame("scheduler", "loop") ELSE Frame("process", "forkret")>>]

Top(c) == Head(stack[run[c]])
At(c, f, pc) == Top(c).f = f /\ Top(c).pc = pc

(* Steps of the thread of c: go on at pc, call a function and go on at pc, return *)
Goto(c, pc) == stack' = [stack EXCEPT ![run[c]][1].pc = pc]
Call(c, frame, pc) == stack' = [stack EXCEPT ![run[c]] = <<frame, [Head(@) EXCEPT !.pc = pc]>> \o Tail(@)]
Return(c) == stack' = [stack EXCEPT ![run[c]] = Tail(@)]
acquire(c, l, pc) == Call(c, [Frame("acquire", "off") EXCEPT !.lk = l], pc)
Panic(c) == Goto(c, "panic")

-----------------------------------------------------------------------------
(* acquire(): push_off(), whose intr_get() may be followed by an interrupt *)
push_off(c) ==
  /\ At(c, "acquire", "off")
  /\ stack' = [stack EXCEPT ![run[c]][1].old = sie[c], ![run[c]][1].pc = "intr_off"]
  /\ UNCHANGED <<regs, cpu, lock, state, epc>>

holding(c, l) == lock[l] = c

intr_off(c) ==
  /\ At(c, "acquire", "intr_off")
  /\ sie' = [sie EXCEPT ![c] = FALSE]
  /\ intena' = IF noff[c] = 0 THEN [intena EXCEPT ![c] = Top(c).old] ELSE intena
  /\ noff' = [noff EXCEPT ![c] = @ + 1]
  /\ Goto(c, IF holding(c, Top(c).lk) THEN "panic" ELSE "spin")
  /\ UNCHANGED <<stvec, sepc, proc, run, lock, state, epc>>

test_and_set(c) ==
  /\ At(c, "acquire", "spin") /\ lock[Top(c).lk] = None
  /\ lock' = [lock EXCEPT ![Top(c).lk] = c]
  /\ Return(c)
  /\ UNCHANGED <<regs, cpu, state, epc>>

(* Fault: interrupts come back with the first of two locks. *)
pop_offEarly(c) ==
  /\ noff' = [noff EXCEPT ![c] = @ - 1]
  /\ sie' = [sie EXCEPT ![c] = intena[c]]

pop_off(c) ==
  /\ noff' = [noff EXCEPT ![c] = @ - 1]
  /\ sie' = [sie EXCEPT ![c] = @ \/ (noff[c] = 1 /\ intena[c])]

(* release(), and then pc: every caller has its interrupts off by the lock, so no step comes between *)
release(c, l, pc) ==
  IF ~holding(c, l) \/ sie[c] \/ noff[c] < 1
  THEN Panic(c) /\ UNCHANGED <<lock, noff, sie>>
  ELSE /\ lock' = [lock EXCEPT ![l] = None]
       /\ pop_off(c)
       /\ Goto(c, pc)

-----------------------------------------------------------------------------
(* scheduler(), and the swtch() to and from it *)

(* One iteration of scheduler(): interrupts are enabled only at the start of a pass over the table. *)
scheduler(c) ==
  /\ At(c, "scheduler", "loop")
  /\ LET todo == IF Top(c).todo = {} THEN Procs ELSE Top(c).todo
         p == CHOOSE q \in todo : TRUE
     IN  stack' = [stack EXCEPT ![c] = <<[Frame("acquire", "off") EXCEPT !.lk = p],
                                         [Frame("scheduler", "locked") EXCEPT !.lk = p, !.todo = todo \ {p}]>>]
  /\ sie' = [sie EXCEPT ![c] = @ \/ Top(c).todo = {}]
  /\ UNCHANGED <<stvec, sepc, cpu, lock, state, epc>>

scheduler_run(c) ==
  /\ At(c, "scheduler", "locked")
  /\ LET p == Top(c).lk
     IN  IF state[p] # "RUNNABLE"
         THEN release(c, p, "loop") /\ UNCHANGED <<state, proc, run>>
         ELSE /\ UNCHANGED <<lock, noff, sie>>
              /\ state' = [state EXCEPT ![p] = "RUNNING"]
              /\ proc' = [proc EXCEPT ![c] = p]
              /\ run' = [run EXCEPT ![c] = p]
              /\ Goto(c, "back")
  /\ UNCHANGED <<stvec, sepc, intena, epc>>

scheduler_back(c) ==
  /\ At(c, "scheduler", "back")
  /\ proc' = [proc EXCEPT ![c] = None]
  /\ release(c, Top(c).lk, "loop")
  /\ UNCHANGED <<stvec, sepc, intena, run, state, epc>>

(* sched(), from yield() or sleep() with p->lock, up to swtch() *)
sched(c) ==
  /\ At(c, "yield", "sched") \/ At(c, "sleep", "sched")
  /\ LET p == run[c]
     IN  IF lock[p] # c \/ noff[c] # 1 \/ sie[c]
         THEN Panic(c) /\ UNCHANGED <<state, run>>
         ELSE /\ state' = [state EXCEPT ![p] = IF Top(c).f = "yield" THEN "RUNNABLE" ELSE "SLEEPING"]
              /\ stack' = [stack EXCEPT ![p][1].old = intena[c], ![p][1].pc = "back"]
              /\ run' = [run EXCEPT ![c] = c]
  /\ UNCHANGED <<regs, noff, intena, proc, lock, epc>>

(* Fault: intena is left as the other thread had it. *)
KeptIntena(c) == intena[c]

SavedIntena(c) == Top(c).old

(* The end of sched(), perhaps on another CPU *)
sched_back(c) ==
  /\ Top(c).pc = "back" /\ Top(c).f \in {"yield", "sleep"}
  /\ intena' = [intena EXCEPT ![c] = SavedIntena(c)]
  /\ Goto(c, "unlock")
  /\ UNCHANGED <<regs, noff, proc, run, lock, state, epc>>

yield_end(c) ==
  /\ At(c, "yield", "unlock")
  /\ release(c, run[c], "end")
  /\ UNCHANGED <<stvec, sepc, intena, proc, run, state, epc>>

(* sleep(&ticks, &tickslock), with both locks, and when it is back *)
sleep(c) ==
  /\ \/ At(c, "sleep", "locked") /\ release(c, "tickslock", "sched")
     \/ At(c, "sleep", "unlock") /\ release(c, run[c], "relock")
     \/ At(c, "sleep", "relock") /\ acquire(c, "tickslock", "end") /\ UNCHANGED <<lock, noff, sie>>
  /\ UNCHANGED <<stvec, sepc, intena, proc, run, state, epc>>

-----------------------------------------------------------------------------
(* Traps.  An interrupt is of the timer or of a device. *)

(* devintr(), with the lock that clockintr() takes on the first CPU.  The *)
(* handlers of the devices have locks of their own and are left out.      *)
devintr(c, timer) ==
  IF timer /\ c = Cpu0
  THEN <<[Frame("acquire", "off") EXCEPT !.lk = "tickslock"], [Frame("clockintr", "wakeup") EXCEPT !.todo = Procs \ {proc[c]}]>>
  ELSE <<>>

(* wakeup() takes the lock of every process but its own, one after the other. *)
wakeup(c) ==
  /\ At(c, "clockintr", "wakeup") /\ Top(c).todo # {}
  /\ LET p == CHOOSE q \in Top(c).todo : TRUE
     IN  stack' = [stack EXCEPT ![run[c]] =
           <<[Frame("acquire", "off") EXCEPT !.lk = p],
             [Head(@) EXCEPT !.lk = p, !.todo = @ \ {p}, !.pc = "woken"]>> \o Tail(@)]
  /\ UNCHANGED <<regs, cpu, lock, state, epc>>

clockintr(c) ==
  /\ \/ At(c, "clockintr", "woken") /\ release(c, Top(c).lk, "wakeup")
        /\ state' = [state EXCEPT ![Top(c).lk] = IF @ = "SLEEPING" THEN "RUNNABLE" ELSE @]
     \/ At(c, "clockintr", "wakeup") /\ Top(c).todo = {} /\ release(c, "tickslock", "end") /\ UNCHANGED state
  /\ UNCHANGED <<stvec, sepc, intena, proc, run, epc>>

(* The end of clockintr(), of yield() and of sleep() *)
return(c) ==
  /\ Top(c).pc = "end"
  /\ Return(c)
  /\ UNCHANGED <<regs, cpu, lock, state, epc>>

InUser(c) == At(c, "process", "user")

(* A trap of the hardware from the kernel, and kerneltrap() up to devintr(). *)
(* What sret must come back to is the thread and the depth of its stack.     *)
kerneltrap(c, timer) ==
  /\ sie[c] /\ ~InUser(c) /\ Top(c).pc # "panic"
  /\ sie' = [sie EXCEPT ![c] = FALSE]
  /\ sepc' = [sepc EXCEPT ![c] = <<run[c], Len(stack[run[c]])>>]
  /\ stack' = [stack EXCEPT ![run[c]] =
       devintr(c, timer) \o <<[Frame("kerneltrap", "yield") EXCEPT !.timer = timer, !.sepc = sepc'[c]]>> \o @]
  /\ UNCHANGED <<stvec, cpu, lock, state, epc>>

yield(c) ==
  /\ At(c, "kerneltrap", "yield") \/ At(c, "process", "yield")
  /\ LET next == IF Top(c).f = "process" THEN "usertrapret" ELSE "sret"
     IN  IF Top(c).timer /\ proc[c] # None /\ state[proc[c]] = "RUNNING"
         THEN stack' = [stack EXCEPT ![run[c]] = <<[Frame("acquire", "off") EXCEPT !.lk = run[c]], Frame("yield", "sched"),
                                                   [Head(@) EXCEPT !.timer = FALSE, !.pc = next]>> \o Tail(@)]
         ELSE stack' = [stack EXCEPT ![run[c]][1].timer = FALSE, ![run[c]][1].pc = next]
  /\ UNCHANGED <<regs, cpu, lock, state, epc>>

(* Fault: the trap registers are not restored after yield(). *)
StaleSepc(c) == sepc[c]

SavedSepc(c) == Top(c).sepc

(* The end of kerneltrap(), and kernelvec's sret *)
kernel_sret(c) ==
  /\ At(c, "kerneltrap", "sret")
  /\ sepc' = [sepc EXCEPT ![c] = SavedSepc(c)]
  /\ IF sepc'[c] = <<run[c], Len(stack[run[c]]) - 1>> THEN Return(c) ELSE Panic(c)
  /\ sie' = [sie EXCEPT ![c] = TRUE]
  /\ UNCHANGED <<stvec, cpu, lock, state, epc>>

(* From user code: a system call, an interrupt of the timer or of a device *)
uservec(c, cause) ==
  /\ InUser(c)
  /\ sie' = [sie EXCEPT ![c] = FALSE]
  /\ sepc' = [sepc EXCEPT ![c] = "user"]
  /\ stack' = [stack EXCEPT ![run[c]][1].pc = cause]
  /\ UNCHANGED <<stvec, cpu, lock, state, epc>>

usertrap(c) ==
  /\ Top(c).f = "process" /\ Top(c).pc \in {"syscall", "timer", "device"}
  /\ stvec' = [stvec EXCEPT ![c] = "kernelvec"]
  /\ epc' = [epc EXCEPT ![run[c]] = sepc[c]]
  /\ IF Top(c).pc = "syscall"
     THEN sie' = [sie EXCEPT ![c] = TRUE] /\ Goto(c, "sys_sleep")
     ELSE LET timer == Top(c).pc = "timer"
          IN  /\ stack' = [stack EXCEPT ![run[c]] = devintr(c, timer) \o <<[Head(@) EXCEPT !.timer = timer, !.pc = "yield"]>>]
              /\ UNCHANGED sie
  /\ UNCHANGED <<sepc, cpu, lock, state>>

(* sys_sleep(): whether enough ticks have passed is left open. *)
sys_sleep(c) ==
  /\ \/ At(c, "process", "sys_sleep") /\ acquire(c, "tickslock", "check") /\ UNCHANGED <<lock, noff, sie>>
     \/ At(c, "process", "check") /\ release(c, "tickslock", "usertrapret")
     \/ /\ At(c, "process", "check")
        /\ stack' = [stack EXCEPT ![run[c]] = <<[Frame("acquire", "off") EXCEPT !.lk = run[c]], Frame("sleep", "locked")>> \o @]
        /\ UNCHANGED <<lock, noff, sie>>
  /\ UNCHANGED <<stvec, sepc, intena, proc, run, state, epc>>

usertrapret(c) ==
  /\ At(c, "process", "usertrapret")
  /\ sie' = [sie EXCEPT ![c] = FALSE]
  /\ stvec' = [stvec EXCEPT ![c] = "uservec"]
  /\ Goto(c, "sret")
  /\ UNCHANGED <<sepc, cpu, lock, state, epc>>

(* userret *)
user_sret(c) ==
  /\ At(c, "process", "sret")
  /\ sepc' = [sepc EXCEPT ![c] = epc[run[c]]]
  /\ sie' = [sie EXCEPT ![c] = TRUE]
  /\ Goto(c, "user")
  /\ UNCHANGED <<stvec, cpu, lock, state, epc>>

forkret(c) ==
  /\ At(c, "process", "forkret")
  /\ release(c, run[c], "usertrapret")
  /\ UNCHANGED <<stvec, sepc, intena, proc, run, state, epc>>

Next == \E c \in Cpus :
  \/ push_off(c) \/ intr_off(c) \/ test_and_set(c)
  \/ scheduler(c) \/ scheduler_run(c) \/ scheduler_back(c) \/ sched(c) \/ sched_back(c) \/ yield_end(c) \/ forkret(c)
  \/ wakeup(c) \/ clockintr(c) \/ return(c)
  \/ yield(c) \/ kernel_sret(c)
  \/ usertrap(c) \/ sys_sleep(c) \/ sleep(c) \/ usertrapret(c) \/ user_sret(c)
  \/ \E timer \in BOOLEAN : kerneltrap(c, timer)
  \/ \E cause \in {"syscall", "timer", "device"} : uservec(c, cause)

Spec == Init /\ [][Next]_vars

-----------------------------------------------------------------------------
Count(s, f, pc) == Cardinality({i \in DOMAIN s : s[i].f = f /\ s[i].pc = pc})

(* A CPU that holds a lock, or spins for one, takes no interrupt, so that the   *)
(* code it interrupts never holds a lock its handler waits for; and noff counts *)
(* exactly those locks, through nested calls and swtch().                       *)
LocksMasked == \A c \in Cpus :
  LET held == Cardinality({l \in Locks : lock[l] = c}) + Count(stack[run[c]], "acquire", "spin")
  IN  noff[c] = held /\ (held > 0 => ~sie[c])

(* A trap in the kernel goes to kernelvec and one in user code to uservec, and  *)
(* a handler is never interrupted, also after its yield() comes back on another *)
(* CPU, so a kernel stack holds at most one of them.                            *)
TrapsSafe ==
  /\ \A c \in Cpus : sie[c] => stvec[c] = IF InUser(c) THEN "uservec" ELSE "kernelvec"
  /\ \A t \in Threads : Cardinality({i \in DOMAIN stack[t] : stack[t][i].f = "kerneltrap"}) <= 1

(* No CPU takes a lock twice or releases one it does not hold, the checks of    *)
(* sched() and pop_off() hold, and sret goes back to what was interrupted.      *)
NoPanic == \A t \in Threads : \A i \in DOMAIN stack[t] : stack[t][i].pc # "panic"
=============================================================================
