-------------------------------- MODULE Pipe --------------------------------
(***************************************************************************)
(* One pipe of kernel/pipe.c and the processes that hold its ends.         *)
(*                                                                         *)
(* pi->lock is held from acquire() to the next sleep() or return; a step   *)
(* is one iteration of a loop, since a kill() can come between any two.    *)
(* sleep() and wakeup() are atomic here (module Proc has their insides).   *)
(***************************************************************************)
EXTENDS Naturals, Sequences, FiniteSets

CONSTANTS
  Readers, Writers,   \* processes holding the read and the write end
  Bytes,
  None,               \* no process
  PIPESIZE,
  UINT,               \* 2^32, the counters' modulus
  MaxCount,           \* bound: the largest n of a read or write
  Killable            \* the processes that kill() may hit

Procs == Readers \cup Writers

ASSUME ConstantsAssumption ==
  /\ Readers \cap Writers = {}
  /\ None \notin Readers \cup Writers
  /\ PIPESIZE \in Nat \ {0}
  /\ UINT \in Nat /\ UINT > PIPESIZE /\ UINT % PIPESIZE = 0
  /\ MaxCount \in Nat
  /\ Killable \subseteq Readers \cup Writers

VARIABLES
  data, nread, nwrite, readopen, writeopen,   \* struct pipe
  lock,         \* holder of pi->lock
  pc,
  n,            \* bytes the running call still has to copy (n - i)
  killed,
  open          \* the process has not closed its end

pipe == <<data, nread, nwrite, readopen, writeopen>>
proc == <<pc, n, killed, open>>
vars == <<pipe, lock, proc>>

(* "asleep" on &pi->nread for a reader, on &pi->nwrite for a writer. *)
PCs == {"idle", "acquire", "loop", "sleep", "asleep", "copy"}

TypeOK ==
  /\ data \in [0 .. PIPESIZE - 1 -> Bytes]
  /\ nread \in 0 .. UINT - 1
  /\ nwrite \in 0 .. UINT - 1
  /\ readopen \in BOOLEAN /\ writeopen \in BOOLEAN
  /\ lock \in Procs \cup {None}
  /\ pc \in [Procs -> PCs]
  /\ n \in [Procs -> 0 .. MaxCount]
  /\ killed \in [Procs -> BOOLEAN]
  /\ open \in [Procs -> BOOLEAN]

(* pipealloc(), and the ends handed to the processes by fork(); the page of *)
(* the pipe holds whatever kalloc() left in it.                             *)
Init ==
  /\ data \in [0 .. PIPESIZE - 1 -> Bytes]
  /\ nread = 0 /\ nwrite = 0
  /\ readopen = TRUE /\ writeopen = TRUE
  /\ lock = None
  /\ pc = [p \in Procs |-> "idle"]
  /\ n = [p \in Procs |-> 0]
  /\ killed = [p \in Procs |-> FALSE]
  /\ open = [p \in Procs |-> TRUE]

Goto(p, l) == pc' = [pc EXCEPT ![p] = l]

(* wakeup() of one side of the pipe, with p itself going to l *)
WakeupGoto(side, p, l) ==
  pc' = [q \in Procs |-> IF q = p THEN l
                         ELSE IF q \in side /\ pc[q] = "asleep" THEN "acquire"
                         ELSE pc[q]]

(* Fault: one byte too many. *)
FullLate == nwrite = (nread + PIPESIZE + 1) % UINT

Full  == nwrite = (nread + PIPESIZE) % UINT
Empty == nread = nwrite

-----------------------------------------------------------------------------
(* Both calls: the process enters, takes pi->lock and starts its loop. *)

Call(p, k) ==
  /\ pc[p] = "idle" /\ open[p] /\ ~killed[p]
  /\ n' = [n EXCEPT ![p] = k]
  /\ Goto(p, "acquire")
  /\ UNCHANGED <<pipe, lock, killed, open>>

Acquire(p) ==
  /\ pc[p] = "acquire"
  /\ lock = None
  /\ lock' = p
  /\ Goto(p, "loop")
  /\ UNCHANGED <<pipe, n, killed, open>>

(* return -1: the lock is released and nobody is woken. *)
ReturnError(p) ==
  /\ lock' = None
  /\ n' = [n EXCEPT ![p] = 0]
  /\ Goto(p, "idle")
  /\ UNCHANGED <<pipe, killed, open>>

-----------------------------------------------------------------------------
(* pipewrite() *)

pipewrite_error(w) ==
  /\ pc[w] = "loop" /\ w \in Writers /\ n[w] > 0
  /\ ~readopen \/ killed[w]
  /\ ReturnError(w)

pipewrite_check(w) ==
  /\ pc[w] = "loop" /\ w \in Writers /\ n[w] > 0
  /\ readopen /\ ~killed[w]
  /\ Goto(w, "copy")
  /\ UNCHANGED <<pipe, lock, n, killed, open>>

(* Fault: the writer tries again instead of going to sleep, with pi->lock. *)
pipewrite_fullSpins(w) ==
  /\ pc[w] = "copy" /\ w \in Writers
  /\ Full
  /\ WakeupGoto(Readers, w, "loop")
  /\ UNCHANGED <<pipe, lock, n, killed, open>>

pipewrite_full(w) ==
  /\ pc[w] = "copy" /\ w \in Writers
  /\ Full
  /\ WakeupGoto(Readers, w, "asleep")
  /\ lock' = None
  /\ UNCHANGED <<pipe, n, killed, open>>

pipewrite_byte(w, c) ==
  /\ pc[w] = "copy" /\ w \in Writers
  /\ ~Full
  /\ data' = [data EXCEPT ![nwrite % PIPESIZE] = c]
  /\ nwrite' = (nwrite + 1) % UINT
  /\ n' = [n EXCEPT ![w] = @ - 1]
  /\ Goto(w, "loop")
  /\ UNCHANGED <<nread, readopen, writeopen, lock, killed, open>>

(* The end of the loop: all is written, or copyin() fails. *)
pipewrite_end(w) ==
  /\ w \in Writers
  /\ (pc[w] = "loop" /\ n[w] = 0) \/ (pc[w] = "copy" /\ ~Full)
  /\ WakeupGoto(Readers, w, "idle")
  /\ n' = [n EXCEPT ![w] = 0]
  /\ lock' = None
  /\ UNCHANGED <<pipe, killed, open>>

-----------------------------------------------------------------------------
(* piperead() *)

piperead_error(r) ==
  /\ pc[r] = "loop" /\ r \in Readers
  /\ Empty /\ writeopen /\ killed[r]
  /\ ReturnError(r)

piperead_empty(r) ==
  /\ pc[r] = "loop" /\ r \in Readers
  /\ Empty /\ writeopen /\ ~killed[r]
  /\ Goto(r, "sleep")
  /\ UNCHANGED <<pipe, lock, n, killed, open>>

piperead_sleep(r) ==
  /\ pc[r] = "sleep" /\ r \in Readers
  /\ Goto(r, "asleep")
  /\ lock' = None
  /\ UNCHANGED <<pipe, n, killed, open>>

piperead_ready(r) ==
  /\ pc[r] = "loop" /\ r \in Readers
  /\ ~(Empty /\ writeopen)
  /\ Goto(r, "copy")
  /\ UNCHANGED <<pipe, lock, n, killed, open>>

(* One byte is taken out; copyout() may fail after that and end the loop. *)
piperead_byte(r) ==
  /\ pc[r] = "copy" /\ r \in Readers
  /\ n[r] > 0 /\ ~Empty
  /\ nread' = (nread + 1) % UINT
  /\ n' \in {[n EXCEPT ![r] = @ - 1], [n EXCEPT ![r] = 0]}
  /\ UNCHANGED <<data, nwrite, readopen, writeopen, lock, pc, killed, open>>

(* Fault: the writers are not woken. *)
piperead_endSilent(r) ==
  /\ pc[r] = "copy" /\ r \in Readers
  /\ n[r] = 0 \/ Empty
  /\ Goto(r, "idle")
  /\ n' = [n EXCEPT ![r] = 0]
  /\ lock' = None
  /\ UNCHANGED <<pipe, killed, open>>

piperead_end(r) ==
  /\ pc[r] = "copy" /\ r \in Readers
  /\ n[r] = 0 \/ Empty
  /\ WakeupGoto(Writers, r, "idle")
  /\ n' = [n EXCEPT ![r] = 0]
  /\ lock' = None
  /\ UNCHANGED <<pipe, killed, open>>

-----------------------------------------------------------------------------
(* pipeclose(), by the last process that closes its end; kill() *)

Close(p) ==
  /\ pc[p] = "idle" /\ open[p]
  /\ lock = None
  /\ open' = [open EXCEPT ![p] = FALSE]
  /\ IF p \in Writers /\ \A q \in Writers \ {p} : ~open[q]
     THEN /\ writeopen' = FALSE
          /\ WakeupGoto(Readers, p, "idle")
          /\ UNCHANGED readopen
     ELSE IF p \in Readers /\ \A q \in Readers \ {p} : ~open[q]
     THEN /\ readopen' = FALSE
          /\ WakeupGoto(Writers, p, "idle")
          /\ UNCHANGED writeopen
     ELSE UNCHANGED <<readopen, writeopen, pc>>
  /\ UNCHANGED <<data, nread, nwrite, lock, n, killed>>

kill(p) ==
  /\ p \in Killable
  /\ ~killed[p]
  /\ killed' = [killed EXCEPT ![p] = TRUE]
  /\ pc' = [pc EXCEPT ![p] = IF @ = "asleep" THEN "acquire" ELSE @]
  /\ UNCHANGED <<pipe, lock, n, open>>

-----------------------------------------------------------------------------
Step(p) ==
  \/ Acquire(p)
  \/ pipewrite_error(p) \/ pipewrite_full(p) \/ pipewrite_check(p) \/ pipewrite_end(p)
  \/ \E c \in Bytes : pipewrite_byte(p, c)
  \/ piperead_error(p) \/ piperead_empty(p) \/ piperead_sleep(p) \/ piperead_ready(p)
  \/ piperead_byte(p) \/ piperead_end(p)

Next ==
  \E p \in Procs :
    \/ \E k \in 0 .. MaxCount : Call(p, k)
    \/ Step(p)
    \/ Close(p)
    \/ kill(p)

Spec == Init /\ [][Next]_vars

-----------------------------------------------------------------------------
(* What is in the pipe: the bytes from nread up to nwrite, counted modulo 2^32. *)
Contents ==
  [k \in 1 .. (nwrite + UINT - nread) % UINT |-> data[(nread + k - 1) % PIPESIZE]]

Fifo == INSTANCE BoundedFifo WITH queue <- Contents, Capacity <- PIPESIZE

(* The ring buffer is a first-in first-out queue of at most PIPESIZE bytes,  *)
(* for any number of readers and writers, across the wrap of the counters    *)
(* and whatever kills, closes and copy failures come in between.             *)
IsFifo == Fifo!Spec

(* pipewrite() misses no room: whenever pi->lock is free, a writer asleep    *)
(* waits for a full pipe with a reader.                                      *)
WriterNotMissed ==
  \A w \in Writers : lock = None /\ pc[w] = "asleep" => Full /\ readopen

(* pipe.c, line 113, "DOC: pipe-empty": unless a writer was killed (see      *)
(* ReaderServed), whenever pi->lock is free a reader asleep waits for an     *)
(* empty pipe with a writer.                                                 *)
ReaderNotMissed ==
  (lock = None /\ \A w \in Writers : ~killed[w]) =>
    \A r \in Readers : pc[r] = "asleep" => Empty /\ writeopen

(* pipeclose() frees the page only when nobody is left in a read or a write. *)
NoUseAfterFree ==
  ~readopen /\ ~writeopen => \A p \in Procs : pc[p] = "idle"

(* Nobody sleeps without a reason or works on a freed pipe. *)
PipeSafe == TypeOK /\ WriterNotMissed /\ ReaderNotMissed /\ NoUseAfterFree

(* A read or write never blocks for ever if the other programs end: the last *)
(* close of an end wakes the sleepers of the other one.                      *)
CallsReturn == \A p \in Procs : pc[p] # "idle" ~> pc[p] = "idle"

(* pipe.c, line 113, as a liveness property: a reader does not stay asleep   *)
(* while the pipe has bytes for it.                                          *)
ReaderServed == \A r \in Readers : (pc[r] = "asleep" /\ ~Empty) ~> pc[r] # "asleep"

(* A process in the kernel is scheduled (WF), and a killed one exits, which *)
(* closes its end.                                                          *)
LiveSpec == Spec /\ \A p \in Procs : WF_vars(Step(p)) /\ WF_vars(killed[p] /\ Close(p))

(* In addition every program ends, and so closes its end (SF: it may be in  *)
(* and out of the kernel before).                                           *)
EndingSpec == LiveSpec /\ \A p \in Procs : SF_vars(Close(p))
=============================================================================
