-------------------------------- MODULE Log --------------------------------
(***************************************************************************)
(* The write-ahead log of kernel/log.c on top of the buffer cache of       *)
(* kernel/bio.c: concurrent file system calls, group commit, a crash       *)
(* between any two disk writes, and recovery, which may crash again.       *)
(*                                                                         *)
(* Each action is one critical section or one disk write.  A buffer held   *)
(* by a process (buf) has its sleep lock taken; a buffer whose refcnt is 0 *)
(* may be recycled for another block at any time (Evict).                  *)
(***************************************************************************)
EXTENDS Integers, Sequences, FiniteSets

CONSTANTS
  Procs, Blocks, Values,
  NoData,         \* the block has no buffer
  NoBlock,        \* the process holds no buffer
  MAXOPBLOCKS,    \* param.h: what begin_op() reserves for a call
  LOGSIZE,        \* param.h: entries of struct logheader
  NLOG,           \* sb.nlog, written by mkfs: header block and log blocks
  OPBLOCKS,       \* the most blocks a system call really adds to the log
  CopyFaults      \* whether the user memory given to write() may be unmapped

ASSUME ConstantsAssumption ==
  /\ IsFiniteSet(Procs)
  /\ NoData \notin Values
  /\ NoBlock \notin Blocks
  /\ MAXOPBLOCKS \in Nat
  /\ LOGSIZE \in Nat
  /\ NLOG \in Nat \ {0}
  /\ OPBLOCKS \in 0 .. MAXOPBLOCKS
  /\ CopyFaults \in BOOLEAN

VARIABLES
  \* the disk
  home,           \* the home blocks
  dlog,           \* the log blocks after the header
  dhead,          \* the header block: the numbers of the logged blocks
  \* struct log
  lh, outstanding, committing,
  \* the buffer cache
  cache, refcnt,
  \* the processes
  pc,
  buf,            \* the block whose buffer the process has locked
  left,           \* blocks the running call may still add to the log
  tail,           \* loop index of write_log() and install_trans()
  boot            \* progress of recover_from_log()

disk == <<home, dlog, dhead>>
log  == <<lh, outstanding, committing>>
bufs == <<cache, refcnt>>
proc == <<pc, buf, left>>
vars == <<disk, log, bufs, proc, tail, boot>>

Logged == {lh[i] : i \in DOMAIN lh}

(* pc values: outside a call; in begin_op(); asleep there; in a call; in a  *)
(* call with a clean, a modified, a logged buffer; reading outside a call.  *)
(* The last ones are the stages of end_op()'s commit, and a panic.          *)
InOp     == {"op", "hold", "dirty", "logged"}
Holding  == {"hold", "dirty", "logged", "rhold"}
InCommit == {"write_log", "write_head", "install", "clear", "done"}
PCs      == {"idle", "begin", "sleep", "panic"} \cup InOp \cup Holding \cup InCommit

TypeOK ==
  /\ home \in [Blocks -> Values]
  /\ dlog \in [1 .. NLOG - 1 -> Values]
  /\ dhead \in Seq(Blocks)
  /\ lh \in Seq(Blocks)
  /\ outstanding \in Nat
  /\ committing \in BOOLEAN
  /\ cache \in [Blocks -> Values \cup {NoData}]
  /\ refcnt \in [Blocks -> Nat]
  /\ pc \in [Procs -> PCs]
  /\ buf \in [Procs -> Blocks \cup {NoBlock}]
  /\ left \in [Procs -> 0 .. OPBLOCKS]
  /\ tail \in Nat \ {0}
  /\ boot \in {"read_head", "install", "up"}

(* A machine that has just been switched on, with any image mkfs can make. *)
Init ==
  /\ home \in [Blocks -> Values]
  /\ dlog \in {[i \in 1 .. NLOG - 1 |-> v] : v \in Values}
  /\ dhead = <<>>
  /\ lh = <<>> /\ outstanding = 0 /\ committing = FALSE
  /\ cache = [b \in Blocks |-> NoData]
  /\ refcnt = [b \in Blocks |-> 0]
  /\ pc = [p \in Procs |-> "idle"]
  /\ buf = [p \in Procs |-> NoBlock]
  /\ left = [p \in Procs |-> 0]
  /\ tail = 1
  /\ boot = "read_head"

(* A process that panics inside log.lock never releases it. *)
LogLockFree == \A p \in Procs : pc[p] # "panic"

(* What bread() returns: the buffer if there is one, else the disk block. *)
View(b) == IF cache[b] = NoData THEN home[b] ELSE cache[b]

Unlocked(b) == \A p \in Procs : buf[p] # b

wakeup(f) == [p \in Procs |-> IF f[p] = "sleep" THEN "begin" ELSE f[p]]

-----------------------------------------------------------------------------
(* bio.c *)

Bread(p, b) ==
  /\ boot = "up"
  /\ pc[p] \in {"idle", "op"}
  /\ Unlocked(b)
  /\ cache' = [cache EXCEPT ![b] = View(b)]
  /\ refcnt' = [refcnt EXCEPT ![b] = @ + 1]
  /\ buf' = [buf EXCEPT ![p] = b]
  /\ pc' = [pc EXCEPT ![p] = IF @ = "op" THEN "hold" ELSE "rhold"]
  /\ UNCHANGED <<disk, log, left, tail, boot>>

Brelse(p) ==
  /\ pc[p] \in {"hold", "logged", "rhold"}
  /\ refcnt' = [refcnt EXCEPT ![buf[p]] = @ - 1]
  /\ buf' = [buf EXCEPT ![p] = NoBlock]
  /\ pc' = [pc EXCEPT ![p] = IF @ = "rhold" THEN "idle" ELSE "op"]
  /\ UNCHANGED <<disk, log, cache, left, tail, boot>>

(* bget() recycles an unused buffer for another block. *)
Evict(b) ==
  /\ refcnt[b] = 0
  /\ cache[b] # NoData
  /\ cache' = [cache EXCEPT ![b] = NoData]
  /\ UNCHANGED <<disk, log, refcnt, proc, tail, boot>>

-----------------------------------------------------------------------------
(* The body of a file system call *)

BeginOpCall(p) ==
  /\ boot = "up"
  /\ pc[p] = "idle"
  /\ pc' = [pc EXCEPT ![p] = "begin"]
  /\ UNCHANGED <<disk, log, bufs, buf, left, tail, boot>>

(* Fault: the caller's own reservation is left out. *)
MayBeginOneMore == ~committing /\ Len(lh) + outstanding * MAXOPBLOCKS <= LOGSIZE

MayBegin == ~committing /\ Len(lh) + (outstanding + 1) * MAXOPBLOCKS <= LOGSIZE

BeginOpSleep(p) ==
  /\ pc[p] = "begin"
  /\ LogLockFree
  /\ ~MayBegin
  /\ pc' = [pc EXCEPT ![p] = "sleep"]
  /\ UNCHANGED <<disk, log, bufs, buf, left, tail, boot>>

BeginOpEnter(p) ==
  /\ pc[p] = "begin"
  /\ LogLockFree
  /\ MayBegin
  /\ outstanding' = outstanding + 1
  /\ pc' = [pc EXCEPT ![p] = "op"]
  /\ left' = [left EXCEPT ![p] = OPBLOCKS]
  /\ UNCHANGED <<disk, lh, committing, bufs, buf, tail, boot>>

(* The call changes bp->data[]; it adds at most OPBLOCKS blocks to the log. *)
Modify(p, v) ==
  /\ pc[p] = "hold"
  /\ buf[p] \in Logged \/ left[p] > 0
  /\ cache' = [cache EXCEPT ![buf[p]] = v]
  /\ pc' = [pc EXCEPT ![p] = "dirty"]
  /\ UNCHANGED <<disk, log, refcnt, buf, left, tail, boot>>

(* writei(): either_copyin() fails after it has copied the pages before the *)
(* unmapped one; the buffer is released as it is, without log_write().      *)
ModifyFault(p, v) ==
  /\ CopyFaults
  /\ pc[p] = "hold"
  /\ cache' = [cache EXCEPT ![buf[p]] = v]
  /\ UNCHANGED <<disk, log, refcnt, proc, tail, boot>>

log_writePanics == Len(lh) >= LOGSIZE \/ Len(lh) >= NLOG - 1 \/ outstanding < 1

(* Fault: an absorbed block is pinned once more. *)
log_writePinsAgain(p) ==
  /\ pc[p] = "dirty"
  /\ LogLockFree
  /\ ~log_writePanics
  /\ refcnt' = [refcnt EXCEPT ![buf[p]] = @ + 1]
  /\ IF buf[p] \in Logged
     THEN UNCHANGED <<lh, left>>
     ELSE /\ lh' = Append(lh, buf[p])
          /\ left' = [left EXCEPT ![p] = @ - 1]
  /\ pc' = [pc EXCEPT ![p] = "logged"]
  /\ UNCHANGED <<disk, outstanding, committing, cache, buf, tail, boot>>

log_write(p) ==
  /\ pc[p] = "dirty"
  /\ LogLockFree
  /\ ~log_writePanics
  /\ IF buf[p] \in Logged
     THEN UNCHANGED <<lh, refcnt, left>>
     ELSE /\ lh' = Append(lh, buf[p])
          /\ refcnt' = [refcnt EXCEPT ![buf[p]] = @ + 1]
          /\ left' = [left EXCEPT ![p] = @ - 1]
  /\ pc' = [pc EXCEPT ![p] = "logged"]
  /\ UNCHANGED <<disk, outstanding, committing, cache, buf, tail, boot>>

log_writePanic(p) ==
  /\ pc[p] = "dirty"
  /\ LogLockFree
  /\ log_writePanics
  /\ pc' = [pc EXCEPT ![p] = "panic"]
  /\ UNCHANGED <<disk, log, bufs, buf, left, tail, boot>>

-----------------------------------------------------------------------------
(* end_op() and commit() *)

(* Fault: commit() takes a log of one block for an empty one. *)
end_opSkipsOne(p) ==
  /\ pc[p] = "op"
  /\ LogLockFree
  /\ outstanding' = outstanding - 1
  /\ left' = [left EXCEPT ![p] = 0]
  /\ tail' = 1
  /\ IF committing
     THEN /\ pc' = [pc EXCEPT ![p] = "panic"]
          /\ UNCHANGED committing
     ELSE IF outstanding' = 0
     THEN /\ committing' = TRUE
          /\ pc' = [pc EXCEPT ![p] = IF Len(lh) > 1 THEN "write_log" ELSE "done"]
     ELSE /\ pc' = wakeup([pc EXCEPT ![p] = "idle"])
          /\ UNCHANGED committing
  /\ UNCHANGED <<disk, lh, bufs, buf, boot>>

end_op(p) ==
  /\ pc[p] = "op"
  /\ LogLockFree
  /\ outstanding' = outstanding - 1
  /\ left' = [left EXCEPT ![p] = 0]
  /\ tail' = 1
  /\ IF committing
     THEN /\ pc' = [pc EXCEPT ![p] = "panic"]
          /\ UNCHANGED committing
     ELSE IF outstanding' = 0
     THEN /\ committing' = TRUE
          /\ pc' = [pc EXCEPT ![p] = IF lh # <<>> THEN "write_log" ELSE "done"]
     ELSE /\ pc' = wakeup([pc EXCEPT ![p] = "idle"])
          /\ UNCHANGED committing
  /\ UNCHANGED <<disk, lh, bufs, buf, boot>>

write_log(p) ==
  /\ pc[p] = "write_log"
  /\ Unlocked(lh[tail])
  /\ dlog' = [dlog EXCEPT ![tail] = View(lh[tail])]
  /\ cache' = [cache EXCEPT ![lh[tail]] = View(lh[tail])]
  /\ IF tail = Len(lh)
     THEN /\ pc' = [pc EXCEPT ![p] = "write_head"]
          /\ tail' = 1
     ELSE /\ tail' = tail + 1
          /\ UNCHANGED pc
  /\ UNCHANGED <<home, dhead, log, refcnt, buf, left, boot>>

write_head(p) ==
  /\ pc[p] = "write_head"
  /\ dhead' = lh
  /\ pc' = [pc EXCEPT ![p] = "install"]
  /\ UNCHANGED <<home, dlog, log, bufs, buf, left, tail, boot>>

install_trans(p) ==
  /\ pc[p] = "install"
  /\ Unlocked(lh[tail])
  /\ home' = [home EXCEPT ![lh[tail]] = dlog[tail]]
  /\ cache' = [cache EXCEPT ![lh[tail]] = dlog[tail]]
  /\ refcnt' = [refcnt EXCEPT ![lh[tail]] = @ - 1]
  /\ IF tail = Len(lh)
     THEN /\ pc' = [pc EXCEPT ![p] = "clear"]
          /\ UNCHANGED tail
     ELSE /\ tail' = tail + 1
          /\ UNCHANGED pc
  /\ UNCHANGED <<dlog, dhead, log, buf, left, boot>>

clear_head(p) ==
  /\ pc[p] = "clear"
  /\ lh' = <<>>
  /\ dhead' = <<>>
  /\ pc' = [pc EXCEPT ![p] = "done"]
  /\ UNCHANGED <<home, dlog, outstanding, committing, bufs, buf, left, tail, boot>>

(* Fault: the processes asleep in begin_op() are not woken. *)
end_commitSilent(p) ==
  /\ pc[p] = "done"
  /\ LogLockFree
  /\ committing' = FALSE
  /\ pc' = [pc EXCEPT ![p] = "idle"]
  /\ UNCHANGED <<disk, lh, outstanding, bufs, buf, left, tail, boot>>

end_commit(p) ==
  /\ pc[p] = "done"
  /\ LogLockFree
  /\ committing' = FALSE
  /\ pc' = wakeup([pc EXCEPT ![p] = "idle"])
  /\ UNCHANGED <<disk, lh, outstanding, bufs, buf, left, tail, boot>>

-----------------------------------------------------------------------------
(* Crash and recover_from_log() *)

(* Power fails: only the disk survives. *)
Crash ==
  /\ lh' = <<>> /\ outstanding' = 0 /\ committing' = FALSE
  /\ cache' = [b \in Blocks |-> NoData]
  /\ refcnt' = [b \in Blocks |-> 0]
  /\ pc' = [p \in Procs |-> "idle"]
  /\ buf' = [p \in Procs |-> NoBlock]
  /\ left' = [p \in Procs |-> 0]
  /\ tail' = 1
  /\ boot' = "read_head"
  /\ UNCHANGED disk

read_head ==
  /\ boot = "read_head"
  /\ lh' = dhead
  /\ boot' = "install"
  /\ UNCHANGED <<disk, outstanding, committing, bufs, proc, tail>>

recover_install ==
  /\ boot = "install"
  /\ tail <= Len(lh)
  /\ home' = [home EXCEPT ![lh[tail]] = dlog[tail]]
  /\ cache' = [cache EXCEPT ![lh[tail]] = dlog[tail]]
  /\ tail' = tail + 1
  /\ UNCHANGED <<dlog, dhead, log, refcnt, proc, boot>>

(* Fault: the header is cleared before all blocks are installed. *)
recover_clearEarly ==
  /\ boot = "install"
  /\ lh' = <<>>
  /\ dhead' = <<>>
  /\ boot' = "up"
  /\ UNCHANGED <<home, dlog, outstanding, committing, bufs, proc, tail>>

recover_clear ==
  /\ boot = "install"
  /\ tail > Len(lh)
  /\ lh' = <<>>
  /\ dhead' = <<>>
  /\ boot' = "up"
  /\ UNCHANGED <<home, dlog, outstanding, committing, bufs, proc, tail>>

Recover == read_head \/ recover_install \/ recover_clear

Commit(p) == write_log(p) \/ write_head(p) \/ install_trans(p) \/ clear_head(p) \/ end_commit(p)

Next ==
  \/ \E p \in Procs :
       \/ \E b \in Blocks : Bread(p, b)
       \/ \E v \in Values : Modify(p, v) \/ ModifyFault(p, v)
       \/ Brelse(p)
       \/ BeginOpCall(p) \/ BeginOpSleep(p) \/ BeginOpEnter(p)
       \/ log_write(p) \/ log_writePanic(p)
       \/ end_op(p)
       \/ Commit(p)
  \/ \E b \in Blocks : Evict(b)
  \/ Crash
  \/ Recover

Spec == Init /\ [][Next]_vars

-----------------------------------------------------------------------------
(* What recover_from_log() would make of the disk as it is now. *)
Recovered ==
  [b \in Blocks |->
     IF \E i \in DOMAIN dhead : dhead[i] = b
     THEN dlog[CHOOSE i \in DOMAIN dhead : dhead[i] = b]
     ELSE home[b]]

Current == [b \in Blocks |-> View(b)]

Promise == INSTANCE AtomicDisk WITH
  mem    <- IF boot = "up" THEN Current ELSE Recovered,
  disk   <- Recovered,
  active <- {p \in Procs : pc[p] \in InOp \cup {"panic"}}

(* log.c, lines 12-16: the disk only ever goes from the end of one group of *)
(* system calls to the end of a later one.  Whatever the crashes, during    *)
(* commit or during recovery, recover_from_log() finds all the writes of a  *)
(* call or none of them, and never those of a call that had not ended.      *)
Atomic == Promise!Spec

(* Once the last end_op() has returned and no call runs, every block reads  *)
(* the same from its home location as from the cache: nothing that a call   *)
(* wrote depends on a buffer that bget() may recycle.                       *)
DurableWhenIdle ==
  (boot = "up" /\ outstanding = 0 /\ ~committing) => Current = home

(* begin_op()'s reservation suffices: log_write() never finds the log full  *)
(* or no call running, and end_op() never finds a commit in progress.  It   *)
(* needs the slack of Margin (module LogInvariant).                         *)
NoPanic == LogLockFree

(* Sleep locks are not queues: processes that read a block outside a call   *)
(* over and over can keep commit()'s bread() from it.  The two properties   *)
(* below are about executions in which they stop doing so.                  *)
ReadersRest == <>[](\A p \in Procs : pc[p] # "rhold")

(* A process that sleeps in begin_op() is woken: by the end of another call *)
(* or by the end of the commit, whichever it waits for.                     *)
WaiterWoken == ReadersRest => \A p \in Procs : pc[p] = "sleep" ~> pc[p] # "sleep"

(* A commit, once begun, ends: end_op() returns and new calls may begin. *)
CommitEnds == ReadersRest => (committing ~> ~committing)

(* If crashes stop, recovery ends and system calls can run. *)
RecoveryEnds == (<>[][~Crash]_vars) => <>[](boot = "up")

(* Nobody waits for the log for ever. *)
LogProgress == WaiterWoken /\ CommitEnds /\ RecoveryEnds

(* Processes are scheduled, so one that can step does so (WF); a system     *)
(* call's loops are bounded, so it comes to its end_op() (SF, since it may  *)
(* take and release buffers on the way).                                    *)
Fairness ==
  /\ WF_vars(Recover)
  /\ \A p \in Procs :
       /\ WF_vars(Brelse(p)) /\ WF_vars(log_write(p))
       /\ WF_vars(BeginOpSleep(p) \/ BeginOpEnter(p))
       /\ WF_vars(Commit(p))
       /\ SF_vars(end_op(p))

LiveSpec == Spec /\ Fairness
=============================================================================
