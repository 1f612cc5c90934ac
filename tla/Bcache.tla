------------------------------- MODULE Bcache -------------------------------
(***************************************************************************)
(* The buffer cache of kernel/bio.c with the sleep locks of                *)
(* kernel/sleeplock.c.  A step is one critical section of bcache.lock or   *)
(* of a sleep lock's own spinlock, or one disk transfer.  A process works  *)
(* on one buffer at a time.                                                *)
(***************************************************************************)
EXTENDS Integers, Sequences, FiniteSets

CONSTANTS
  Procs, Blocks, Values,
  None,            \* no process, no block, no buffer
  NBUF,
  MaxPinned        \* how many blocks the log may have pinned at a time

Bufs == 1 .. NBUF

ASSUME ConstantsAssumption ==
  /\ IsFiniteSet(Procs)
  /\ NBUF \in Nat \ {0}
  /\ MaxPinned \in Nat
  /\ None \notin Procs \cup Blocks
  /\ None \notin Nat

VARIABLES
  blockno, valid, refcnt, data,   \* struct buf
  locked,          \* holder of the buffer's sleep lock
  lru,             \* bcache.head's list, most recently used first
  disk,
  pinned,          \* blocks pinned by log_write() and not yet installed
  pc,
  mine             \* the buffer the process works on

buffers == <<blockno, valid, refcnt, data, locked, lru>>
vars == <<buffers, disk, pinned, pc, mine>>

PCs == {"idle", "acquire", "asleep", "locked", "have", "dirty", "brelse", "panic"}

TypeOK ==
  /\ blockno \in [Bufs -> Blocks \cup {None}]
  /\ valid \in [Bufs -> BOOLEAN]
  /\ refcnt \in [Bufs -> Nat]
  /\ data \in [Bufs -> Values]
  /\ locked \in [Bufs -> Procs \cup {None}]
  /\ lru \in Seq(Bufs)
  /\ disk \in [Blocks -> Values]
  /\ pinned \in SUBSET Blocks
  /\ pc \in [Procs -> PCs]
  /\ mine \in [Procs -> Bufs \cup {None}]

(* After binit(), which pushes each buffer in front of the list. *)
Init ==
  /\ blockno = [b \in Bufs |-> None]
  /\ valid = [b \in Bufs |-> FALSE]
  /\ refcnt = [b \in Bufs |-> 0]
  /\ data \in {[b \in Bufs |-> v] : v \in Values}
  /\ locked = [b \in Bufs |-> None]
  /\ lru = [i \in 1 .. NBUF |-> NBUF + 1 - i]
  /\ disk \in [Blocks -> Values]
  /\ pinned = {}
  /\ pc = [p \in Procs |-> "idle"]
  /\ mine = [p \in Procs |-> None]

Goto(p, l) == pc' = [pc EXCEPT ![p] = l]
Unused == {b \in Bufs : refcnt[b] = 0}
Cached(k) == \E b \in Bufs : blockno[b] = k

(* The unused buffer that is last in the list. *)
LeastRecent == lru[CHOOSE i \in DOMAIN lru :
                     /\ lru[i] \in Unused
                     /\ \A j \in DOMAIN lru : j > i => lru[j] \notin Unused]

-----------------------------------------------------------------------------
(* bget(), up to acquiresleep() *)

(* The panic() in bget() never gives bcache.lock back. *)
BcacheLockFree == \A p \in Procs : pc[p] # "panic"

bget_hit(p, b) ==
  /\ pc[p] = "idle"
  /\ BcacheLockFree
  /\ blockno[b] # None
  /\ refcnt' = [refcnt EXCEPT ![b] = @ + 1]
  /\ mine' = [mine EXCEPT ![p] = b]
  /\ Goto(p, "acquire")
  /\ UNCHANGED <<blockno, valid, data, locked, lru, disk, pinned>>

(* Fault: the recycled buffer stays valid. *)
bget_recycleStale(p, k) ==
  /\ pc[p] = "idle"
  /\ BcacheLockFree
  /\ ~Cached(k)
  /\ Unused # {}
  /\ LET b == LeastRecent IN
       /\ blockno' = [blockno EXCEPT ![b] = k]
       /\ refcnt' = [refcnt EXCEPT ![b] = 1]
       /\ mine' = [mine EXCEPT ![p] = b]
  /\ Goto(p, "acquire")
  /\ UNCHANGED <<valid, data, locked, lru, disk, pinned>>

bget_recycle(p, k) ==
  /\ pc[p] = "idle"
  /\ BcacheLockFree
  /\ ~Cached(k)
  /\ Unused # {}
  /\ LET b == LeastRecent IN
       /\ blockno' = [blockno EXCEPT ![b] = k]
       /\ valid' = [valid EXCEPT ![b] = FALSE]
       /\ refcnt' = [refcnt EXCEPT ![b] = 1]
       /\ mine' = [mine EXCEPT ![p] = b]
  /\ Goto(p, "acquire")
  /\ UNCHANGED <<data, locked, lru, disk, pinned>>

bget_panic(p, k) ==
  /\ pc[p] = "idle"
  /\ BcacheLockFree
  /\ ~Cached(k)
  /\ Unused = {}
  /\ Goto(p, "panic")
  /\ UNCHANGED <<buffers, disk, pinned, mine>>

-----------------------------------------------------------------------------
(* sleeplock.c *)

acquiresleep(p) ==
  /\ pc[p] = "acquire"
  /\ IF locked[mine[p]] = None
     THEN /\ locked' = [locked EXCEPT ![mine[p]] = p]
          /\ Goto(p, "locked")
     ELSE /\ Goto(p, "asleep")
          /\ UNCHANGED locked
  /\ UNCHANGED <<blockno, valid, refcnt, data, lru, disk, pinned, mine>>

(* Fault: the sleepers are not woken. *)
releasesleepSilent(p) ==
  /\ pc[p] = "have"
  /\ locked' = [locked EXCEPT ![mine[p]] = None]
  /\ Goto(p, "brelse")
  /\ UNCHANGED <<blockno, valid, refcnt, data, lru, disk, pinned, mine>>

(* releasesleep(), the first half of brelse(): sleepers on the lock are woken. *)
releasesleep(p) ==
  /\ pc[p] = "have"
  /\ locked' = [locked EXCEPT ![mine[p]] = None]
  /\ pc' = [q \in Procs |->
              IF q = p THEN "brelse"
              ELSE IF pc[q] = "asleep" /\ mine[q] = mine[p] THEN "acquire" ELSE pc[q]]
  /\ UNCHANGED <<blockno, valid, refcnt, data, lru, disk, pinned, mine>>

-----------------------------------------------------------------------------
(* The rest of bread(), bwrite() and brelse(); bpin() and bunpin() *)

bread(p) ==
  /\ pc[p] = "locked"
  /\ data' = [data EXCEPT ![mine[p]] =
                IF valid[mine[p]] THEN @ ELSE disk[blockno[mine[p]]]]
  /\ valid' = [valid EXCEPT ![mine[p]] = TRUE]
  /\ Goto(p, "have")
  /\ UNCHANGED <<blockno, refcnt, locked, lru, disk, pinned, mine>>

(* The caller changes b->data; it goes on with bwrite() or log_write(). *)
Modify(p, v) ==
  /\ pc[p] = "have"
  /\ data' = [data EXCEPT ![mine[p]] = v]
  /\ Goto(p, "dirty")
  /\ UNCHANGED <<blockno, valid, refcnt, locked, lru, disk, pinned, mine>>

bwrite(p) ==
  /\ pc[p] = "dirty"
  /\ disk' = [disk EXCEPT ![blockno[mine[p]]] = data[mine[p]]]
  /\ Goto(p, "have")
  /\ UNCHANGED <<buffers, pinned, mine>>

(* log_write(): bpin() unless the block is in the log already. *)
bpin(p) ==
  /\ pc[p] = "dirty"
  /\ BcacheLockFree
  /\ blockno[mine[p]] \in pinned \/ Cardinality(pinned) < MaxPinned
  /\ pinned' = pinned \cup {blockno[mine[p]]}
  /\ refcnt' = [refcnt EXCEPT ![mine[p]] = IF blockno[mine[p]] \in pinned THEN @ ELSE @ + 1]
  /\ Goto(p, "have")
  /\ UNCHANGED <<blockno, valid, data, locked, lru, disk, mine>>

(* Fault: the pin is never given back. *)
bunpinLeaks(p) ==
  /\ pc[p] = "have"
  /\ BcacheLockFree
  /\ blockno[mine[p]] \in pinned
  /\ disk' = [disk EXCEPT ![blockno[mine[p]]] = data[mine[p]]]
  /\ pinned' = pinned \ {blockno[mine[p]]}
  /\ UNCHANGED <<blockno, valid, refcnt, data, locked, lru, pc, mine>>

(* install_trans(): the pinned block is written home, then unpinned. *)
bunpin(p) ==
  /\ pc[p] = "have"
  /\ BcacheLockFree
  /\ blockno[mine[p]] \in pinned
  /\ disk' = [disk EXCEPT ![blockno[mine[p]]] = data[mine[p]]]
  /\ pinned' = pinned \ {blockno[mine[p]]}
  /\ refcnt' = [refcnt EXCEPT ![mine[p]] = @ - 1]
  /\ UNCHANGED <<blockno, valid, data, locked, lru, pc, mine>>

(* b is taken out of the list and put in again after the head. *)
ToFront(l, b) ==
  LET at == CHOOSE i \in DOMAIN l : l[i] = b
  IN  [i \in DOMAIN l |-> IF i = 1 THEN b ELSE IF i <= at THEN l[i - 1] ELSE l[i]]

(* The second half of brelse(). *)
brelse(p) ==
  /\ pc[p] = "brelse"
  /\ BcacheLockFree
  /\ refcnt' = [refcnt EXCEPT ![mine[p]] = @ - 1]
  /\ lru' = IF refcnt'[mine[p]] = 0
            THEN ToFront(lru, mine[p])
            ELSE lru
  /\ mine' = [mine EXCEPT ![p] = None]
  /\ Goto(p, "idle")
  /\ UNCHANGED <<blockno, valid, data, locked, disk, pinned>>

Next ==
  \E p \in Procs :
    \/ \E b \in Bufs : bget_hit(p, b)
    \/ \E k \in Blocks : bget_recycle(p, k) \/ bget_panic(p, k)
    \/ acquiresleep(p) \/ bread(p)
    \/ \E v \in Values : Modify(p, v)
    \/ bwrite(p) \/ bpin(p) \/ bunpin(p)
    \/ releasesleep(p) \/ brelse(p)

Spec == Init /\ [][Next]_vars

-----------------------------------------------------------------------------
(* bget() scans the list and recycles a buffer under one lock: a block never *)
(* has two buffers, so its users are serialised by one sleep lock.           *)
OneBuffer ==
  \A b, c \in Bufs : blockno[b] = blockno[c] /\ blockno[b] # None => b = c

(* The buffer a process has or waits for is not recycled under it, and its   *)
(* sleep lock lets one process at a time past acquiresleep().                *)
Exclusive ==
  \A p, q \in Procs :
    (p # q /\ pc[p] \in {"locked", "have", "dirty"} /\ pc[q] \in {"locked", "have", "dirty"})
      => blockno[mine[p]] # blockno[mine[q]]

(* What a process reads from its buffer is what was last written to the      *)
(* block: a clean buffer agrees with the disk unless the log has it pinned.  *)
Coherent ==
  \A b \in Bufs :
    (valid[b] /\ blockno[b] \notin pinned
      /\ ~\E p \in Procs : pc[p] = "dirty" /\ mine[p] = b)
    => data[b] = disk[blockno[b]]

(* A block in the log keeps its buffer until it is installed. *)
PinnedCached == \A k \in pinned : \E b \in Bufs : blockno[b] = k /\ valid[b]

(* A process asleep in acquiresleep() waits for a lock that someone holds:   *)
(* releasesleep() between the check and the sleep() is not missed.           *)
SleeperNotMissed ==
  \A p \in Procs : pc[p] = "asleep" => locked[mine[p]] # None

(* b->refcnt is the number of processes that use the buffer or wait for it,  *)
(* and one for the log's pin: it never leaks.  So bget() recycles no buffer  *)
(* in use, and panics only if every buffer is in use or pinned.              *)
RefcntExact ==
  \A b \in Bufs :
    refcnt[b] = Cardinality({p \in Procs : mine[p] = b})
                + (IF blockno[b] \in pinned THEN 1 ELSE 0)

(* The struct bufs, whatever the interleaving of bget(), brelse() and the log:  *)
(* counts are exact, a block has one buffer, with one process in it at a time,  *)
(* and keeps it while it is in the log.                                         *)
BufferSound == TypeOK /\ RefcntExact /\ OneBuffer /\ Exclusive /\ PinnedCached
=============================================================================
