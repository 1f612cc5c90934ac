---------------------------- MODULE LogInvariant ----------------------------
(***************************************************************************)
(* The inductive invariant of Log.  Control says who is where in           *)
(* begin_op(), end_op() and commit() and who holds or pins which buffer;   *)
(* Data says what the disk, the log and the cache hold at each stage; the  *)
(* space of the log is the subject of Space.                               *)
(***************************************************************************)
EXTENDS Log

(* The processes counted by log.outstanding. *)
Active == {p \in Procs : pc[p] \in InOp \cup {"panic"}}

(* While recover_from_log() runs there are no processes yet. *)
BootOK ==
  /\ boot # "up" =>
       /\ \A p \in Procs : pc[p] = "idle" /\ buf[p] = NoBlock /\ left[p] = 0
       /\ outstanding = 0 /\ ~committing
       /\ \A b \in Blocks : refcnt[b] = 0
  /\ boot = "read_head" => lh = <<>> /\ tail = 1
  /\ boot = "install" => lh = dhead

(* A buffer's sleep lock has one holder. *)
HoldOK ==
  /\ \A p \in Procs : buf[p] # NoBlock <=> pc[p] \in Holding \cup {"panic"}
  /\ \A p, q \in Procs : buf[p] = buf[q] /\ buf[p] # NoBlock => p = q

CountOK == outstanding = Cardinality(Active)

(* One process commits at a time, alone, and the log is empty between two   *)
(* groups of calls.                                                         *)
CommitOK ==
  /\ committing <=> \E p \in Procs : pc[p] \in InCommit
  /\ \A p, q \in Procs : pc[p] \in InCommit /\ pc[q] \in InCommit => p = q
  /\ committing => outstanding = 0
  /\ ~committing /\ outstanding = 0 /\ boot = "up" => lh = <<>>
  /\ \A p \in Procs :
       /\ pc[p] \in {"write_log", "write_head", "install"} => tail \in 1 .. Len(lh)
       /\ pc[p] = "write_head" => tail = 1
       /\ pc[p] = "done" => lh = <<>>

Distinct(s) == \A i, j \in 1 .. Len(s) : s[i] = s[j] => i = j

(* Absorption keeps the entries of the header apart; the header block       *)
(* equals log.lh from its write to its clearing and is empty otherwise.     *)
HeadOK ==
  /\ Distinct(lh) /\ Distinct(dhead)
  /\ Len(lh) <= NLOG - 1 /\ Len(dhead) <= NLOG - 1
  /\ boot = "up" =>
       dhead = IF \E p \in Procs : pc[p] \in {"install", "clear"} THEN lh ELSE <<>>

LeftOK == \A p \in Procs :
  /\ p \notin Active => left[p] = 0
  /\ pc[p] = "dirty" => buf[p] \in Logged \/ left[p] > 0

(* A logged block that install_trans() has not yet unpinned. *)
Pinned(b) ==
  /\ boot = "up"
  /\ \A p \in Procs : pc[p] # "clear"
  /\ \E i \in 1 .. Len(lh) :
       lh[i] = b /\ \A p \in Procs : pc[p] = "install" => i >= tail

(* b->refcnt counts exactly the holder of the buffer and log_write()'s pin: *)
(* no bpin() is forgotten or repeated by absorption, none is released       *)
(* twice, and none is left behind by a commit.                              *)
RefcntExact == \A b \in Blocks :
  refcnt[b] = (IF Unlocked(b) THEN 0 ELSE 1) + (IF Pinned(b) THEN 1 ELSE 0)

Control == TypeOK /\ BootOK /\ HoldOK /\ CountOK /\ CommitOK /\ HeadOK /\ LeftOK /\ RefcntExact

-----------------------------------------------------------------------------
Dirty(b) == \E p \in Procs : buf[p] = b /\ pc[p] \in {"dirty", "panic"}

(* A buffer that is neither pinned by the log nor being changed by its      *)
(* holder agrees with the home block on the disk, so bget() loses nothing   *)
(* when it recycles it; a buffer in use or pinned is never recycled.        *)
CleanBuffers == \A b \in Blocks :
  /\ refcnt[b] > 0 => cache[b] # NoData
  /\ cache[b] # NoData /\ ~Pinned(b) /\ ~Dirty(b) => cache[b] = home[b]

(* How far write_log() and install_trans() have come. *)
PhaseOK ==
  /\ \A p \in Procs, i \in 1 .. Len(lh) :
       /\ pc[p] = "write_log" /\ i < tail => dlog[i] = cache[lh[i]]
       /\ pc[p] = "write_head" => dlog[i] = cache[lh[i]]
       /\ pc[p] = "install" /\ i >= tail => dlog[i] = cache[lh[i]]
       /\ pc[p] = "install" /\ i < tail => dlog[i] = home[lh[i]]
       /\ pc[p] = "clear" => dlog[i] = home[lh[i]]
  /\ \A i \in 1 .. Len(lh) : boot = "install" /\ i < tail => dlog[i] = home[lh[i]]

Data == CleanBuffers /\ PhaseOK

(* The buffer cache under the log: counts are exact, and what is not pinned *)
(* may be recycled.                                                         *)
CacheSound == TypeOK /\ RefcntExact /\ CleanBuffers

-----------------------------------------------------------------------------
(* The blocks the running calls may still add to the log, one by one. *)
Reserved == {x \in Procs \X (1 .. OPBLOCKS) : x[2] <= left[x[1]]}

(* While a call runs, what is in the log and what the running calls may     *)
(* still add leave MAXOPBLOCKS - OPBLOCKS entries free.                     *)
Space ==
  outstanding >= 1 => Len(lh) + Cardinality(Reserved) <= LOGSIZE - (MAXOPBLOCKS - OPBLOCKS)

(* log_write() tests the size of the log before it looks for the block, and *)
(* one log block less than sb.nlog is usable: begin_op() must reserve more  *)
(* than a call adds.                                                        *)
Margin ==
  /\ MAXOPBLOCKS - OPBLOCKS >= 1
  /\ LOGSIZE - (MAXOPBLOCKS - OPBLOCKS) < NLOG - 1
=============================================================================
