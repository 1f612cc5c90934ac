----------------------------- MODULE LogProofs -----------------------------
(***************************************************************************)
(* Control of LogInvariant is inductive: one lemma per action of Log, or    *)
(* per group of actions that disturb the same conjuncts.  The end of the   *)
(* module bounds the log by what begin_op() reserves.                      *)
(***************************************************************************)
EXTENDS LogInvariant, TLAPS, FiniteSetTheorems

(* log.outstanding is 0 exactly when no process is between begin_op() and *)
(* end_op().                                                              *)
LEMMA CountFacts ==
  ASSUME TypeOK, CountOK
  PROVE  /\ IsFiniteSet(Active)
         /\ outstanding = 0 <=> Active = {}
<1>1. IsFiniteSet(Active)
  <2>1. Active \in SUBSET Procs BY DEF Active
  <2> QED BY <2>1, FS_Subset, ConstantsAssumption
<1> QED BY <1>1, FS_EmptySet DEF CountOK

(* The process in commit() is alone: no call runs, nobody else commits, and *)
(* its loop index is within the log.                                        *)
LEMMA Committer ==
  ASSUME Control, NEW p \in Procs, pc[p] \in InCommit
  PROVE  /\ committing /\ outstanding = 0 /\ boot = "up"
         /\ \A q \in Procs : q \notin Active /\ left[q] = 0
         /\ \A q \in Procs : q # p => pc[q] \in {"idle", "begin", "sleep", "rhold"}
         /\ pc[p] \in {"write_log", "write_head", "install"} =>
              /\ tail \in 1 .. Len(lh) /\ tail \in 1 .. NLOG - 1
              /\ lh[tail] \in Blocks
<1>1. committing /\ outstanding = 0 /\ boot = "up"
  BY DEF Control, CommitOK, BootOK, InCommit
<1>2. Active = {}
  BY <1>1, CountFacts DEF Control
<1>3. \A q \in Procs : q \notin Active /\ left[q] = 0
  BY <1>2 DEF Control, LeftOK
<1>4. ASSUME NEW q \in Procs, q # p PROVE pc[q] \in {"idle", "begin", "sleep", "rhold"}
  <2>1. pc[q] \notin InCommit
    BY <1>4 DEF Control, CommitOK
  <2> QED BY <1>3, <2>1 DEF Control, TypeOK, PCs, Active, InOp, Holding
<1>5. pc[p] \in {"write_log", "write_head", "install"} =>
              /\ tail \in 1 .. Len(lh) /\ tail \in 1 .. NLOG - 1
              /\ lh[tail] \in Blocks
  BY ConstantsAssumption DEF Control, CommitOK, HeadOK, TypeOK
<1> QED BY <1>1, <1>3, <1>4, <1>5

(* A step that leaves the log and the loops of commit() alone pins and *)
(* unpins nothing.                                                     *)
LEMMA SamePinned ==
  ASSUME lh' = lh, tail' = tail, boot' = boot,
         \A q \in Procs : /\ pc[q]' = "clear" <=> pc[q] = "clear"
                          /\ pc[q]' = "install" <=> pc[q] = "install"
  PROVE  \A c \in Blocks : Pinned(c)' <=> Pinned(c)
BY DEF Pinned

(* What b->refcnt says of the holder of the buffer and of log_write()'s *)
(* pin.                                                                 *)
LEMMA RefFacts ==
  ASSUME Control, NEW b \in Blocks
  PROVE  /\ ~Unlocked(b) => refcnt[b] >= 1
         /\ Pinned(b) => refcnt[b] >= 1
         /\ ~Unlocked(b) /\ Pinned(b) => refcnt[b] = 2
         /\ Unlocked(b) /\ ~Pinned(b) => refcnt[b] = 0
BY DEF Control, RefcntExact

(* A step of one process outside commit() that leaves the log alone and      *)
(* neither begins nor ends a call keeps all of Control but who holds and     *)
(* counts the buffers, and it pins and unpins nothing.                       *)
LEMMA QuietControl ==
  ASSUME Control, NEW p \in Procs,
         UNCHANGED <<disk, log, left, tail, boot>>, boot = "up",
         \A q \in Procs \ {p} : pc'[q] = pc[q] /\ buf'[q] = buf[q],
         {pc[p], pc'[p]} \cap InCommit = {},
         pc'[p] \in InOp \cup {"panic"} <=> pc[p] \in InOp \cup {"panic"},
         pc'[p] = "dirty" => buf'[p] \in Logged \/ left[p] > 0
  PROVE  /\ BootOK' /\ CommitOK' /\ HeadOK' /\ LeftOK' /\ CountOK'
         /\ \A c \in Blocks : Pinned(c)' <=> Pinned(c)
<1> USE DEF Control, disk, log
<1>1. BootOK' BY DEF BootOK
<1>2. \A q \in Procs : \/ pc'[q] = pc[q]
                       \/ pc[q] \notin InCommit /\ pc'[q] \notin InCommit
  OBVIOUS
<1>3. CommitOK' BY <1>2 DEF CommitOK, InCommit
<1>4. HeadOK' BY <1>2 DEF HeadOK, Distinct, InCommit
<1>5. Active' = Active BY DEF Active
<1>6. LeftOK' BY <1>5 DEF LeftOK, Logged
<1>7. \A c \in Blocks : Pinned(c)' <=> Pinned(c) BY <1>2, SamePinned DEF InCommit
<1> QED BY <1>1, <1>3, <1>4, <1>5, <1>6, <1>7 DEF CountOK

(* A step that does not end commit() keeps what Control says of the calls    *)
(* and of the buffers they hold.                                             *)
LEMMA CommitterControl ==
  ASSUME Control, NEW p \in Procs, pc[p] \in InCommit, pc'[p] \in InCommit,
         UNCHANGED <<outstanding, committing, buf, left, boot>>,
         \A q \in Procs : q # p => pc'[q] = pc[q]
  PROVE  /\ BootOK' /\ HoldOK' /\ LeftOK' /\ CountOK'
         /\ \A c \in Blocks : Unlocked(c)' <=> Unlocked(c)
<1>1. /\ boot = "up"
      /\ \A q \in Procs : q # p => pc[q] \in {"idle", "begin", "sleep", "rhold"}
  BY Committer
<1>2. BootOK' BY <1>1 DEF BootOK
<1>3. HoldOK' BY DEF Control, HoldOK, InCommit, Holding
<1>4. Active' = Active BY DEF Active, InOp, InCommit
<1>5. LeftOK' BY <1>1, <1>4 DEF Control, LeftOK, InCommit
<1> QED BY <1>2, <1>3, <1>4, <1>5 DEF Control, CountOK, Unlocked

(* The call and the sleep() of begin_op(), a change of a held buffer, the    *)
(* failed copy of writei() and the panic of log_write() keep Control.        *)
LEMMA QuietSteps ==
  ASSUME Control, NEW p \in Procs,
         \/ BeginOpCall(p) \/ BeginOpSleep(p) \/ log_writePanic(p)
         \/ \E v \in Values : Modify(p, v) \/ ModifyFault(p, v)
  PROVE  Control'
<1> USE DEF BeginOpCall, BeginOpSleep, log_writePanic, Modify, ModifyFault, proc, bufs
<1>1. UNCHANGED <<disk, log, refcnt, buf, left, tail, boot>> OBVIOUS
<1>2. \/ pc' = pc /\ pc[p] = "hold"
      \/ pc[p] = "idle" /\ pc' = [pc EXCEPT ![p] = "begin"]
      \/ pc[p] = "begin" /\ pc' = [pc EXCEPT ![p] = "sleep"]
      \/ pc[p] = "hold" /\ pc' = [pc EXCEPT ![p] = "dirty"]
      \/ pc[p] = "dirty" /\ pc' = [pc EXCEPT ![p] = "panic"]
  OBVIOUS
<1>3. boot = "up" BY <1>2 DEF Control, BootOK
<1>4. cache' \in [Blocks -> Values \cup {NoData}]
  <2>1. CASE cache' = cache BY <2>1 DEF Control, TypeOK
  <2>2. ASSUME NEW v \in Values, cache' = [cache EXCEPT ![buf[p]] = v]
        PROVE  cache' \in [Blocks -> Values \cup {NoData}]
    BY <2>2, Zenon DEF Control, TypeOK
  <2> QED BY <2>1, <2>2
<1>5. pc'[p] = "dirty" => buf[p] \in Logged \/ left[p] > 0 BY DEF Control, TypeOK
<1> HIDE DEF BeginOpCall, BeginOpSleep, log_writePanic, Modify, ModifyFault
<1>6. /\ pc' \in [Procs -> PCs]
      /\ \A q \in Procs \ {p} : pc'[q] = pc[q]
      /\ {pc[p], pc'[p]} \cap InCommit = {}
      /\ pc'[p] \in InOp \cup {"panic"} <=> pc[p] \in InOp \cup {"panic"}
      /\ pc'[p] \in Holding \cup {"panic"} <=> pc[p] \in Holding \cup {"panic"}
  BY <1>2 DEF Control, TypeOK, PCs, InOp, Holding, InCommit
<1>7. TypeOK' BY <1>1, <1>4, <1>6 DEF Control, TypeOK, disk, log
<1>8. HoldOK' BY Zenon, <1>1, <1>6 DEF Control, HoldOK
<1>9. /\ BootOK' /\ CommitOK' /\ HeadOK' /\ LeftOK' /\ CountOK'
      /\ \A c \in Blocks : Pinned(c)' <=> Pinned(c)
  BY Zenon, <1>1, <1>3, <1>5, <1>6, QuietControl
<1>10. RefcntExact' BY Zenon, <1>1, <1>9 DEF Control, RefcntExact, Unlocked
<1> QED BY <1>7, <1>8, <1>9, <1>10 DEF Control

(* bread() keeps Control: it takes a free sleep lock and one reference. *)
LEMMA BreadControl ==
  ASSUME NEW p \in Procs, NEW b \in Blocks, Control, Bread(p, b)
  PROVE  Control'
<1> USE ConstantsAssumption DEF Control, Bread, disk, log, bufs, proc, InOp, Holding, InCommit, PCs
<1>1. TypeOK' BY DEF TypeOK, View
<1>3. HoldOK' BY Zenon DEF HoldOK, TypeOK, Unlocked
<1>2. boot = "up" BY Zenon DEF BootOK
<1>4. /\ BootOK' /\ CommitOK' /\ HeadOK' /\ LeftOK' /\ CountOK'
      /\ \A c \in Blocks : Pinned(c)' <=> Pinned(c)
  <2>1. /\ \A q \in Procs \ {p} : pc'[q] = pc[q] /\ buf'[q] = buf[q]
        /\ {pc[p], pc'[p]} \cap InCommit = {} /\ pc'[p] # "dirty"
        /\ pc'[p] \in InOp \cup {"panic"} <=> pc[p] \in InOp \cup {"panic"}
    BY DEF TypeOK
  <2> QED BY Zenon, <1>2, <2>1, QuietControl
<1>8. RefcntExact'
  <2>2. Unlocked(b) /\ ~Unlocked(b)' BY DEF Unlocked, TypeOK
  <2>3. \A c \in Blocks \ {b} : Unlocked(c)' <=> Unlocked(c) BY Zenon DEF Unlocked, TypeOK, HoldOK
  <2> QED BY <1>4, <2>2, <2>3 DEF RefcntExact, TypeOK
<1> QED BY <1>1, <1>3, <1>4, <1>8

(* brelse() keeps Control: it gives back the lock and the reference. *)
LEMMA BrelseControl ==
  ASSUME NEW p \in Procs, Control, Brelse(p)
  PROVE  Control'
<1> USE ConstantsAssumption DEF Control, Brelse, disk, log, bufs, proc, InOp, Holding, InCommit, PCs
<1>a. PICK b \in Blocks : b = buf[p] BY DEF TypeOK, HoldOK
<1>b. ~Unlocked(b) /\ refcnt[b] >= 1 BY <1>a, RefFacts DEF Unlocked
<1>1. TypeOK' BY SMTT(30), <1>a, <1>b DEF TypeOK
<1>3. HoldOK' BY Zenon DEF HoldOK, TypeOK
<1>2. boot = "up" BY Zenon DEF BootOK
<1>4. /\ BootOK' /\ CommitOK' /\ HeadOK' /\ LeftOK' /\ CountOK'
      /\ \A c \in Blocks : Pinned(c)' <=> Pinned(c)
  <2>1. /\ \A q \in Procs \ {p} : pc'[q] = pc[q] /\ buf'[q] = buf[q]
        /\ {pc[p], pc'[p]} \cap InCommit = {} /\ pc'[p] # "dirty"
        /\ pc'[p] \in InOp \cup {"panic"} <=> pc[p] \in InOp \cup {"panic"}
    BY DEF TypeOK
  <2> QED BY Zenon, <1>2, <2>1, QuietControl
<1>8. RefcntExact'
  <2>2. Unlocked(b)' BY Zenon, <1>a DEF Unlocked, TypeOK, HoldOK
  <2>3. \A c \in Blocks \ {b} : Unlocked(c)' <=> Unlocked(c) BY <1>a DEF Unlocked, TypeOK, HoldOK
  <2> QED BY <1>4, <1>a, <1>b, <2>2, <2>3, SMTT(30) DEF RefcntExact, TypeOK
<1> QED BY <1>1, <1>3, <1>4, <1>8

(* The recycling of a buffer keeps Control. *)
LEMMA EvictControl ==
  ASSUME NEW b \in Blocks, Control, Evict(b)
  PROVE  Control'
<1> USE DEF Control, Evict, disk, log, bufs, proc
<1>1. TypeOK' BY Zenon DEF TypeOK
<1>2. /\ BootOK' /\ HoldOK' /\ CommitOK' /\ HeadOK' /\ LeftOK' /\ CountOK' /\ RefcntExact'
  BY SMTT(30) DEF BootOK, HoldOK, CommitOK, HeadOK, LeftOK, CountOK, RefcntExact, Distinct, Logged, Active, Unlocked, Pinned
<1> QED BY <1>1, <1>2

(* begin_op() keeps Control: it admits a call only while nobody commits. *)
LEMMA BeginOpEnterControl ==
  ASSUME NEW p \in Procs, Control, BeginOpEnter(p)
  PROVE  Control'
<1> USE ConstantsAssumption DEF Control, BeginOpEnter, disk, log, bufs, proc, InOp, Holding, InCommit, PCs
<1>1. TypeOK' BY DEF TypeOK
<1>2. BootOK' BY Zenon DEF BootOK, TypeOK
<1>3. HoldOK' BY Zenon DEF HoldOK, TypeOK
<1>4. CommitOK' BY DEF CommitOK, TypeOK, MayBegin
<1>5. HeadOK' BY Zenon DEF HeadOK, TypeOK, Distinct
<1>6. LeftOK' BY ZenonT(30) DEF LeftOK, TypeOK, Active, Logged
<1>7. CountOK'
  <2>1. Active' = Active \cup {p} /\ p \notin Active BY DEF Active, TypeOK
  <2> QED BY <2>1, CountFacts, FS_AddElement, Zenon DEF CountOK
<1>8. RefcntExact'
  <2>1. \A c \in Blocks : Pinned(c)' <=> Pinned(c) BY Zenon, SamePinned DEF TypeOK
  <2>2. \A c \in Blocks : Unlocked(c)' <=> Unlocked(c) BY Zenon DEF Unlocked
  <2> QED BY <2>1, <2>2 DEF RefcntExact
<1> QED BY <1>1, <1>2, <1>3, <1>4, <1>5, <1>6, <1>7, <1>8

(* log_write() keeps Control: a block enters the log, and is pinned, once. *)
LEMMA log_writeControl ==
  ASSUME NEW p \in Procs, Control, log_write(p)
  PROVE  Control'
<1> USE ConstantsAssumption DEF Control, log_write, disk, log, bufs, proc, InOp, Holding, InCommit, PCs
<1>0. PICK b \in Blocks : b = buf[p] BY Zenon DEF TypeOK, HoldOK
<1>a. /\ b = buf[p] /\ outstanding # 0 /\ ~committing /\ boot = "up"
      /\ \A q \in Procs : pc[q] \notin InCommit
  <2>1. p \in Active BY DEF Active
  <2>2. outstanding # 0 BY <2>1, CountFacts
  <2> QED BY Zenon, <1>0, <2>2 DEF TypeOK, CommitOK, BootOK
<1>b. /\ Len(lh) \in Nat /\ Len(lh) < NLOG - 1 BY DEF log_writePanics, TypeOK
<1>c. buf[p] \notin Logged => left[p] > 0 BY Zenon DEF LeftOK
<1>d. CASE buf[p] \in Logged
  <2>0. UNCHANGED <<lh, refcnt, left>> BY <1>d
  <2>1a. TypeOK' BY Zenon, <2>0 DEF TypeOK
  <2>1b. BootOK' /\ HoldOK' BY Zenon, <1>a, <2>0 DEF BootOK, HoldOK, TypeOK
  <2>1c. CommitOK' BY <1>a, <2>0 DEF CommitOK, TypeOK
  <2>1d. HeadOK' BY <1>a, <2>0 DEF HeadOK, TypeOK, Distinct
  <2>1e. LeftOK' BY <1>a, <2>0 DEF LeftOK, TypeOK, Active, Logged
  <2>1. TypeOK' /\ BootOK' /\ HoldOK' /\ CommitOK' /\ HeadOK' /\ LeftOK'
    BY <2>1a, <2>1b, <2>1c, <2>1d, <2>1e
  <2>2. Active' = Active BY Zenon DEF Active, TypeOK
  <2>3. \A c \in Blocks : Pinned(c)' <=> Pinned(c) BY Zenon, <1>d, SamePinned DEF TypeOK
  <2>4. \A c \in Blocks : Unlocked(c)' <=> Unlocked(c) BY DEF Unlocked
  <2>5. CountOK' /\ RefcntExact' BY <1>d, <2>2, <2>3, <2>4 DEF CountOK, RefcntExact
  <2> QED BY Zenon, <2>1, <2>5
<1>e. CASE buf[p] \notin Logged
  <2> DEFINE n == Len(lh) + 1
  <2>a. lh' = Append(lh, b) /\ lh \in Seq(Blocks) BY Zenon, <1>a, <1>e DEF TypeOK
  <2>b. /\ Len(lh') = n /\ lh'[n] = b /\ lh' \in Seq(Blocks) /\ n \in Nat \ {0}
        /\ \A i \in 1 .. Len(lh) : lh'[i] = lh[i]
    BY <2>a
  <2>c. \A i \in 1 .. Len(lh) : lh[i] # b
    BY <1>a, <1>e, <2>a DEF Logged
  <2>d. refcnt' = [refcnt EXCEPT ![b] = @ + 1] BY Zenon, <1>a, <1>e
  <2>0. /\ Len(lh') = n /\ lh'[n] = b /\ lh' \in Seq(Blocks)
        /\ \A i \in 1 .. Len(lh) : lh'[i] = lh[i] /\ lh[i] # b
    BY Zenon, <2>b, <2>c
  <2>1. TypeOK'
    <3>1. left' \in [Procs -> 0 .. OPBLOCKS]
      <4>1. left[p] - 1 \in 0 .. OPBLOCKS /\ left \in [Procs -> 0 .. OPBLOCKS] BY <1>c, <1>e DEF TypeOK
      <4>2. left' = [left EXCEPT ![p] = left[p] - 1] BY <1>e
      <4> QED BY <4>1, <4>2, Zenon
    <3>2. refcnt' \in [Blocks -> Nat] BY <2>d DEF TypeOK
    <3>3. pc' \in [Procs -> PCs] BY Zenon DEF TypeOK
    <3> QED BY <3>1, <3>2, <3>3, <2>0, Zenon DEF TypeOK
  <2>2. BootOK' /\ HoldOK' BY Zenon, <1>a DEF BootOK, HoldOK, TypeOK
  <2>2a. CommitOK'
    <3>1. \A q \in Procs : pc'[q] \notin InCommit BY Zenon, <1>a DEF TypeOK
    <3> QED BY Zenon, <1>a, <3>1 DEF CommitOK
  <2>3. HeadOK'
    <3>1. Distinct(lh)' BY <2>0, <1>b DEF HeadOK, Distinct
    <3> QED BY <3>1, <1>a, <1>b, <2>0, SMTT(30) DEF HeadOK, TypeOK
  <2>4. LeftOK'
    <3>1. \A q \in Procs : pc'[q] = "dirty" /\ q # p => buf'[q] \in Logged' \/ left'[q] > 0
      <4>1. Logged \subseteq Logged' BY <2>b, <2>a, SMTT(30) DEF Logged
      <4>2. \A q \in Procs \ {p} : pc'[q] = pc[q] /\ buf'[q] = buf[q] /\ left'[q] = left[q] BY Zenon, <1>e DEF TypeOK
      <4> QED BY Zenon, <4>1, <4>2 DEF LeftOK
    <3>2. pc'[p] # "dirty" BY DEF TypeOK
    <3>3. Active' = Active BY DEF Active, TypeOK
    <3> QED BY ZenonT(30), <1>c, <1>e, <3>1, <3>2, <3>3 DEF LeftOK, TypeOK, Active
  <2>5. CountOK'
    <3>1. Active' = Active BY DEF Active, TypeOK
    <3> QED BY <3>1 DEF CountOK
  <2>6. RefcntExact'
    <3>1. \A q \in Procs : pc'[q] \notin {"clear", "install"} /\ pc[q] \notin {"clear", "install"} BY Zenon, <1>a DEF TypeOK
    <3>2. \A c \in Blocks : Pinned(c)' <=> (Pinned(c) \/ c = b)
      <4>1. boot' = "up" /\ boot = "up" BY Zenon, <1>a
      <4>2. \A c \in Blocks : Pinned(c) <=> \E i \in 1 .. Len(lh) : lh[i] = c BY Zenon, <3>1, <4>1 DEF Pinned
      <4>3. \A c \in Blocks : Pinned(c)' <=> \E i \in 1 .. n : lh'[i] = c BY Zenon, <2>b, <3>1, <4>1 DEF Pinned
      <4>4. 1 .. n = (1 .. Len(lh)) \cup {n} BY <2>a
      <4>5. n \in 1 .. n BY <2>b
      <4> QED BY <2>b, <4>2, <4>3, <4>4, <4>5, Zenon
    <3>3. ~Pinned(b) BY Zenon, <2>0 DEF Pinned
    <3>4. \A c \in Blocks : Unlocked(c)' <=> Unlocked(c) BY DEF Unlocked
    <3> QED BY <2>d, <3>2, <3>3, <3>4, SMTT(30) DEF RefcntExact, TypeOK
  <2> QED BY <2>1, <2>2, <2>2a, <2>3, <2>4, <2>5, <2>6
<1> QED BY Zenon, <1>d, <1>e

(* end_op() keeps Control: the last call of a group, and no other, starts *)
(* the commit.                                                            *)
LEMMA end_opControl ==
  ASSUME NEW p \in Procs, Control, end_op(p)
  PROVE  Control'
<1> USE ConstantsAssumption DEF Control, end_op, disk, log, bufs, proc, InOp, Holding, InCommit, PCs
<1>a. /\ outstanding # 0 /\ ~committing /\ boot = "up" /\ p \in Active
      /\ \A q \in Procs : pc[q] \notin InCommit
  <2>1. p \in Active BY Zenon DEF Active
  <2>2. outstanding # 0 BY Zenon, <2>1, CountFacts
  <2> QED BY ZenonT(30), <2>1, <2>2 DEF TypeOK, HoldOK, CommitOK, BootOK
<1>b. /\ pc'[p] \in {"idle", "write_log", "done"}
      /\ \A q \in Procs \ {p} : pc'[q] = pc[q] \/ (pc[q] = "sleep" /\ pc'[q] = "begin")
      /\ pc' \in [Procs -> PCs]
  BY <1>a, ZenonT(30) DEF TypeOK, wakeup
<1>c. IF outstanding' = 0
      THEN committing' /\ pc'[p] = IF lh # <<>> THEN "write_log" ELSE "done"
      ELSE ~committing' /\ pc'[p] = "idle"
  BY <1>a DEF TypeOK, wakeup
<1>1. TypeOK'
  <2>0. outstanding' \in Nat BY <1>a DEF TypeOK
  <2>1. committing' \in BOOLEAN BY <1>a, Zenon DEF TypeOK
  <2>2. left' \in [Procs -> 0 .. OPBLOCKS] BY DEF TypeOK
  <2> HIDE DEF PCs
  <2> QED BY <1>b, <2>0, <2>1, <2>2 DEF TypeOK
<1>2. BootOK' BY Zenon, <1>a DEF BootOK
<1>3. HoldOK' BY <1>b, Zenon DEF HoldOK, TypeOK
<1>4. CommitOK'
  <2>1. \A q \in Procs \ {p} : pc'[q] \notin InCommit BY <1>a, <1>b
  <2>2. lh' = lh /\ tail' = 1 /\ lh \in Seq(Blocks) /\ outstanding' = outstanding - 1 /\ boot' = boot BY DEF TypeOK
  <2>3. CASE outstanding' = 0
    <3>1. committing' /\ pc'[p] = IF lh # <<>> THEN "write_log" ELSE "done" BY <1>c, <2>3, Zenon
    <3>2. lh # <<>> => 1 \in 1 .. Len(lh) BY <2>2
    <3> QED BY <2>1, <2>2, <2>3, <3>1, <3>2, Zenon DEF CommitOK
  <2>4. CASE outstanding' # 0
    <3>1. ~committing' /\ pc'[p] = "idle" BY Zenon, <1>c, <2>4
    <3> QED BY Zenon, <2>1, <2>4, <3>1 DEF CommitOK
  <2> QED BY <2>3, <2>4
<1>5. HeadOK' BY <1>a, <1>b DEF HeadOK, Distinct
<1>6. LeftOK' BY <1>b, ZenonT(30) DEF LeftOK, Active, TypeOK, Logged
<1>7. CountOK'
  <2>1. Active' = Active \ {p} BY Zenon, <1>a, <1>b DEF Active
  <2> QED BY <1>a, <2>1, CountFacts, FS_RemoveElement, Zenon DEF CountOK
<1>8. RefcntExact'
  <2>1. \A c \in Blocks : Pinned(c)' <=> Pinned(c) BY <1>a, <1>b DEF Pinned
  <2>2. \A c \in Blocks : Unlocked(c)' <=> Unlocked(c) BY Zenon DEF Unlocked
  <2> QED BY Zenon, <2>1, <2>2 DEF RefcntExact
<1> QED BY <1>1, <1>2, <1>3, <1>4, <1>5, <1>6, <1>7, <1>8

(* An iteration of write_log() keeps Control. *)
LEMMA write_logControl ==
  ASSUME NEW p \in Procs, Control, write_log(p)
  PROVE  Control'
<1> USE ConstantsAssumption DEF Control, write_log, disk, log, bufs, proc, InOp, Holding, InCommit, PCs
<1>0. /\ boot = "up" /\ committing /\ outstanding = 0
      /\ \A q \in Procs : q # p => pc[q] \in {"idle", "begin", "sleep", "rhold"}
      /\ tail \in 1 .. Len(lh) /\ tail \in 1 .. NLOG - 1 /\ lh[tail] \in Blocks
  BY Zenon, Committer
<1>a. \A q \in Procs : q # p => pc'[q] = pc[q] BY Zenon DEF TypeOK
<1>b. \/ pc'[p] = "write_log" /\ tail' = tail + 1 /\ tail # Len(lh)
      \/ pc'[p] = "write_head" /\ tail' = 1
  BY Zenon DEF TypeOK
<1>1. TypeOK'
  <2>1. View(lh[tail]) \in Values BY Zenon, <1>0 DEF TypeOK, View
  <2>2. dlog' \in [1 .. NLOG - 1 -> Values] /\ cache' \in [Blocks -> Values \cup {NoData}]
    BY Zenon, <1>0, <2>1 DEF TypeOK
  <2>3. tail' \in Nat \ {0} BY <1>0, <1>b
  <2>4. pc' \in [Procs -> PCs] BY Zenon DEF TypeOK
  <2> QED BY <2>2, <2>3, <2>4, Zenon DEF TypeOK
<1>3. /\ BootOK' /\ HoldOK' /\ LeftOK' /\ CountOK'
      /\ \A c \in Blocks : Unlocked(c)' <=> Unlocked(c)
  BY Zenon, <1>a, <1>b, CommitterControl
<1>4. CommitOK'
  <2>1. /\ \A q \in Procs : pc'[q] \in InCommit <=> q = p
        /\ lh' = lh /\ lh \in Seq(Blocks) /\ committing' = committing /\ outstanding' = outstanding
    BY <1>0, <1>a, <1>b, Zenon DEF TypeOK
  <2>2. tail' \in 1 .. Len(lh) /\ (pc'[p] = "write_head" => tail' = 1) /\ pc'[p] # "done"
    BY <1>0, <1>b, <2>1
  <2> HIDE DEF InCommit
  <2> QED BY <1>0, <1>a, <2>1, <2>2 DEF CommitOK
<1>5. HeadOK' BY <1>0, <1>a, <1>b DEF HeadOK, Distinct
<1>8. RefcntExact'
  <2>1. \A c \in Blocks : Pinned(c)' <=> Pinned(c) BY Zenon, <1>0, <1>a, <1>b DEF Pinned
  <2> QED BY Zenon, <2>1, <1>3 DEF RefcntExact
<1> QED BY Zenon, <1>1, <1>3, <1>4, <1>5, <1>8

(* The write of the header keeps Control. *)
LEMMA write_headControl ==
  ASSUME NEW p \in Procs, Control, write_head(p)
  PROVE  Control'
<1> USE ConstantsAssumption DEF Control, write_head, disk, log, bufs, proc, InOp, Holding, InCommit, PCs
<1>0. /\ boot = "up" /\ committing /\ outstanding = 0
      /\ \A q \in Procs : q # p => pc[q] \in {"idle", "begin", "sleep", "rhold"}
      /\ tail \in 1 .. Len(lh)
  BY Zenon, Committer
<1>a. pc'[p] = "install" /\ \A q \in Procs : q # p => pc'[q] = pc[q] BY Zenon DEF TypeOK
<1>1. TypeOK' BY Zenon DEF TypeOK
<1>3. /\ BootOK' /\ HoldOK' /\ LeftOK' /\ CountOK'
      /\ \A c \in Blocks : Unlocked(c)' <=> Unlocked(c)
  BY Zenon, <1>a, CommitterControl
<1>4. CommitOK' BY <1>0, <1>a, SMTT(30) DEF CommitOK, TypeOK
<1>5. HeadOK' BY ZenonT(30), <1>0, <1>a DEF HeadOK, Distinct
<1>8. RefcntExact'
  <2>1. tail = 1 BY Zenon DEF CommitOK
  <2>2. \A c \in Blocks : Pinned(c)' <=> Pinned(c) BY <1>0, <1>a, <2>1 DEF Pinned
  <2> QED BY <2>2, <1>3 DEF RefcntExact
<1> QED BY Zenon, <1>1, <1>3, <1>4, <1>5, <1>8

(* An iteration of install_trans() keeps Control: it unpins the block it *)
(* installs.                                                             *)
LEMMA install_transControl ==
  ASSUME NEW p \in Procs, Control, install_trans(p)
  PROVE  Control'
<1> USE ConstantsAssumption DEF Control, install_trans, disk, log, bufs, proc, InOp, Holding, InCommit, PCs
<1>0. /\ boot = "up" /\ committing /\ outstanding = 0
      /\ \A q \in Procs : q # p => pc[q] \in {"idle", "begin", "sleep", "rhold"}
      /\ tail \in 1 .. Len(lh) /\ tail \in 1 .. NLOG - 1 /\ lh[tail] \in Blocks
  BY Zenon, Committer
<1>a. \A q \in Procs : q # p => pc'[q] = pc[q] BY Zenon DEF TypeOK
<1>b. \/ pc'[p] = "install" /\ tail' = tail + 1 /\ tail # Len(lh)
      \/ pc'[p] = "clear" /\ tail' = tail /\ tail = Len(lh)
  BY Zenon DEF TypeOK
<1>c. PICK b \in Blocks : b = lh[tail] BY Zenon, <1>0
<1>d. Pinned(b) BY <1>0, <1>c DEF Pinned
<1>e. Unlocked(b) /\ refcnt[b] = 1 BY <1>c, <1>d DEF RefcntExact
<1>f. refcnt' = [refcnt EXCEPT ![b] = @ - 1] BY Zenon, <1>c
<1>g. refcnt' = [refcnt EXCEPT ![b] = 0]
  <2>1. refcnt[b] - 1 = 0 BY <1>e
  <2> HIDE DEF install_trans, Control
  <2> QED BY <1>f, <2>1, Zenon
<1>1. TypeOK'
  <2>1. refcnt' \in [Blocks -> Nat]
    <3> HIDE DEF install_trans
    <3> QED BY Zenon, <1>g DEF TypeOK
  <2>2. home' \in [Blocks -> Values] /\ cache' \in [Blocks -> Values \cup {NoData}] BY Zenon, <1>0 DEF TypeOK
  <2>3. tail' \in Nat \ {0} BY <1>0, <1>b, SMTT(30) DEF TypeOK
  <2> QED BY <2>1, <2>2, <2>3, Zenon DEF TypeOK
<1>3. /\ BootOK' /\ HoldOK' /\ LeftOK' /\ CountOK'
      /\ \A c \in Blocks : Unlocked(c)' <=> Unlocked(c)
  BY Zenon, <1>a, <1>b, CommitterControl
<1>4. CommitOK'
  <2>1. /\ \A q \in Procs : pc'[q] \in InCommit <=> q = p
        /\ lh' = lh /\ lh \in Seq(Blocks) /\ committing' = committing /\ outstanding' = outstanding
    BY <1>0, <1>a, <1>b, Zenon DEF TypeOK
  <2>2. tail' \in 1 .. Len(lh) /\ (pc'[p] = "write_head" => tail' = 1) /\ pc'[p] # "done"
    BY <1>0, <1>b, <2>1
  <2> HIDE DEF InCommit
  <2> QED BY <1>0, <1>a, <2>1, <2>2, SMTT(30) DEF CommitOK
<1>5. HeadOK' BY ZenonT(30), <1>0, <1>a, <1>b DEF HeadOK, Distinct
<1>8. RefcntExact'
  <2>1. lh' = lh /\ boot' = "up" BY <1>0, Zenon DEF TypeOK
  <2>2. \A i \in 1 .. Len(lh) : lh[i] = b => i = tail BY Zenon, <1>0, <1>c DEF HeadOK, Distinct
  <2>3. ~Pinned(b)' BY <1>b, <2>1, <2>2, <1>0 DEF Pinned
  <2>4. \A c \in Blocks \ {b} : Pinned(c)' <=> Pinned(c)
    <3>1. \A c \in Blocks : Pinned(c) <=> \E i \in 1 .. Len(lh) : lh[i] = c /\ i >= tail
      BY Zenon, <1>0 DEF Pinned
    <3>2. CASE pc'[p] = "install" /\ tail' = tail + 1
      <4>1. \A c \in Blocks : Pinned(c)' <=> \E i \in 1 .. Len(lh) : lh[i] = c /\ i >= tail + 1
        BY Zenon, <1>0, <1>a, <2>1, <3>2 DEF Pinned
      <4> QED BY <1>0, <1>c, <3>1, <4>1
    <3>3. CASE pc'[p] = "clear" /\ tail = Len(lh)
      <4>1. \A c \in Blocks : ~Pinned(c)' BY Zenon, <3>3 DEF Pinned
      <4> QED BY <1>0, <1>c, <3>1, <3>3, <4>1, SMTT(30)
    <3> QED BY Zenon, <1>b, <3>2, <3>3
  <2>6. refcnt'[b] = 0 /\ \A c \in Blocks \ {b} : refcnt'[c] = refcnt[c] BY Zenon, <1>g DEF TypeOK
  <2> QED BY <1>e, <2>3, <2>4, <1>3, <2>6 DEF RefcntExact
<1> QED BY Zenon, <1>1, <1>3, <1>4, <1>5, <1>8

(* The clearing of the header keeps Control. *)
LEMMA clear_headControl ==
  ASSUME NEW p \in Procs, Control, clear_head(p)
  PROVE  Control'
<1> USE ConstantsAssumption DEF Control, clear_head, disk, log, bufs, proc, InOp, Holding, InCommit, PCs
<1>0. /\ boot = "up" /\ committing /\ outstanding = 0
      /\ \A q \in Procs : q \notin Active
      /\ \A q \in Procs : q # p => pc[q] \in {"idle", "begin", "sleep", "rhold"}
  BY Zenon, Committer
<1>a. pc'[p] = "done" /\ \A q \in Procs : q # p => pc'[q] = pc[q] BY Zenon DEF TypeOK
<1>1. TypeOK' BY DEF TypeOK
<1>3. /\ BootOK' /\ HoldOK' /\ LeftOK' /\ CountOK'
      /\ \A c \in Blocks : Unlocked(c)' <=> Unlocked(c)
  BY Zenon, <1>a, CommitterControl
<1>4. CommitOK' BY <1>0, <1>a DEF CommitOK, TypeOK
<1>5. HeadOK' BY <1>0, <1>a DEF HeadOK, Distinct
<1>8. RefcntExact'
  <2>1. \A c \in Blocks : ~Pinned(c)' /\ ~Pinned(c) BY DEF Pinned
  <2> QED BY <2>1, <1>3 DEF RefcntExact
<1> QED BY <1>1, <1>3, <1>4, <1>5, <1>8

(* The end of end_op() keeps Control. *)
LEMMA end_commitControl ==
  ASSUME NEW p \in Procs, Control, end_commit(p)
  PROVE  Control'
<1> USE ConstantsAssumption DEF Control, end_commit, disk, log, bufs, proc, InOp, Holding, InCommit, PCs
<1>0. /\ boot = "up" /\ committing /\ outstanding = 0 /\ lh = <<>>
      /\ \A q \in Procs : q # p => pc[q] \in {"idle", "begin", "sleep", "rhold"}
  BY Zenon, Committer DEF CommitOK
<1>a. /\ pc'[p] = "idle" /\ pc' \in [Procs -> PCs]
      /\ \A q \in Procs : q # p => pc'[q] = pc[q] \/ (pc[q] = "sleep" /\ pc'[q] = "begin")
  BY Zenon DEF TypeOK, wakeup
<1>1. TypeOK' BY <1>a, Zenon DEF TypeOK
<1>2. BootOK' BY <1>0, Zenon DEF BootOK
<1>3. HoldOK' BY <1>a, Zenon DEF HoldOK
<1>4. CommitOK' BY <1>0, <1>a, Zenon DEF CommitOK, TypeOK
<1>5. HeadOK' BY <1>0, <1>a DEF HeadOK, Distinct
<1>6. LeftOK' BY <1>0, <1>a, Zenon DEF LeftOK, Active
<1>7. CountOK'
  <2>1. Active' = Active BY <1>a, Zenon DEF Active
  <2> QED BY Zenon, <2>1 DEF CountOK
<1>8. RefcntExact'
  <2>1. \A c \in Blocks : ~Pinned(c)' /\ ~Pinned(c) BY <1>0 DEF Pinned
  <2>2. \A c \in Blocks : Unlocked(c)' <=> Unlocked(c) BY Zenon DEF Unlocked
  <2> QED BY Zenon, <2>1, <2>2 DEF RefcntExact
<1> QED BY Zenon, <1>1, <1>2, <1>3, <1>4, <1>5, <1>6, <1>7, <1>8

(* A machine that has just been switched on: nothing in memory, and on the   *)
(* disk what the last run left there.                                        *)
SwitchedOn ==
  /\ home \in [Blocks -> Values] /\ dlog \in [1 .. NLOG - 1 -> Values]
  /\ dhead \in Seq(Blocks) /\ Distinct(dhead) /\ Len(dhead) <= NLOG - 1
  /\ lh = <<>> /\ outstanding = 0 /\ committing = FALSE
  /\ cache = [b \in Blocks |-> NoData] /\ refcnt = [b \in Blocks |-> 0]
  /\ pc = [p \in Procs |-> "idle"] /\ buf = [p \in Procs |-> NoBlock]
  /\ left = [p \in Procs |-> 0] /\ tail = 1 /\ boot = "read_head"

(* It satisfies Control. *)
LEMMA BootControl == SwitchedOn => Control
<1> SUFFICES ASSUME SwitchedOn PROVE Control OBVIOUS
<1> USE ConstantsAssumption DEF SwitchedOn
<1>1. committing \in BOOLEAN BY Zenon
<1>2. TypeOK BY <1>1 DEF TypeOK, PCs
<1>3. HeadOK BY DEF HeadOK, Distinct
<1>4. Active = {} BY Zenon DEF Active, InOp
<1>5. CountOK BY Zenon, <1>4, FS_EmptySet DEF CountOK
<1>6. BootOK /\ HoldOK /\ CommitOK /\ LeftOK BY Zenon DEF BootOK, HoldOK, Holding, CommitOK, InCommit, LeftOK
<1>7. RefcntExact BY DEF RefcntExact, Pinned, Unlocked
<1> QED BY Zenon, <1>2, <1>3, <1>5, <1>6, <1>7 DEF Control

(* The same after a step. *)
LEMMA BootControlNext == SwitchedOn' => Control'
BY BootControl, PTL

(* Control holds when the machine is switched on. *)
LEMMA InitControl == Init => Control
BY BootControl, ConstantsAssumption DEF Init, SwitchedOn, Distinct

(* A crash keeps Control, whatever it interrupts. *)
LEMMA CrashControl ==
  ASSUME Control, Crash
  PROVE  Control'
<1>1. SwitchedOn' BY ZenonT(30) DEF Control, TypeOK, HeadOK, Distinct, Crash, SwitchedOn, disk
<1> QED BY <1>1, BootControlNext

(* The steps of recover_from_log() keep Control. *)
LEMMA RecoverControl ==
  ASSUME Control, Recover
  PROVE  Control'
<1> USE ConstantsAssumption DEF Control, Recover, read_head, recover_install, recover_clear, disk, log, bufs, proc
<1>0. boot # "up" /\ boot \in {"read_head", "install"} /\ UNCHANGED <<pc, buf, left, refcnt, outstanding, committing>>
   OBVIOUS
<1>1. TypeOK'
  <2>1. CASE read_head BY Zenon, <2>1 DEF TypeOK
  <2>2. CASE recover_install
    <3>1. tail \in 1 .. Len(lh) /\ tail \in 1 .. NLOG - 1 BY <2>2, SMTT(30) DEF TypeOK, HeadOK
    <3>2. lh[tail] \in Blocks /\ dlog[tail] \in Values BY <3>1, SMTT(30) DEF TypeOK
    <3> QED BY <2>2, <3>2, SMTT(30) DEF TypeOK
  <2>3. CASE recover_clear BY <2>3, SMTT(30) DEF TypeOK
  <2> QED BY ZenonT(30), <2>1, <2>2, <2>3
<1>2. BootOK' BY Zenon, <1>0 DEF BootOK
<1>3. HoldOK' BY Zenon, <1>0 DEF HoldOK
<1>4. CommitOK' BY Zenon, <1>0 DEF CommitOK, BootOK, InCommit
<1>5. HeadOK' BY <1>0, SMTT(30) DEF HeadOK, Distinct, BootOK, TypeOK
<1>6. LeftOK' BY <1>0, Zenon DEF LeftOK, BootOK, Active
<1>7. CountOK'
  <2>1. Active' = Active BY Zenon, <1>0 DEF Active
  <2> QED BY Zenon, <2>1, <1>0 DEF CountOK
<1>8. RefcntExact'
  <2>1. \A c \in Blocks : ~Pinned(c)' /\ ~Pinned(c) BY <1>0, SMTT(30) DEF Pinned
  <2>2. \A c \in Blocks : Unlocked(c)' <=> Unlocked(c) BY Zenon, <1>0 DEF Unlocked
  <2> QED BY Zenon, <1>0, <2>1, <2>2 DEF RefcntExact
<1> QED BY ZenonT(30), <1>1, <1>2, <1>3, <1>4, <1>5, <1>6, <1>7, <1>8

(* Control is inductive. *)
LEMMA ControlStep ==
  ASSUME Control, [Next]_vars
  PROVE  Control'
<1>1. CASE UNCHANGED vars
  <2> USE <1>1 DEF vars, disk, log, bufs, proc, Control
  <2>1. (Active = Active') /\ (\A b \in Blocks : Pinned(b)' <=> Pinned(b)) /\ (\A b \in Blocks : Unlocked(b)' <=> Unlocked(b))
    BY Zenon DEF Active, Pinned, Unlocked
  <2>2. TypeOK' /\ BootOK' /\ HoldOK' BY Zenon DEF TypeOK, BootOK, HoldOK
  <2>3. CommitOK' /\ HeadOK' BY ZenonT(30) DEF CommitOK, HeadOK, Distinct
  <2>4. LeftOK' /\ CountOK' /\ RefcntExact' BY <2>1, Zenon DEF LeftOK, CountOK, RefcntExact, Logged
  <2> QED BY Zenon, <2>2, <2>3, <2>4
<1>2. CASE Next
  <2>1. ASSUME NEW p \in Procs, NEW b \in Blocks, Bread(p, b) PROVE Control' BY <2>1, BreadControl
  <2>2. ASSUME NEW p \in Procs, NEW v \in Values, Modify(p, v) \/ ModifyFault(p, v) PROVE Control'
    BY <2>2, QuietSteps
  <2>3. ASSUME NEW p \in Procs, Brelse(p) \/ BeginOpCall(p) \/ BeginOpSleep(p) \/ BeginOpEnter(p) PROVE Control'
    BY <2>3, BrelseControl, QuietSteps, BeginOpEnterControl
  <2>4. ASSUME NEW p \in Procs, log_write(p) \/ log_writePanic(p) \/ end_op(p) PROVE Control'
    BY <2>4, log_writeControl, QuietSteps, end_opControl
  <2>5. ASSUME NEW p \in Procs, Commit(p) PROVE Control'
    BY <2>5, write_logControl, write_headControl, install_transControl, clear_headControl, end_commitControl DEF Commit
  <2>6. ASSUME NEW b \in Blocks, Evict(b) PROVE Control' BY <2>6, EvictControl
  <2>7. CASE Crash BY <2>7, CrashControl
  <2>8. CASE Recover BY <2>8, RecoverControl
  <2> QED BY Zenon, <1>2, <2>1, <2>2, <2>3, <2>4, <2>5, <2>6, <2>7, <2>8 DEF Next
<1> QED BY <1>1, <1>2

(* In every execution of log.c, with any number of processes, blocks and *)
(* log blocks and with any crashes: log.outstanding counts the running   *)
(* calls, one process commits at a time and alone, the header block is   *)
(* log.lh from its write to its clearing, and every buffer's refcnt is   *)
(* exact.                                                                *)
THEOREM ControlInvariant == Spec => []Control
<1>1. Init => Control BY InitControl
<1>2. Control /\ [Next]_vars => Control' BY ControlStep
<1> QED BY <1>1, <1>2, PTL DEF Spec

(* The type invariant of Log, for all values of the constants. *)
THEOREM TypeCorrect == Spec => []TypeOK
<1>1. Control => TypeOK BY DEF Control
<1> QED BY <1>1, ControlInvariant, PTL

(* For every instance: b->refcnt is one for the process that has the buffer  *)
(* and one for the log's pin, at every stage of every commit.                *)
THEOREM RefcntInvariant == Spec => []RefcntExact
<1>1. Control => RefcntExact BY DEF Control
<1> QED BY <1>1, ControlInvariant, PTL

-----------------------------------------------------------------------------
(***************************************************************************)
(* begin_op()'s reservation suffices when it has the slack of Margin: Space *)
(* is inductive relative to Control, and it excludes the panics.           *)
(***************************************************************************)
(* The running calls together may still add at most OPBLOCKS blocks each. *)
LEMMA ReservedFacts ==
  Control => /\ IsFiniteSet(Reserved)
             /\ Cardinality(Reserved) \in Nat
             /\ Cardinality(Reserved) <= outstanding * OPBLOCKS
<1> HAVE Control
<1>1. IsFiniteSet(Active) /\ Cardinality(Active) = outstanding
  BY CountFacts DEF Control, CountOK
<1>2. IsFiniteSet(1 .. OPBLOCKS) /\ Cardinality(1 .. OPBLOCKS) = OPBLOCKS
  BY FS_Interval, ConstantsAssumption
<1>3. /\ IsFiniteSet(Active \X (1 .. OPBLOCKS))
      /\ Cardinality(Active \X (1 .. OPBLOCKS)) = outstanding * OPBLOCKS
  BY <1>1, <1>2, FS_Product, Zenon
<1>4. Reserved \in SUBSET (Active \X (1 .. OPBLOCKS))
  BY DEF Reserved, Control, LeftOK
<1>5. IsFiniteSet(Reserved) /\ Cardinality(Reserved) <= Cardinality(Active \X (1 .. OPBLOCKS))
  BY <1>3, <1>4, FS_Subset
<1>6. Cardinality(Reserved) \in Nat
  BY <1>5, FS_CardinalityType
<1> QED BY <1>3, <1>5, <1>6

(* The same after a step. *)
LEMMA ReservedFactsNext ==
  Control' => (/\ IsFiniteSet(Reserved)
               /\ Cardinality(Reserved) \in Nat
               /\ Cardinality(Reserved) <= outstanding * OPBLOCKS)'
BY ReservedFacts, PTL

(* What Control says of the log's length, the calls and what each may add *)
LEMMA SpaceTypes ==
  ASSUME Control
  PROVE  /\ lh \in Seq(Blocks) /\ Len(lh) \in Nat /\ outstanding \in Nat
         /\ left \in [Procs -> 0 .. OPBLOCKS] /\ OPBLOCKS \in Nat
         /\ \A p \in Procs : pc[p] = "dirty" => buf[p] \in Blocks
         /\ LeftOK
<1>1. HoldOK /\ LeftOK /\ TypeOK BY Zenon DEF Control
<1>2. /\ lh \in Seq(Blocks) /\ outstanding \in Nat /\ left \in [Procs -> 0 .. OPBLOCKS]
      /\ buf \in [Procs -> Blocks \cup {NoBlock}]
  BY <1>1, Zenon DEF TypeOK
<1>3. \A p \in Procs : pc[p] = "dirty" => buf[p] # NoBlock BY <1>1, Zenon DEF HoldOK, Holding
<1> QED BY <1>1, <1>2, <1>3, ConstantsAssumption

(* A step that neither lengthens the log nor starts a call keeps Space. *)
LEMMA SpaceShrinks ==
  ASSUME Control, Control', Space,
         outstanding' >= 1 => outstanding >= 1,
         Len(lh') <= Len(lh),
         \A p \in Procs : left'[p] <= left[p]
  PROVE  Space'
<1>1. Reserved' \in SUBSET Reserved
  BY ConstantsAssumption DEF Reserved, Control, TypeOK
<1>2. Cardinality(Reserved') <= Cardinality(Reserved)
  BY Zenon, <1>1, ReservedFacts, FS_Subset
<1>3. Cardinality(Reserved) \in Nat /\ Cardinality(Reserved') \in Nat
  <2>1. IsFiniteSet(Reserved) BY Zenon, ReservedFacts
  <2> QED BY Zenon, <1>1, <2>1, FS_Subset, FS_CardinalityType
<1>4. Len(lh) \in Nat /\ Len(lh') \in Nat BY DEF Control, TypeOK
<1> QED BY <1>2, <1>3, <1>4, ConstantsAssumption DEF Space

(* begin_op() admits a call only if its MAXOPBLOCKS blocks fit as well: *)
(* Space holds after it.                                                *)
LEMMA BeginOpEnterSpace ==
  ASSUME Control, Control', NEW p \in Procs, BeginOpEnter(p)
  PROVE  Space'
<1> DEFINE R == Cardinality(Reserved)'
           n == outstanding + 1
<1>1. R \in Nat /\ R <= n * OPBLOCKS
  BY ReservedFactsNext DEF BeginOpEnter
<1>2. Len(lh) + n * MAXOPBLOCKS <= LOGSIZE
  BY DEF BeginOpEnter, MayBegin
<1>3. n * OPBLOCKS <= n * MAXOPBLOCKS - (MAXOPBLOCKS - OPBLOCKS)
  <2>1. outstanding \in Nat /\ OPBLOCKS \in Nat /\ MAXOPBLOCKS \in Nat /\ OPBLOCKS <= MAXOPBLOCKS
    BY ConstantsAssumption DEF Control, TypeOK
  <2>2. \A a, x, y \in Nat : x <= y => a * x <= a * y
    OBVIOUS
  <2>3. outstanding * OPBLOCKS <= outstanding * MAXOPBLOCKS
    BY <2>1, <2>2
  <2>4. n * OPBLOCKS = outstanding * OPBLOCKS + OPBLOCKS /\ n * MAXOPBLOCKS = outstanding * MAXOPBLOCKS + MAXOPBLOCKS
    BY <2>1
  <2> QED BY <2>1, <2>3, <2>4
<1>4. Len(lh) \in Nat /\ MAXOPBLOCKS \in Nat /\ OPBLOCKS \in Nat /\ n * OPBLOCKS \in Nat /\ n * MAXOPBLOCKS \in Nat
  BY ConstantsAssumption DEF Control, TypeOK
<1>5. Len(lh) + R <= LOGSIZE - (MAXOPBLOCKS - OPBLOCKS)
  <2> HIDE DEF R, n
  <2> QED BY <1>1, <1>2, <1>3, <1>4, ConstantsAssumption
<1> QED BY Zenon, <1>5 DEF Space, BeginOpEnter

(* log_write() moves one block from what is reserved into the log, and *)
(* Space is kept.                                                      *)
LEMMA log_writeSpace ==
  ASSUME Control, Control', Space, NEW p \in Procs, log_write(p)
  PROVE  Space'
<1>0. /\ lh \in Seq(Blocks) /\ Len(lh) \in Nat /\ outstanding \in Nat
      /\ left \in [Procs -> 0 .. OPBLOCKS] /\ OPBLOCKS \in Nat /\ LeftOK
      /\ pc[p] = "dirty" => buf[p] \in Blocks
  BY SpaceTypes, Zenon
<1>a. /\ pc[p] = "dirty" /\ outstanding' = outstanding
      /\ IF buf[p] \in Logged THEN lh' = lh /\ left' = left
         ELSE lh' = Append(lh, buf[p]) /\ left' = [left EXCEPT ![p] = @ - 1]
  BY DEF log_write
<1>1. CASE buf[p] \in Logged
  <2>1. lh' = lh /\ left' = left BY <1>1, <1>a
  <2> QED BY <1>0, <1>a, <2>1, SpaceShrinks
<1>2. CASE buf[p] \notin Logged
  <2>1. left[p] \in 1 .. OPBLOCKS BY <1>2, <1>0, <1>a DEF LeftOK
  <2>2. left' = [left EXCEPT ![p] = @ - 1] /\ Len(lh') = Len(lh) + 1 /\ outstanding' = outstanding
    BY <1>2, <1>0, <1>a
  <2> DEFINE last == <<p, left[p]>>
  <2>3. last \in Reserved BY <2>1 DEF Reserved
  <2>4. Reserved' = Reserved \ {last}
    <3>1. \A q \in Procs, i \in 1 .. OPBLOCKS :
            i <= left'[q] <=> i <= left[q] /\ ~(q = p /\ i = left[p])
      <4>1. \A q \in Procs : left[q] \in Int /\ left'[q] = IF q = p THEN left[p] - 1 ELSE left[q]
        BY <2>2, <1>0
      <4> QED BY <2>1, <1>0, <4>1
    <3>2. \A x \in Procs \X (1 .. OPBLOCKS) :
            /\ x[1] \in Procs /\ x[2] \in 1 .. OPBLOCKS
            /\ x = last <=> x[1] = p /\ x[2] = left[p]
      OBVIOUS
    <3>3. \A x \in Procs \X (1 .. OPBLOCKS) : x[2] <= left'[x[1]] <=> x[2] <= left[x[1]] /\ x # last
      BY Zenon, <3>1, <3>2
    <3> QED BY Zenon, <3>3 DEF Reserved
  <2>5. Cardinality(Reserved') = Cardinality(Reserved) - 1 /\ Cardinality(Reserved) \in Nat
    BY <2>3, <2>4, ReservedFacts, FS_RemoveElement, Zenon
  <2> QED BY <1>0, <2>2, <2>5, ConstantsAssumption DEF Space
<1> QED BY <1>1, <1>2

(* Every step keeps Space. *)
LEMMA SpaceStep ==
  ASSUME Control, Control', Space, [Next]_vars
  PROVE  Space'
<1> USE DEF disk, log, bufs, proc
<1>0. Len(lh) \in Nat /\ outstanding \in Nat /\ left \in [Procs -> 0 .. OPBLOCKS] /\ OPBLOCKS \in Nat
  BY SpaceTypes, Zenon
<1>1. CASE UNCHANGED vars
  BY <1>0, <1>1, SpaceShrinks DEF vars
<1>2. CASE \E b \in Blocks : Evict(b)
  BY <1>0, <1>2, SpaceShrinks DEF Evict
<1>3. ASSUME NEW p \in Procs,
             \/ \E b \in Blocks : Bread(p, b)
             \/ \E v \in Values : Modify(p, v) \/ ModifyFault(p, v)
             \/ Brelse(p) \/ BeginOpCall(p) \/ BeginOpSleep(p) \/ log_writePanic(p)
             \/ write_log(p) \/ write_head(p) \/ install_trans(p) \/ end_commit(p)
      PROVE  Space'
  <2>1. lh' = lh /\ left' = left /\ outstanding' = outstanding
    BY <1>3, Zenon DEF Bread, Modify, ModifyFault, Brelse, BeginOpCall, BeginOpSleep, log_writePanic,
                write_log, write_head, install_trans, end_commit
  <2> QED BY <1>0, <2>1, SpaceShrinks
<1>4. ASSUME NEW p \in Procs, BeginOpEnter(p) PROVE Space'
  BY <1>4, BeginOpEnterSpace
<1>5. ASSUME NEW p \in Procs, log_write(p) PROVE Space'
  BY <1>5, log_writeSpace
<1>6. ASSUME NEW p \in Procs, end_op(p) PROVE Space'
  <2>1. lh' = lh /\ outstanding' = outstanding - 1 /\ left' = [left EXCEPT ![p] = 0] BY Zenon, <1>6 DEF end_op
  <2>2. \A q \in Procs : left'[q] <= left[q] BY <1>0, <2>1
  <2> QED BY <1>0, <2>1, <2>2, SpaceShrinks
<1>7. ASSUME NEW p \in Procs, clear_head(p) PROVE Space'
  <2>1. outstanding' = 0 BY Zenon, <1>7, Committer DEF clear_head, InCommit
  <2> QED BY <2>1 DEF Space
<1>8. CASE Crash BY <1>8 DEF Crash, Space
<1>9. CASE Recover
  <2>1. boot # "up" /\ outstanding' = outstanding
    BY <1>9, Zenon DEF Recover, read_head, recover_install, recover_clear
  <2>2. outstanding' = 0 BY <2>1, Zenon DEF Control, BootOK
  <2> QED BY <2>2 DEF Space
<1> QED BY <1>1, <1>2, <1>3, <1>4, <1>5, <1>6, <1>7, <1>8, <1>9, Zenon DEF Next, Commit

(* With Margin no step panics. *)
LEMMA NoPanicStep ==
  ASSUME Margin, Control, Space, NoPanic, [Next]_vars
  PROVE  NoPanic'
<1> USE DEF NoPanic, LogLockFree
<1>0. pc \in [Procs -> PCs] /\ Len(lh) \in Nat /\ outstanding \in Nat
  <2>1. pc \in [Procs -> PCs] BY Zenon DEF Control, TypeOK
  <2> QED BY <2>1, SpaceTypes, Zenon
<1>1. ASSUME NEW p \in Procs, log_writePanic(p) PROVE FALSE
  <2>1. p \in Active BY Zenon, <1>1 DEF log_writePanic, Active, InOp
  <2>2. outstanding # 0 BY <2>1, CountFacts, Zenon DEF Control
  <2>3. Len(lh) <= LOGSIZE - (MAXOPBLOCKS - OPBLOCKS)
    BY <1>0, <2>2, ReservedFacts, ConstantsAssumption DEF Space
  <2>4. ~log_writePanics
    BY <1>0, <2>2, <2>3, ConstantsAssumption DEF log_writePanics, Margin
  <2> QED BY Zenon, <1>1, <2>4 DEF log_writePanic
<1>2. ASSUME NEW p \in Procs, end_op(p) PROVE NoPanic'
  <2>1. p \in Active BY Zenon, <1>2 DEF end_op, Active, InOp
  <2>2. ~committing BY Zenon, <2>1, CountFacts DEF Control, CommitOK
  <2> QED BY <1>0, <1>2, <2>2 DEF end_op, wakeup
<1>3. ASSUME NEW p \in Procs,
             \/ \E b \in Blocks : Bread(p, b)
             \/ \E v \in Values : Modify(p, v) \/ ModifyFault(p, v)
             \/ Brelse(p) \/ BeginOpCall(p) \/ BeginOpSleep(p) \/ BeginOpEnter(p)
             \/ log_write(p)
      PROVE  NoPanic'
  <2>1. (\E s : s # "panic" /\ pc' = [pc EXCEPT ![p] = s]) \/ pc' = pc
    <3>1. CASE \E b \in Blocks : Bread(p, b) BY <3>1, Zenon DEF Bread
    <3>2. CASE Brelse(p) BY <3>2, Zenon DEF Brelse
    <3>3. CASE \E v \in Values : Modify(p, v) \/ ModifyFault(p, v) BY <3>3, Zenon DEF Modify, ModifyFault, proc
    <3>4. CASE BeginOpCall(p) \/ BeginOpSleep(p) \/ BeginOpEnter(p) \/ log_write(p)
      BY <3>4, Zenon DEF BeginOpCall, BeginOpSleep, BeginOpEnter, log_write
    <3> QED BY <1>3, <3>1, <3>2, <3>3, <3>4, Zenon
  <2> QED BY <1>0, <2>1
<1>4. ASSUME NEW p \in Procs, Commit(p) PROVE NoPanic'
  <2>1. pc'[p] # "panic" /\ \A q \in Procs : pc'[q] = "panic" => pc[q] = "panic"
    BY <1>0, <1>4, ZenonT(30) DEF Commit, write_log, write_head, install_trans, clear_head, end_commit, wakeup
  <2> QED BY Zenon, <2>1
<1>5. CASE Crash BY Zenon, <1>5 DEF Crash
<1>6. CASE Recover \/ (\E b \in Blocks : Evict(b)) \/ UNCHANGED vars
  BY <1>6, Zenon DEF Recover, read_head, recover_install, recover_clear, Evict, vars, proc
<1> QED BY <1>1, <1>2, <1>3, <1>4, <1>5, <1>6, Zenon DEF Next

(* begin_op() admits a call only if the log has room for all that the        *)
(* admitted calls can write; under Margin log_write() then never panics      *)
(* "too big a transaction", and end_op() never "log.committing", for every   *)
(* number of processes and blocks, across crashes and recoveries.            *)
THEOREM NoPanicInvariant ==
  ASSUME Margin
  PROVE  Spec => []NoPanic
<1>1. Init => Space /\ NoPanic
  <2>1. Init => outstanding = 0 /\ pc = [p \in Procs |-> "idle"] BY Zenon DEF Init
  <2> QED BY <2>1 DEF Space, NoPanic, LogLockFree
<1>2. Control /\ Control' /\ Space /\ NoPanic /\ [Next]_vars => Space' /\ NoPanic'
  BY Zenon, SpaceStep, NoPanicStep
<1> QED BY <1>1, <1>2, ControlInvariant, PTL DEF Spec
=============================================================================
