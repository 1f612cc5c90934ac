-------------------------- MODULE LogAtomicProofs --------------------------
(***************************************************************************)
(* Data of LogInvariant is inductive relative to Control when no copy from *)
(* user memory fails halfway, and Log then implements AtomicDisk.          *)
(***************************************************************************)
EXTENDS LogProofs

(* write_log() and install_trans() copy blocks that are still pinned. *)
LEMMA PinnedInCommit ==
  ASSUME Control, NEW p \in Procs, NEW i \in 1 .. Len(lh),
         \/ pc[p] \in {"write_log", "write_head"}
         \/ pc[p] = "install" /\ i >= tail
  PROVE  lh[i] \in Blocks /\ Pinned(lh[i]) /\ refcnt[lh[i]] > 0
<1>1. /\ boot = "up"
      /\ \A q \in Procs : q # p => pc[q] \in {"idle", "begin", "sleep", "rhold"}
  BY Committer, Zenon DEF InCommit
<1>0. lh \in Seq(Blocks) BY Zenon DEF Control, TypeOK
<1>2. lh[i] \in Blocks BY <1>0
<1>3. Pinned(lh[i]) BY <1>1 DEF Pinned
<1> QED BY <1>2, <1>3 DEF Control, RefcntExact

(* A running call excludes a commit and a recovery. *)
LEMMA ActiveFacts ==
  ASSUME Control, NEW p \in Procs, pc[p] \in InOp
  PROVE  /\ boot = "up" /\ outstanding # 0 /\ ~committing
         /\ \A q \in Procs : pc[q] \notin InCommit
<1>1. p \in Active BY DEF Active
<1>2. outstanding # 0 BY <1>1, CountFacts DEF Control
<1> QED BY Zenon, <1>2 DEF Control, CommitOK, BootOK, InOp

(* A step that leaves the pinned buffers, the disk and the commit alone. *)
LEMMA PhaseKept ==
  ASSUME Control, PhaseOK, UNCHANGED <<home, dlog, lh, tail, boot>>,
         \A q \in Procs : pc'[q] \in InCommit => pc'[q] = pc[q],
         \A c \in Blocks : Pinned(c) => cache'[c] = cache[c]
  PROVE  PhaseOK'
<1>1. \A q \in Procs, i \in 1 .. Len(lh) :
        \/ pc[q] \in {"write_log", "write_head"}
        \/ pc[q] = "install" /\ i >= tail
        => cache'[lh[i]] = cache[lh[i]]
  BY PinnedInCommit
<1>2. \A q \in Procs, i \in 1 .. Len(lh) :
        /\ pc[q] = "write_log" /\ i < tail => dlog[i] = cache'[lh[i]]
        /\ pc[q] = "write_head" => dlog[i] = cache'[lh[i]]
        /\ pc[q] = "install" /\ i >= tail => dlog[i] = cache'[lh[i]]
  BY <1>1 DEF PhaseOK
<1> QED BY <1>2 DEF PhaseOK, InCommit

(* A step that only moves a process, and neither to nor from a modified     *)
(* buffer, changes no data.                                                 *)
LEMMA DataKept ==
  ASSUME Control, Data, UNCHANGED <<home, dlog, lh, cache, tail, boot>>,
         \A q \in Procs : pc'[q] \in InCommit => pc'[q] = pc[q],
         \A c \in Blocks : /\ Pinned(c)' <=> Pinned(c)
                           /\ Dirty(c)' <=> Dirty(c)
                           /\ refcnt'[c] <= refcnt[c],
         refcnt' \in [Blocks -> Nat]
  PROVE  Data' /\ Current' = Current
<1>1. CleanBuffers' BY DEF Data, CleanBuffers, Control, TypeOK
<1>2. PhaseOK' BY PhaseKept DEF Data
<1>3. Current' = Current BY DEF Current, View
<1> QED BY <1>1, <1>2, <1>3 DEF Data

(* bread() brings a block into the cache as it is on the disk. *)
LEMMA BreadData ==
  ASSUME Control, Data, NEW p \in Procs, NEW b \in Blocks, Bread(p, b)
  PROVE  Data' /\ Current' = Current
<1> USE DEF Data, Bread, disk, log
<1>0. buf[p] = NoBlock BY Zenon DEF Control, HoldOK, Holding
<1>1. \A c \in Blocks : Pinned(c)' <=> Pinned(c) BY Zenon, SamePinned DEF Control, TypeOK
<1>2. \A c \in Blocks : Dirty(c)' <=> Dirty(c)
  BY Zenon, <1>0, ConstantsAssumption DEF Dirty, Control, TypeOK
<1>3. View(b) # NoData BY ConstantsAssumption DEF View, Control, TypeOK
<1>4. /\ \A c \in Blocks : c # b => cache'[c] = cache[c] /\ refcnt'[c] = refcnt[c]
      /\ cache'[b] = View(b)
  BY DEF Control, TypeOK
<1>5. CleanBuffers' BY <1>1, <1>2, <1>3, <1>4 DEF CleanBuffers, View
<1>6. \A c \in Blocks : Pinned(c) => cache[c] # NoData
  BY DEF CleanBuffers, Control, RefcntExact
<1>7. PhaseOK'
  <2>1. \A q \in Procs : pc'[q] \in InCommit => pc'[q] = pc[q] BY DEF Control, TypeOK, InCommit
  <2>2. \A c \in Blocks : Pinned(c) => cache'[c] = cache[c] BY <1>4, <1>6 DEF View
  <2> QED BY <2>1, <2>2, PhaseKept
<1>8. Current' = Current BY <1>3, <1>4 DEF Current, View
<1> QED BY <1>5, <1>7, <1>8

(* bget() recycles a clean buffer only, so nothing is lost. *)
LEMMA EvictData ==
  ASSUME Control, Data, NEW b \in Blocks, Evict(b)
  PROVE  Data' /\ Current' = Current
<1> USE DEF Data, Evict, disk, log, proc
<1>1. \A c \in Blocks : (Pinned(c)' <=> Pinned(c)) /\ (Dirty(c)' <=> Dirty(c))
  BY DEF Pinned, Dirty
<1>2. /\ cache'[b] = NoData
      /\ \A c \in Blocks : c # b => cache'[c] = cache[c]
  BY DEF Control, TypeOK
<1>3. ~Pinned(b) /\ Unlocked(b) BY DEF Control, TypeOK, RefcntExact
<1>4. ~Dirty(b) BY <1>3 DEF Dirty, Unlocked
<1>5. CleanBuffers' BY <1>1, <1>2 DEF CleanBuffers
<1>6. PhaseOK' BY Zenon, <1>2, <1>3, PhaseKept
<1>7. Current' = Current BY Zenon, <1>2, <1>3, <1>4 DEF Current, View, CleanBuffers
<1> QED BY <1>5, <1>6, <1>7

(* brelse() changes no data. *)
LEMMA BrelseData ==
  ASSUME Control, Control', Data, NEW p \in Procs, Brelse(p)
  PROVE  Data' /\ Current' = Current
<1> USE DEF Brelse, disk, log
<1>1. \A c \in Blocks : Pinned(c)' <=> Pinned(c) BY Zenon, SamePinned DEF Control, TypeOK
<1>2. \A c \in Blocks : Dirty(c)' <=> Dirty(c)
  BY Zenon, ConstantsAssumption DEF Dirty, Control, TypeOK
<1>3. \A q \in Procs : pc'[q] \in InCommit => pc'[q] = pc[q] BY Zenon DEF Control, TypeOK, InCommit
<1>4. refcnt' \in [Blocks -> Nat] /\ \A c \in Blocks : refcnt'[c] <= refcnt[c]
  BY DEF Control, TypeOK
<1> QED BY <1>1, <1>2, <1>3, <1>4, DataKept

(* The actions of a process that only change where it is. *)
LEMMA MoveData ==
  ASSUME Control, Data, NEW p \in Procs,
         \/ BeginOpCall(p) \/ BeginOpSleep(p) \/ BeginOpEnter(p) \/ log_writePanic(p) \/ end_commit(p)
  PROVE  Data' /\ Current' = Current
<1> USE DEF BeginOpCall, BeginOpSleep, BeginOpEnter, log_writePanic, end_commit, disk, log, bufs
<1>1. UNCHANGED <<home, dlog, lh, cache, refcnt, buf, tail, boot>> OBVIOUS
<1>2. /\ \A q \in Procs : pc'[q] \in InCommit => pc'[q] = pc[q]
      /\ \A q \in Procs : pc'[q] \in {"dirty", "panic"} <=> pc[q] \in {"dirty", "panic"}
      /\ \A q \in Procs : /\ pc'[q] = "clear" <=> pc[q] = "clear"
                          /\ pc'[q] = "install" <=> pc[q] = "install"
  BY ZenonT(30) DEF wakeup, InCommit, Control, TypeOK
<1>3. \A c \in Blocks : Pinned(c)' <=> Pinned(c) BY Zenon, <1>1, <1>2, SamePinned
<1>4. \A c \in Blocks : Dirty(c)' <=> Dirty(c) BY Zenon, <1>1, <1>2 DEF Dirty
<1>5. refcnt' \in [Blocks -> Nat] /\ \A c \in Blocks : refcnt'[c] <= refcnt[c]
  BY <1>1 DEF Control, TypeOK
<1> HIDE DEF BeginOpCall, BeginOpSleep, BeginOpEnter, log_writePanic, end_commit
<1> QED BY Zenon, <1>1, <1>2, <1>3, <1>4, <1>5, DataKept

(* A change to a buffer is seen by the running system and by nobody else. *)
LEMMA ModifyData ==
  ASSUME Control, Data, NEW p \in Procs, NEW v \in Values, Modify(p, v)
  PROVE  /\ Data'
         /\ buf[p] \in Blocks /\ Current' = [Current EXCEPT ![buf[p]] = v]
<1> USE DEF Modify, disk, log
<1>0. PICK b \in Blocks : b = buf[p] BY Zenon DEF Control, TypeOK, HoldOK, Holding
<1>1. boot = "up" /\ \A q \in Procs : pc[q] \notin InCommit BY Zenon, ActiveFacts DEF InOp
<1>2. \A c \in Blocks : Pinned(c)' <=> Pinned(c) BY Zenon, SamePinned DEF Control, TypeOK
<1>3. /\ cache' = [cache EXCEPT ![b] = v] /\ cache \in [Blocks -> Values \cup {NoData}]
      /\ v # NoData
  BY Zenon, <1>0, ConstantsAssumption DEF Control, TypeOK
<1>4. Dirty(b)' /\ \A c \in Blocks : c # b => (Dirty(c)' <=> Dirty(c))
  BY Zenon, <1>0 DEF Dirty, Control, TypeOK
<1>5. CleanBuffers'
  <2>1. /\ cache'[b] = v /\ \A c \in Blocks : c # b => cache'[c] = cache[c] BY <1>3
  <2> QED BY Zenon, <1>2, <1>3, <1>4, <2>1 DEF CleanBuffers, Data
<1>6. PhaseOK'
  <2>1. \A q \in Procs : pc'[q] \notin InCommit BY Zenon, <1>1 DEF Control, TypeOK, InCommit
  <2> QED BY <1>1, <2>1 DEF PhaseOK, InCommit
<1>7. Current' = [Current EXCEPT ![b] = v]
  BY Zenon, <1>3 DEF Current, View
<1> QED BY Zenon, <1>0, <1>5, <1>6, <1>7 DEF Data

(* log_write() pins the modified buffer, which may differ from the disk *)
(* from then on.                                                        *)
LEMMA log_writeData ==
  ASSUME Control, Control', Data, NEW p \in Procs, log_write(p)
  PROVE  Data' /\ Current' = Current
<1> USE DEF log_write, disk, log
<1>0. PICK b \in Blocks : b = buf[p] BY ZenonT(30) DEF Control, TypeOK, HoldOK, Holding
<1>1. boot = "up" /\ \A q \in Procs : pc[q] \notin InCommit BY Zenon, ActiveFacts DEF InOp
<1>2. pc'[p] = "logged" /\ \A q \in Procs : q # p => pc'[q] = pc[q] BY Zenon DEF Control, TypeOK
<1>3. \A q \in Procs : pc'[q] \notin InCommit BY Zenon, <1>1, <1>2 DEF InCommit
<1>4. Pinned(b)' /\ \A c \in Blocks : Pinned(c) => Pinned(c)'
  <2>1. \A c \in Blocks : /\ Pinned(c) <=> c \in Logged
                          /\ Pinned(c)' <=> c \in Logged'
    <3>1. lh \in Seq(Blocks) /\ lh' \in Seq(Blocks) /\ boot' = "up" BY Zenon, <1>1 DEF Control, TypeOK
    <3>2. DOMAIN lh = 1 .. Len(lh) /\ DOMAIN lh' = 1 .. Len(lh') BY <3>1
    <3> HIDE DEF log_write
    <3> QED BY <1>1, <1>3, <3>1, <3>2 DEF Pinned, Logged, InCommit
  <2>2. b \in Logged' /\ Logged \subseteq Logged'
    <3>1. CASE b \in Logged BY Zenon, <1>0, <3>1 DEF Logged
    <3>2. CASE b \notin Logged
      <4>1. lh' = Append(lh, b) /\ lh \in Seq(Blocks) BY Zenon, <1>0, <3>2 DEF Control, TypeOK
      <4> QED BY <4>1 DEF Logged
    <3> QED BY <3>1, <3>2
  <2> QED BY <2>1, <2>2
<1>5. \A c \in Blocks : c # b => (Dirty(c)' <=> Dirty(c)) BY Zenon, <1>0, <1>2 DEF Dirty
<1>6. CleanBuffers'
  <2>1. \A c \in Blocks : refcnt'[c] > 0 => cache[c] # NoData
    <3>1. refcnt[b] > 0 BY <1>0 DEF Control, RefcntExact, Unlocked
    <3>2. \A c \in Blocks : c # b => refcnt'[c] = refcnt[c] BY Zenon, <1>0 DEF Control, TypeOK
    <3> QED BY Zenon, <3>1, <3>2 DEF Data, CleanBuffers
  <2> QED BY Zenon, <1>4, <1>5, <2>1 DEF CleanBuffers, Data
<1>7. PhaseOK' BY Zenon, <1>1, <1>3 DEF PhaseOK, InCommit
<1>8. Current' = Current BY DEF Current, View
<1> QED BY <1>6, <1>7, <1>8 DEF Data

(* end_op() changes no data. *)
LEMMA end_opData ==
  ASSUME Control, Data, NEW p \in Procs, end_op(p)
  PROVE  Data' /\ Current' = Current
<1> USE DEF disk, bufs
<1>1. boot = "up" /\ ~committing /\ \A q \in Procs : pc[q] \notin InCommit
  BY ActiveFacts DEF InOp, end_op
<1>2. /\ pc'[p] \in {"idle", "write_log", "done"}
      /\ \A q \in Procs : q # p => pc'[q] = pc[q] \/ (pc[q] = "sleep" /\ pc'[q] = "begin")
      /\ UNCHANGED <<home, dlog, lh, cache, refcnt, buf, boot>> /\ tail' = 1
      /\ pc[p] = "op"
  BY Zenon, <1>1 DEF Control, TypeOK, wakeup, end_op
<1>3. \A c \in Blocks : Pinned(c)' <=> Pinned(c) BY Zenon, <1>1, <1>2 DEF Pinned, InCommit
<1>4. \A c \in Blocks : Dirty(c)' <=> Dirty(c) BY Zenon, <1>2 DEF Dirty
<1>5. CleanBuffers' BY Zenon, <1>2, <1>3, <1>4 DEF CleanBuffers, Data
<1>6. PhaseOK'
  <2>1. \A q \in Procs : pc'[q] \notin {"write_head", "install", "clear"} BY <1>1, <1>2 DEF InCommit
  <2>2. \A i \in 1 .. Len(lh) : ~(i < tail') BY <1>2
  <2> QED BY Zenon, <1>1, <1>2, <2>1, <2>2 DEF PhaseOK
<1>7. Current' = Current BY <1>2 DEF Current, View
<1> QED BY <1>5, <1>6, <1>7 DEF Data

-----------------------------------------------------------------------------
(* What recover_from_log() makes of a logged and of an unlogged block. *)
LEMMA RecoveredAt ==
  ASSUME Control, NEW b \in Blocks
  PROVE  /\ \A i \in 1 .. Len(dhead) : dhead[i] = b => Recovered[b] = dlog[i]
         /\ (\A i \in 1 .. Len(dhead) : dhead[i] # b) => Recovered[b] = home[b]
<1>1. DOMAIN dhead = 1 .. Len(dhead) BY DEF Control, TypeOK
<1>2. ASSUME NEW i \in 1 .. Len(dhead), dhead[i] = b PROVE Recovered[b] = dlog[i]
  <2>1. (CHOOSE j \in DOMAIN dhead : dhead[j] = b) = i
    <3>1. \A j \in DOMAIN dhead : dhead[j] = b => j = i BY Zenon, <1>1, <1>2 DEF Control, HeadOK, Distinct
    <3> QED BY Zenon, <1>1, <1>2, <3>1
  <2> QED BY <1>1, <1>2, <2>1 DEF Recovered
<1>3. (\A i \in 1 .. Len(dhead) : dhead[i] # b) => Recovered[b] = home[b]
  BY <1>1 DEF Recovered
<1> QED BY <1>2, <1>3

(* With an empty header recovery leaves the disk as it is. *)
LEMMA RecoveredEmpty ==
  ASSUME home \in [Blocks -> Values], dhead = <<>>
  PROVE  Recovered = home
BY DEF Recovered

(* From the write of the header on, a reboot finds what the running system sees. *)
LEMMA RecoveredInCommit ==
  Control /\ Data => \A p \in Procs : pc[p] \in {"install", "clear"} => Recovered = Current
<1> SUFFICES ASSUME Control, Data, NEW p \in Procs, pc[p] \in {"install", "clear"}
             PROVE  Recovered = Current
  OBVIOUS
<1>1. /\ boot = "up" /\ dhead = lh /\ lh \in Seq(Blocks)
      /\ \A q \in Procs : q # p => pc[q] \in {"idle", "begin", "sleep", "rhold"}
  BY Zenon, Committer DEF InCommit, Control, HeadOK, TypeOK
<1>2. \A b \in Blocks : ~Dirty(b) BY <1>1 DEF Dirty
<1>3. ASSUME NEW b \in Blocks PROVE Recovered[b] = View(b)
  <2>1. CASE \A i \in 1 .. Len(lh) : lh[i] # b
    <3>1. ~Pinned(b) BY <2>1 DEF Pinned
    <3>2. Recovered[b] = home[b] BY Zenon, <1>1, <2>1, RecoveredAt
    <3> QED BY Zenon, <1>2, <3>1, <3>2 DEF View, Data, CleanBuffers
  <2>2. ASSUME NEW i \in 1 .. Len(lh), lh[i] = b PROVE Recovered[b] = View(b)
    <3>1. Recovered[b] = dlog[i] BY <1>1, <2>2, RecoveredAt
    <3>2. CASE pc[p] = "install" /\ i >= tail
      <4>1. refcnt[b] > 0 BY <2>2, <3>2, PinnedInCommit
      <4>2. cache[b] # NoData BY <4>1 DEF Data, CleanBuffers
      <4>3. dlog[i] = cache[b] BY Zenon, <2>2, <3>2 DEF Data, PhaseOK
      <4> QED BY <3>1, <4>2, <4>3 DEF View
    <3>3. CASE pc[p] = "clear" \/ i < tail
      <4>1. dlog[i] = home[b] BY Zenon, <2>2, <3>3 DEF Data, PhaseOK
      <4>2. ~Pinned(b)
        <5>1. \A j \in 1 .. Len(lh) : lh[j] = b => j = i BY Zenon, <2>2 DEF Control, HeadOK, Distinct
        <5> QED BY <3>3, <5>1 DEF Pinned, Control, TypeOK
      <4> QED BY Zenon, <1>2, <3>1, <4>1, <4>2 DEF View, Data, CleanBuffers
    <3> QED BY <3>2, <3>3 DEF Control, TypeOK
  <2> QED BY <2>1, <2>2
<1> QED BY <1>3 DEF Recovered, Current

(* The same after a step. *)
LEMMA RecoveredInCommitNext ==
  Control' /\ Data' => (\A p \in Procs : pc[p] \in {"install", "clear"} => Recovered = Current)'
BY RecoveredInCommit, PTL

(* The types the data steps below use of the header and of the two disk *)
(* areas.                                                               *)
LEMMA LogTypes ==
  ASSUME Control
  PROVE  /\ lh \in Seq(Blocks) /\ dhead \in Seq(Blocks) /\ tail \in Nat
         /\ home \in [Blocks -> Values]
BY Zenon DEF Control, TypeOK

(* write_log() fills log blocks that no header points to yet. *)
LEMMA write_logData ==
  ASSUME Control, Data, NEW p \in Procs, write_log(p)
  PROVE  Data' /\ Current' = Current /\ dhead = <<>>
<1> USE DEF write_log, disk, log
<1>0. /\ boot = "up" /\ committing /\ tail \in 1 .. Len(lh) /\ tail \in 1 .. NLOG - 1
      /\ \A q \in Procs : q # p => pc[q] \in {"idle", "begin", "sleep", "rhold"}
  BY Zenon, Committer DEF InCommit
<1>1. PICK b \in Blocks : b = lh[tail]
  <2> HIDE DEF write_log
  <2> QED BY <1>0, LogTypes
<1>2. cache[b] # NoData
  <2>1. refcnt[b] > 0 BY Zenon, <1>0, <1>1, PinnedInCommit
  <2> QED BY Zenon, <2>1 DEF Data, CleanBuffers
<1>3. cache' = cache /\ dlog' = [dlog EXCEPT ![tail] = cache[b]]
  BY Zenon, <1>1, <1>2 DEF View, Control, TypeOK
<1>4. /\ \A q \in Procs : q # p => pc'[q] = pc[q]
      /\ \/ pc'[p] = "write_log" /\ tail' = tail + 1
         \/ pc'[p] = "write_head" /\ tail = Len(lh)
  BY Zenon DEF Control, TypeOK
<1>5. \A c \in Blocks : (Pinned(c)' <=> Pinned(c)) /\ (Dirty(c)' <=> Dirty(c))
  BY Zenon, <1>0, <1>4 DEF Pinned, Dirty
<1>6. CleanBuffers' BY Zenon, <1>3, <1>5 DEF Data, CleanBuffers
<1>7. PhaseOK'
  <2>1. lh' = lh /\ boot' = boot /\ dlog'[tail] = cache[b] /\ (\A i \in 1 .. NLOG - 1 : i # tail => dlog'[i] = dlog[i])
    BY <1>0, <1>3, Zenon DEF Control, TypeOK
  <2>2. \A i \in 1 .. Len(lh) : i < tail => dlog[i] = cache[lh[i]] BY Zenon DEF Data, PhaseOK
  <2>3. Len(lh) <= NLOG - 1 BY Zenon DEF Control, HeadOK
  <2> HIDE DEF write_log
  <2>4. Len(lh) \in Nat BY LogTypes
  <2>5. \A i \in 1 .. Len(lh) : i <= tail => dlog'[i] = cache[lh[i]]
    <3> SUFFICES ASSUME NEW i \in 1 .. Len(lh), i <= tail PROVE dlog'[i] = cache[lh[i]] OBVIOUS
    <3>1. CASE i = tail BY <1>1, <2>1, <3>1, Zenon
    <3>2. CASE i # tail
      <4>1. i < tail /\ i \in 1 .. NLOG - 1 BY <1>0, <2>4, <3>2, ConstantsAssumption
      <4> QED BY <2>1, <2>2, <3>2, <4>1, Zenon
    <3> QED BY <3>1, <3>2, Zenon
  <2> QED BY <1>0, <1>3, <1>4, <2>1, <2>4, <2>5 DEF PhaseOK
<1>8. Current' = Current BY Zenon, <1>3 DEF Current, View
<1>9. dhead = <<>> BY Zenon, <1>0 DEF Control, HeadOK
<1> QED BY <1>6, <1>7, <1>8, <1>9 DEF Data

(* Before the header is written, all log blocks hold what the cache holds. *)
LEMMA write_headData ==
  ASSUME Control, Data, NEW p \in Procs, write_head(p)
  PROVE  Data' /\ Current' = Current
<1> USE DEF write_head, disk, log, bufs
<1>0. /\ boot = "up" /\ tail = 1 /\ pc'[p] = "install"
      /\ \A q \in Procs : q # p => pc'[q] = pc[q] /\ pc[q] \in {"idle", "begin", "sleep", "rhold"}
  BY Zenon, Committer DEF InCommit, Control, CommitOK, TypeOK
<1>1. \A c \in Blocks : (Pinned(c)' <=> Pinned(c)) /\ (Dirty(c)' <=> Dirty(c))
  BY <1>0 DEF Pinned, Dirty
<1>2. CleanBuffers' BY Zenon, <1>1 DEF Data, CleanBuffers
<1>3. PhaseOK' BY <1>0 DEF Data, PhaseOK
<1>4. Current' = Current BY DEF Current, View
<1> QED BY <1>2, <1>3, <1>4 DEF Data

(* install_trans() makes the home block equal to the log block and to the *)
(* buffer.                                                                *)
LEMMA install_transData ==
  ASSUME Control, Data, NEW p \in Procs, install_trans(p)
  PROVE  Data' /\ Current' = Current /\ pc'[p] \in {"install", "clear"}
<1> USE DEF install_trans, disk, log
<1>0. /\ boot = "up" /\ tail \in 1 .. Len(lh) /\ tail \in 1 .. NLOG - 1
      /\ \A q \in Procs : q # p => pc[q] \in {"idle", "begin", "sleep", "rhold"}
  BY Zenon, Committer DEF InCommit
<1>1. PICK b \in Blocks : b = lh[tail]
  <2> HIDE DEF install_trans
  <2> QED BY <1>0, LogTypes
<1>2. Pinned(b) /\ refcnt[b] > 0
  <2>1. tail >= tail /\ pc[p] = "install" BY <1>0
  <2> QED BY <1>0, <1>1, <2>1, PinnedInCommit, Zenon
<1>3. cache[b] # NoData /\ cache[b] = dlog[tail]
  <2>1. cache[b] # NoData BY <1>2, Zenon DEF Data, CleanBuffers
  <2>2. \A i \in 1 .. Len(lh) : i >= tail => dlog[i] = cache[lh[i]] BY Zenon DEF Data, PhaseOK
  <2> HIDE DEF install_trans
  <2> QED BY <1>0, <1>1, <2>1, <2>2
<1>4. cache' = cache /\ home' = [home EXCEPT ![b] = cache[b]]
  BY Zenon, <1>1, <1>3 DEF Control, TypeOK
<1>5. /\ \A q \in Procs : q # p => pc'[q] = pc[q]
      /\ \/ pc'[p] = "install" /\ tail' = tail + 1
         \/ pc'[p] = "clear" /\ tail = Len(lh)
  BY ZenonT(30) DEF Control, TypeOK
<1>6. /\ home'[b] = cache[b]
      /\ \A c \in Blocks : c # b => home'[c] = home[c]
  BY Zenon, <1>4 DEF Control, TypeOK
<1>7. \A c \in Blocks : Dirty(c)' <=> Dirty(c)
  BY Zenon, <1>0, <1>5 DEF Dirty
<1>8. \A c \in Blocks : c # b => (Pinned(c) => Pinned(c)')
  <2>1. \A i \in 1 .. Len(lh) : lh[i] # b => i # tail BY Zenon, <1>1
  <2>2. lh' = lh /\ boot' = "up" /\ pc[p] = "install" BY Zenon, <1>0
  <2> HIDE DEF install_trans
  <2>3. tail \in Nat /\ Len(lh) \in Nat BY LogTypes
  <2> QED BY <1>0, <1>5, <2>1, <2>2, <2>3 DEF Pinned
<1>9. CleanBuffers'
  <2>1. \A c \in Blocks : refcnt'[c] > 0 => cache[c] # NoData
    <3>1. \A c \in Blocks : c # b => refcnt'[c] = refcnt[c] BY Zenon, <1>1 DEF Control, TypeOK
    <3> QED BY Zenon, <1>3, <3>1 DEF Data, CleanBuffers
  <2> QED BY Zenon, <1>4, <1>6, <1>7, <1>8, <2>1 DEF Data, CleanBuffers
<1>10. PhaseOK'
  <2>1. \A i \in 1 .. Len(lh) : i # tail => lh[i] # b
    BY Zenon, <1>0, <1>1 DEF Control, HeadOK, Distinct
  <2>2. /\ lh' = lh /\ dlog' = dlog /\ boot' = "up"
        /\ \A i \in 1 .. Len(lh) : i < tail => dlog[i] = home[lh[i]]
        /\ \A i \in 1 .. Len(lh) : i >= tail => dlog[i] = cache[lh[i]]
    BY Zenon, <1>0 DEF Data, PhaseOK
  <2> HIDE DEF install_trans
  <2>3. lh \in Seq(Blocks) /\ tail \in Nat /\ Len(lh) \in Nat BY LogTypes
  <2>4. \A i \in 1 .. Len(lh) : i <= tail => dlog[i] = home'[lh[i]]
    BY <1>0, <1>1, <1>3, <1>6, <2>1, <2>2, <2>3
  <2> QED BY <1>0, <1>4, <1>5, <2>2, <2>3, <2>4 DEF PhaseOK
<1>11. Current' = Current BY Zenon, <1>3, <1>4, <1>6 DEF Current, View
<1> QED BY <1>5, <1>9, <1>10, <1>11 DEF Data

(* Before the header is cleared, all home blocks are installed. *)
LEMMA clear_headData ==
  ASSUME Control, Data, NEW p \in Procs, clear_head(p)
  PROVE  Data' /\ Current' = Current /\ Recovered = home
<1> USE DEF clear_head, disk, log, bufs
<1>0. /\ boot = "up" /\ pc'[p] = "done"
      /\ \A q \in Procs : q # p => pc'[q] = pc[q] /\ pc[q] \in {"idle", "begin", "sleep", "rhold"}
      /\ dhead = lh /\ lh \in Seq(Blocks)
  BY Zenon, Committer DEF InCommit, Control, TypeOK, HeadOK
<1>1. \A c \in Blocks : ~Pinned(c) /\ (Dirty(c)' <=> Dirty(c)) BY Zenon, <1>0 DEF Pinned, Dirty
<1>2. CleanBuffers' BY Zenon, <1>1 DEF Data, CleanBuffers
<1>3. PhaseOK' BY Zenon, <1>0 DEF PhaseOK
<1>4. Current' = Current BY Zenon DEF Current, View
<1>5. ASSUME NEW b \in Blocks PROVE Recovered[b] = home[b]
  <2>1. \A i \in 1 .. Len(lh) : dlog[i] = home[lh[i]] BY Zenon DEF Data, PhaseOK
  <2> QED BY <1>0, <2>1, RecoveredAt
<1>6. Recovered = home
  <2>1. home = [b \in Blocks |-> home[b]] BY Zenon DEF Control, TypeOK
  <2>2. Recovered = [b \in Blocks |-> Recovered[b]] BY Zenon DEF Recovered
  <2> QED BY <1>5, <2>1, <2>2, Zenon
<1> QED BY <1>2, <1>3, <1>4, <1>6 DEF Data

(* A crash does not change what recovery will find. *)
LEMMA CrashData ==
  ASSUME Control, Data, Crash
  PROVE  Data' /\ Recovered' = Recovered
<1>1. CleanBuffers' BY DEF Crash, CleanBuffers
<1>2. PhaseOK' BY Zenon DEF Crash, PhaseOK
<1>3. Recovered' = Recovered BY Zenon DEF Crash, disk, Recovered
<1> QED BY <1>1, <1>2, <1>3 DEF Data

(* During recovery no buffer is pinned or modified. *)
LEMMA BootClean ==
  ASSUME Control, Data, boot # "up"
  PROVE  \A c \in Blocks : ~Pinned(c) /\ ~Dirty(c) /\ refcnt[c] = 0 /\ (cache[c] # NoData => cache[c] = home[c])
<1>1. \A c \in Blocks : ~Pinned(c) /\ ~Dirty(c) /\ refcnt[c] = 0 BY Zenon DEF Pinned, Dirty, Control, BootOK
<1> QED BY Zenon, <1>1 DEF Data, CleanBuffers

(* Recovery, interrupted or not, does not change what recovery will find; *)
(* at its end the running system sees just that.                          *)
LEMMA RecoverData ==
  ASSUME Control, Data, Recover
  PROVE  /\ Data' /\ Recovered' = Recovered
         /\ boot' = "up" => Current' = Recovered'
<1>0. /\ boot # "up"
      /\ \A q \in Procs : pc[q] = "idle" /\ pc'[q] = "idle"
      /\ refcnt' = refcnt
  BY Zenon DEF Recover, read_head, recover_install, recover_clear, Control, BootOK, disk, log, bufs, proc
<1>c. ASSUME \A c \in Blocks : cache'[c] # NoData => cache'[c] = home'[c] PROVE CleanBuffers'
  <2>1. \A c \in Blocks : refcnt'[c] = 0 BY <1>0, BootClean, Zenon
  <2>2. \A c \in Blocks : ~(refcnt'[c] > 0) BY <2>1
  <2> QED BY <1>c, <2>2, Zenon DEF CleanBuffers
<1>d. lh \in Seq(Blocks) /\ dhead \in Seq(Blocks) /\ tail \in Nat \ {0} BY Zenon DEF Control, TypeOK
<1>1. CASE read_head
  <2>a. UNCHANGED <<home, dlog, dhead, cache, tail>> /\ tail = 1 /\ boot' = "install"
    BY <1>1, Zenon DEF read_head, disk, bufs, Control, BootOK
  <2>1. CleanBuffers' BY <1>0, <1>c, <2>a, BootClean, Zenon
  <2>2. PhaseOK' BY <1>0, <2>a DEF PhaseOK
  <2>3. Recovered' = Recovered BY <2>a, Zenon DEF Recovered
  <2> QED BY <2>a, <2>1, <2>2, <2>3, Zenon DEF Data
<1>2. CASE recover_install
  <2>a. /\ boot = "install" /\ boot' = boot /\ tail <= Len(lh) /\ tail' = tail + 1
        /\ home' = [home EXCEPT ![lh[tail]] = dlog[tail]]
        /\ cache' = [cache EXCEPT ![lh[tail]] = dlog[tail]]
        /\ UNCHANGED <<dlog, dhead, lh>>
    BY <1>2, Zenon DEF recover_install, log
  <2>b. lh = dhead BY <2>a, Zenon DEF Control, BootOK
  <2>0. tail \in 1 .. Len(lh) /\ Len(lh) \in Nat BY <1>d, <2>a
  <2>1. PICK b \in Blocks : b = lh[tail] BY <1>d, <2>0
  <2>2. /\ home'[b] = dlog[tail] /\ cache'[b] = dlog[tail]
        /\ \A c \in Blocks : c # b => home'[c] = home[c] /\ cache'[c] = cache[c]
    BY <2>a, <2>1, Zenon DEF Control, TypeOK
  <2>3. CleanBuffers' BY <1>0, <1>c, <2>2, BootClean, Zenon
  <2>4. \A i \in 1 .. Len(lh) : i # tail => lh[i] # b
    BY <2>0, <2>1, Zenon DEF Control, HeadOK, Distinct
  <2>5. \A i \in 1 .. Len(lh) : i < tail => dlog[i] = home[lh[i]] BY <2>a, Zenon DEF Data, PhaseOK
  <2>6. ASSUME NEW i \in 1 .. Len(lh), i < tail + 1 PROVE dlog[i] = home'[lh[i]]
    <3>1. CASE i = tail BY <2>1, <2>2, <3>1
    <3>2. CASE i # tail
      <4>1. i < tail /\ lh[i] \in Blocks BY <1>d, <2>6, <3>2
      <4> QED BY <2>2, <2>4, <2>5, <3>2, <4>1, Zenon
    <3> QED BY <3>1, <3>2
  <2>7. PhaseOK' BY <1>0, <2>a, <2>6, Zenon DEF PhaseOK
  <2>8. ASSUME NEW c \in Blocks PROVE Recovered'[c] = Recovered[c]
    <3>1. CASE \E i \in DOMAIN dhead : dhead[i] = c BY <2>a, <3>1, Zenon DEF Recovered
    <3>2. CASE ~\E i \in DOMAIN dhead : dhead[i] = c
      <4>1. tail \in DOMAIN lh BY <1>d, <2>0
      <4>2. c # b BY <2>b, <2>1, <3>2, <4>1, Zenon
      <4> QED BY <2>a, <2>2, <3>2, <4>2, Zenon DEF Recovered
    <3> QED BY <3>1, <3>2, Zenon
  <2>9. Recovered' = Recovered BY <2>8, Zenon DEF Recovered
  <2> QED BY <1>0, <2>a, <2>3, <2>7, <2>9, Zenon DEF Data
<1>3. CASE recover_clear
  <2>a. /\ boot = "install" /\ tail > Len(lh) /\ lh' = <<>> /\ dhead' = <<>>
        /\ UNCHANGED <<home, dlog, cache>> /\ boot' = "up"
    BY <1>3, Zenon DEF recover_clear, bufs
  <2>0. lh = dhead BY <2>a, Zenon DEF Control, BootOK
  <2>1. CleanBuffers' BY <1>0, <1>c, <2>a, BootClean, Zenon
  <2>2. PhaseOK' BY <1>0, <2>a, Zenon DEF PhaseOK
  <2>3. ASSUME NEW b \in Blocks PROVE Recovered[b] = home[b]
    <3>1. \A i \in 1 .. Len(lh) : i < tail BY <1>d, <2>a
    <3>2. \A i \in 1 .. Len(lh) : dlog[i] = home[lh[i]] BY <2>a, <3>1, Zenon DEF Data, PhaseOK
    <3> QED BY <2>0, <3>2, RecoveredAt
  <2>4. Recovered = home BY <2>3, Zenon DEF Recovered, Control, TypeOK
  <2>5. Recovered' = home
    <3>1. home \in [Blocks -> Values] BY Zenon DEF Control, TypeOK
    <3>2. DOMAIN dhead' = {} BY <2>a
    <3>3. Recovered' = [b \in Blocks |-> home[b]] BY <2>a, <3>2, Zenon DEF Recovered
    <3> QED BY <3>1, <3>3
  <2>6. Current' = home BY <1>0, <2>a, BootClean, Zenon DEF Current, View, Control, TypeOK
  <2> QED BY <2>1, <2>2, <2>4, <2>5, <2>6, Zenon DEF Data
<1> QED BY <1>1, <1>2, <1>3, Zenon DEF Recover

-----------------------------------------------------------------------------
(* The state of AtomicDisk. *)
Mem == IF boot = "up" THEN Current ELSE Recovered

(* A step that changes neither the header nor the home blocks, nor the log  *)
(* blocks while the header is written, leaves Recovered alone.              *)
LEMMA RecoveredKept ==
  ASSUME Control, UNCHANGED <<home, dhead>>, dlog' = dlog \/ dhead = <<>>
  PROVE  Recovered' = Recovered
BY DEF Recovered

(* A step that changes none of the mapped variables is a stutter of *)
(* AtomicDisk.                                                      *)
LEMMA Stutter ==
  ASSUME Recovered' = Recovered, Mem' = Mem, Active' = Active
  PROVE  UNCHANGED Promise!vars
BY Zenon DEF Promise!vars, Mem, Active

(* Every step of Log is a step of AtomicDisk or changes nothing there. *)
LEMMA AtomicStep ==
  ASSUME ~CopyFaults, Control, Control', Data, [Next]_vars
  PROVE  Data' /\ [Promise!Next]_(Promise!vars)
<1> USE DEF disk, log, bufs, proc
<1>0. /\ Active \subseteq Procs
      /\ \A p \in Procs : pc[p] \in InCommit => Active = {}
  BY Zenon, Committer DEF Active
<1>1. CASE UNCHANGED vars
  <2>1. /\ \A c \in Blocks : (Pinned(c)' <=> Pinned(c)) /\ (Dirty(c)' <=> Dirty(c))
        /\ UNCHANGED <<home, dlog, dhead, lh, cache, refcnt, pc, tail, boot>>
    BY Zenon, <1>1 DEF vars, Pinned, Dirty
  <2>2. Data' BY Zenon, <2>1 DEF Data, CleanBuffers, PhaseOK
  <2>3. Recovered' = Recovered /\ Mem' = Mem /\ Active' = Active
    BY Zenon, <2>1 DEF Recovered, Mem, Current, View, Active
  <2> QED BY Zenon, <2>2, <2>3, Stutter
<1>2. ASSUME NEW p \in Procs,
             \/ \E b \in Blocks : Bread(p, b)
             \/ Brelse(p) \/ BeginOpCall(p) \/ BeginOpSleep(p)
             \/ log_write(p) \/ log_writePanic(p) \/ end_commit(p)
      PROVE  Data' /\ UNCHANGED Promise!vars
  <2>1. Data' /\ Current' = Current BY Zenon, <1>2, BreadData, BrelseData, MoveData, log_writeData
  <2>2. UNCHANGED <<home, dlog, dhead, boot>>
    BY Zenon, <1>2 DEF Bread, Brelse, BeginOpCall, BeginOpSleep, log_write, log_writePanic, end_commit
  <2>3. Recovered' = Recovered BY Zenon, <2>2, RecoveredKept
  <2>4. Active' = Active
    BY ZenonT(30), <1>2 DEF Active, InOp, Control, TypeOK, wakeup,
       Bread, Brelse, BeginOpCall, BeginOpSleep, log_write, log_writePanic, end_commit
  <2>5. Mem' = Mem BY Zenon, <2>1, <2>2, <2>3 DEF Mem
  <2> QED BY Zenon, <2>1, <2>3, <2>4, <2>5, Stutter
<1>3. ASSUME NEW b \in Blocks, Evict(b) PROVE Data' /\ UNCHANGED Promise!vars
  <2>1. Data' /\ Current' = Current BY Zenon, <1>3, EvictData
  <2>2. Recovered' = Recovered BY Zenon, <1>3, RecoveredKept DEF Evict
  <2>3. Active' = Active BY Zenon, <1>3 DEF Active, Evict
  <2>4. Mem' = Mem BY Zenon, <1>3, <2>1, <2>2 DEF Mem, Evict
  <2> QED BY Zenon, <2>1, <2>2, <2>3, <2>4, Stutter
<1>4. ASSUME NEW p \in Procs, BeginOpEnter(p) PROVE Data' /\ Promise!Next
  <2>1. Data' /\ Current' = Current BY Zenon, <1>4, MoveData
  <2>2. Recovered' = Recovered BY Zenon, <1>4, RecoveredKept DEF BeginOpEnter
  <2>3. Active' = Active \cup {p} /\ p \notin Active
    BY ZenonT(30), <1>4 DEF Active, BeginOpEnter, InOp, Control, TypeOK
  <2>4. Mem' = Mem BY Zenon, <1>4, <2>1, <2>2 DEF Mem, BeginOpEnter
  <2>5. Promise!Begin(p) BY Zenon, <2>2, <2>3, <2>4 DEF Promise!Begin, Mem, Active
  <2> QED BY Zenon, <2>1, <2>5 DEF Promise!Next
<1>5. ASSUME NEW p \in Procs, NEW v \in Values, Modify(p, v) PROVE Data' /\ Promise!Next
  <2>1. Data' /\ buf[p] \in Blocks /\ Current' = [Current EXCEPT ![buf[p]] = v] BY Zenon, <1>5, ModifyData
  <2>2. Recovered' = Recovered BY Zenon, <1>5, RecoveredKept DEF Modify
  <2>3. Active' = Active /\ p \in Active
    BY Zenon, <1>5 DEF Active, Modify, InOp, Control, TypeOK
  <2>4. boot = "up" /\ boot' = "up" BY Zenon, <1>5, ActiveFacts DEF Modify, InOp
  <2>5. Mem' = [Mem EXCEPT ![buf[p]] = v] BY Zenon, <2>1, <2>4 DEF Mem
  <2>6. Promise!Write(p, buf[p], v) BY Zenon, <2>2, <2>3, <2>5 DEF Promise!Write, Mem, Active
  <2> QED BY Zenon, <2>1, <2>6 DEF Promise!Next
<1>6. ASSUME NEW p \in Procs, end_op(p) PROVE Data' /\ Promise!Next
  <2>1. Data' /\ Current' = Current BY Zenon, <1>6, end_opData
  <2>2. Recovered' = Recovered BY Zenon, <1>6, RecoveredKept DEF end_op
  <2>3. ~committing /\ p \in Active BY Zenon, <1>6, ActiveFacts DEF end_op, InOp, Active
  <2>4. Active' = Active \ {p}
    <3> DEFINE A == InOp \cup {"panic"}
    <3>1. \A q \in Procs : q # p => (pc'[q] \in A <=> pc[q] \in A)
      BY <1>6, ZenonT(30) DEF end_op, wakeup, InOp, Control, TypeOK
    <3>2. pc'[p] \notin A BY <1>6, <2>3, ZenonT(30) DEF end_op, wakeup, InOp, Control, TypeOK
    <3>3. Active = {q \in Procs : pc[q] \in A} /\ Active' = {q \in Procs : pc'[q] \in A} BY Zenon DEF Active
    <3> HIDE DEF A
    <3> QED BY <3>1, <3>2, <3>3
  <2>5. Mem' = Mem BY Zenon, <1>6, <2>1, <2>2 DEF Mem, end_op
  <2>6. Promise!End(p) BY Zenon, <2>2, <2>3, <2>4, <2>5 DEF Promise!End, Mem, Active
  <2> QED BY Zenon, <2>1, <2>6 DEF Promise!Next
<1>7. ASSUME NEW p \in Procs, write_log(p) PROVE Data' /\ UNCHANGED Promise!vars
  <2>1. Data' /\ Current' = Current /\ dhead = <<>> BY Zenon, <1>7, write_logData
  <2>2. Recovered' = Recovered BY Zenon, <1>7, <2>1, RecoveredKept DEF write_log
  <2>3. Active' = Active BY ZenonT(30), <1>7 DEF Active, write_log, InOp, Control, TypeOK
  <2>4. Mem' = Mem BY Zenon, <1>7, <2>1, <2>2 DEF Mem, write_log
  <2> QED BY <2>1, <2>2, <2>3, <2>4, Stutter
<1>8. ASSUME NEW p \in Procs, write_head(p) PROVE Data' /\ Promise!Next
  <2>1. Data' /\ Current' = Current BY <1>8, write_headData
  <2>2. boot = "up" /\ boot' = "up" /\ pc'[p] = "install" /\ Active = {}
    BY ZenonT(30), <1>0, <1>8, Committer DEF write_head, InCommit, Control, TypeOK
  <2>3. Active' = Active BY Zenon, <1>8 DEF Active, write_head, InOp, Control, TypeOK
  <2>4. Recovered' = Current BY Zenon, <2>1, <2>2, RecoveredInCommitNext
  <2>5. Promise!Commit BY Zenon, <2>1, <2>2, <2>3, <2>4 DEF Promise!Commit, Active
  <2> QED BY Zenon, <2>1, <2>5 DEF Promise!Next
<1>9. ASSUME NEW p \in Procs, install_trans(p) PROVE Data' /\ UNCHANGED Promise!vars
  <2>1. Data' /\ Current' = Current /\ pc'[p] \in {"install", "clear"} BY <1>9, install_transData
  <2>2. Recovered = Current /\ Recovered' = Current'
    BY Zenon, <1>9, <2>1, RecoveredInCommit, RecoveredInCommitNext DEF install_trans
  <2>3. Active' = Active BY ZenonT(30), <1>9 DEF Active, install_trans, InOp, Control, TypeOK
  <2>4. Mem' = Mem BY Zenon, <1>9, <2>1, <2>2 DEF Mem, install_trans
  <2> QED BY Zenon, <2>1, <2>2, <2>3, <2>4, Stutter
<1>10. ASSUME NEW p \in Procs, clear_head(p) PROVE Data' /\ UNCHANGED Promise!vars
  <2>1. Data' /\ Current' = Current /\ Recovered = home BY <1>10, clear_headData
  <2>2. Recovered' = home
    <3>1. dhead' = <<>> /\ home' = home BY <1>10, Zenon DEF clear_head
    <3>2. DOMAIN dhead' = {} BY <3>1
    <3>3. Recovered' = [b \in Blocks |-> home[b]] BY <3>1, <3>2, Zenon DEF Recovered
    <3> QED BY <3>3, LogTypes
  <2>3. Active' = Active BY Zenon, <1>10 DEF Active, clear_head, InOp, Control, TypeOK
  <2>4. Mem' = Mem BY Zenon, <1>10, <2>1, <2>2 DEF Mem, clear_head
  <2> QED BY <2>1, <2>2, <2>3, <2>4, Stutter
<1>11. CASE Crash
  <2>1. Data' /\ Recovered' = Recovered BY Zenon, <1>11, CrashData
  <2>2. Active' = {} BY Zenon, <1>11 DEF Active, Crash, InOp
  <2>3. Mem' = Recovered BY Zenon, <1>11, <2>1 DEF Mem, Crash
  <2>4. Promise!Crash BY Zenon, <2>1, <2>2, <2>3 DEF Promise!Crash, Mem, Active
  <2> QED BY Zenon, <2>1, <2>4 DEF Promise!Next
<1>12. CASE Recover
  <2>1. Data' /\ Recovered' = Recovered /\ (boot' = "up" => Current' = Recovered') BY Zenon, <1>12, RecoverData
  <2>2. boot # "up" /\ pc' = pc BY Zenon, <1>12 DEF Recover, read_head, recover_install, recover_clear
  <2>3. Active' = Active BY Zenon, <2>2 DEF Active
  <2>4. Mem' = Mem BY Zenon, <2>1, <2>2 DEF Mem
  <2> QED BY <2>1, <2>3, <2>4, Stutter
<1>13. ASSUME NEW p \in Procs, NEW v \in Values, ModifyFault(p, v) PROVE FALSE
  BY Zenon, <1>13 DEF ModifyFault
<1> QED
  BY ZenonT(30), <1>1, <1>2, <1>3, <1>4, <1>5, <1>6, <1>7, <1>8, <1>9, <1>10, <1>11, <1>12, <1>13 DEF Next, Commit

(* The machine starts with clean buffers, in an initial state of *)
(* AtomicDisk.                                                   *)
LEMMA InitData ==
  ASSUME Init
  PROVE  Data /\ Promise!Init
<1>1. Data
  <2>1. /\ \A b \in Blocks : refcnt[b] = 0 /\ cache[b] = NoData
        /\ \A p \in Procs : pc[p] = "idle"
        /\ boot # "install"
    BY Zenon DEF Init
  <2>2. \A b \in Blocks : ~(refcnt[b] > 0) BY <2>1
  <2> QED BY <2>1, <2>2, Zenon DEF Data, CleanBuffers, PhaseOK
<1>2. Recovered = home BY Zenon, RecoveredEmpty DEF Init
<1>3. Active = {} BY Zenon DEF Init, Active, InOp
<1>4. Promise!Init BY Zenon, <1>2, <1>3 DEF Promise!Init, Init, Active
<1> QED BY <1>1, <1>4

(* In every execution without a failed copy in writei(), a buffer that is *)
(* neither pinned nor being changed agrees with the disk, and the log     *)
(* blocks agree with the cache and the home blocks as far as write_log()  *)
(* and install_trans() have come.                                         *)
THEOREM DataInvariant ==
  ASSUME ~CopyFaults
  PROVE  Spec => []Data
<1>1. Init => Data BY InitData
<1>2. Control /\ Control' /\ Data /\ [Next]_vars => Data' BY Zenon, AtomicStep
<1> QED BY <1>1, <1>2, ControlInvariant, PTL DEF Spec

(* The log implements the atomic disk: for every number of processes,       *)
(* blocks and log sizes, and whatever the crashes, recovery finds the disk  *)
(* as it was between two groups of system calls (log.c, lines 12-16).       *)
THEOREM AtomicityRefinement ==
  ASSUME ~CopyFaults
  PROVE  Spec => Atomic
<1>1. Init => Promise!Init BY InitData
<1>2. Control /\ Control' /\ Data /\ [Next]_vars => [Promise!Next]_(Promise!vars) BY AtomicStep
<1> QED BY <1>1, <1>2, ControlInvariant, DataInvariant, PTL DEF Spec, Atomic, Promise!Spec

(* When no call runs and no commit is in progress, every buffer agrees with *)
(* the disk.                                                                *)
THEOREM DurableInvariant ==
  ASSUME ~CopyFaults
  PROVE  Spec => []DurableWhenIdle
<1>1. Control /\ Data => DurableWhenIdle
  <2> SUFFICES ASSUME Control, Data, boot = "up", outstanding = 0, ~committing
               PROVE  Current = home
    BY Zenon DEF DurableWhenIdle
  <2>1. lh = <<>> /\ Active = {} BY Zenon, CountFacts DEF Control, CommitOK
  <2>2. \A b \in Blocks : ~Pinned(b) BY <2>1 DEF Pinned
  <2>3. \A b \in Blocks : ~Dirty(b) BY Zenon, <2>1 DEF Dirty, Active, InOp
  <2>4. \A b \in Blocks : View(b) = home[b] BY Zenon, <2>2, <2>3 DEF View, Data, CleanBuffers
  <2> QED BY Zenon, <2>4 DEF Current, Control, TypeOK
<1> QED BY <1>1, ControlInvariant, DataInvariant, PTL

(* For every instance: counts are exact, and no buffer that bget() may       *)
(* recycle or another process may read holds anything that is not on the     *)
(* disk or in the log.                                                       *)
THEOREM CacheInvariant ==
  ASSUME ~CopyFaults
  PROVE  Spec => []CacheSound
<1>1. Control /\ Data => CacheSound BY DEF Control, Data, CacheSound
<1> QED BY <1>1, ControlInvariant, DataInvariant, PTL
=============================================================================
