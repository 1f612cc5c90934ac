---------------------------- MODULE BcacheProofs ----------------------------
(***************************************************************************)
(* BufferSound, Coherent and SleeperNotMissed of module Bcache, for any    *)
(* processes, blocks and number of buffers.                                *)
(***************************************************************************)
EXTENDS Bcache, FiniteSetTheorems, WellFoundedInduction, TLAPS

(* Every buffer is in the list. *)
LruOK == \A b \in Bufs : \E i \in DOMAIN lru : lru[i] = b

(* Where a process holds the sleep lock of its buffer *)
InLock == {"locked", "have", "dirty"}

(* A process has a buffer from bget() to brelse(), its sleep lock from         *)
(* acquiresleep() to releasesleep(), and valid data from the end of bread().   *)
HoldOK ==
  \A p \in Procs :
    /\ mine[p] = None <=> pc[p] \in {"idle", "panic"}
    /\ mine[p] # None => blockno[mine[p]] # None
    /\ pc[p] \in InLock => locked[mine[p]] = p
    /\ pc[p] \in {"have", "dirty"} => valid[mine[p]]
    /\ \A b \in Bufs : locked[b] = p => mine[p] = b /\ pc[p] \in InLock

(* Valid data is of some block. *)
ValidOK == \A b \in Bufs : valid[b] => blockno[b] # None

(* Needed together: that a recycled buffer is nobody's rests on the counts,    *)
(* the counts on the pins, the pins on one buffer per block.                   *)
Inv ==
  /\ TypeOK /\ LruOK /\ HoldOK /\ RefcntExact
  /\ OneBuffer /\ ValidOK /\ PinnedCached /\ Coherent /\ SleeperNotMissed

(* Those who have b *)
Users(b) == {p \in Procs : mine[p] = b}

-----------------------------------------------------------------------------
(* The list *)

(* A non-empty set of positions has a last one. *)
LEMMA LastPosition ==
  ASSUME NEW m \in Nat, NEW T \in SUBSET (1 .. m), T # {}
  PROVE  \E i \in T : \A j \in T : j <= i
<1> DEFINE D == {m - i : i \in T}
           R == OpToRel(<, Nat)
<1>0. \A i \in T : m - i \in Nat BY SMT
<1>1. D \subseteq Nat /\ D # {} BY <1>0, Zenon
<1>2. PICK x \in D : \A y \in D : ~(<<y, x>> \in R) BY <1>1, WFMin, NatLessThanWellFounded
<1>3. \A y \in D : ~(y < x) BY <1>1, <1>2 DEF OpToRel
<1>4. PICK i \in T : x = m - i OBVIOUS
<1>5. ASSUME NEW j \in T PROVE j <= i
  <2>1. m - j \in D OBVIOUS
  <2>2. ~(m - j < m - i) BY Zenon, <1>3, <1>4, <2>1
  <2> QED BY <2>2, SMT
<1> QED BY <1>5

(* bget() finds an unused buffer if there is one. *)
LEMMA LeastRecentUnused ==
  ASSUME TypeOK, LruOK, Unused # {}
  PROVE  LeastRecent \in Bufs /\ refcnt[LeastRecent] = 0
<1> DEFINE T == {i \in DOMAIN lru : lru[i] \in Unused}
           P(i) == /\ lru[i] \in Unused
                   /\ \A j \in DOMAIN lru : j > i => lru[j] \notin Unused
<1>1. DOMAIN lru = 1 .. Len(lru) /\ Len(lru) \in Nat BY DEF TypeOK
<1>2. T # {} BY DEF LruOK, Unused
<1>3. T \in SUBSET (1 .. Len(lru)) BY <1>1
<1> HIDE DEF T
<1>4. PICK i \in T : \A j \in T : j <= i BY Zenon, <1>1, <1>2, <1>3, LastPosition
<1>5. i \in DOMAIN lru /\ P(i) BY <1>1, <1>4 DEF T
<1>6. P(CHOOSE k \in DOMAIN lru : P(k)) BY <1>5, Zenon
<1>7. LeastRecent = lru[CHOOSE k \in DOMAIN lru : P(k)] BY DEF LeastRecent
<1> QED BY Zenon, <1>6, <1>7 DEF Unused

(* Moving a buffer to the front loses none. *)
LEMMA ToFrontKeeps ==
  ASSUME TypeOK, LruOK, NEW b \in Bufs
  PROVE  /\ ToFront(lru, b) \in Seq(Bufs)
         /\ \A c \in Bufs : \E i \in DOMAIN ToFront(lru, b) : ToFront(lru, b)[i] = c
<1> DEFINE at == CHOOSE i \in DOMAIN lru : lru[i] = b
           f == ToFront(lru, b)
<1>1. lru \in [1 .. Len(lru) -> Bufs] /\ DOMAIN lru = 1 .. Len(lru) /\ Len(lru) \in Nat BY DEF TypeOK
<1>2. at \in DOMAIN lru /\ lru[at] = b BY DEF LruOK
<1> HIDE DEF at
<1>3. f = [i \in 1 .. Len(lru) |-> IF i = 1 THEN b ELSE IF i <= at THEN lru[i - 1] ELSE lru[i]]
  BY <1>1 DEF ToFront, at
<1> HIDE DEF f
<1>4. ASSUME NEW i \in 1 .. Len(lru) PROVE f[i] \in Bufs
  <2>1. CASE i = 1 BY <1>3, <2>1
  <2>2. CASE i # 1
    <3>1. i - 1 \in 1 .. Len(lru) BY <2>2, <1>1, SMT
    <3> QED BY <1>1, <1>3, <2>2, <3>1
  <2> QED BY <2>1, <2>2
<1>5. f \in Seq(Bufs)
  <2>1. f \in [1 .. Len(lru) -> Bufs] BY <1>3, <1>4
  <2> QED BY <1>1, <2>1
<1>6. ASSUME NEW c \in Bufs PROVE \E i \in DOMAIN f : f[i] = c
  <2>1. PICK j \in 1 .. Len(lru) : lru[j] = c BY <1>1 DEF LruOK
  <2>2. CASE c = b
    <3>1. 1 \in 1 .. Len(lru) BY <2>1, <1>1, SMT
    <3> QED BY <3>1, <2>2, <1>3
  <2>3. CASE c # b /\ j < at
    <3>1. j + 1 \in 1 .. Len(lru) /\ j + 1 # 1 /\ j + 1 <= at /\ (j + 1) - 1 = j BY <1>1, <1>2, <2>3, SMT
    <3>2. f[j + 1] = lru[(j + 1) - 1] BY <1>3, <3>1
    <3> QED BY <1>3, <2>1, <3>1, <3>2
  <2>4. CASE c # b /\ ~(j < at)
    <3>1. j # at BY <1>2, <2>1, <2>4
    <3>2. j # 1 /\ ~(j <= at) BY <1>1, <1>2, <2>4, <3>1, SMT
    <3> QED BY <1>3, <2>1, <3>2
  <2> QED BY <2>2, <2>3, <2>4
<1> QED BY <1>5, <1>6 DEF f


-----------------------------------------------------------------------------
(* The counts *)

(* None is no buffer, process or block. *)
LEMMA NoneIsNoBuffer == None \notin Bufs /\ None \notin Procs /\ None \notin Blocks
BY ConstantsAssumption DEF Bufs

(* A process between bget() and brelse() has a buffer, of some block. *)
LEMMA HasBuffer ==
  ASSUME TypeOK, HoldOK, NEW p \in Procs, pc[p] \notin {"idle", "panic"}
  PROVE  mine[p] \in Bufs /\ blockno[mine[p]] \in Blocks
BY NoneIsNoBuffer DEF TypeOK, HoldOK

(* What a pin adds to the count *)
Pin(b) == IF blockno[b] \in pinned THEN 1 ELSE 0

(* An unused buffer is neither in the log nor anybody's. *)
LEMMA UsersFacts ==
  ASSUME TypeOK, RefcntExact, NEW b \in Bufs
  PROVE  /\ IsFiniteSet(Users(b)) /\ Cardinality(Users(b)) \in Nat
         /\ refcnt[b] = Cardinality(Users(b)) + Pin(b)
         /\ refcnt[b] = 0 => blockno[b] \notin pinned /\ \A p \in Procs : mine[p] # b
         /\ \A p \in Procs : mine[p] = b => Cardinality(Users(b)) > 0
<1>1. Users(b) \in SUBSET Procs BY DEF Users
<1>2. IsFiniteSet(Users(b)) /\ Cardinality(Users(b)) \in Nat
  BY <1>1, FS_Subset, FS_CardinalityType, ConstantsAssumption
<1>3. refcnt[b] = Cardinality(Users(b)) + Pin(b)
  BY DEF RefcntExact, Users, Pin
<1>4. Cardinality(Users(b)) = 0 <=> Users(b) = {} BY <1>2, FS_EmptySet
<1>5. refcnt[b] = 0 => Cardinality(Users(b)) = 0 /\ blockno[b] \notin pinned
  BY <1>2, <1>3, SMT DEF Pin
<1>6. \A p \in Procs : mine[p] = b => Cardinality(Users(b)) # 0 BY <1>4 DEF Users
<1> QED BY <1>2, <1>3, <1>4, <1>5, <1>6 DEF Users

(* The counts are exact after a step if they follow the users and the pins. *)
LEMMA CountsExact ==
  ASSUME \A b \in Bufs : refcnt'[b] = Cardinality(Users(b)') + Pin(b)'
  PROVE  RefcntExact'
BY Zenon DEF RefcntExact, Users, Pin

(* A step that neither takes nor drops a buffer or a pin *)
LEMMA SameCounts ==
  ASSUME RefcntExact, UNCHANGED <<mine, blockno, pinned, refcnt>>
  PROVE  RefcntExact'
BY Zenon DEF RefcntExact

(* bget() adds its caller to the users of one buffer. *)
LEMMA BufferTaken ==
  ASSUME TypeOK, RefcntExact, NEW p \in Procs, NEW b \in Bufs, mine[p] = None, mine' = [mine EXCEPT ![p] = b]
  PROVE  \A c \in Bufs : Cardinality(Users(c)') = Cardinality(Users(c)) + (IF c = b THEN 1 ELSE 0)
<1> SUFFICES ASSUME NEW c \in Bufs
             PROVE  Cardinality(Users(c)') = Cardinality(Users(c)) + (IF c = b THEN 1 ELSE 0)
  OBVIOUS
<1>1. IsFiniteSet(Users(c)) /\ Cardinality(Users(c)) \in Nat BY UsersFacts
<1>2. p \notin Users(c) BY NoneIsNoBuffer DEF Users
<1>3. CASE c = b
  <2>1. Users(c)' = Users(c) \cup {p} BY <1>3 DEF Users, TypeOK
  <2> QED BY <1>1, <1>2, <1>3, <2>1, FS_AddElement
<1>4. CASE c # b
  <2>1. Users(c)' = Users(c) BY <1>2, <1>4 DEF Users, TypeOK
  <2> QED BY <1>1, <1>4, <2>1
<1> QED BY <1>3, <1>4

(* brelse() removes its caller from the users of its buffer. *)
LEMMA BufferDropped ==
  ASSUME TypeOK, RefcntExact, NEW p \in Procs, mine[p] \in Bufs, mine' = [mine EXCEPT ![p] = None]
  PROVE  \A c \in Bufs : Cardinality(Users(c)') = Cardinality(Users(c)) - (IF c = mine[p] THEN 1 ELSE 0)
<1> SUFFICES ASSUME NEW c \in Bufs
             PROVE  Cardinality(Users(c)') = Cardinality(Users(c)) - (IF c = mine[p] THEN 1 ELSE 0)
  OBVIOUS
<1>1. IsFiniteSet(Users(c)) /\ Cardinality(Users(c)) \in Nat BY UsersFacts
<1>2. Users(c)' = Users(c) \ {p} BY NoneIsNoBuffer DEF Users, TypeOK
<1>3. p \in Users(c) <=> c = mine[p] BY DEF Users
<1>4. Cardinality(Users(c) \ {p}) = IF p \in Users(c) THEN Cardinality(Users(c)) - 1 ELSE Cardinality(Users(c))
  BY <1>1, FS_RemoveElement, Zenon
<1>5. Cardinality(Users(c)') = IF c = mine[p] THEN Cardinality(Users(c)) - 1 ELSE Cardinality(Users(c))
  BY <1>2, <1>3, <1>4, Zenon
<1> QED BY <1>1, <1>5, SMT

-----------------------------------------------------------------------------
(* One lemma per action *)

(* A hit adds one user to the buffer that has the block. *)
LEMMA bget_hitStep ==
  ASSUME Inv, NEW p \in Procs, NEW b \in Bufs, bget_hit(p, b)
  PROVE  Inv'
<1> USE NoneIsNoBuffer DEF Inv, bget_hit, Goto
<1>1. TypeOK' BY DEF TypeOK, PCs
<1>2. LruOK' BY DEF LruOK
<1>3. HoldOK' BY DEF TypeOK, HoldOK, InLock
<1>4. RefcntExact'
  <2>1. mine[p] = None BY Zenon DEF HoldOK
  <2>2. \A c \in Bufs : Cardinality(Users(c)') = Cardinality(Users(c)) + (IF c = b THEN 1 ELSE 0)
    BY Zenon, <2>1, BufferTaken
  <2>3. \A c \in Bufs : /\ refcnt[c] = Cardinality(Users(c)) + Pin(c)
                        /\ Cardinality(Users(c)) \in Nat
    BY Zenon, UsersFacts
  <2>4. \A c \in Bufs : Pin(c)' = Pin(c) /\ Pin(c) \in Nat BY Zenon DEF Pin
  <2>5. \A c \in Bufs : refcnt'[c] = refcnt[c] + (IF c = b THEN 1 ELSE 0) BY DEF TypeOK
  <2> HIDE DEF Inv, bget_hit
  <2>6. \A c \in Bufs : refcnt'[c] = Cardinality(Users(c)') + Pin(c)'
    BY <2>2, <2>3, <2>4, <2>5
  <2> QED BY <2>6, CountsExact
<1>5. OneBuffer' /\ ValidOK' /\ PinnedCached' BY DEF OneBuffer, ValidOK, PinnedCached
<1>6. Coherent' BY DEF TypeOK, HoldOK, InLock, Coherent
<1>7. SleeperNotMissed' BY DEF TypeOK, HoldOK, SleeperNotMissed
<1> QED BY <1>1, <1>2, <1>3, <1>4, <1>5, <1>6, <1>7

(* The recycled buffer was nobody's, so nobody's block changes. *)
LEMMA bget_recycleStep ==
  ASSUME Inv, NEW p \in Procs, NEW k \in Blocks, bget_recycle(p, k)
  PROVE  Inv'
<1> DEFINE b == LeastRecent
<1>a. b \in Bufs /\ refcnt[b] = 0 BY LeastRecentUnused DEF Inv, bget_recycle
<1>b. blockno[b] \notin pinned /\ \A q \in Procs : mine[q] # b BY <1>a, UsersFacts DEF Inv
<1>c. /\ blockno' = [blockno EXCEPT ![b] = k]
      /\ valid' = [valid EXCEPT ![b] = FALSE]
      /\ refcnt' = [refcnt EXCEPT ![b] = 1]
      /\ mine' = [mine EXCEPT ![p] = b]
      /\ pc[p] = "idle" /\ pc' = [pc EXCEPT ![p] = "acquire"]
      /\ UNCHANGED <<data, locked, lru, disk, pinned>>
      /\ \A c \in Bufs : blockno[c] # k
  BY DEF bget_recycle, Goto, Cached
<1> HIDE DEF b
<1> USE NoneIsNoBuffer DEF Inv
<1>1. TypeOK' BY Zenon, <1>a, <1>c DEF TypeOK, PCs
<1>2. LruOK' BY <1>c DEF LruOK
<1>3. HoldOK'
  <2>1. \A q \in Procs : locked[b] # q BY Zenon, <1>a, <1>b DEF HoldOK
  <2> QED BY SMTT(30), <1>a, <1>b, <1>c, <2>1 DEF TypeOK, HoldOK, InLock
<1>d. k \notin pinned BY Zenon, <1>c DEF PinnedCached
<1>4. RefcntExact'
  <2>1. mine[p] = None BY Zenon, <1>c DEF HoldOK
  <2>2. \A c \in Bufs : Cardinality(Users(c)') = Cardinality(Users(c)) + (IF c = b THEN 1 ELSE 0)
    BY Zenon, <1>a, <1>c, <2>1, BufferTaken
  <2>3. \A c \in Bufs : /\ refcnt[c] = Cardinality(Users(c)) + Pin(c)
                        /\ Cardinality(Users(c)) \in Nat
    BY Zenon, UsersFacts
  <2>4. \A c \in Bufs : Pin(c)' = Pin(c) /\ Pin(c) \in Nat BY Zenon, <1>b, <1>c, <1>d DEF Pin, TypeOK
  <2>5. \A c \in Bufs : refcnt'[c] = refcnt[c] + (IF c = b THEN 1 ELSE 0) BY <1>a, <1>c DEF TypeOK
  <2> HIDE DEF Inv
  <2>6. \A c \in Bufs : refcnt'[c] = Cardinality(Users(c)') + Pin(c)'
    BY <2>2, <2>3, <2>4, <2>5
  <2> QED BY Zenon, <2>6, CountsExact
<1>5. OneBuffer' /\ ValidOK' BY Zenon, <1>c DEF TypeOK, OneBuffer, ValidOK
<1>6. PinnedCached' BY <1>b, <1>c DEF TypeOK, PinnedCached
<1>7. Coherent' BY SMTT(30), <1>a, <1>b, <1>c DEF TypeOK, HoldOK, Coherent
<1>8. SleeperNotMissed' BY <1>b, <1>c DEF TypeOK, HoldOK, SleeperNotMissed
<1> QED BY <1>1, <1>2, <1>3, <1>4, <1>5, <1>6, <1>7, <1>8

(* A process that found no buffer has taken none. *)
LEMMA bget_panicStep ==
  ASSUME Inv, NEW p \in Procs, NEW k \in Blocks, bget_panic(p, k)
  PROVE  Inv'
<1> USE NoneIsNoBuffer DEF Inv, bget_panic, Goto, buffers
<1>1. TypeOK' BY Zenon DEF TypeOK, PCs
<1>2. LruOK' BY Zenon DEF LruOK
<1>3. HoldOK' BY DEF TypeOK, HoldOK, InLock
<1>4. RefcntExact' BY Zenon, SameCounts
<1>5. OneBuffer' /\ ValidOK' /\ PinnedCached' BY Zenon DEF OneBuffer, ValidOK, PinnedCached
<1>6. Coherent' /\ SleeperNotMissed' BY DEF TypeOK, HoldOK, Coherent, SleeperNotMissed
<1> QED BY Zenon, <1>1, <1>2, <1>3, <1>4, <1>5, <1>6

(* A process sleeps only on a lock that somebody holds. *)
LEMMA acquiresleepStep ==
  ASSUME Inv, NEW p \in Procs, acquiresleep(p)
  PROVE  Inv'
<1>0. mine[p] \in Bufs BY Zenon, HasBuffer DEF Inv, acquiresleep
<1> USE NoneIsNoBuffer DEF Inv, acquiresleep, Goto
<1>1. TypeOK'
  <2>a. "locked" \in PCs /\ "asleep" \in PCs BY Zenon DEF PCs
  <2>b. locked \in [Bufs -> Procs \cup {None}] /\ pc \in [Procs -> PCs] BY Zenon DEF TypeOK
  <2> DEFINE typed == locked' \in [Bufs -> Procs \cup {None}] /\ pc' \in [Procs -> PCs]
  <2>1. ASSUME locked[mine[p]] = None PROVE typed
    <3>1. locked' = [locked EXCEPT ![mine[p]] = p] /\ pc' = [pc EXCEPT ![p] = "locked"] BY Zenon, <2>1
    <3> HIDE DEF Inv, acquiresleep
    <3> QED BY Zenon, <1>0, <2>a, <2>b, <3>1
  <2>2. ASSUME locked[mine[p]] # None PROVE typed
    <3>1. locked' = locked /\ pc' = [pc EXCEPT ![p] = "asleep"] BY Zenon, <2>2
    <3> HIDE DEF Inv, acquiresleep
    <3> QED BY Zenon, <2>a, <2>b, <3>1
  <2>3. typed BY Zenon, <2>1, <2>2
  <2> QED BY Zenon, <2>3 DEF TypeOK
<1>2. LruOK' BY Zenon DEF LruOK
<1>3. HoldOK' BY <1>0 DEF TypeOK, HoldOK, InLock
<1>4. RefcntExact' BY Zenon, SameCounts
<1>5. OneBuffer' /\ ValidOK' /\ PinnedCached' BY Zenon DEF OneBuffer, ValidOK, PinnedCached
<1>6. Coherent' BY DEF TypeOK, HoldOK, Coherent
<1>7. SleeperNotMissed'
  <2>a. \A q \in Procs : pc[q] = "asleep" => mine[q] \in Bufs BY Zenon, HasBuffer
  <2>1. CASE locked[mine[p]] = None BY ZenonT(30), <1>0, <2>1, <2>a DEF TypeOK, SleeperNotMissed
  <2>2. CASE locked[mine[p]] # None BY Zenon, <1>0, <2>2 DEF TypeOK, SleeperNotMissed
  <2> QED BY Zenon, <2>1, <2>2
<1> QED BY Zenon, <1>1, <1>2, <1>3, <1>4, <1>5, <1>6, <1>7

(* bread() fills the buffer from the disk under its lock. *)
LEMMA breadStep ==
  ASSUME Inv, NEW p \in Procs, bread(p)
  PROVE  Inv'
<1>0. mine[p] \in Bufs /\ blockno[mine[p]] \in Blocks BY Zenon, HasBuffer DEF Inv, bread
<1> USE NoneIsNoBuffer DEF Inv, bread, Goto
<1>1. TypeOK' BY Zenon, <1>0 DEF TypeOK, PCs
<1>2. LruOK' BY Zenon DEF LruOK
<1>3. HoldOK' BY <1>0 DEF TypeOK, HoldOK, InLock
<1>4. RefcntExact' BY Zenon, SameCounts
<1>5. OneBuffer' /\ ValidOK' /\ PinnedCached' BY Zenon, <1>0 DEF TypeOK, OneBuffer, ValidOK, PinnedCached
<1>6. Coherent' BY <1>0 DEF TypeOK, HoldOK, InLock, Coherent
<1>7. SleeperNotMissed' BY Zenon DEF TypeOK, SleeperNotMissed
<1> QED BY Zenon, <1>1, <1>2, <1>3, <1>4, <1>5, <1>6, <1>7

(* Only the holder of the lock changes data. *)
LEMMA ModifyStep ==
  ASSUME Inv, NEW p \in Procs, NEW v \in Values, Modify(p, v)
  PROVE  Inv'
<1>0. mine[p] \in Bufs /\ blockno[mine[p]] \in Blocks BY Zenon, HasBuffer DEF Inv, Modify
<1> USE NoneIsNoBuffer DEF Inv, Modify, Goto
<1>1. TypeOK' BY Zenon, <1>0 DEF TypeOK, PCs
<1>2. LruOK' BY Zenon DEF LruOK
<1>3. HoldOK' BY <1>0 DEF TypeOK, HoldOK, InLock
<1>4. RefcntExact' BY Zenon, SameCounts
<1>5. OneBuffer' /\ ValidOK' /\ PinnedCached' BY Zenon DEF OneBuffer, ValidOK, PinnedCached
<1>6. Coherent' BY <1>0 DEF TypeOK, HoldOK, InLock, Coherent
<1>7. SleeperNotMissed' BY Zenon DEF TypeOK, SleeperNotMissed
<1> QED BY Zenon, <1>1, <1>2, <1>3, <1>4, <1>5, <1>6, <1>7

(* bwrite() makes disk and buffer agree; no other buffer has the block. *)
LEMMA bwriteStep ==
  ASSUME Inv, NEW p \in Procs, bwrite(p)
  PROVE  Inv'
<1>0. mine[p] \in Bufs /\ blockno[mine[p]] \in Blocks BY Zenon, HasBuffer DEF Inv, bwrite
<1> USE NoneIsNoBuffer DEF Inv, bwrite, Goto, buffers
<1>1. TypeOK' BY Zenon, <1>0 DEF TypeOK, PCs
<1>2. LruOK' BY Zenon DEF LruOK
<1>3. HoldOK' BY <1>0 DEF TypeOK, HoldOK, InLock
<1>4. RefcntExact' BY Zenon, SameCounts
<1>5. OneBuffer' /\ ValidOK' /\ PinnedCached' BY DEF OneBuffer, ValidOK, PinnedCached
<1>6. Coherent' BY <1>0 DEF TypeOK, HoldOK, InLock, OneBuffer, ValidOK, Coherent
<1>7. SleeperNotMissed' BY DEF TypeOK, SleeperNotMissed
<1> QED BY Zenon, <1>1, <1>2, <1>3, <1>4, <1>5, <1>6, <1>7

(* A pin counts once, on the one buffer that has the block. *)
LEMMA bpinStep ==
  ASSUME Inv, NEW p \in Procs, bpin(p)
  PROVE  Inv'
<1>0. mine[p] \in Bufs /\ blockno[mine[p]] \in Blocks BY HasBuffer DEF Inv, bpin
<1> USE NoneIsNoBuffer DEF Inv, bpin, Goto
<1>1. TypeOK' BY <1>0 DEF TypeOK, PCs
<1>2. LruOK' BY DEF LruOK
<1>3. HoldOK' BY <1>0 DEF TypeOK, HoldOK, InLock
<1>4. RefcntExact'
  <2> DEFINE up(c) == IF c = mine[p] /\ blockno[mine[p]] \notin pinned THEN 1 ELSE 0
  <2>1. \A c \in Bufs : Users(c)' = Users(c) BY DEF Users
  <2>2. \A c \in Bufs : /\ refcnt[c] = Cardinality(Users(c)) + Pin(c)
                        /\ Cardinality(Users(c)) \in Nat
    BY UsersFacts
  <2>3. \A c \in Bufs : Pin(c)' = Pin(c) + up(c) /\ Pin(c) \in Nat /\ up(c) \in Nat
    BY <1>0 DEF Pin, OneBuffer
  <2>4. \A c \in Bufs : refcnt'[c] = refcnt[c] + up(c) BY <1>0 DEF TypeOK
  <2> HIDE DEF Inv, bpin, up
  <2>5. \A c \in Bufs : refcnt'[c] = Cardinality(Users(c)') + Pin(c)'
    BY <2>1, <2>2, <2>3, <2>4
  <2> QED BY <2>5, CountsExact
<1>5. OneBuffer' /\ ValidOK' /\ PinnedCached' BY <1>0 DEF HoldOK, OneBuffer, ValidOK, PinnedCached
<1>6. Coherent' BY <1>0 DEF TypeOK, HoldOK, InLock, Coherent
<1>7. SleeperNotMissed' BY DEF TypeOK, SleeperNotMissed
<1> QED BY <1>1, <1>2, <1>3, <1>4, <1>5, <1>6, <1>7

(* A pinned buffer has a count of two while it is held, so the pin can go. *)
LEMMA bunpinStep ==
  ASSUME Inv, NEW p \in Procs, bunpin(p)
  PROVE  Inv'
<1>0. mine[p] \in Bufs /\ blockno[mine[p]] \in Blocks BY HasBuffer DEF Inv, bunpin
<1> USE NoneIsNoBuffer DEF Inv, bunpin, Goto
<1> DEFINE down(c) == IF c = mine[p] THEN 1 ELSE 0
<1>a. \A c \in Bufs : /\ refcnt[c] = Cardinality(Users(c)) + Pin(c)
                      /\ Cardinality(Users(c)) \in Nat
  BY UsersFacts
<1>b. \A c \in Bufs : Pin(c)' = Pin(c) - down(c) /\ Pin(c) \in Nat /\ down(c) \in Nat /\ down(c) <= Pin(c)
  <2>1. /\ blockno[mine[p]] \in pinned /\ blockno' = blockno
        /\ pinned' = pinned \ {blockno[mine[p]]}
    OBVIOUS
  <2>2. \A c \in Bufs : c # mine[p] => blockno[c] # blockno[mine[p]] BY <1>0 DEF OneBuffer
  <2> HIDE DEF Inv, bunpin
  <2> QED BY <1>0, <2>1, <2>2 DEF Pin
<1>c. \A c \in Bufs : refcnt'[c] = refcnt[c] - down(c) BY <1>0 DEF TypeOK
<1>1. TypeOK'
  <2>1. \A c \in Bufs : refcnt[c] - down(c) \in Nat
    <3> HIDE DEF Inv, bunpin, down
    <3> QED BY <1>a, <1>b
  <2>2. refcnt' \in [Bufs -> Nat] BY <1>0, <1>c, <2>1 DEF TypeOK
  <2> QED BY <1>0, <2>2 DEF TypeOK, PCs
<1>2. LruOK' BY DEF LruOK
<1>3. HoldOK' BY <1>0 DEF TypeOK, HoldOK, InLock
<1>4. RefcntExact'
  <2>1. \A c \in Bufs : Users(c)' = Users(c) BY Zenon DEF Users
  <2> HIDE DEF Inv, bunpin, down
  <2>2. \A c \in Bufs : refcnt'[c] = Cardinality(Users(c)') + Pin(c)'
    BY <2>1, <1>a, <1>b, <1>c
  <2> QED BY <2>2, CountsExact
<1>5. OneBuffer' /\ ValidOK' /\ PinnedCached' BY Zenon DEF OneBuffer, ValidOK, PinnedCached
<1>6. Coherent'
  <2> SUFFICES ASSUME NEW c \in Bufs, valid[c], blockno[c] \notin pinned',
                      ~\E q \in Procs : pc[q] = "dirty" /\ mine[q] = c
               PROVE  data[c] = disk'[blockno[c]]
    BY DEF Coherent
  <2>1. blockno[c] \in Blocks BY DEF ValidOK, TypeOK
  <2>2. CASE c = mine[p] BY <1>0, <2>2 DEF TypeOK
  <2>3. CASE c # mine[p]
    <3>1. blockno[c] # blockno[mine[p]] BY Zenon, <1>0, <2>1, <2>3 DEF OneBuffer
    <3> QED BY <1>0, <2>1, <3>1 DEF TypeOK, Coherent
  <2> QED BY Zenon, <2>2, <2>3
<1>7. SleeperNotMissed' BY DEF TypeOK, SleeperNotMissed
<1> QED BY <1>1, <1>2, <1>3, <1>4, <1>5, <1>6, <1>7

(* The holder lets the lock go and wakes every sleeper. *)
LEMMA releasesleepStep ==
  ASSUME Inv, NEW p \in Procs, releasesleep(p)
  PROVE  Inv'
<1>0. mine[p] \in Bufs BY HasBuffer DEF Inv, releasesleep
<1> USE NoneIsNoBuffer DEF Inv, releasesleep
<1>1. TypeOK' BY <1>0 DEF TypeOK, PCs
<1>2. LruOK' BY Zenon DEF LruOK
<1>3. HoldOK' BY <1>0 DEF TypeOK, HoldOK, InLock
<1>4. RefcntExact' BY SameCounts
<1>5. OneBuffer' /\ ValidOK' /\ PinnedCached' BY Zenon DEF OneBuffer, ValidOK, PinnedCached
<1>6. Coherent' BY ZenonT(30) DEF TypeOK, HoldOK, Coherent
<1>7. SleeperNotMissed' BY Zenon, <1>0 DEF TypeOK, HoldOK, SleeperNotMissed
<1> QED BY <1>1, <1>2, <1>3, <1>4, <1>5, <1>6, <1>7

(* The last user of a buffer moves it to the front of the list. *)
LEMMA brelseStep ==
  ASSUME Inv, NEW p \in Procs, brelse(p)
  PROVE  Inv'
<1>0. mine[p] \in Bufs BY HasBuffer DEF Inv, brelse
<1> USE NoneIsNoBuffer DEF Inv, brelse, Goto
<1> DEFINE down(c) == IF c = mine[p] THEN 1 ELSE 0
<1>a. \A c \in Bufs : /\ refcnt[c] = Cardinality(Users(c)) + Pin(c)
                      /\ Cardinality(Users(c)) \in Nat
                      /\ c = mine[p] => Cardinality(Users(c)) > 0
  BY Zenon, UsersFacts
<1>b. \A c \in Bufs : Cardinality(Users(c)') = Cardinality(Users(c)) - down(c) BY <1>0, BufferDropped
<1>c. \A c \in Bufs : Pin(c)' = Pin(c) /\ Pin(c) \in Nat BY Zenon DEF Pin
<1>d. \A c \in Bufs : refcnt'[c] = refcnt[c] - down(c) BY <1>0 DEF TypeOK
<1>e. lru' \in Seq(Bufs) /\ LruOK'
  <2>1. CASE lru' = lru BY Zenon, <2>1 DEF TypeOK, LruOK
  <2>2. CASE lru' = ToFront(lru, mine[p])
    <3>1. /\ ToFront(lru, mine[p]) \in Seq(Bufs)
          /\ \A c \in Bufs : \E i \in DOMAIN ToFront(lru, mine[p]) : ToFront(lru, mine[p])[i] = c
      BY <1>0, ToFrontKeeps
    <3> QED BY <2>2, <3>1, Zenon DEF LruOK
  <2> QED BY Zenon, <2>1, <2>2
<1>1. TypeOK'
  <2>1. \A c \in Bufs : refcnt[c] - down(c) \in Nat
    <3>1. \A c \in Bufs : down(c) \in Nat /\ (c # mine[p] => down(c) = 0) /\ down(c) <= 1 OBVIOUS
    <3> HIDE DEF Inv, brelse, down
    <3> QED BY <1>a, <1>c, <3>1
  <2>2. refcnt' \in [Bufs -> Nat] BY <1>0, <1>d, <2>1 DEF TypeOK
  <2>3. mine' \in [Procs -> Bufs \cup {None}] /\ pc' \in [Procs -> PCs] BY Zenon DEF TypeOK, PCs
  <2> QED BY Zenon, <1>e, <2>2, <2>3 DEF TypeOK
<1>3. HoldOK' BY <1>0 DEF TypeOK, HoldOK, InLock
<1>4. RefcntExact'
  <2>1. \A c \in Bufs : down(c) \in Nat OBVIOUS
  <2> HIDE DEF Inv, brelse, down
  <2>2. \A c \in Bufs : refcnt'[c] = Cardinality(Users(c)') + Pin(c)'
    BY <1>a, <1>b, <1>c, <1>d, <2>1
  <2> QED BY <2>2, CountsExact
<1>5. OneBuffer' /\ ValidOK' /\ PinnedCached' BY Zenon DEF OneBuffer, ValidOK, PinnedCached
<1>6. Coherent' BY Zenon, <1>0 DEF TypeOK, HoldOK, InLock, Coherent
<1>7. SleeperNotMissed' BY DEF TypeOK, SleeperNotMissed
<1> QED BY Zenon, <1>1, <1>3, <1>4, <1>5, <1>6, <1>7, <1>e

-----------------------------------------------------------------------------
(* binit() establishes the invariant. *)
LEMMA InitInv == Init => Inv
<1> SUFFICES ASSUME Init PROVE Inv OBVIOUS
<1> USE NoneIsNoBuffer DEF Init
<1>1. TypeOK
  <2>1. \A i \in 1 .. NBUF : NBUF + 1 - i \in Bufs BY ConstantsAssumption DEF Bufs
  <2>2. lru \in [1 .. NBUF -> Bufs] BY <2>1
  <2>3. lru \in Seq(Bufs) BY <2>2, ConstantsAssumption
  <2> QED BY <2>3 DEF TypeOK, PCs
<1>2. LruOK
  <2> SUFFICES ASSUME NEW b \in Bufs PROVE \E i \in DOMAIN lru : lru[i] = b BY DEF LruOK
  <2>1. NBUF + 1 - b \in 1 .. NBUF /\ NBUF + 1 - (NBUF + 1 - b) = b BY ConstantsAssumption DEF Bufs
  <2> QED BY <2>1
<1>3. HoldOK BY DEF HoldOK, InLock
<1>4. RefcntExact
  <2> SUFFICES ASSUME NEW b \in Bufs
               PROVE  refcnt[b] = Cardinality({p \in Procs : mine[p] = b})
                                  + (IF blockno[b] \in pinned THEN 1 ELSE 0)
    BY DEF RefcntExact
  <2>1. {p \in Procs : mine[p] = b} = {} OBVIOUS
  <2>2. Cardinality({p \in Procs : mine[p] = b}) = 0 BY <2>1, FS_EmptySet, Zenon
  <2>3. refcnt[b] = 0 /\ blockno[b] \notin pinned OBVIOUS
  <2> QED BY <2>2, <2>3
<1>5. OneBuffer /\ ValidOK /\ PinnedCached /\ Coherent /\ SleeperNotMissed
  BY DEF OneBuffer, ValidOK, PinnedCached, Coherent, SleeperNotMissed
<1> QED BY <1>1, <1>2, <1>3, <1>4, <1>5 DEF Inv

(* Every step keeps it. *)
LEMMA InvStep ==
  ASSUME Inv, [Next]_vars
  PROVE  Inv'
<1>1. CASE UNCHANGED vars
  <2> USE <1>1 DEF vars, buffers, Inv
  <2>1. TypeOK' /\ LruOK' BY DEF TypeOK, LruOK
  <2>2. HoldOK' BY DEF HoldOK
  <2>3. RefcntExact' BY SameCounts
  <2>4. OneBuffer' /\ ValidOK' /\ PinnedCached' BY Zenon DEF OneBuffer, ValidOK, PinnedCached
  <2>5. Coherent' /\ SleeperNotMissed' BY Zenon DEF Coherent, SleeperNotMissed
  <2> QED BY <2>1, <2>2, <2>3, <2>4, <2>5
<1>2. CASE Next
  BY Zenon, <1>2, bget_hitStep, bget_recycleStep, bget_panicStep, acquiresleepStep, breadStep, ModifyStep, bwriteStep,
     bpinStep, bunpinStep, releasesleepStep, brelseStep DEF Next
<1> QED BY <1>1, <1>2

(* So it always holds. *)
LEMMA InvInvariant == Spec => []Inv
BY InitInv, InvStep, PTL DEF Spec

(* For every instance: counts are exact, a block has one buffer, with one     *)
(* process in it at a time, and keeps it while the log has it pinned.         *)
THEOREM BufferSoundInvariant == Spec => []BufferSound
<1>1. Inv => BufferSound
  <2> SUFFICES ASSUME Inv PROVE Exclusive BY DEF Inv, BufferSound
  <2> SUFFICES ASSUME NEW p \in Procs, NEW q \in Procs, p # q, pc[p] \in InLock, pc[q] \in InLock,
                      blockno[mine[p]] = blockno[mine[q]]
               PROVE  FALSE
    BY DEF Exclusive, InLock
  <2>1. mine[p] \in Bufs /\ mine[q] \in Bufs /\ blockno[mine[p]] \in Blocks
    BY HasBuffer DEF Inv, InLock
  <2>2. mine[p] = mine[q] BY <2>1, NoneIsNoBuffer DEF Inv, OneBuffer
  <2>3. locked[mine[p]] = p /\ locked[mine[q]] = q BY DEF Inv, HoldOK
  <2> QED BY <2>2, <2>3
<1> QED BY <1>1, InvInvariant, PTL

(* For every instance: what bread() returns is what was last written. *)
THEOREM CoherentInvariant == Spec => []Coherent
BY InvInvariant, PTL DEF Inv

(* For every instance: releasesleep() wakes whoever waits. *)
THEOREM SleeperInvariant == Spec => []SleeperNotMissed
BY InvInvariant, PTL DEF Inv
=============================================================================
