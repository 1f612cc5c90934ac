-------------------------- MODULE VirtioDiskLemmas --------------------------
(***************************************************************************)
(* The inductive invariant of module VirtioDisk, the lemmas about rings,   *)
(* descriptors and chains that its proof needs, and the steps of the       *)
(* device and of the interrupt handler.                                    *)
(***************************************************************************)
EXTENDS VirtioDisk, FiniteSetTheorems, WellFoundedInduction, TLAPS

(* How far the index hi is ahead of lo, and the ring slot k entries after lo *)
Lag(hi, lo) == IF lo <= hi THEN hi - lo ELSE (hi + IDX) - lo
Slot(lo, k) == (lo + k) % NUM

(* The chains the device has not looked at, and those it has returned and    *)
(* the handler has not seen, in the order of the rings                       *)
Avail(k) == avail_ring[Slot(seen, k)]
Used(k)  == used_ring[Slot(used_idx, k)]
nAvail == Lag(avail_idx, seen)
nUsed  == Lag(used_idx_dev, used_idx)

(* vdisk_lock is held between two steps only by a caller about to publish    *)
(* its chain and by the interrupt handler; nobody has panicked.              *)
LockOK ==
  /\ \A b \in Bufs : pc[b] # "panic"
  /\ \A b \in Bufs : pc[b] = "publish" <=> vdisk_lock = b

(* The chain of a request: three descriptors, formatted, none of them free   *)
Second(b) == desc[head[b]].next
Third(b)  == desc[Second(b)].next

Owned(b)  == {head[b], Second(b), Third(b)}

ChainMade(b) ==
  /\ head[b] # Second(b) /\ head[b] # Third(b) /\ Second(b) # Third(b)
  /\ ~free[head[b]] /\ ~free[Second(b)] /\ ~free[Third(b)]
  /\ desc[head[b]].more /\ desc[Second(b)].more /\ ~desc[Third(b)].more
  /\ desc[head[b]].addr = <<"op", head[b]>> /\ desc[Second(b)].addr = <<"data", b>>
  /\ desc[Third(b)].addr = <<"status", head[b]>>
  /\ desc[Third(b)].write /\ desc[Second(b)].write = (rw[b] = "read")
  /\ info[head[b]].b = b /\ ops[head[b]] = [type |-> rw[b], sector |-> b]

ChainOK == \A b \in Bufs : InFlight(b) => ChainMade(b)

ChainsApart ==
  \A b, c \in Bufs : InFlight(b) /\ InFlight(c) /\ b # c => Owned(b) \cap Owned(c) = {}

(* A descriptor that is not free is part of a chain. *)
NoneLost == \A i \in Desc : free[i] \/ \E b \in Bufs : InFlight(b) /\ i \in Owned(b)

(* What has been moved for a request, as far as it has come *)
MovedOK ==
  \A b \in Bufs :
    /\ ~InFlight(b) => moved[b] = <<>> /\ ~busy[b]
    /\ pc[b] = "publish" => moved[b] = <<>> /\ busy[b] /\ avail_ring[avail_idx % NUM] = head[b]
    /\ Submitted(b) /\ ~busy[b] => moved[b] = <<<<rw[b], b>>>>

(* i is the chain of a request that is under way in the device, or that the   *)
(* device has served                                                          *)
Waiting(i) == \E b \in Bufs : Submitted(b) /\ busy[b] /\ head[b] = i /\ moved[b] = <<>>
Served(i)  == \E b \in Bufs : /\ Submitted(b) /\ busy[b] /\ head[b] = i
                              /\ moved[b] = <<<<rw[b], b>>>> /\ info[i].status = 0

(* Every entry of a ring, and of the device's work, stands for one request.   *)
AvailOK ==
  /\ \A k \in Nat : k < nAvail => Waiting(Avail(k)) /\ Avail(k) \notin work
  /\ \A k, l \in Nat : k < l /\ l < nAvail => Avail(k) # Avail(l)

WorkOK == \A i \in work : Waiting(i)

UsedOK ==
  /\ \A k \in Nat : k < nUsed => Served(Used(k))
  /\ \A k, l \in Nat : k < l /\ l < nUsed => Used(k) # Used(l)

(* Room is left in the rings, so that an index never catches up with another. *)
RoomOK == nAvail < NUM /\ nUsed < NUM

(* What the sleepers wait for has not happened, whoever has the lock.         *)
SleepOK ==
  /\ \A b \in Bufs : /\ pc[b] = "asleep_free" => Cardinality(Free) < 3
                     /\ pc[b] = "asleep_buf" => busy[b]
  /\ used_idx # used_idx_dev => irq \/ vdisk_lock = Intr

Inv ==
  /\ TypeOK /\ LockOK /\ ChainOK /\ ChainsApart /\ NoneLost /\ MovedOK
  /\ AvailOK /\ WorkOK /\ UsedOK /\ RoomOK /\ SleepOK

-----------------------------------------------------------------------------
(* Remainders *)

(* A number is its quotient times the divisor, and the remainder. *)
LEMMA ModDef ==
  ASSUME NEW a \in Nat, NEW m \in Nat \ {0}
  PROVE  a % m \in 0 .. m - 1 /\ a \div m \in Nat /\ a = m * (a \div m) + (a % m)
BY SMT

(* The remainder is the only number of its kind. *)
LEMMA ModIs ==
  ASSUME NEW m \in Nat \ {0}, NEW q \in Nat, NEW r \in 0 .. m - 1
  PROVE  (m * q + r) % m = r
<1> DEFINE a == m * q + r
           k == a \div m
           s == a % m
<1>1. a \in Nat BY SMT
<1>2. s \in 0 .. m - 1 /\ k \in Nat /\ m * q + r = m * k + s BY Zenon, <1>1, ModDef
<1> HIDE DEF k, s
<1>3. q < k => m * (q + 1) <= m * k BY <1>2, SMT
<1>4. k < q => m * (k + 1) <= m * q BY <1>2, SMT
<1>5. m * (q + 1) = m * q + m /\ m * (k + 1) = m * k + m BY <1>2, SMT
<1>6. m * q \in Int /\ m * k \in Int BY <1>2, SMT
<1>7. k = q BY <1>2, <1>3, <1>4, <1>5, <1>6, SMT
<1>8. s = r BY <1>2, <1>6, <1>7, SMT
<1> QED BY <1>8 DEF s

(* Whole turns do not change a remainder. *)
LEMMA ModShift ==
  ASSUME NEW m \in Nat \ {0}, NEW u \in Nat, u % m = 0, NEW a \in Nat
  PROVE  (a + u) % m = a % m
<1> DEFINE k == a \div m + u \div m
<1>1. a % m \in 0 .. m - 1 /\ a \div m \in Nat /\ a = m * (a \div m) + (a % m) BY Zenon, ModDef
<1>2. u \div m \in Nat /\ u = m * (u \div m) BY ModDef
<1>3. a + u = m * k + (a % m) /\ k \in Nat BY <1>1, <1>2, SMT
<1>4. (m * k + (a % m)) % m = a % m BY <1>1, <1>3, ModIs, Zenon
<1> QED BY <1>3, <1>4, Zenon

(* Numbers less than a turn apart have different remainders. *)
LEMMA ModApart ==
  ASSUME NEW m \in Nat \ {0}, NEW a \in Nat, NEW d \in 1 .. m - 1
  PROVE  (a + d) % m # a % m
<1> DEFINE k == a \div m
           s == a % m
<1>1. s \in 0 .. m - 1 /\ k \in Nat /\ a = m * k + s BY Zenon, ModDef
<1> HIDE DEF k, s
<1>2. CASE s + d < m
  <2>1. a + d = m * k + (s + d) /\ s + d \in 0 .. m - 1 BY <1>1, <1>2, SMT
  <2>2. (m * k + (s + d)) % m = s + d BY <1>1, <2>1, ModIs, Zenon
  <2>3. (a + d) % m = s + d BY <2>1, <2>2, Zenon
  <2> QED BY <2>3, <1>1, SMT DEF s
<1>3. CASE s + d >= m
  <2>1. a + d = m * (k + 1) + (s + d - m) /\ s + d - m \in 0 .. m - 1 /\ k + 1 \in Nat BY <1>1, <1>3, SMT
  <2>2. (m * (k + 1) + (s + d - m)) % m = s + d - m BY <1>1, <2>1, ModIs, Zenon
  <2>3. (a + d) % m = s + d - m BY <2>1, <2>2, Zenon
  <2> QED BY <2>3, <1>1, SMT DEF s
<1> QED BY <1>2, <1>3, <1>1, SMT


(* An index and its successor *)
LEMMA Wrap ==
  ASSUME NEW x \in 0 .. IDX - 1
  PROVE  (x + 1) % IDX = IF x + 1 = IDX THEN 0 ELSE x + 1
<1> USE ConstantsAssumption
<1>1. CASE x + 1 < IDX BY <1>1, SMT
<1>2. CASE x + 1 = IDX
  <2>1. IDX \in Nat \ {0} /\ 0 \in 0 .. IDX - 1 /\ x + 1 = IDX * 1 + 0 BY <1>2, SMT
  <2>2. (IDX * 1 + 0) % IDX = 0 BY <2>1, ModIs, Zenon
  <2> QED BY <2>1, <2>2, <1>2, Zenon
<1> QED BY <1>1, <1>2, SMT

(* The distance of two indices is zero just when they are equal. *)
LEMMA LagType ==
  ASSUME NEW hi \in 0 .. IDX - 1, NEW lo \in 0 .. IDX - 1
  PROVE  Lag(hi, lo) \in 0 .. IDX - 1 /\ (Lag(hi, lo) = 0 <=> hi = lo)
BY ConstantsAssumption DEF Lag

(* The index ahead moves on: the distance grows by one. *)
LEMMA LagHi ==
  ASSUME NEW hi \in 0 .. IDX - 1, NEW lo \in 0 .. IDX - 1, Lag(hi, lo) + 1 < IDX
  PROVE  Lag((hi + 1) % IDX, lo) = Lag(hi, lo) + 1 /\ (hi + 1) % IDX \in 0 .. IDX - 1
<1>1. (hi + 1) % IDX = IF hi + 1 = IDX THEN 0 ELSE hi + 1 BY Wrap
<1> DEFINE n == (hi + 1) % IDX
<1> HIDE DEF n
<1>2. n = IF hi + 1 = IDX THEN 0 ELSE hi + 1 BY <1>1 DEF n
<1>3. Lag(n, lo) = Lag(hi, lo) + 1 /\ n \in 0 .. IDX - 1 BY <1>2, ConstantsAssumption DEF Lag
<1> QED BY <1>3 DEF n

(* The index behind moves on: the distance shrinks by one. *)
LEMMA LagLo ==
  ASSUME NEW hi \in 0 .. IDX - 1, NEW lo \in 0 .. IDX - 1, hi # lo
  PROVE  Lag(hi, (lo + 1) % IDX) + 1 = Lag(hi, lo) /\ (lo + 1) % IDX \in 0 .. IDX - 1
<1>1. (lo + 1) % IDX = IF lo + 1 = IDX THEN 0 ELSE lo + 1 BY Wrap
<1> DEFINE n == (lo + 1) % IDX
<1> HIDE DEF n
<1>2. n = IF lo + 1 = IDX THEN 0 ELSE lo + 1 BY <1>1 DEF n
<1>3. Lag(hi, n) + 1 = Lag(hi, lo) /\ n \in 0 .. IDX - 1 BY <1>2, ConstantsAssumption DEF Lag
<1> QED BY <1>3 DEF n

(* A ring slot is the number of a descriptor. *)
LEMMA SlotType ==
  ASSUME NEW lo \in Nat, NEW k \in Nat
  PROVE  Slot(lo, k) \in Desc
<1>1. (lo + k) % NUM \in 0 .. NUM - 1 BY ModDef, ConstantsAssumption, SMT
<1> QED BY <1>1 DEF Slot, Desc

(* Entries less than NUM apart have different slots. *)
LEMMA SlotApart ==
  ASSUME NEW lo \in Nat, NEW k \in Nat, NEW l \in Nat, k < l, l < NUM
  PROVE  Slot(lo, k) # Slot(lo, l)
<1>1. lo + k \in Nat /\ (l - k) \in 1 .. NUM - 1 /\ (lo + k) + (l - k) = lo + l /\ NUM \in Nat \ {0}
  BY ConstantsAssumption, SMT
<1>2. ((lo + k) + (l - k)) % NUM # (lo + k) % NUM BY <1>1, ModApart, Zenon
<1> QED BY <1>1, <1>2, Zenon DEF Slot

(* An entry keeps its slot when lo moves on, also past the end of the indices. *)
LEMMA SlotNext ==
  ASSUME NEW lo \in 0 .. IDX - 1, NEW k \in Nat
  PROVE  Slot((lo + 1) % IDX, k) = Slot(lo, k + 1)
<1> USE ConstantsAssumption
<1>1. (lo + 1) % IDX = IF lo + 1 = IDX THEN 0 ELSE lo + 1 BY Wrap
<1>2. CASE lo + 1 # IDX
  <2>1. (lo + 1) % IDX = lo + 1 BY <1>1, <1>2, Zenon
  <2>2. (lo + 1) + k = lo + (k + 1) BY SMT
  <2> QED BY <2>1, <2>2, Zenon DEF Slot
<1>3. CASE lo + 1 = IDX
  <2>1. (lo + 1) % IDX = 0 BY <1>1, <1>3, Zenon
  <2>2. 0 + k = k /\ lo + (k + 1) = k + IDX /\ NUM \in Nat \ {0} BY <1>3, SMT
  <2>3. (k + IDX) % NUM = k % NUM BY <2>2, ModShift, Zenon
  <2> QED BY <2>1, <2>2, <2>3, Zenon DEF Slot
<1> QED BY <1>2, <1>3, Zenon

(* The index ahead is the slot after the last entry. *)
LEMMA SlotTop ==
  ASSUME NEW hi \in 0 .. IDX - 1, NEW lo \in 0 .. IDX - 1
  PROVE  hi % NUM = Slot(lo, Lag(hi, lo))
<1> USE ConstantsAssumption
<1>1. CASE lo <= hi
  <2>1. Lag(hi, lo) = hi - lo BY <1>1 DEF Lag
  <2>2. lo + (hi - lo) = hi BY <1>1, SMT
  <2> QED BY <2>1, <2>2, Zenon DEF Slot
<1>2. CASE ~(lo <= hi)
  <2>1. Lag(hi, lo) = (hi + IDX) - lo BY <1>2 DEF Lag
  <2>2. lo + ((hi + IDX) - lo) = hi + IDX /\ NUM \in Nat \ {0} /\ hi \in Nat BY <1>2, SMT
  <2>3. (hi + IDX) % NUM = hi % NUM BY <2>2, ModShift, Zenon
  <2> QED BY <2>1, <2>2, <2>3, Zenon DEF Slot
<1> QED BY <1>1, <1>2, Zenon

(* Three different descriptors are three. *)
LEMMA Three ==
  ASSUME NEW x, NEW y, NEW z, x # y, x # z, y # z
  PROVE  IsFiniteSet({x, y, z}) /\ Cardinality({x, y, z}) = 3
<1>1. IsFiniteSet({x}) /\ Cardinality({x}) = 1 BY Zenon, FS_Singleton
<1>2. IsFiniteSet({x} \cup {y}) /\ Cardinality({x} \cup {y}) = 2 BY <1>1, FS_AddElement
<1>3. IsFiniteSet(({x} \cup {y}) \cup {z}) /\ Cardinality(({x} \cup {y}) \cup {z}) = 3
  <2>1. z \notin {x} \cup {y} OBVIOUS
  <2> QED BY <1>2, <2>1, FS_AddElement
<1>4. ({x} \cup {y}) \cup {z} = {x, y, z} OBVIOUS
<1> QED BY <1>3, <1>4

(* The descriptors: NUM of them *)
LEMMA DescFinite == IsFiniteSet(Desc) /\ Cardinality(Desc) = NUM
<1>1. 0 \in Int /\ NUM - 1 \in Int /\ ~(0 > NUM - 1) /\ ((NUM - 1) - 0) + 1 = NUM BY ConstantsAssumption
<1>2. IsFiniteSet(0 .. NUM - 1) /\ Cardinality(0 .. NUM - 1) = ((NUM - 1) - 0) + 1 BY <1>1, FS_Interval
<1> QED BY <1>1, <1>2 DEF Desc

(* Different entries that leave out three descriptors leave room in a ring. *)
LEMMA Room ==
  ASSUME NEW n \in Nat, NEW f \in [0 .. n - 1 -> Desc],
         \A k, l \in Nat : k < l /\ l < n => f[k] # f[l],
         NEW x \in Desc, NEW y \in Desc, NEW z \in Desc, x # y, x # z, y # z,
         \A k \in 0 .. n - 1 : f[k] \notin {x, y, z}
  PROVE  n + 3 <= NUM
<1> DEFINE T == Desc \ {x, y, z}
<1>1. IsFiniteSet(T) /\ Cardinality(T) = NUM - 3
  <2>1. Desc \cap {x, y, z} = {x, y, z} OBVIOUS
  <2>2. Cardinality({x, y, z}) = 3 BY Three, Zenon
  <2>3. Cardinality(Desc \cap {x, y, z}) = 3 BY <2>1, <2>2, Zenon
  <2>4. IsFiniteSet(Desc) /\ Cardinality(Desc) = NUM BY DescFinite
  <2>5. IsFiniteSet(T) /\ Cardinality(T) = Cardinality(Desc) - Cardinality(Desc \cap {x, y, z})
    BY <2>4, FS_Difference, Zenon
  <2> QED BY <2>3, <2>4, <2>5
<1>2. SUFFICES ASSUME n + 3 > NUM PROVE FALSE BY ConstantsAssumption
<1>3. IsFiniteSet(0 .. n - 1) /\ Cardinality(0 .. n - 1) = n
  <2>1. 0 \in Int /\ n - 1 \in Int /\ ((n - 1) - 0) + 1 = n /\ n > 0 BY <1>2, ConstantsAssumption
  <2>2. IsFiniteSet(0 .. n - 1) /\ Cardinality(0 .. n - 1) = ((n - 1) - 0) + 1 BY <2>1, FS_Interval
  <2> QED BY <2>1, <2>2
<1>4. f \in [0 .. n - 1 -> T] OBVIOUS
<1>5. Cardinality(T) < Cardinality(0 .. n - 1) BY <1>1, <1>2, <1>3, ConstantsAssumption
<1>6. PICK k, l \in 0 .. n - 1 : k # l /\ f[k] = f[l] BY <1>1, <1>3, <1>4, <1>5, FS_PigeonHole
<1>7. k \in Nat /\ l \in Nat /\ k < n /\ l < n /\ (k < l \/ l < k) BY <1>6
<1> QED BY <1>6, <1>7

(* alloc_desc() gets one of the free descriptors. *)
LEMMA AllocIn ==
  ASSUME NEW S \in SUBSET Desc, S # {}
  PROVE  alloc_desc(S) \in S
<1> DEFINE R == {ss \in Nat \X Nat : ss[1] < ss[2]}
<1>1. IsWellFoundedOn(R, Nat) BY NatLessThanWellFounded DEF OpToRel
<1>2. S \subseteq Nat BY ConstantsAssumption DEF Desc
<1>3. PICK i \in S : \A j \in S : <<j, i>> \notin R BY Zenon, <1>1, <1>2, WFMin
<1>4. \A j \in S : i <= j
  <2> SUFFICES ASSUME NEW j \in S, j < i PROVE FALSE BY <1>2
  <2>1. <<j, i>> \in R BY <1>2
  <2> QED BY <2>1, <1>3, Zenon
<1> QED BY <1>4 DEF alloc_desc

(* alloc3_desc() gets three of them. *)
LEMMA Alloc3 ==
  ASSUME NEW S \in SUBSET Desc, Cardinality(S) >= 3
  PROVE  LET i0 == alloc_desc(S)
             i1 == alloc_desc(S \ {i0})
             i2 == alloc_desc(S \ {i0, i1})
         IN  /\ {i0, i1, i2} \subseteq S
             /\ i0 # i1 /\ i0 # i2 /\ i1 # i2
<1> DEFINE i0 == alloc_desc(S)
           i1 == alloc_desc(S \ {i0})
           i2 == alloc_desc(S \ {i0, i1})
<1>0. IsFiniteSet(S) /\ Cardinality(S) \in Nat BY DescFinite, FS_Subset, FS_CardinalityType
<1>1. i0 \in S
  <2>1. S # {} BY FS_EmptySet
  <2> QED BY <2>1, AllocIn
<1> HIDE DEF i0
<1>2. i1 \in S \ {i0}
  <2>1. IsFiniteSet(S \ {i0}) /\ Cardinality(S \ {i0}) = Cardinality(S) - 1 BY <1>0, <1>1, FS_RemoveElement
  <2>2. S \ {i0} # {} BY <1>0, <2>1, FS_EmptySet
  <2> QED BY <2>2, AllocIn
<1> HIDE DEF i1
<1>3. i2 \in S \ {i0, i1}
  <2>1. IsFiniteSet(S \ {i0}) /\ Cardinality(S \ {i0}) = Cardinality(S) - 1 BY <1>0, <1>1, FS_RemoveElement
  <2>2. Cardinality((S \ {i0}) \ {i1}) = Cardinality(S \ {i0}) - 1 BY <1>2, <2>1, FS_RemoveElement, Zenon
  <2>3. (S \ {i0}) \ {i1} = S \ {i0, i1} OBVIOUS
  <2>4. S \ {i0, i1} # {} BY <1>0, <2>1, <2>2, <2>3, FS_EmptySet
  <2> QED BY <2>4, AllocIn
<1> QED BY <1>1, <1>2, <1>3 DEF i0, i1

-----------------------------------------------------------------------------
(* What a step that leaves the chains alone keeps *)
LEMMA ChainsKept ==
  ASSUME Inv, UNCHANGED <<free, desc, ops, head>>,
         \A i \in Desc : info'[i].b = info[i].b,
         \A b \in Bufs : InFlight(b)' = InFlight(b) /\ (InFlight(b) => rw'[b] = rw[b])
  PROVE  ChainOK' /\ ChainsApart' /\ NoneLost'
<1> USE DEF Inv
<1>1. \A b \in Bufs : Second(b)' = Second(b) /\ Third(b)' = Third(b) /\ Owned(b)' = Owned(b)
  BY Zenon DEF Second, Third, Owned
<1>2. \A b \in Bufs : head[b] \in Desc BY Zenon DEF TypeOK
<1>3. ChainOK' BY SMTT(30), <1>1, <1>2 DEF ChainOK, ChainMade
<1>4. ChainsApart' BY <1>1 DEF ChainsApart
<1>5. NoneLost' BY <1>1 DEF NoneLost
<1> QED BY <1>3, <1>4, <1>5

(* What a step that leaves chains, rings and requests alone keeps *)
LEMMA Quiet ==
  ASSUME Inv,
         UNCHANGED <<free, desc, ops, info, avail_ring, avail_idx, used_ring, used_idx_dev, used_idx,
                     busy, seen, work, moved, head>>,
         \A b \in Bufs : /\ InFlight(b)' = InFlight(b) /\ Submitted(b)' = Submitted(b)
                         /\ (pc[b] = "publish")' = (pc[b] = "publish")
                         /\ InFlight(b) => rw'[b] = rw[b]
  PROVE  ChainOK' /\ ChainsApart' /\ NoneLost' /\ MovedOK' /\ AvailOK' /\ WorkOK' /\ UsedOK' /\ RoomOK'
<1> USE DEF Inv
<1>1. ChainOK' /\ ChainsApart' /\ NoneLost' BY ChainsKept
<1>5. \A b \in Bufs : Submitted(b) => InFlight(b) BY DEF InFlight
<1>6. MovedOK' BY <1>5 DEF MovedOK
<1>7. \A i : Waiting(i) => Waiting(i)' BY DEF Waiting
<1>8. \A i : Served(i) => Served(i)' BY <1>5 DEF Served
<1>9. nAvail' = nAvail /\ nUsed' = nUsed /\ \A k : Avail(k)' = Avail(k) /\ Used(k)' = Used(k)
  BY Zenon DEF nAvail, nUsed, Avail, Used
<1>10. AvailOK' BY Zenon, <1>7, <1>9 DEF AvailOK
<1>11. WorkOK' BY <1>7 DEF WorkOK
<1>12. UsedOK' BY Zenon, <1>8, <1>9 DEF UsedOK
<1>13. RoomOK' BY <1>9 DEF RoomOK
<1> QED BY <1>1, <1>6, <1>10, <1>11, <1>12, <1>13

(* The callers that only wait, and the handler when it touches no request *)
LEMMA QuietStep ==
  ASSUME Inv,
         \/ \E b \in Bufs : \/ \E dir \in {"read", "write"} : rw_call(b, dir)
                            \/ rw_nodesc(b) \/ rw_again(b) \/ kill(b)
         \/ intr_ack \/ intr_end
  PROVE  Inv'
<1> USE DEF Inv, PCs, InFlight, Submitted, Goto, WakeupFree, driver, device, caller
<1>1. ASSUME NEW b \in Bufs, NEW dir \in {"read", "write"}, rw_call(b, dir) PROVE Inv'
  <2> USE <1>1 DEF rw_call
  <2>1. TypeOK' BY Zenon DEF TypeOK
  <2>2. LockOK' BY ZenonT(30) DEF LockOK, TypeOK
  <2>3. SleepOK' BY Zenon DEF SleepOK, TypeOK, Free
  <2>4. \A c \in Bufs : /\ InFlight(c)' = InFlight(c) /\ Submitted(c)' = Submitted(c)
                         /\ (pc[c] = "publish")' = (pc[c] = "publish")
                         /\ InFlight(c) => rw'[c] = rw[c]
    BY Zenon DEF TypeOK
  <2> QED BY SMTT(30), <2>1, <2>2, <2>3, <2>4, Quiet
<1>2. ASSUME NEW b \in Bufs, rw_nodesc(b) PROVE Inv'
  <2> USE <1>2 DEF rw_nodesc
  <2>0. /\ pc' \in [Bufs -> PCs] /\ pc'[b] = "asleep_free"
        /\ \A c \in Bufs \ {b} : pc'[c] = pc[c] \/ (pc[c] = "asleep_free" /\ pc'[c] = "alloc")
    <3>1. pc \in [Bufs -> PCs] BY Zenon DEF TypeOK
    <3> QED BY <3>1
  <2> HIDE DEF WakeupFree, Goto
  <2>1. TypeOK' BY Zenon, <2>0 DEF TypeOK
  <2>2. LockOK' BY <2>0 DEF LockOK
  <2>3. SleepOK' BY Zenon, <2>0 DEF SleepOK, Free
  <2>4. \A c \in Bufs : /\ InFlight(c)' = InFlight(c) /\ Submitted(c)' = Submitted(c)
                         /\ (pc[c] = "publish")' = (pc[c] = "publish")
    BY <2>0
  <2> QED BY Zenon, <2>1, <2>2, <2>3, <2>4, Quiet
<1>3. ASSUME NEW b \in Bufs, rw_again(b) PROVE Inv'
  <2> USE <1>3 DEF rw_again, Finished
  <2>0. pc' \in [Bufs -> PCs] /\ pc'[b] = "asleep_buf" /\ \A c \in Bufs \ {b} : pc'[c] = pc[c]
    <3>1. pc \in [Bufs -> PCs] BY Zenon DEF TypeOK
    <3> QED BY <3>1
  <2> HIDE DEF Goto
  <2>1. TypeOK' BY Zenon, <2>0 DEF TypeOK
  <2>2. LockOK' BY Zenon, <2>0 DEF LockOK
  <2>3. SleepOK' BY Zenon, <2>0 DEF SleepOK, Free
  <2>4. \A c \in Bufs : /\ InFlight(c)' = InFlight(c) /\ Submitted(c)' = Submitted(c)
                         /\ (pc[c] = "publish")' = (pc[c] = "publish")
    BY <2>0
  <2> QED BY ZenonT(30), <2>1, <2>2, <2>3, <2>4, Quiet
<1>4. ASSUME NEW b \in Bufs, kill(b) PROVE Inv'
  <2> USE <1>4 DEF kill
  <2>0. /\ pc' \in [Bufs -> PCs]
        /\ (pc[b] = "asleep_free" /\ pc'[b] = "alloc") \/ (pc[b] = "asleep_buf" /\ pc'[b] = "wait")
        /\ \A c \in Bufs \ {b} : pc'[c] = pc[c]
    <3>1. pc \in [Bufs -> PCs] BY Zenon DEF TypeOK
    <3> QED BY <3>1
  <2> HIDE DEF Goto
  <2>1. TypeOK' BY Zenon, <2>0 DEF TypeOK
  <2>2. LockOK' BY Zenon, <2>0 DEF LockOK
  <2>3. SleepOK' BY Zenon, <2>0 DEF SleepOK, Free
  <2>4. \A c \in Bufs : /\ InFlight(c)' = InFlight(c) /\ Submitted(c)' = Submitted(c)
                         /\ (pc[c] = "publish")' = (pc[c] = "publish")
    BY <2>0
  <2> QED BY Zenon, <2>1, <2>2, <2>3, <2>4, Quiet
<1>5. ASSUME intr_ack PROVE Inv'
  <2> USE <1>5, ConstantsAssumption DEF intr_ack
  <2>1. TypeOK' BY Zenon DEF TypeOK
  <2>2. LockOK' BY Zenon DEF LockOK
  <2>3. SleepOK' BY Zenon DEF SleepOK, Free
  <2> QED BY ZenonT(30), <2>1, <2>2, <2>3, Quiet
<1>6. ASSUME intr_end PROVE Inv'
  <2> USE <1>6, ConstantsAssumption DEF intr_end
  <2>1. TypeOK' BY Zenon DEF TypeOK
  <2>2. LockOK' BY Zenon DEF LockOK
  <2>3. SleepOK' BY Zenon DEF SleepOK, Free
  <2> QED BY ZenonT(30), <2>1, <2>2, <2>3, Quiet
<1> QED BY ZenonT(30), <1>1, <1>2, <1>3, <1>4, <1>5, <1>6

(* The first entry of a ring, the entries as one sees them, and that they     *)
(* leave room for one more                                                    *)
LEMMA Indices ==
  ASSUME Inv
  PROVE  /\ {avail_idx, used_idx, used_idx_dev, seen} \subseteq 0 .. IDX - 1
         /\ nAvail \in 0 .. NUM - 1 /\ nUsed \in 0 .. NUM - 1
         /\ \A k \in Nat : Avail(k) \in Desc /\ Used(k) \in Desc
         /\ Avail(0) = avail_ring[seen % NUM] /\ Used(0) = used_ring[used_idx % NUM]
         /\ nAvail = 0 <=> seen = avail_idx
         /\ nUsed = 0 <=> used_idx = used_idx_dev
<1>1. {avail_idx, used_idx, used_idx_dev, seen} \subseteq 0 .. IDX - 1 BY Zenon DEF Inv, TypeOK
<1>2. nAvail \in Nat /\ nUsed \in Nat /\ (nAvail = 0 <=> avail_idx = seen) /\ (nUsed = 0 <=> used_idx_dev = used_idx)
  <2>1. avail_idx \in 0 .. IDX - 1 /\ seen \in 0 .. IDX - 1 /\ used_idx \in 0 .. IDX - 1 /\ used_idx_dev \in 0 .. IDX - 1
    BY <1>1
  <2>2. nAvail \in 0 .. IDX - 1 /\ (nAvail = 0 <=> avail_idx = seen) BY <2>1, LagType, Zenon DEF nAvail
  <2>3. nUsed \in 0 .. IDX - 1 /\ (nUsed = 0 <=> used_idx_dev = used_idx) BY <2>1, LagType, Zenon DEF nUsed
  <2> QED BY <2>2, <2>3, ConstantsAssumption
<1>3. \A k \in Nat : Slot(seen, k) \in Desc /\ Slot(used_idx, k) \in Desc
  BY <1>1, SlotType, ConstantsAssumption
<1>4. \A k \in Nat : Avail(k) \in Desc /\ Used(k) \in Desc BY ZenonT(30), <1>3 DEF Inv, TypeOK, Avail, Used
<1>5. seen + 0 = seen /\ used_idx + 0 = used_idx BY <1>1, ConstantsAssumption
<1>6. Avail(0) = avail_ring[seen % NUM] /\ Used(0) = used_ring[used_idx % NUM]
  BY <1>5, Zenon DEF Avail, Used, Slot
<1> QED BY <1>1, <1>2, <1>4, <1>6, ConstantsAssumption DEF Inv, RoomOK

(* A chain that is not in a ring, with the descriptors it has, leaves room    *)
(* for itself there.                                                          *)
LEMMA RoomLeft ==
  ASSUME Inv, NEW b \in Bufs, InFlight(b)
  PROVE  /\ (\A k \in Nat : k < nAvail => Avail(k) # head[b]) => nAvail + 3 <= NUM
         /\ (\A k \in Nat : k < nUsed => Used(k) # head[b]) => nUsed + 3 <= NUM
<1>0. nAvail \in Nat /\ nUsed \in Nat /\ \A k \in Nat : Avail(k) \in Desc /\ Used(k) \in Desc
  BY Indices, ConstantsAssumption
<1>1. /\ head[b] \in Desc /\ Second(b) \in Desc /\ Third(b) \in Desc
      /\ head[b] # Second(b) /\ head[b] # Third(b) /\ Second(b) # Third(b)
  <2>1. head[b] \in Desc BY Zenon DEF Inv, TypeOK
  <2>2. \A i \in Desc : desc[i].next \in Desc BY ZenonT(30) DEF Inv, TypeOK
  <2>3. ChainMade(b) BY Zenon DEF Inv, ChainOK
  <2>4. Second(b) \in Desc BY Zenon, <2>1, <2>2 DEF Second
  <2>5. Third(b) \in Desc BY <2>2, <2>4 DEF Third
  <2> QED BY Zenon, <2>1, <2>3, <2>4, <2>5 DEF ChainMade
<1>2. \A c \in Bufs : Submitted(c) /\ head[c] # head[b] => head[c] \notin {head[b], Second(b), Third(b)}
  <2> SUFFICES ASSUME NEW c \in Bufs, Submitted(c), head[c] # head[b] PROVE head[c] \notin Owned(b) BY DEF Owned
  <2>1. InFlight(c) /\ c # b /\ head[c] \in Owned(c) BY DEF InFlight, Owned
  <2> QED BY <2>1 DEF Inv, ChainsApart
<1>3. ASSUME \A k \in Nat : k < nAvail => Avail(k) # head[b] PROVE nAvail + 3 <= NUM
  <2> DEFINE f == [k \in 0 .. nAvail - 1 |-> Avail(k)]
  <2>1. \A k \in 0 .. nAvail - 1 : k \in Nat /\ k < nAvail BY <1>0
  <2>2. f \in [0 .. nAvail - 1 -> Desc] BY <1>0, <2>1
  <2>3. \A k, l \in Nat : k < l /\ l < nAvail => f[k] # f[l]
    <3>1. \A k, l \in Nat : k < l /\ l < nAvail => k \in 0 .. nAvail - 1 /\ l \in 0 .. nAvail - 1 BY <1>0
    <3> QED BY <3>1 DEF Inv, AvailOK
  <2>4. \A k \in 0 .. nAvail - 1 : f[k] \notin {head[b], Second(b), Third(b)}
    <3>1. \A k \in 0 .. nAvail - 1 : Waiting(Avail(k)) /\ Avail(k) # head[b] BY <1>3, <2>1 DEF Inv, AvailOK
    <3> QED BY Zenon, <3>1, <1>2 DEF Waiting
  <2> HIDE DEF f
  <2> QED BY Zenon, <1>0, <1>1, <2>2, <2>3, <2>4, Room
<1>4. ASSUME \A k \in Nat : k < nUsed => Used(k) # head[b] PROVE nUsed + 3 <= NUM
  <2> DEFINE f == [k \in 0 .. nUsed - 1 |-> Used(k)]
  <2>1. \A k \in 0 .. nUsed - 1 : k \in Nat /\ k < nUsed BY <1>0
  <2>2. f \in [0 .. nUsed - 1 -> Desc] BY <1>0, <2>1
  <2>3. \A k, l \in Nat : k < l /\ l < nUsed => f[k] # f[l]
    <3>1. \A k, l \in Nat : k < l /\ l < nUsed => k \in 0 .. nUsed - 1 /\ l \in 0 .. nUsed - 1 BY <1>0
    <3> QED BY <3>1 DEF Inv, UsedOK
  <2>4. \A k \in 0 .. nUsed - 1 : f[k] \notin {head[b], Second(b), Third(b)}
    <3>1. \A k \in 0 .. nUsed - 1 : Served(Used(k)) /\ Used(k) # head[b] BY <1>4, <2>1 DEF Inv, UsedOK
    <3> QED BY Zenon, <3>1, <1>2 DEF Served
  <2> HIDE DEF f
  <2> QED BY Zenon, <1>0, <1>1, <2>2, <2>3, <2>4, Room
<1> QED BY <1>3, <1>4

(* The device takes the first chain of the avail ring. *)
LEMMA FetchStep ==
  ASSUME Inv, device_fetch
  PROVE  Inv'
<1> USE DEF Inv, device_fetch, driver, caller
<1>0. /\ seen \in 0 .. IDX - 1 /\ avail_idx \in 0 .. IDX - 1 /\ nAvail \in Nat /\ nAvail > 0
      /\ Avail(0) \in Desc /\ Avail(0) = avail_ring[seen % NUM]
  BY SMTT(30), Indices, ConstantsAssumption
<1>1. nAvail' + 1 = nAvail /\ seen' \in 0 .. IDX - 1 BY Zenon, <1>0, LagLo DEF nAvail
<1>2. \A k \in Nat : Avail(k)' = Avail(k + 1) BY Zenon, <1>0, SlotNext DEF Avail
<1>3. work' = work \cup {Avail(0)} BY <1>0
<1>4. \A i : Waiting(i)' = Waiting(i) /\ Served(i)' = Served(i) BY Zenon DEF Waiting, Served, Submitted
<1> HIDE DEF device_fetch
<1>5. nAvail' \in Nat /\ \A k \in Nat : k < nAvail' => k + 1 \in Nat /\ k + 1 < nAvail
  <2>1. nAvail' \in Nat
    <3>1. seen' \in 0 .. IDX - 1 /\ avail_idx' \in 0 .. IDX - 1 BY <1>0, <1>1 DEF device_fetch
    <3>2. nAvail' \in 0 .. IDX - 1 BY <3>1, LagType, Zenon DEF nAvail
    <3> QED BY <3>2, ConstantsAssumption
  <2> HIDE DEF Inv
  <2> QED BY <1>1, <2>1
<1>6. TypeOK' BY SMTT(30), <1>0, <1>1, <1>3 DEF TypeOK, device_fetch
<1>7. AvailOK'
  <2>1. ASSUME NEW k \in Nat, k < nAvail' PROVE Waiting(Avail(k))' /\ Avail(k)' \notin work'
    <3>1. k + 1 \in Nat /\ k + 1 < nAvail /\ 0 < k + 1 BY <1>5, <2>1
    <3>2. Waiting(Avail(k + 1)) /\ Avail(k + 1) \notin work BY <3>1 DEF AvailOK
    <3>3. Avail(0) # Avail(k + 1) BY <3>1 DEF AvailOK
    <3>4. Waiting(Avail(k))' BY <3>2, <1>2, <1>4
    <3> QED BY <3>2, <3>3, <3>4, <1>2, <1>3
  <2>2. ASSUME NEW k \in Nat, NEW l \in Nat, k < l, l < nAvail' PROVE Avail(k)' # Avail(l)'
    <3>1. k + 1 \in Nat /\ l + 1 \in Nat /\ k + 1 < l + 1 /\ l + 1 < nAvail BY <1>5, <2>2
    <3>2. Avail(k + 1) # Avail(l + 1) BY <3>1 DEF AvailOK
    <3> QED BY <3>2, <1>2
  <2> QED BY <2>1, <2>2 DEF AvailOK
<1>8. WorkOK'
  <2>1. Waiting(Avail(0)) BY <1>0 DEF AvailOK
  <2> QED BY <2>1, <1>3, <1>4 DEF WorkOK
<1>9. UsedOK' BY Zenon, <1>4 DEF UsedOK, nUsed, Used, device_fetch
<1>10. RoomOK' BY <1>0, <1>1, <1>5, ConstantsAssumption DEF RoomOK, nUsed, device_fetch
<1>11. LockOK' /\ SleepOK' BY Zenon DEF LockOK, SleepOK, Free, device_fetch
<1>12. ChainOK' /\ ChainsApart' /\ NoneLost'
  BY Zenon, ChainsKept DEF InFlight, Submitted, device_fetch
<1>13. MovedOK' BY Zenon DEF MovedOK, InFlight, Submitted, device_fetch
<1> QED BY <1>6, <1>7, <1>8, <1>9, <1>10, <1>11, <1>12, <1>13

(* The device moves the data of the request, between its own block and its   *)
(* own buffer, and returns the chain with a good status.                     *)
LEMMA CompleteEffect ==
  ASSUME Inv, NEW i \in Desc, device_complete(i)
  PROVE  \E b \in Bufs :
           /\ Submitted(b) /\ busy[b] /\ head[b] = i /\ moved[b] = <<>>
           /\ moved' = [moved EXCEPT ![b] = <<<<rw[b], b>>>>]
           /\ info' = [info EXCEPT ![i].status = 0]
<1>1. PICK b \in Bufs : Submitted(b) /\ busy[b] /\ head[b] = i /\ moved[b] = <<>>
  BY Zenon DEF Inv, WorkOK, Waiting, device_complete
<1>2. /\ desc[Second(b)].addr = <<"data", b>> /\ desc[Third(b)].addr = <<"status", i>>
      /\ desc[i].addr = <<"op", i>> /\ desc[Third(b)].write /\ desc[Second(b)].write = (rw[b] = "read")
      /\ ops[i] = [type |-> rw[b], sector |-> b]
  <2>1. ChainMade(b) BY <1>1 DEF Inv, ChainOK, InFlight
  <2> QED BY Zenon, <1>1, <2>1 DEF ChainMade
<1>3. desc[i].next = Second(b) /\ desc[Second(b)].next = Third(b) BY Zenon, <1>1 DEF Second, Third
<1> DEFINE d1 == desc[desc[i].next]
           d2 == desc[d1.next]
           op == ops[desc[i].addr[2]]
<1>4. /\ moved' = [moved EXCEPT ![d1.addr[2]] = Append(@, <<op.type, op.sector>>)]
      /\ info' = [info EXCEPT ![d2.addr[2]].status =
                     IF d2.write /\ d1.write = (op.type = "read") THEN 0 ELSE 255]
  BY Zenon DEF device_complete
<1>5. /\ d1.addr[2] = b /\ d2.addr[2] = i /\ op.type = rw[b] /\ op.sector = b
      /\ d2.write /\ d1.write = (rw[b] = "read")
  BY <1>2, <1>3
<1> HIDE DEF d1, d2, op
<1>6. Append(moved[b], <<rw[b], b>>) = <<<<rw[b], b>>>> BY <1>1
<1>7. moved' = [moved EXCEPT ![b] = <<<<rw[b], b>>>>] BY Zenon, <1>4, <1>5, <1>6
<1>8. info' = [info EXCEPT ![i].status = 0] BY <1>4, <1>5
<1> QED BY Zenon, <1>1, <1>7, <1>8

(* The chain the device completes becomes the last entry of the used ring. *)
LEMMA CompleteStep ==
  ASSUME Inv, NEW i \in Desc, device_complete(i)
  PROVE  Inv'
<1>0. /\ used_idx \in 0 .. IDX - 1 /\ used_idx_dev \in 0 .. IDX - 1 /\ nUsed \in 0 .. NUM - 1 /\ nUsed \in Nat
      /\ IDX >= NUM /\ NUM \in Nat /\ IDX \in Nat
  BY Indices, ConstantsAssumption
<1>1. PICK b \in Bufs : /\ Submitted(b) /\ busy[b] /\ head[b] = i /\ moved[b] = <<>>
                        /\ moved' = [moved EXCEPT ![b] = <<<<rw[b], b>>>>]
                        /\ info' = [info EXCEPT ![i].status = 0]
  BY CompleteEffect
<1>2. /\ UNCHANGED <<free, desc, ops, avail_ring, avail_idx, used_idx, busy, vdisk_lock, seen, caller>>
      /\ used_ring' = [used_ring EXCEPT ![used_idx_dev % NUM] = i]
      /\ used_idx_dev' = (used_idx_dev + 1) % IDX
      /\ irq' = TRUE /\ work' = work \ {i}
  BY Zenon DEF device_complete
<1> USE DEF Inv, caller
<1>3. /\ \A j \in Desc : info'[j].b = info[j].b /\ (info[j].status = 0 => info'[j].status = 0)
      /\ info'[i].status = 0
  BY <1>1 DEF TypeOK
<1>4. /\ moved'[b] = <<<<rw[b], b>>>> /\ \A c \in Bufs \ {b} : moved'[c] = moved[c]
      /\ <<<<rw[b], b>>>> # <<>>
  BY <1>1 DEF TypeOK
<1>5. \A c \in Bufs : head[c] \in Desc /\ Submitted(c)' = Submitted(c) /\ InFlight(c)' = InFlight(c)
  BY Zenon, <1>2 DEF TypeOK, Submitted, InFlight
<1>6. \A c \in Bufs \ {b} : Submitted(c) => head[c] # i
  BY Zenon, <1>1 DEF ChainsApart, Owned, InFlight
<1>7. \A j : Waiting(j) /\ j # i => Waiting(j)' BY <1>1, <1>2, <1>4, <1>5 DEF Waiting
<1>8. \A j : Served(j) => Served(j)' /\ j # i
  <2> SUFFICES ASSUME NEW j, Served(j) PROVE Served(j)' /\ j # i OBVIOUS
  <2>1. PICK c \in Bufs : /\ Submitted(c) /\ busy[c] /\ head[c] = j
                          /\ moved[c] = <<<<rw[c], c>>>> /\ info[j].status = 0
    BY Zenon DEF Served
  <2>2. c # b BY Zenon, <1>1, <1>4, <2>1
  <2>3. j \in Desc /\ j # i BY ZenonT(30), <1>5, <1>6, <2>1, <2>2
  <2>4. Submitted(c)' /\ busy'[c] /\ head'[c] = j /\ moved'[c] = <<<<rw'[c], c>>>> /\ info'[j].status = 0
    BY Zenon, <1>2, <1>3, <1>4, <1>5, <2>1, <2>2, <2>3
  <2> QED BY Zenon, <2>3, <2>4 DEF Served
<1>9. Served(i)' BY <1>1, <1>2, <1>3, <1>4, <1>5 DEF Served
<1>10. nUsed + 3 <= NUM
  <2>1. \A k \in Nat : k < nUsed => Used(k) # head[b] BY <1>1, <1>8 DEF UsedOK
  <2>2. InFlight(b) BY <1>1 DEF InFlight
  <2> QED BY <2>1, <2>2, RoomLeft
<1>11. nUsed' = nUsed + 1 /\ used_idx_dev' \in 0 .. IDX - 1
  <2>1. Lag(used_idx_dev, used_idx) + 1 < IDX BY <1>0, <1>10 DEF nUsed
  <2> QED BY Zenon, <2>1, <1>0, <1>2, LagHi DEF nUsed
<1>12. /\ \A k \in Nat : k < nUsed => Used(k)' = Used(k)
       /\ \A k \in Nat : k = nUsed => Used(k)' = i
  <2>1. used_idx_dev % NUM = Slot(used_idx, nUsed) BY <1>0, SlotTop, Zenon DEF nUsed
  <2>2. used_idx \in Nat /\ nUsed < NUM BY <1>0
  <2>3. \A k \in Nat : k < nUsed => Slot(used_idx, k) # Slot(used_idx, nUsed) BY <1>0, <2>2, SlotApart
  <2>4. used_ring' = [used_ring EXCEPT ![Slot(used_idx, nUsed)] = i] BY <1>2, <2>1, Zenon
  <2>5. Slot(used_idx, nUsed) \in Desc /\ \A k \in Nat : Slot(used_idx, k) \in Desc BY <1>0, <2>2, SlotType
  <2>6. used_ring \in [Desc -> Desc] /\ used_idx' = used_idx BY Zenon, <1>2 DEF TypeOK
  <2> QED BY <2>3, <2>4, <2>5, <2>6 DEF Used
<1>13. TypeOK'
  <2>1. used_ring' \in [Desc -> Desc] BY Zenon, <1>2 DEF TypeOK
  <2>2. moved' \in [Bufs -> Seq({"read", "write"} \X Bufs)]
    <3>1. <<rw[b], b>> \in {"read", "write"} \X Bufs BY ZenonT(30) DEF TypeOK
    <3>2. <<<<rw[b], b>>>> \in Seq({"read", "write"} \X Bufs) BY <3>1
    <3> QED BY <1>1, <3>2 DEF TypeOK
  <2>3. info' \in [Desc -> [b : Bufs \cup {None}, status : {0, 255}]]
    <3>1. info \in [Desc -> [b : Bufs \cup {None}, status : {0, 255}]] BY Zenon DEF TypeOK
    <3> HIDE DEF Inv
    <3> QED BY <1>1, <3>1
  <2>4. {avail_idx', used_idx', used_idx_dev', seen'} \subseteq 0 .. IDX - 1
    <3>1. {avail_idx, used_idx, used_idx_dev, seen} \subseteq 0 .. IDX - 1 BY Zenon DEF TypeOK
    <3>2. avail_idx' = avail_idx /\ used_idx' = used_idx /\ seen' = seen BY <1>2, Zenon
    <3> QED BY <1>11, <3>1, <3>2, Zenon
  <2>5. irq' \in BOOLEAN /\ work' \in SUBSET Desc BY Zenon, <1>2 DEF TypeOK
  <2> QED BY Zenon, <1>2, <2>1, <2>2, <2>3, <2>4, <2>5 DEF TypeOK
<1>14. UsedOK'
  <2>1. ASSUME NEW k \in Nat, k < nUsed' PROVE Served(Used(k))'
    <3>1. CASE k = nUsed BY <3>1, <1>9, <1>12
    <3>2. CASE k < nUsed
      <4>1. Served(Used(k)) BY <3>2 DEF UsedOK
      <4> QED BY <3>2, <4>1, <1>8, <1>12
    <3> QED BY <1>0, <1>11, <2>1, <3>1, <3>2
  <2>2. ASSUME NEW k \in Nat, NEW l \in Nat, k < l, l < nUsed' PROVE Used(k)' # Used(l)'
    <3>0. k < nUsed BY <1>0, <1>11, <2>2
    <3>1. CASE l = nUsed
      <4>1. Served(Used(k)) BY <3>0 DEF UsedOK
      <4> QED BY <3>0, <3>1, <4>1, <1>8, <1>12
    <3>2. CASE l < nUsed BY Zenon, <2>2, <3>0, <3>2, <1>12 DEF UsedOK
    <3> QED BY <1>0, <1>11, <2>2, <3>1, <3>2
  <2> QED BY Zenon, <2>1, <2>2 DEF UsedOK
<1>15. AvailOK'
  <2>1. nAvail' = nAvail /\ \A k : Avail(k)' = Avail(k) BY Zenon, <1>2 DEF nAvail, Avail
  <2>2. i \in work BY Zenon DEF device_complete
  <2> QED BY ZenonT(30), <1>2, <1>7, <2>1, <2>2 DEF AvailOK
<1>16. WorkOK' BY Zenon, <1>2, <1>7 DEF WorkOK
<1>17. RoomOK' BY <1>0, <1>2, <1>10, <1>11 DEF RoomOK, nAvail
<1>18. LockOK' /\ SleepOK' BY Zenon, <1>2 DEF LockOK, SleepOK, Free
<1>19. ChainOK' /\ ChainsApart' /\ NoneLost' BY Zenon, <1>2, <1>3, <1>5, ChainsKept
<1>20. MovedOK' BY <1>1, <1>2, <1>4, <1>5 DEF MovedOK, InFlight, Submitted
<1> QED BY <1>13, <1>14, <1>15, <1>16, <1>17, <1>18, <1>19, <1>20

(* The handler ends the request of the first entry it has not seen.          *)
LEMMA EntryStep ==
  ASSUME Inv, intr_entry
  PROVE  Inv'
<1>0. /\ used_idx \in 0 .. IDX - 1 /\ used_idx_dev \in 0 .. IDX - 1 /\ nUsed \in Nat /\ nUsed > 0 /\ nUsed < NUM /\ NUM \in Nat
      /\ Used(0) \in Desc /\ Used(0) = used_ring[used_idx % NUM] /\ used_idx # used_idx_dev
  <2>1. used_idx # used_idx_dev BY Zenon DEF intr_entry
  <2>2. Used(0) \in Desc /\ Used(0) = used_ring[used_idx % NUM] BY Indices, 0 \in Nat, Zenon
  <2> QED BY <2>1, <2>2, Indices, ConstantsAssumption
<1>1. Served(Used(0)) BY Zenon, <1>0 DEF Inv, UsedOK
<1>2. PICK b \in Bufs : /\ Submitted(b) /\ busy[b] /\ head[b] = Used(0)
                        /\ moved[b] = <<<<rw[b], b>>>>
  BY Zenon, <1>1 DEF Served
<1>3. info[Used(0)].b = b
  <2>1. ChainMade(b) BY Zenon, <1>2 DEF Inv, ChainOK, InFlight
  <2> QED BY ZenonT(30), <1>2, <2>1 DEF ChainMade
<1>4. /\ busy' = [busy EXCEPT ![b] = FALSE]
      /\ pc' = [pc EXCEPT ![b] = IF @ = "asleep_buf" THEN "wait" ELSE @]
  BY <1>0, <1>3, Zenon DEF intr_entry
<1>5. /\ used_idx' = (used_idx + 1) % IDX
      /\ UNCHANGED <<free, desc, ops, info, avail_ring, avail_idx, vdisk_lock, device, rw, head>>
      /\ vdisk_lock = Intr
  BY Zenon DEF intr_entry
<1> USE DEF Inv, device
<1>6. nUsed' + 1 = nUsed /\ used_idx' \in 0 .. IDX - 1 BY Zenon, <1>0, <1>5, LagLo DEF nUsed
<1>7. nUsed' \in Nat
  <2>1. used_idx' \in 0 .. IDX - 1 /\ used_idx_dev' \in 0 .. IDX - 1 BY Zenon, <1>0, <1>5, <1>6
  <2>2. nUsed' \in 0 .. IDX - 1 BY <2>1, LagType, Zenon DEF nUsed
  <2> QED BY <2>2, ConstantsAssumption
<1>8. \A k \in Nat : Used(k)' = Used(k + 1) BY Zenon, <1>0, <1>5, SlotNext DEF Used
<1>9. /\ ~busy'[b] /\ \A c \in Bufs \ {b} : busy'[c] = busy[c] /\ pc'[c] = pc[c]
      /\ \A c \in Bufs : Submitted(c)' = Submitted(c) /\ InFlight(c)' = InFlight(c)
      /\ pc'[b] = "wait" /\ pc' \in [Bufs -> PCs] /\ busy' \in [Bufs -> BOOLEAN]
  <2>1. pc \in [Bufs -> PCs] /\ busy \in [Bufs -> BOOLEAN] BY Zenon DEF TypeOK
  <2> QED BY <2>1, <1>2, <1>4 DEF Submitted, InFlight, PCs
<1>10. \A c \in Bufs \ {b} : Submitted(c) => head[c] # head[b]
  BY Zenon, <1>2 DEF ChainsApart, Owned, InFlight
<1>11. \A j : Served(j) /\ j # Used(0) => Served(j)' BY ZenonT(30), <1>2, <1>5, <1>9 DEF Served
<1>12. \A j : Waiting(j) => Waiting(j)'
  <2>1. <<<<rw[b], b>>>> # <<>> OBVIOUS
  <2> QED BY ZenonT(30), <2>1, <1>2, <1>5, <1>9 DEF Waiting
<1>13. UsedOK'
  <2>0. \A k \in Nat : k < nUsed' => k + 1 \in Nat /\ k + 1 < nUsed /\ 0 < k + 1
    <3> HIDE DEF Inv
    <3> QED BY <1>6, <1>7
  <2>1. ASSUME NEW k \in Nat, k < nUsed' PROVE Served(Used(k))'
    <3>1. Served(Used(k + 1)) /\ Used(0) # Used(k + 1) BY Zenon, <2>0, <2>1 DEF UsedOK
    <3> QED BY ZenonT(30), <3>1, <1>8, <1>11
  <2>2. ASSUME NEW k \in Nat, NEW l \in Nat, k < l, l < nUsed' PROVE Used(k)' # Used(l)'
    <3>1. k + 1 \in Nat /\ l + 1 \in Nat /\ k + 1 < l + 1 /\ l + 1 < nUsed BY <2>0, <2>2
    <3>2. Used(k + 1) # Used(l + 1) BY Zenon, <3>1 DEF UsedOK
    <3> QED BY Zenon, <3>2, <1>8
  <2> QED BY Zenon, <2>1, <2>2 DEF UsedOK
<1>14. nAvail' = nAvail /\ \A k : Avail(k)' = Avail(k) BY Zenon, <1>5 DEF nAvail, Avail
<1>15. AvailOK' /\ WorkOK' BY Zenon, <1>5, <1>12, <1>14 DEF AvailOK, WorkOK
<1>16. RoomOK'
  <2>1. nUsed' < NUM
    <3>1. nUsed \in Nat /\ nUsed < NUM /\ NUM \in Nat /\ nUsed' + 1 = nUsed BY Zenon, <1>0, <1>6
    <3>2. \A m, n \in Nat : m + 1 = n /\ n < NUM => m < NUM BY <3>1
    <3> QED BY Zenon, <1>7, <3>1, <3>2
  <2> QED BY Zenon, <2>1, <1>14 DEF RoomOK
<1>17. TypeOK'
  <2>1. UNCHANGED <<free, desc, ops, info, avail_ring, avail_idx, vdisk_lock, device, rw, head>> BY <1>5, Zenon
  <2>2. {avail_idx', used_idx', used_idx_dev', seen'} \subseteq 0 .. IDX - 1
    <3>1. {avail_idx, used_idx, used_idx_dev, seen} \subseteq 0 .. IDX - 1 BY Zenon DEF TypeOK
    <3>2. avail_idx' = avail_idx /\ used_idx_dev' = used_idx_dev /\ seen' = seen BY <2>1, Zenon
    <3> QED BY <1>6, <3>1, <3>2, Zenon
  <2> QED BY <1>9, <2>1, <2>2, Zenon DEF TypeOK
<1>18. LockOK' BY ZenonT(30), <1>2, <1>5, <1>9 DEF LockOK, Submitted
<1>19. SleepOK' BY ZenonT(30), <1>5, <1>9 DEF SleepOK, Free
<1>20. ChainOK' /\ ChainsApart' /\ NoneLost' BY ZenonT(30), <1>5, <1>9, ChainsKept
<1>21. MovedOK' BY Zenon, <1>2, <1>5, <1>9 DEF MovedOK, InFlight, Submitted
<1> QED BY <1>13, <1>15, <1>16, <1>17, <1>18, <1>19, <1>20, <1>21

=============================================================================
