-------------------------- MODULE VirtioDiskProofs --------------------------
(***************************************************************************)
(* QueueSound of module VirtioDisk, and that VirtioDisk implements         *)
(* BlockDevice, for any number of buffers and descriptors.                 *)
(***************************************************************************)
EXTENDS VirtioDiskLemmas

(* A chain whose descriptors and records are left alone stays as it was made. *)
LEMMA MadeKept ==
  ASSUME NEW c, ChainMade(c),
         rw'[c] = rw[c], head'[c] = head[c], Second(c)' = Second(c), Third(c)' = Third(c),
         desc'[head[c]] = desc[head[c]], desc'[Second(c)] = desc[Second(c)], desc'[Third(c)] = desc[Third(c)],
         ops'[head[c]] = ops[head[c]], info'[head[c]] = info[head[c]],
         free'[head[c]] = free[head[c]], free'[Second(c)] = free[Second(c)], free'[Third(c)] = free[Third(c)]
  PROVE  ChainMade(c)'
BY SMTT(30) DEF ChainMade

(* The chain of b becomes the last entry of the avail ring. *)
LEMMA PublishStep ==
  ASSUME Inv, NEW b \in Bufs, rw_publish(b)
  PROVE  Inv'
<1>0. /\ seen \in 0 .. IDX - 1 /\ avail_idx \in 0 .. IDX - 1 /\ nAvail \in 0 .. NUM - 1 /\ nAvail \in Nat
      /\ IDX >= NUM /\ NUM \in Nat /\ IDX \in Nat
  BY Indices, ConstantsAssumption
<1>1. /\ pc[b] = "publish" /\ pc' = [pc EXCEPT ![b] = "asleep_buf"] /\ vdisk_lock' = None
      /\ avail_idx' = (avail_idx + 1) % IDX
      /\ UNCHANGED <<free, desc, ops, info, avail_ring, used_idx, busy, device, rw, head>>
  BY DEF rw_publish, Goto
<1> USE DEF Inv, device
<1>2. moved[b] = <<>> /\ busy[b] /\ avail_ring[avail_idx % NUM] = head[b] /\ vdisk_lock = b
  BY <1>1 DEF MovedOK, LockOK
<1>3. /\ pc' \in [Bufs -> PCs] /\ pc'[b] = "asleep_buf" /\ \A c \in Bufs \ {b} : pc'[c] = pc[c]
      /\ \A c \in Bufs : InFlight(c)' = InFlight(c) /\ (Submitted(c)' <=> Submitted(c) \/ c = b)
      /\ InFlight(b) /\ ~Submitted(b)
  <2>1. pc \in [Bufs -> PCs] BY DEF TypeOK
  <2> QED BY <2>1, <1>1 DEF InFlight, Submitted, PCs
<1>4. \A c \in Bufs : Submitted(c) => head[c] # head[b]
  BY Zenon, <1>3 DEF ChainsApart, Owned, InFlight
<1>5. \A j : Waiting(j) => Waiting(j)' /\ j # head[b] BY <1>1, <1>3, <1>4 DEF Waiting
<1>6. \A j : Served(j) => Served(j)' BY <1>1, <1>3 DEF Served
<1>7. Waiting(head[b])' BY <1>1, <1>2, <1>3 DEF Waiting
<1>8. nAvail + 3 <= NUM BY <1>3, <1>5, RoomLeft DEF AvailOK
<1>9. nAvail' = nAvail + 1 /\ avail_idx' \in 0 .. IDX - 1
  <2>1. Lag(avail_idx, seen) + 1 < IDX BY <1>0, <1>8 DEF nAvail
  <2> QED BY <2>1, <1>0, <1>1, LagHi DEF nAvail
<1>10. /\ \A k \in Nat : k < nAvail => Avail(k)' = Avail(k)
       /\ \A k \in Nat : k = nAvail => Avail(k)' = head[b]
  <2>1. avail_idx % NUM = Slot(seen, nAvail) BY <1>0, SlotTop, Zenon DEF nAvail
  <2>2. avail_ring[Slot(seen, nAvail)] = head[b] BY <1>2, <2>1, Zenon
  <2> QED BY <1>1, <2>2 DEF Avail
<1>11. AvailOK'
  <2>0. work' = work /\ head' = head BY <1>1
  <2>1. ASSUME NEW k \in Nat, k < nAvail' PROVE Waiting(Avail(k))' /\ Avail(k)' \notin work'
    <3>1. CASE k = nAvail
      <4>1. head[b] \notin work BY <1>5 DEF WorkOK
      <4> QED BY <2>0, <3>1, <4>1, <1>7, <1>10
    <3>2. CASE k < nAvail
      <4>1. Waiting(Avail(k)) /\ Avail(k) \notin work BY <3>2 DEF AvailOK
      <4> QED BY <2>0, <3>2, <4>1, <1>5, <1>10
    <3> QED BY <1>0, <1>9, <2>1, <3>1, <3>2
  <2>2. ASSUME NEW k \in Nat, NEW l \in Nat, k < l, l < nAvail' PROVE Avail(k)' # Avail(l)'
    <3>0. k < nAvail BY <1>0, <1>9, <2>2
    <3>1. CASE l = nAvail
      <4>1. Waiting(Avail(k)) BY <3>0 DEF AvailOK
      <4> QED BY <3>0, <3>1, <4>1, <1>5, <1>10
    <3>2. CASE l < nAvail BY <2>2, <3>0, <3>2, <1>10 DEF AvailOK
    <3> QED BY <1>0, <1>9, <2>2, <3>1, <3>2
  <2> QED BY <2>1, <2>2 DEF AvailOK
<1>12. nUsed' = nUsed /\ \A k : Used(k)' = Used(k) BY <1>1 DEF nUsed, Used
<1>13. WorkOK' BY <1>1, <1>5 DEF WorkOK
<1>14. UsedOK' BY <1>6, <1>12 DEF UsedOK
<1>15. RoomOK' BY <1>0, <1>8, <1>9, <1>12 DEF RoomOK
<1>16. TypeOK'
  <2>1. UNCHANGED <<free, desc, ops, info, avail_ring, used_idx, busy, device, rw, head>> /\ vdisk_lock' = None
    BY <1>1, Zenon
  <2>2. {avail_idx', used_idx', used_idx_dev', seen'} \subseteq 0 .. IDX - 1 BY <1>9, <2>1 DEF TypeOK
  <2> QED BY <1>3, <2>1, <2>2, Zenon DEF TypeOK
<1>17. LockOK' BY Zenon, <1>1, <1>2, <1>3, ConstantsAssumption DEF LockOK
<1>18. SleepOK' BY Zenon, <1>1, <1>2, <1>3, ConstantsAssumption DEF SleepOK, Free
<1>19. ChainOK' /\ ChainsApart' /\ NoneLost' BY <1>1, <1>3, ChainsKept
<1>20. MovedOK'
  <2>1. \A c \in Bufs : pc'[c] # "publish" BY Zenon, <1>2, <1>3 DEF LockOK
  <2> QED BY Zenon, <2>1, <1>1, <1>2, <1>3 DEF MovedOK
<1> QED BY <1>11, <1>13, <1>14, <1>15, <1>16, <1>17, <1>18, <1>19, <1>20

(* free_chain() visits the three descriptors of a request. *)
LEMMA ChainIs ==
  ASSUME Inv, NEW b \in Bufs, InFlight(b)
  PROVE  Chain(head[b]) = Owned(b) /\ Owned(b) \subseteq Desc /\ \A i \in Owned(b) : ~free[i]
<1>1. head[b] \in Desc /\ \A i \in Desc : desc[i].next \in Desc BY Zenon DEF Inv, TypeOK
<1>2. Second(b) \in Desc /\ Third(b) \in Desc BY Zenon, <1>1 DEF Second, Third
<1>3. desc[head[b]].more /\ desc[Second(b)].more /\ \A i \in Owned(b) : ~free[i]
  <2>1. ChainMade(b) BY DEF Inv, ChainOK
  <2> QED BY Zenon, <2>1 DEF ChainMade, Owned
<1>4. Chain(head[b]) = {head[b]} \cup ({Second(b)} \cup {Third(b)}) BY <1>3 DEF Chain, Second, Third
<1> QED BY Zenon, <1>1, <1>2, <1>3, <1>4 DEF Owned

(* A new chain is made of free descriptors, so it touches no other.          *)
LEMMA FormatStep ==
  ASSUME Inv, NEW b \in Bufs, rw_format(b)
  PROVE  Inv'
<1> DEFINE i0 == alloc_desc(Free)
           i1 == alloc_desc(Free \ {i0})
           i2 == alloc_desc(Free \ {i0, i1})
<1>1. i0 \in Free /\ i1 \in Free /\ i2 \in Free /\ i0 # i1 /\ i0 # i2 /\ i1 # i2
  <2>1. Free \in SUBSET Desc /\ Cardinality(Free) >= 3 BY Zenon DEF Free, rw_format
  <2> QED BY <2>1, Alloc3
<1>2. /\ pc[b] = "alloc" /\ vdisk_lock = None
      /\ pc' = [pc EXCEPT ![b] = "publish"] /\ vdisk_lock' = b /\ busy' = [busy EXCEPT ![b] = TRUE]
      /\ UNCHANGED <<avail_idx, used_idx, device, rw>>
  BY Zenon DEF rw_format, Goto
<1>3. /\ free' = [free EXCEPT ![i0] = FALSE, ![i1] = FALSE, ![i2] = FALSE]
      /\ ops' = [ops EXCEPT ![i0] = [type |-> rw[b], sector |-> b]]
      /\ info' = [info EXCEPT ![i0] = [b |-> b, status |-> 255]]
      /\ avail_ring' = [avail_ring EXCEPT ![avail_idx % NUM] = i0]
      /\ head' = [head EXCEPT ![b] = i0]
  BY Zenon DEF rw_format
<1>4. desc' = [desc EXCEPT
         ![i0] = [addr |-> <<"op", i0>>, next |-> i1, more |-> TRUE, write |-> FALSE],
         ![i1] = [addr |-> <<"data", b>>, next |-> i2, more |-> TRUE, write |-> rw[b] = "read"],
         ![i2] = [addr |-> <<"status", i0>>, next |-> 0, more |-> FALSE, write |-> TRUE]]
  BY Zenon DEF rw_format
<1> HIDE DEF i0, i1, i2
<1> USE DEF Inv, device
<1>5. i0 \in Desc /\ i1 \in Desc /\ i2 \in Desc /\ free[i0] /\ free[i1] /\ free[i2] BY Zenon, <1>1 DEF Free
<1>6. /\ free' \in [Desc -> BOOLEAN]
      /\ ops' \in [Desc -> [type : {"read", "write"}, sector : Bufs \cup {None}]]
      /\ info' \in [Desc -> [b : Bufs \cup {None}, status : {0, 255}]]
      /\ head' \in [Bufs -> Desc] /\ busy' \in [Bufs -> BOOLEAN]
      /\ avail_ring' \in [Desc -> Desc]
  BY Zenon, <1>2, <1>3, <1>5 DEF TypeOK
<1>7. desc' \in [Desc -> [addr : Addrs, next : Desc, more : BOOLEAN, write : BOOLEAN]]
  <2>1. /\ <<"op", i0>> \in Addrs /\ <<"data", b>> \in Addrs /\ <<"status", i0>> \in Addrs /\ 0 \in Desc
    BY <1>5, ConstantsAssumption DEF Addrs, Desc
  <2>2. desc \in [Desc -> [addr : Addrs, next : Desc, more : BOOLEAN, write : BOOLEAN]] BY Zenon DEF TypeOK
  <2> HIDE DEF Inv
  <2> QED BY <1>4, <1>5, <2>1, <2>2, Zenon
<1>8. /\ pc' \in [Bufs -> PCs] /\ pc'[b] = "publish" /\ \A c \in Bufs \ {b} : pc'[c] = pc[c]
      /\ ~InFlight(b) /\ InFlight(b)' /\ \A c \in Bufs \ {b} : InFlight(c)' = InFlight(c)
      /\ \A c \in Bufs : Submitted(c)' = Submitted(c)
      /\ \A c \in Bufs : Submitted(c) => InFlight(c) /\ c # b
  <2>1. pc \in [Bufs -> PCs] BY DEF TypeOK
  <2> QED BY <2>1, <1>2 DEF InFlight, Submitted, PCs
<1>9. /\ desc'[i0] = [addr |-> <<"op", i0>>, next |-> i1, more |-> TRUE, write |-> FALSE]
      /\ desc'[i1] = [addr |-> <<"data", b>>, next |-> i2, more |-> TRUE, write |-> rw[b] = "read"]
      /\ desc'[i2] = [addr |-> <<"status", i0>>, next |-> 0, more |-> FALSE, write |-> TRUE]
      /\ \A i \in Desc \ {i0, i1, i2} : desc'[i] = desc[i]
  <2>1. desc \in [Desc -> [addr : Addrs, next : Desc, more : BOOLEAN, write : BOOLEAN]] BY DEF TypeOK
  <2> HIDE DEF Inv
  <2> QED BY Zenon, <1>1, <1>4, <1>5, <2>1
<1>10. /\ ~free'[i0] /\ ~free'[i1] /\ ~free'[i2] /\ \A i \in Desc \ {i0, i1, i2} : free'[i] = free[i]
       /\ head'[b] = i0 /\ \A c \in Bufs \ {b} : head'[c] = head[c] /\ busy'[c] = busy[c]
       /\ busy'[b]
       /\ ops'[i0] = [type |-> rw[b], sector |-> b] /\ info'[i0].b = b
       /\ \A i \in Desc \ {i0} : ops'[i] = ops[i] /\ info'[i] = info[i]
  <2>1. DOMAIN free = Desc /\ DOMAIN head = Bufs /\ DOMAIN busy = Bufs /\ DOMAIN ops = Desc /\ DOMAIN info = Desc
    BY Zenon DEF TypeOK
  <2>2. /\ free' = [i \in Desc |-> IF i \in {i0, i1, i2} THEN FALSE ELSE free[i]]
        /\ head' = [c \in Bufs |-> IF c = b THEN i0 ELSE head[c]]
        /\ busy' = [c \in Bufs |-> IF c = b THEN TRUE ELSE busy[c]]
    <3> HIDE DEF Inv
    <3>1. head' = [c \in Bufs |-> IF c = b THEN i0 ELSE head[c]] BY Zenon, <1>3, <2>1
    <3>2. busy' = [c \in Bufs |-> IF c = b THEN TRUE ELSE busy[c]] BY Zenon, <1>2, <2>1
    <3>3. free' = [i \in Desc |-> IF i \in {i0, i1, i2} THEN FALSE ELSE free[i]] BY Zenon, <1>3, <1>5, <2>1
    <3> QED BY Zenon, <3>1, <3>2, <3>3
  <2>3. /\ ops'[i0] = [type |-> rw[b], sector |-> b] /\ info'[i0].b = b
        /\ \A i \in Desc \ {i0} : ops'[i] = ops[i] /\ info'[i] = info[i]
    <3> HIDE DEF Inv
    <3> QED BY Zenon, <1>3, <1>5, <2>1
  <2> HIDE DEF Inv
  <2> QED BY <1>5, <2>2, <2>3
<1>11. \A c \in Bufs : InFlight(c) => Owned(c) \subseteq Desc /\ Owned(c) \cap {i0, i1, i2} = {}
  BY <1>5, ChainIs
<1>12. ASSUME NEW c \in Bufs, c # b, InFlight(c)
       PROVE  /\ head'[c] = head[c] /\ Second(c)' = Second(c) /\ Third(c)' = Third(c) /\ Owned(c)' = Owned(c)
              /\ \A i \in Owned(c) : i \in Desc \ {i0, i1, i2}
  <2>1. \A i \in Owned(c) : i \in Desc \ {i0, i1, i2} BY <1>11, <1>12
  <2>2. head[c] \in Owned(c) /\ Second(c) \in Owned(c) BY DEF Owned
  <2>3. head'[c] = head[c] BY <1>10, <1>12
  <2>4. Second(c)' = Second(c) BY Zenon, <1>9, <2>1, <2>2, <2>3 DEF Second
  <2>5. Third(c)' = Third(c) BY Zenon, <1>9, <2>1, <2>2, <2>4 DEF Third
  <2> QED BY Zenon, <2>1, <2>3, <2>4, <2>5 DEF Owned
<1>13. Second(b)' = i1 /\ Third(b)' = i2 /\ Owned(b)' = {i0, i1, i2} BY <1>9, <1>10 DEF Second, Third, Owned
<1>14. ChainOK'
  <2>1. ASSUME NEW c \in Bufs, c # b, InFlight(c) PROVE ChainMade(c)'
    <3>1. /\ head[c] \in Desc \ {i0, i1, i2} /\ Second(c) \in Desc \ {i0, i1, i2}
          /\ Third(c) \in Desc \ {i0, i1, i2}
      BY Zenon, <2>1, <1>12 DEF Owned
    <3>2. /\ desc'[head[c]] = desc[head[c]] /\ desc'[Second(c)] = desc[Second(c)]
          /\ desc'[Third(c)] = desc[Third(c)] /\ ops'[head[c]] = ops[head[c]] /\ info'[head[c]] = info[head[c]]
          /\ free'[head[c]] = free[head[c]] /\ free'[Second(c)] = free[Second(c)] /\ free'[Third(c)] = free[Third(c)]
      BY ZenonT(30), <3>1, <1>9, <1>10
    <3>3. ChainMade(c) BY <2>1 DEF ChainOK
    <3>4. rw'[c] = rw[c] /\ head'[c] = head[c] /\ Second(c)' = Second(c) /\ Third(c)' = Third(c) BY Zenon, <1>2, <1>12, <2>1
    <3> QED BY <3>2, <3>3, <3>4, MadeKept, Zenon
  <2>2. ChainMade(b)'
    <3> HIDE DEF Inv
    <3>1. rw' = rw BY <1>2, Zenon
    <3> QED BY SMTT(30), <1>1, <1>9, <1>10, <1>13, <3>1 DEF ChainMade
  <2> QED BY <1>8, <2>1, <2>2 DEF ChainOK
<1>15. ChainsApart' BY <1>8, <1>12, <1>13 DEF ChainsApart
<1>16. NoneLost'
  <2>1. ASSUME NEW i \in Desc PROVE free'[i] \/ \E c \in Bufs : InFlight(c)' /\ i \in Owned(c)'
    <3>1. CASE i \in {i0, i1, i2} BY Zenon, <3>1, <1>8, <1>13
    <3>2. CASE i \notin {i0, i1, i2} /\ ~free[i]
      <4>1. PICK c \in Bufs : InFlight(c) /\ i \in Owned(c) BY <3>2 DEF NoneLost
      <4> QED BY Zenon, <4>1, <1>8, <1>12
    <3> QED BY Zenon, <3>1, <3>2, <1>10
  <2> QED BY Zenon, <2>1 DEF NoneLost
<1>17. /\ \A c \in Bufs \ {b} : Submitted(c) => head'[c] = head[c] BY Zenon, <1>10
<1>18. \A j : Waiting(j) => Waiting(j)'
  <2> HIDE DEF Inv
  <2>1. moved' = moved BY <1>2, Zenon
  <2> QED BY <1>8, <1>10, <2>1 DEF Waiting
<1>19. \A j : Served(j) => Served(j)'
  <2> SUFFICES ASSUME NEW j, Served(j) PROVE Served(j)' OBVIOUS
  <2>1. PICK c \in Bufs : /\ Submitted(c) /\ busy[c] /\ head[c] = j
                          /\ moved[c] = <<<<rw[c], c>>>> /\ info[j].status = 0
    BY Zenon DEF Served
  <2>2. c # b /\ InFlight(c) BY Zenon, <2>1, <1>8
  <2>3. j \in Desc \ {i0} /\ head'[c] = j BY Zenon, <2>1, <2>2, <1>12 DEF Owned
  <2>4. info'[j] = info[j] BY Zenon, <2>3, <1>10
  <2> HIDE DEF Inv
  <2>5. moved' = moved /\ rw' = rw BY <1>2, Zenon
  <2> QED BY <2>1, <2>2, <2>3, <2>4, <2>5, <1>8, <1>10, Zenon DEF Served
<1>20. /\ \A k \in Nat : k < nAvail => Avail(k)' = Avail(k)
       /\ avail_ring'[avail_idx' % NUM] = i0
  <2>0. seen \in 0 .. IDX - 1 /\ avail_idx \in 0 .. IDX - 1 /\ nAvail \in Nat /\ nAvail < NUM /\ seen \in Nat
    BY Indices, ConstantsAssumption
  <2>1. avail_idx % NUM = Slot(seen, nAvail) BY <2>0, SlotTop, Zenon DEF nAvail
  <2>2. \A k \in Nat : k < nAvail => Slot(seen, k) # Slot(seen, nAvail) BY <2>0, SlotApart
  <2>3. Slot(seen, nAvail) \in Desc /\ \A k \in Nat : Slot(seen, k) \in Desc BY <2>0, SlotType
  <2>4. avail_ring' = [avail_ring EXCEPT ![Slot(seen, nAvail)] = i0] BY <1>3, <2>1, Zenon
  <2>5. avail_ring \in [Desc -> Desc] /\ seen' = seen /\ avail_idx' = avail_idx BY Zenon, <1>2 DEF TypeOK
  <2>6. avail_ring'[Slot(seen, nAvail)] = i0 BY <2>3, <2>4, <2>5
  <2>7. avail_ring'[avail_idx' % NUM] = i0 BY <2>1, <2>5, <2>6, Zenon
  <2> QED BY Zenon, <2>2, <2>3, <2>4, <2>5, <2>7 DEF Avail
<1>21. nAvail' = nAvail /\ nUsed' = nUsed /\ \A k : Used(k)' = Used(k) BY <1>2 DEF nAvail, nUsed, Used
<1>22. AvailOK'
  <2>1. nAvail \in Nat /\ work' = work BY <1>2, Indices, ConstantsAssumption
  <2>2. \A k, l \in Nat : k < l /\ l < nAvail => k < nAvail BY <2>1
  <2> QED BY Zenon, <1>18, <1>20, <1>21, <2>1, <2>2 DEF AvailOK
<1>23. WorkOK' BY <1>2, <1>18 DEF WorkOK
<1>24. UsedOK' BY <1>19, <1>21 DEF UsedOK
<1>25. RoomOK' BY <1>21 DEF RoomOK
<1>26. TypeOK' BY Zenon, <1>2, <1>6, <1>7, <1>8 DEF TypeOK
<1>27. LockOK' BY Zenon, <1>2, <1>8, ConstantsAssumption DEF LockOK
<1>28. MovedOK'
  <2>1. \A c \in Bufs \ {b} : pc[c] # "publish" BY Zenon, <1>2, ConstantsAssumption DEF LockOK
  <2>2. moved[b] = <<>> BY Zenon, <1>8 DEF MovedOK
  <2>3. MovedOK OBVIOUS
  <2> HIDE DEF Inv
  <2>4. moved' = moved /\ rw' = rw BY <1>2, Zenon
  <2>5. ASSUME NEW c \in Bufs \ {b}
        PROVE  /\ InFlight(c)' = InFlight(c) /\ Submitted(c)' = Submitted(c) /\ busy'[c] = busy[c]
               /\ moved'[c] = moved[c] /\ rw'[c] = rw[c] /\ pc'[c] # "publish"
    BY <1>8, <1>10, <2>1, <2>4, <2>5, Zenon
  <2>6. /\ InFlight(b)' /\ ~Submitted(b)' /\ moved'[b] = <<>> /\ busy'[b] /\ avail_ring'[avail_idx' % NUM] = head'[b]
    BY <1>8, <1>10, <1>20, <2>2, <2>4, Zenon
  <2> QED BY <2>3, <2>5, <2>6, Zenon DEF MovedOK
<1>29. SleepOK'
  <2>1. Free' \subseteq Free BY Zenon, <1>10 DEF Free
  <2>2. IsFiniteSet(Free) /\ Cardinality(Free') <= Cardinality(Free)
    <3>1. Free \in SUBSET Desc BY DEF Free
    <3>2. IsFiniteSet(Free) BY <3>1, DescFinite, FS_Subset
    <3> QED BY <2>1, <3>2, FS_Subset
  <2>3. IsFiniteSet(Free') BY <2>1, <2>2, FS_Subset
  <2>4. Cardinality(Free') \in Nat /\ Cardinality(Free) \in Nat BY <2>2, <2>3, FS_CardinalityType
  <2>5. Cardinality(Free) >= 3 BY Zenon DEF rw_format
  <2>6. \A c \in Bufs : pc'[c] # "asleep_free" BY <1>8, <2>4, <2>5 DEF SleepOK
  <2>7. \A c \in Bufs : pc'[c] = "asleep_buf" => busy'[c]
    <3>1. ASSUME NEW c \in Bufs \ {b}, pc'[c] = "asleep_buf" PROVE busy'[c]
      <4>1. pc[c] = "asleep_buf" /\ busy'[c] = busy[c] BY Zenon, <3>1, <1>8, <1>10
      <4> QED BY <4>1, Zenon DEF SleepOK
    <3> QED BY Zenon, <3>1, <1>8
  <2>8. used_idx' # used_idx_dev' => irq' BY <1>2, ConstantsAssumption DEF SleepOK
  <2> QED BY Zenon, <2>6, <2>7, <2>8 DEF SleepOK
<1> QED BY <1>14, <1>15, <1>16, <1>22, <1>23, <1>24, <1>25, <1>26, <1>27, <1>28, <1>29

(* The chain of b goes back; all others stay. *)
LEMMA DoneStep ==
  ASSUME Inv, NEW b \in Bufs, rw_done(b)
  PROVE  Inv'
<1>1. pc[b] = "wait" /\ vdisk_lock = None /\ ~busy[b] BY DEF rw_done, Finished
<1>2. Submitted(b) /\ InFlight(b) BY <1>1 DEF Submitted, InFlight
<1>3. Chain(head[b]) = Owned(b) /\ Owned(b) \subseteq Desc /\ \A i \in Owned(b) : ~free[i] BY <1>2, ChainIs
<1>4. /\ info' = [info EXCEPT ![head[b]].b = None]
      /\ free' = [i \in Desc |-> free[i] \/ i \in Owned(b)]
      /\ desc' = [i \in Desc |-> IF i \in Owned(b) THEN NoDesc ELSE desc[i]]
      /\ WakeupFree(b, "idle")
      /\ moved' = [moved EXCEPT ![b] = <<>>]
      /\ rw' = [rw EXCEPT ![b] = "read"] /\ head' = [head EXCEPT ![b] = 0]
      /\ UNCHANGED <<vdisk_lock, ops, avail_ring, avail_idx, used_idx, busy, used_ring, used_idx_dev, irq, seen, work>>
  BY <1>3 DEF rw_done
<1> USE DEF Inv
<1>5. /\ pc' \in [Bufs -> PCs] /\ pc'[b] = "idle"
      /\ \A c \in Bufs \ {b} : pc'[c] = pc[c] \/ (pc[c] = "asleep_free" /\ pc'[c] = "alloc")
      /\ \A c \in Bufs : pc'[c] # "asleep_free"
  <2>1. pc \in [Bufs -> PCs] BY DEF TypeOK
  <2> QED BY <2>1, <1>4 DEF WakeupFree, PCs
<1>6. /\ ~InFlight(b)' /\ ~Submitted(b)'
      /\ \A c \in Bufs \ {b} : /\ InFlight(c)' = InFlight(c) /\ Submitted(c)' = Submitted(c)
                               /\ (pc'[c] = "publish") = (pc[c] = "publish")
  BY <1>5 DEF InFlight, Submitted
<1>7. /\ \A c \in Bufs \ {b} : head'[c] = head[c] /\ rw'[c] = rw[c] /\ moved'[c] = moved[c]
      /\ moved'[b] = <<>>
  BY SMTT(30), <1>4 DEF TypeOK
<1>8. /\ \A i \in Desc \ Owned(b) : desc'[i] = desc[i] /\ free'[i] = free[i] /\ info'[i] = info[i]
      /\ \A i \in Owned(b) : free'[i]
  <2>1. head[b] \in Owned(b) BY DEF Owned
  <2>2. info \in [Desc -> [b : Bufs \cup {None}, status : {0, 255}]] /\ head[b] \in Desc BY DEF TypeOK
  <2>3. \A i \in Desc \ Owned(b) : info'[i] = info[i] BY <1>4, <2>1, <2>2
  <2>4. \A i \in Desc \ Owned(b) : desc'[i] = desc[i] BY <1>4
  <2>5. free \in [Desc -> BOOLEAN] BY Zenon DEF TypeOK
  <2>6. /\ \A i \in Desc \ Owned(b) : free'[i] = free[i]
        /\ \A i \in Owned(b) : free'[i]
    BY Zenon, <1>3, <1>4, <2>5
  <2> QED BY <2>3, <2>4, <2>6
<1>9. ASSUME NEW c \in Bufs, c # b, InFlight(c)
      PROVE  /\ head'[c] = head[c] /\ Second(c)' = Second(c) /\ Third(c)' = Third(c) /\ Owned(c)' = Owned(c)
             /\ \A i \in Owned(c) : i \in Desc \ Owned(b)
  <2>1. Owned(c) \subseteq Desc BY <1>9, ChainIs
  <2>2. Owned(c) \cap Owned(b) = {} BY <1>2, <1>9 DEF ChainsApart
  <2>3. head[c] \in Owned(c) /\ Second(c) \in Owned(c) BY DEF Owned
  <2>4. head'[c] = head[c] BY <1>7, <1>9
  <2>5. Second(c)' = Second(c) BY Zenon, <1>8, <2>1, <2>2, <2>3, <2>4 DEF Second
  <2>6. Third(c)' = Third(c) BY Zenon, <1>8, <2>1, <2>2, <2>3, <2>5 DEF Third
  <2> QED BY Zenon, <2>1, <2>2, <2>4, <2>5, <2>6 DEF Owned
<1>10. ChainOK'
  <2>1. ASSUME NEW c \in Bufs, c # b, InFlight(c) PROVE ChainMade(c)'
    <3>1. /\ head[c] \in Desc \ Owned(b) /\ Second(c) \in Desc \ Owned(b) /\ Third(c) \in Desc \ Owned(b)
      BY Zenon, <2>1, <1>9 DEF Owned
    <3>2. /\ desc'[head[c]] = desc[head[c]] /\ desc'[Second(c)] = desc[Second(c)]
          /\ desc'[Third(c)] = desc[Third(c)] /\ ops'[head[c]] = ops[head[c]] /\ info'[head[c]] = info[head[c]]
          /\ free'[head[c]] = free[head[c]] /\ free'[Second(c)] = free[Second(c)] /\ free'[Third(c)] = free[Third(c)]
      BY <3>1, <1>4, <1>8
    <3>3. ChainMade(c) BY <2>1 DEF ChainOK
    <3>4. rw'[c] = rw[c] /\ head'[c] = head[c] /\ Second(c)' = Second(c) /\ Third(c)' = Third(c) BY Zenon, <1>7, <1>9, <2>1
    <3> QED BY <3>2, <3>3, <3>4, MadeKept, Zenon
  <2> QED BY Zenon, <1>6, <2>1 DEF ChainOK
<1>11. ChainsApart' BY Zenon, <1>6, <1>9 DEF ChainsApart
<1>12. NoneLost'
  <2>1. ASSUME NEW i \in Desc PROVE free'[i] \/ \E c \in Bufs : InFlight(c)' /\ i \in Owned(c)'
    <3>1. CASE i \in Owned(b) BY Zenon, <3>1, <1>8
    <3>2. CASE i \notin Owned(b) /\ ~free[i]
      <4>1. PICK c \in Bufs : InFlight(c) /\ i \in Owned(c) BY <3>2 DEF NoneLost
      <4> QED BY Zenon, <3>2, <4>1, <1>6, <1>9
    <3> QED BY Zenon, <3>1, <3>2, <1>8
  <2> QED BY <2>1 DEF NoneLost
<1>13. \A j : Waiting(j) => Waiting(j)' BY <1>1, <1>4, <1>6, <1>7 DEF Waiting
<1>14. \A j : Served(j) => Served(j)'
  <2> SUFFICES ASSUME NEW j, Served(j) PROVE Served(j)' OBVIOUS
  <2>1. PICK c \in Bufs : /\ Submitted(c) /\ busy[c] /\ head[c] = j
                          /\ moved[c] = <<<<rw[c], c>>>> /\ info[j].status = 0
    BY DEF Served
  <2>2. c # b /\ InFlight(c) BY <1>1, <2>1 DEF InFlight
  <2>3. j \in Desc \ Owned(b) /\ head'[c] = j BY Zenon, <2>1, <2>2, <1>9 DEF Owned
  <2>4. info'[j] = info[j] BY Zenon, <2>3, <1>8
  <2> QED BY <2>1, <2>2, <2>3, <2>4, <1>4, <1>6, <1>7 DEF Served
<1>15. /\ nAvail' = nAvail /\ nUsed' = nUsed /\ \A k : Avail(k)' = Avail(k) /\ Used(k)' = Used(k)
  BY <1>4 DEF nAvail, nUsed, Avail, Used
<1>16. AvailOK' /\ WorkOK' /\ UsedOK' BY <1>4, <1>13, <1>14, <1>15 DEF AvailOK, WorkOK, UsedOK
<1>17. RoomOK' BY <1>15 DEF RoomOK
<1>18. TypeOK'
  <2>1. NoDesc \in [addr : Addrs, next : Desc, more : BOOLEAN, write : BOOLEAN]
    BY ConstantsAssumption DEF NoDesc, Addrs, Desc
  <2>2. desc' \in [Desc -> [addr : Addrs, next : Desc, more : BOOLEAN, write : BOOLEAN]]
    BY <1>4, <2>1 DEF TypeOK
  <2>3. free' \in [Desc -> BOOLEAN] BY <1>4 DEF TypeOK
  <2>4. info' \in [Desc -> [b : Bufs \cup {None}, status : {0, 255}]]
    <3>1. info \in [Desc -> [b : Bufs \cup {None}, status : {0, 255}]] BY Zenon DEF TypeOK
    <3>2. info' = [info EXCEPT ![head[b]].b = None] /\ head[b] \in Desc BY Zenon, <1>4 DEF TypeOK
    <3> HIDE DEF Inv
    <3> QED BY <3>1, <3>2
  <2>5. moved' \in [Bufs -> Seq({"read", "write"} \X Bufs)] BY <1>4 DEF TypeOK
  <2>6. rw' \in [Bufs -> {"read", "write"}] /\ head' \in [Bufs -> Desc]
    <3>1. rw \in [Bufs -> {"read", "write"}] /\ head \in [Bufs -> Desc] BY Zenon DEF TypeOK
    <3>2. 0 \in Desc BY ConstantsAssumption DEF Desc
    <3> QED BY <1>4, <3>1, <3>2
  <2> QED BY <1>4, <1>5, <2>2, <2>3, <2>4, <2>5, <2>6 DEF TypeOK
<1>19. LockOK' BY <1>1, <1>4, <1>5, <1>6, ConstantsAssumption DEF LockOK
<1>20. SleepOK' BY <1>4, <1>5, <1>6 DEF SleepOK
<1>21. MovedOK'
  <2>1. \A c \in Bufs : pc'[c] # "publish" BY Zenon, <1>1, <1>5, <1>6, ConstantsAssumption DEF LockOK
  <2> QED BY <2>1, <1>1, <1>4, <1>6, <1>7 DEF MovedOK
<1> QED BY <1>10, <1>11, <1>12, <1>16, <1>17, <1>18, <1>19, <1>20, <1>21

-----------------------------------------------------------------------------
(* virtio_disk_init() establishes the invariant. *)
LEMMA InitInv == Init => Inv
<1> SUFFICES ASSUME Init PROVE Inv OBVIOUS
<1>0. 0 \in Desc /\ 0 \in 0 .. IDX - 1 BY ConstantsAssumption DEF Desc
<1>1. TypeOK
  <2>1. NoDesc \in [addr : Addrs, next : Desc, more : BOOLEAN, write : BOOLEAN]
    BY Zenon, <1>0 DEF NoDesc, Addrs
  <2>2. <<>> \in Seq({"read", "write"} \X Bufs) OBVIOUS
  <2> QED BY Zenon, <1>0, <2>1, <2>2 DEF Init, TypeOK, PCs
<1>2. \A b \in Bufs : ~InFlight(b) /\ ~Submitted(b) /\ pc[b] = "idle" BY Zenon DEF Init, InFlight, Submitted
<1>3. nAvail = 0 /\ nUsed = 0 BY Zenon, <1>0, LagType DEF Init, nAvail, nUsed
<1>4. LockOK BY Zenon, <1>2, ConstantsAssumption DEF Init, LockOK
<1>5. ChainOK /\ ChainsApart BY <1>2 DEF ChainOK, ChainsApart
<1>6. NoneLost /\ MovedOK BY Zenon, <1>2 DEF Init, NoneLost, MovedOK
<1>7. AvailOK /\ WorkOK /\ UsedOK BY <1>3 DEF Init, AvailOK, WorkOK, UsedOK
<1>8. RoomOK BY <1>3, ConstantsAssumption DEF RoomOK
<1>9. SleepOK BY Zenon, <1>2 DEF Init, SleepOK
<1> QED BY <1>1, <1>4, <1>5, <1>6, <1>7, <1>8, <1>9 DEF Inv

(* Every step of the callers, the handler and the device keeps it. *)
LEMMA InvStep ==
  ASSUME Inv, [Next]_vars
  PROVE  Inv'
<1>1. CASE UNCHANGED vars
  <2> USE <1>1 DEF vars, driver, device, caller
  <2>1. TypeOK' /\ LockOK' BY Zenon DEF Inv, TypeOK, LockOK
  <2>2. SleepOK' BY Zenon DEF Inv, SleepOK, Free
  <2>3. \A b \in Bufs : InFlight(b)' = InFlight(b) /\ Submitted(b)' = Submitted(b) BY Zenon DEF InFlight, Submitted
  <2> QED BY Zenon, <2>1, <2>2, <2>3, Quiet DEF Inv
<1>2. ASSUME NEW b \in Bufs, NEW dir \in {"read", "write"}, rw_call(b, dir) PROVE Inv'
  BY Zenon, <1>2, QuietStep
<1>3. ASSUME NEW b \in Bufs, Step(b) PROVE Inv'
  BY <1>3, QuietStep, FormatStep, PublishStep, DoneStep DEF Step
<1>4. ASSUME NEW b \in Bufs, kill(b) PROVE Inv' BY <1>4, QuietStep
<1>5. CASE intr_ack \/ intr_end BY <1>5, QuietStep
<1>6. CASE intr_entry BY <1>6, EntryStep
<1>7. CASE device_fetch BY <1>7, FetchStep
<1>8. ASSUME NEW i \in Desc, device_complete(i) PROVE Inv' BY <1>8, CompleteStep
<1> QED BY <1>1, <1>2, <1>3, <1>4, <1>5, <1>6, <1>7, <1>8 DEF Next

(* So it always holds. *)
LEMMA InvInvariant == Spec => []Inv
BY InitInv, InvStep, PTL DEF Spec

(* For any number of buffers and of descriptors: no descriptor is lost or    *)
(* given twice, free_desc() never panics, the handler finds each chain the   *)
(* device returns recorded and served, and no wakeup is missed.              *)
THEOREM QueueSoundInvariant == Spec => []QueueSound
<1>1. ASSUME Inv PROVE QueueSound
  <2> USE <1>1
  <2>1. \A b \in Bufs : InFlight(b) => Chain(head[b]) = Owned(b) /\ Owned(b) \subseteq Desc /\ \A i \in Owned(b) : ~free[i]
    BY ChainIs
  <2>2. \A b \in Bufs : InFlight(b) => Cardinality(Chain(head[b])) = 3 /\ info[head[b]].b = b
    <3> SUFFICES ASSUME NEW b \in Bufs, InFlight(b) PROVE Cardinality(Chain(head[b])) = 3 /\ info[head[b]].b = b
      OBVIOUS
    <3>1. ChainMade(b) BY Zenon DEF Inv, ChainOK
    <3>2. Cardinality({head[b], Second(b), Third(b)}) = 3 BY <3>1, Three, Zenon DEF ChainMade
    <3> QED BY Zenon, <2>1, <3>1, <3>2 DEF Owned, ChainMade
  <2>3. \A b, c \in Bufs : InFlight(b) /\ InFlight(c) /\ b # c => Chain(head[b]) \cap Chain(head[c]) = {}
    BY <2>1 DEF Inv, ChainsApart
  <2>4. Free = Desc \ UNION {Chain(head[b]) : b \in {c \in Bufs : InFlight(c)}}
    <3> DEFINE U == UNION {Chain(head[b]) : b \in {c \in Bufs : InFlight(c)}}
    <3>1. \A i \in Desc : i \in U <=> \E b \in Bufs : InFlight(b) /\ i \in Owned(b) BY <2>1
    <3> HIDE DEF U
    <3>2. \A i \in Desc : free[i] <=> i \notin U BY Zenon, <2>1, <3>1 DEF Inv, NoneLost
    <3>3. Free = Desc \ U BY <3>2 DEF Free
    <3> QED BY <3>3 DEF U
  <2>5. \A b \in Bufs : pc[b] # "panic" BY Zenon DEF Inv, LockOK
  <2>6. used_idx # used_idx_dev =>
          LET id == used_ring[used_idx % NUM] IN info[id].status = 0 /\ info[id].b # None
    <3> SUFFICES ASSUME used_idx # used_idx_dev
                 PROVE  info[Used(0)].status = 0 /\ info[Used(0)].b # None
      BY Zenon, Indices
    <3>1. Served(Used(0)) BY Indices, ConstantsAssumption DEF Inv, UsedOK
    <3>2. PICK b \in Bufs : Submitted(b) /\ head[b] = Used(0) /\ info[Used(0)].status = 0 BY Zenon, <3>1 DEF Served
    <3>3. info[head[b]].b = b BY Zenon, <2>2, <3>2 DEF InFlight
    <3> QED BY Zenon, <3>2, <3>3, ConstantsAssumption
  <2>7. SleeperNotMissed BY ConstantsAssumption DEF Inv, SleepOK, SleeperNotMissed
  <2> QED BY Zenon, <2>2, <2>3, <2>4, <2>5, <2>6, <2>7 DEF QueueSound, DescriptorsOwned, Inv
<1> QED BY <1>1, InvInvariant, PTL

-----------------------------------------------------------------------------
(* IsBlockDevice *)

(* What the refinement mapping makes of a state *)
Request == [b \in Bufs |-> IF Submitted(b) THEN rw[b] ELSE "none"]
Done    == [b \in Bufs |-> moved[b] = <<<<rw[b], b>>>>]

(* A step that submits, serves and returns nothing is a stuttering step. *)
LEMMA DeviceStutter ==
  ASSUME Inv,
         \A b \in Bufs : /\ Submitted(b)' = Submitted(b)
                         /\ (rw'[b] = rw[b] \/ (~Submitted(b) /\ moved[b] = <<>>))
                         /\ moved'[b] = moved[b]
  PROVE  Request' = Request /\ Done' = Done
<1>1. \A b \in Bufs : (IF Submitted(b) THEN rw[b] ELSE "none")' = (IF Submitted(b) THEN rw[b] ELSE "none")
  OBVIOUS
<1>2. \A b \in Bufs : (moved[b] = <<<<rw[b], b>>>>)' = (moved[b] = <<<<rw[b], b>>>>)
  <2>1. \A x : <<x>> # <<>> OBVIOUS
  <2> QED BY ZenonT(30), <2>1
<1>3. Request' = Request BY <1>1, Zenon DEF Request
<1>4. Done' = Done BY <1>2, Zenon DEF Done
<1> QED BY Zenon, <1>3, <1>4

(* Every step of the driver and the device is one of BlockDevice, or none. *)
LEMMA DeviceStep ==
  ASSUME Inv, Inv', [Next]_vars
  PROVE  Device!Next \/ UNCHANGED <<Request, Done>>
<1> USE DEF driver, device, caller
<1>0. /\ pc \in [Bufs -> PCs] /\ rw \in [Bufs -> {"read", "write"}]
      /\ moved \in [Bufs -> Seq({"read", "write"} \X Bufs)]
  BY Zenon DEF Inv, TypeOK
<1>1. CASE UNCHANGED vars BY Zenon, <1>1, DeviceStutter DEF vars, Submitted
<1>2. ASSUME NEW b \in Bufs, NEW dir \in {"read", "write"}, rw_call(b, dir) PROVE UNCHANGED <<Request, Done>>
  <2>1. /\ pc[b] = "idle" /\ rw' = [rw EXCEPT ![b] = dir] /\ pc' = [pc EXCEPT ![b] = "alloc"] /\ moved' = moved
    BY Zenon, <1>2 DEF rw_call, Goto
  <2>2. ~Submitted(b) /\ moved[b] = <<>> BY Zenon, <2>1 DEF Inv, MovedOK, InFlight, Submitted
  <2>3. \A c \in Bufs : Submitted(c)' = Submitted(c) /\ (c # b => rw'[c] = rw[c])
    BY <1>0, <2>1 DEF Submitted
  <2> QED BY Zenon, <2>1, <2>2, <2>3, DeviceStutter
<1>3. ASSUME NEW b \in Bufs, rw_nodesc(b) \/ rw_format(b) \/ rw_again(b) \/ kill(b) PROVE UNCHANGED <<Request, Done>>
  <2>1. rw' = rw /\ moved' = moved BY Zenon, <1>3 DEF rw_nodesc, rw_format, rw_again, kill
  <2>2. \A c \in Bufs : Submitted(c)' = Submitted(c)
    <3>1. CASE rw_nodesc(b)
      <4>1. pc[b] = "alloc" /\ (Goto(b, "asleep_free") \/ WakeupFree(b, "asleep_free")) BY Zenon, <3>1 DEF rw_nodesc
      <4>2. CASE Goto(b, "asleep_free") BY <1>0, <4>1, <4>2 DEF Goto, Submitted
      <4>3. CASE WakeupFree(b, "asleep_free") BY <1>0, <4>1, <4>3 DEF WakeupFree, Submitted
      <4> QED BY <4>1, <4>2, <4>3
    <3>2. CASE rw_format(b)
      <4>1. pc[b] = "alloc" /\ pc' = [pc EXCEPT ![b] = "publish"] BY Zenon, <3>2 DEF rw_format, Goto
      <4> QED BY <1>0, <4>1 DEF Submitted
    <3>3. CASE rw_again(b) BY <1>0, <3>3 DEF rw_again, Goto, Submitted
    <3>4. CASE kill(b) BY <1>0, <3>4 DEF kill, Goto, Submitted
    <3> QED BY <1>3, <3>1, <3>2, <3>3, <3>4
  <2> QED BY Zenon, <2>1, <2>2, DeviceStutter
<1>4. CASE intr_ack \/ intr_end \/ intr_entry \/ device_fetch
  <2>1. rw' = rw /\ moved' = moved BY Zenon, <1>4 DEF intr_ack, intr_end, intr_entry, device_fetch
  <2>2. \A c \in Bufs : Submitted(c)' = Submitted(c)
    <3>1. CASE intr_ack \/ intr_end \/ device_fetch BY Zenon, <3>1 DEF intr_ack, intr_end, device_fetch, Submitted
    <3>2. CASE intr_entry
      <4>1. PICK b : pc' = [pc EXCEPT ![b] = IF @ = "asleep_buf" THEN "wait" ELSE @] BY Zenon, <3>2 DEF intr_entry
      <4> QED BY <1>0, <4>1 DEF Submitted
    <3> QED BY <1>4, <3>1, <3>2
  <2> QED BY Zenon, <2>1, <2>2, DeviceStutter
<1>5. ASSUME NEW b \in Bufs, rw_publish(b) PROVE Device!Submit(b, rw[b])
  <2>1. pc[b] = "publish" /\ pc' = [pc EXCEPT ![b] = "asleep_buf"] /\ rw' = rw /\ moved' = moved
    BY Zenon, <1>5 DEF rw_publish, Goto
  <2>2. ~Submitted(b) /\ \A c \in Bufs : Submitted(c)' <=> Submitted(c) \/ c = b BY Zenon, <1>0, <2>1 DEF Submitted
  <2>3. Request[b] = "none" /\ Request' = [Request EXCEPT ![b] = rw[b]]
    BY Zenon, <2>1, <2>2 DEF Request
  <2>4. Done' = Done BY Zenon, <2>1 DEF Done
  <2> QED BY Zenon, <2>3, <2>4 DEF Device!Submit, Request, Done
<1>6. ASSUME NEW i \in Desc, device_complete(i) PROVE \E b \in Bufs : Device!Serve(b)
  <2>1. PICK b \in Bufs : /\ Submitted(b) /\ moved[b] = <<>>
                          /\ moved' = [moved EXCEPT ![b] = <<<<rw[b], b>>>>]
    BY <1>6, CompleteEffect
  <2>2. rw' = rw /\ pc' = pc BY Zenon, <1>6 DEF device_complete
  <2>3. Request' = Request /\ Request[b] # "none" BY Zenon, <1>0, <2>1, <2>2 DEF Request, Submitted
  <2>4. ~Done[b] /\ Done' = [Done EXCEPT ![b] = TRUE]
    <3>1. <<<<rw[b], b>>>> # <<>> OBVIOUS
    <3> QED BY Zenon, <1>0, <2>1, <2>2, <3>1 DEF Done
  <2> QED BY Zenon, <2>3, <2>4 DEF Device!Serve, Request, Done
<1>7. ASSUME NEW b \in Bufs, rw_done(b) PROVE Device!Return(b)
  <2>1. pc[b] = "wait" /\ ~busy[b] BY <1>7 DEF rw_done, Finished
  <2>2. Submitted(b) /\ InFlight(b) BY <2>1 DEF Submitted, InFlight
  <2>3. moved[b] = <<<<rw[b], b>>>> BY Zenon, <2>1, <2>2 DEF Inv, MovedOK
  <2>4. \A i \in Chain(head[b]) : ~free[i] BY Zenon, <2>2, ChainIs
  <2>5. /\ moved' = [moved EXCEPT ![b] = <<>>] /\ rw' = [rw EXCEPT ![b] = "read"] /\ WakeupFree(b, "idle")
    BY <1>7, <2>4 DEF rw_done
  <2>6. \A c \in Bufs : Submitted(c)' <=> Submitted(c) /\ c # b BY Zenon, <1>0, <2>5 DEF WakeupFree, Submitted
  <2>7. Request' = [Request EXCEPT ![b] = "none"] BY Zenon, <1>0, <2>5, <2>6 DEF Request
  <2>8. Done[b] /\ Done' = [Done EXCEPT ![b] = FALSE]
    <3>1. <<<<rw'[b], b>>>> # <<>> OBVIOUS
    <3> QED BY Zenon, <1>0, <2>3, <2>5, <3>1 DEF Done
  <2> QED BY Zenon, <2>7, <2>8 DEF Device!Return, Request, Done
<1> QED
  <2>1. ASSUME NEW b \in Bufs, rw_publish(b) PROVE Device!Next
    <3>1. rw[b] \in {"read", "write"} BY <1>0
    <3>2. Device!Submit(b, rw[b]) BY <1>5, <2>1
    <3> QED BY Zenon, <3>1, <3>2 DEF Device!Next, Device!Submit
  <2>2. ASSUME NEW i \in Desc, device_complete(i) PROVE Device!Next BY <1>6, <2>2 DEF Device!Next
  <2>3. ASSUME NEW b \in Bufs, rw_done(b) PROVE Device!Next BY <1>7, <2>3 DEF Device!Next
  <2> QED BY Zenon, <1>1, <1>2, <1>3, <1>4, <2>1, <2>2, <2>3 DEF Next, Step

(* For any number of buffers and of descriptors: virtio_disk_rw() returns    *)
(* after exactly one transfer, in the direction asked for, between its own   *)
(* block and its own buffer.                                                 *)
THEOREM Refinement == Spec => IsBlockDevice
<1>1. Init => Device!Init
  <2> SUFFICES ASSUME Init PROVE Device!Init OBVIOUS
  <2>1. \A b \in Bufs : ~Submitted(b) /\ moved[b] = <<>> BY Zenon DEF Init, Submitted
  <2>2. \A b \in Bufs : (moved[b] = <<<<rw[b], b>>>>) = FALSE
    <3>1. \A x : <<x>> # <<>> OBVIOUS
    <3> QED BY Zenon, <2>1, <3>1
  <2> QED BY Zenon, <2>1, <2>2 DEF Device!Init
<1>2. ASSUME Inv, Inv', [Next]_vars PROVE [Device!Next]_<<Request, Done>>
  BY <1>2, DeviceStep
<1>3. Spec => [][Device!Next]_<<Request, Done>> BY <1>2, InvInvariant, PTL DEF Spec
<1> QED BY <1>1, <1>3, PTL DEF Spec, IsBlockDevice, Device!Spec, Request, Done
=============================================================================
