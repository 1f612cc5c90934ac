----------------------------- MODULE VirtioDisk -----------------------------
(***************************************************************************)
(* The disk driver kernel/virtio_disk.c: descriptors, the avail and used   *)
(* rings, the submitters, the interrupt handler and the device.            *)
(*                                                                         *)
(* A caller of virtio_disk_rw() has its buffer locked, so a request, its   *)
(* process and its buffer are one and the same here.  The device works     *)
(* while vdisk_lock is held; the handler therefore has a step per entry.   *)
(***************************************************************************)
EXTENDS Naturals, Sequences, FiniteSets

CONSTANTS
  Bufs,
  Requests,        \* <<b, rw>>: what is asked of the disk
  None, Intr,      \* no buffer; the interrupt handler, as a holder of the lock
  NUM,             \* the number of descriptors and of ring entries
  IDX              \* 2^16, the modulus of the ring indices

Desc == 0 .. NUM - 1

ASSUME ConstantsAssumption ==
  /\ NUM \in Nat /\ NUM >= 3
  /\ IDX \in Nat /\ IDX >= NUM /\ IDX % NUM = 0
  /\ None \notin Bufs /\ Intr \notin Bufs /\ None # Intr
  /\ IsFiniteSet(Bufs) /\ Requests \subseteq Bufs \X {"read", "write"}

VARIABLES
  free, desc, ops, info,    \* struct disk; desc holds what the code writes into it
  avail_ring, avail_idx,
  used_ring, used_idx_dev,  \* disk.used, written by the device
  used_idx,                 \* how far the driver has looked in it
  busy,                     \* b->disk
  vdisk_lock,
  irq,                      \* the device's interrupt status
  seen, work,               \* the device: avail entries looked at, chains taken
  moved,                    \* what the device has moved for the request of a buffer
  pc, rw,                   \* the caller and whether it reads or writes
  head                      \* its idx[0]

driver == <<free, desc, ops, info, avail_ring, avail_idx, used_idx, busy, vdisk_lock>>
device == <<used_ring, used_idx_dev, irq, seen, work, moved>>
caller == <<pc, rw, head>>
vars   == <<driver, device, caller>>

PCs == {"idle", "alloc", "asleep_free", "publish", "asleep_buf", "wait", "panic"}
NoDesc == [addr |-> <<"null", None>>, next |-> 0, more |-> FALSE, write |-> FALSE]
Addrs == ({"null", "data"} \X (Bufs \cup {None})) \cup ({"op", "status"} \X Desc)

TypeOK ==
  /\ free \in [Desc -> BOOLEAN]
  /\ desc \in [Desc -> [addr : Addrs, next : Desc, more : BOOLEAN, write : BOOLEAN]]
  /\ ops \in [Desc -> [type : {"read", "write"}, sector : Bufs \cup {None}]]
  /\ info \in [Desc -> [b : Bufs \cup {None}, status : {0, 255}]]
  /\ avail_ring \in [Desc -> Desc] /\ used_ring \in [Desc -> Desc]
  /\ {avail_idx, used_idx, used_idx_dev, seen} \subseteq 0 .. IDX - 1
  /\ busy \in [Bufs -> BOOLEAN]
  /\ vdisk_lock \in Bufs \cup {None, Intr}
  /\ irq \in BOOLEAN
  /\ work \in SUBSET Desc
  /\ moved \in [Bufs -> Seq({"read", "write"} \X Bufs)]
  /\ pc \in [Bufs -> PCs]
  /\ rw \in [Bufs -> {"read", "write"}]
  /\ head \in [Bufs -> Desc]

(* After virtio_disk_init(): zeroed rings, all descriptors free. *)
Init ==
  /\ free = [i \in Desc |-> TRUE]
  /\ desc = [i \in Desc |-> NoDesc]
  /\ ops = [i \in Desc |-> [type |-> "read", sector |-> None]]
  /\ info = [i \in Desc |-> [b |-> None, status |-> 0]]
  /\ avail_ring = [i \in Desc |-> 0] /\ avail_idx = 0
  /\ used_ring = [i \in Desc |-> 0] /\ used_idx_dev = 0
  /\ used_idx = 0
  /\ busy = [b \in Bufs |-> FALSE]
  /\ vdisk_lock = None
  /\ irq = FALSE
  /\ seen = 0 /\ work = {}
  /\ moved = [b \in Bufs |-> <<>>]
  /\ pc = [b \in Bufs |-> "idle"]
  /\ rw = [b \in Bufs |-> "read"]
  /\ head = [b \in Bufs |-> 0]

Goto(b, l) == pc' = [pc EXCEPT ![b] = l]
Free == {i \in Desc : free[i]}

(* alloc_desc() takes the first free descriptor. *)
alloc_desc(S) == CHOOSE i \in S : \A j \in S : i <= j

(* wakeup(&disk.free[0]), with the caller b itself going to l *)
WakeupFree(b, l) ==
  pc' = [c \in Bufs |-> IF c = b THEN l
                        ELSE IF pc[c] = "asleep_free" THEN "alloc" ELSE pc[c]]

-----------------------------------------------------------------------------
(* virtio_disk_rw() *)

rw_call(b, dir) ==
  /\ <<b, dir>> \in Requests
  /\ pc[b] = "idle"
  /\ rw' = [rw EXCEPT ![b] = dir]
  /\ Goto(b, "alloc")
  /\ UNCHANGED <<driver, device, head>>

(* alloc3_desc() fails: it gives back what it got, which wakes the others   *)
(* who wait for descriptors, and the caller sleeps.                         *)
rw_nodesc(b) ==
  /\ pc[b] = "alloc" /\ vdisk_lock = None
  /\ Cardinality(Free) < 3
  /\ IF Free = {} THEN Goto(b, "asleep_free") ELSE WakeupFree(b, "asleep_free")
  /\ UNCHANGED <<driver, device, rw, head>>

(* The three descriptors are formatted and the chain is put in the ring, *)
(* where the device does not look yet.                                   *)
rw_format(b) ==
  /\ pc[b] = "alloc" /\ vdisk_lock = None
  /\ Cardinality(Free) >= 3
  /\ LET i0 == alloc_desc(Free)
         i1 == alloc_desc(Free \ {i0})
         i2 == alloc_desc(Free \ {i0, i1})
     IN  /\ free' = [free EXCEPT ![i0] = FALSE, ![i1] = FALSE, ![i2] = FALSE]
         /\ ops' = [ops EXCEPT ![i0] = [type |-> rw[b], sector |-> b]]
         /\ desc' = [desc EXCEPT
              ![i0] = [addr |-> <<"op", i0>>, next |-> i1, more |-> TRUE, write |-> FALSE],
              ![i1] = [addr |-> <<"data", b>>, next |-> i2, more |-> TRUE, write |-> rw[b] = "read"],
              ![i2] = [addr |-> <<"status", i0>>, next |-> 0, more |-> FALSE, write |-> TRUE]]
         /\ info' = [info EXCEPT ![i0] = [b |-> b, status |-> 255]]
         /\ avail_ring' = [avail_ring EXCEPT ![avail_idx % NUM] = i0]
         /\ head' = [head EXCEPT ![b] = i0]
  /\ busy' = [busy EXCEPT ![b] = TRUE]
  /\ vdisk_lock' = b
  /\ Goto(b, "publish")
  /\ UNCHANGED <<avail_idx, used_idx, device, rw>>

(* The new index lets the device see the chain; the caller sleeps on b. *)
rw_publish(b) ==
  /\ pc[b] = "publish"
  /\ avail_idx' = (avail_idx + 1) % IDX
  /\ vdisk_lock' = None
  /\ Goto(b, "asleep_buf")
  /\ UNCHANGED <<free, desc, ops, info, avail_ring, used_idx, busy, device, rw, head>>

(* Fault: whatever wakes the caller is taken for the completion. *)
FinishedAlways(b) == TRUE

Finished(b) == ~busy[b]

(* Woken by something else than the completion of this request. *)
rw_again(b) ==
  /\ pc[b] = "wait" /\ vdisk_lock = None
  /\ ~Finished(b)
  /\ Goto(b, "asleep_buf")
  /\ UNCHANGED <<driver, device, rw, head>>

(* Fault: the last descriptor of a chain is not given back. *)
ChainShort(i) == {i} \cup IF desc[i].more THEN {desc[i].next} ELSE {}

(* The descriptors free_chain(i) visits; the driver makes chains of three. *)
Chain(i) ==
  {i} \cup IF ~desc[i].more THEN {}
           ELSE LET j == desc[i].next
                IN  {j} \cup IF desc[j].more THEN {desc[j].next} ELSE {}

(* free_desc() panics on a free descriptor, without giving the lock back. *)
rw_done(b) ==
  /\ pc[b] = "wait" /\ vdisk_lock = None
  /\ Finished(b)
  /\ IF \E i \in Chain(head[b]) : free[i]
     THEN /\ vdisk_lock' = b
          /\ Goto(b, "panic")
          /\ UNCHANGED <<free, desc, info, moved, rw, head>>
     ELSE /\ info' = [info EXCEPT ![head[b]].b = None]
          /\ free' = [i \in Desc |-> free[i] \/ i \in Chain(head[b])]
          /\ desc' = [i \in Desc |-> IF i \in Chain(head[b]) THEN NoDesc ELSE desc[i]]
          /\ WakeupFree(b, "idle")
          /\ moved' = [moved EXCEPT ![b] = <<>>]
          /\ rw' = [rw EXCEPT ![b] = "read"] /\ head' = [head EXCEPT ![b] = 0]
          /\ UNCHANGED vdisk_lock
  /\ UNCHANGED <<ops, avail_ring, avail_idx, used_idx, busy,
                 used_ring, used_idx_dev, irq, seen, work>>

(* kill() makes any sleeper runnable. *)
kill(b) ==
  /\ pc[b] \in {"asleep_free", "asleep_buf"}
  /\ Goto(b, IF pc[b] = "asleep_free" THEN "alloc" ELSE "wait")
  /\ UNCHANGED <<driver, device, rw, head>>

-----------------------------------------------------------------------------
(* virtio_disk_intr() *)

(* The interrupt is acknowledged before the used ring is read. *)
intr_ack ==
  /\ irq /\ vdisk_lock = None
  /\ vdisk_lock' = Intr
  /\ irq' = FALSE
  /\ UNCHANGED <<free, desc, ops, info, avail_ring, avail_idx, used_idx, busy,
                 used_ring, used_idx_dev, seen, work, moved, caller>>

(* Fault: one look at the ring serves all completions up to now. *)
intr_entrySkips ==
  /\ vdisk_lock = Intr
  /\ used_idx # used_idx_dev
  /\ LET b == info[used_ring[used_idx % NUM]].b
     IN  /\ busy' = [busy EXCEPT ![b] = FALSE]
         /\ pc' = [pc EXCEPT ![b] = IF @ = "asleep_buf" THEN "wait" ELSE @]
  /\ used_idx' = used_idx_dev
  /\ UNCHANGED <<free, desc, ops, info, avail_ring, avail_idx, vdisk_lock, device, rw, head>>

(* A status other than 0 panics: the handler keeps the lock and goes no further. *)
intr_entry ==
  /\ vdisk_lock = Intr
  /\ used_idx # used_idx_dev
  /\ LET id == used_ring[used_idx % NUM]
         b  == info[id].b
     IN  /\ info[id].status = 0
         /\ busy' = [busy EXCEPT ![b] = FALSE]
         /\ pc' = [pc EXCEPT ![b] = IF @ = "asleep_buf" THEN "wait" ELSE @]
  /\ used_idx' = (used_idx + 1) % IDX
  /\ UNCHANGED <<free, desc, ops, info, avail_ring, avail_idx, vdisk_lock, device, rw, head>>

intr_end ==
  /\ vdisk_lock = Intr
  /\ used_idx = used_idx_dev
  /\ vdisk_lock' = None
  /\ UNCHANGED <<free, desc, ops, info, avail_ring, avail_idx, used_idx, busy, device, caller>>

-----------------------------------------------------------------------------
(* The device: it takes chains from the avail ring and completes them in any *)
(* order.                                                                    *)

device_fetch ==
  /\ seen # avail_idx
  /\ work' = work \cup {avail_ring[seen % NUM]}
  /\ seen' = (seen + 1) % IDX
  /\ UNCHANGED <<driver, used_ring, used_idx_dev, irq, moved, caller>>

(* The data is moved between the block the first descriptor names and the  *)
(* buffer the second one does, if that allows the device to write just when *)
(* it is a read; the third says where the status goes.                      *)
device_complete(i) ==
  /\ i \in work
  /\ LET d1 == desc[desc[i].next]
         d2 == desc[d1.next]
         op == ops[desc[i].addr[2]]
     IN  /\ moved' = [moved EXCEPT ![d1.addr[2]] = Append(@, <<op.type, op.sector>>)]
         /\ info' = [info EXCEPT ![d2.addr[2]].status =
                        IF d2.write /\ d1.write = (op.type = "read") THEN 0 ELSE 255]
  /\ used_ring' = [used_ring EXCEPT ![used_idx_dev % NUM] = i]
  /\ used_idx_dev' = (used_idx_dev + 1) % IDX
  /\ irq' = TRUE
  /\ work' = work \ {i}
  /\ UNCHANGED <<free, desc, ops, avail_ring, avail_idx, used_idx, busy, vdisk_lock,
                 seen, caller>>

-----------------------------------------------------------------------------
Step(b) == rw_nodesc(b) \/ rw_format(b) \/ rw_publish(b) \/ rw_again(b) \/ rw_done(b)

Next ==
  \/ \E b \in Bufs :
       \/ \E dir \in {"read", "write"} : rw_call(b, dir)
       \/ Step(b)
       \/ kill(b)
  \/ intr_ack \/ intr_entry \/ intr_end
  \/ device_fetch \/ \E i \in Desc : device_complete(i)

Spec == Init /\ [][Next]_vars

-----------------------------------------------------------------------------
Submitted(b) == pc[b] \in {"asleep_buf", "wait"}

Device == INSTANCE BlockDevice WITH
  request <- [b \in Bufs |-> IF Submitted(b) THEN rw[b] ELSE "none"],
  served  <- [b \in Bufs |-> moved[b] = <<<<rw[b], b>>>>]

(* virtio_disk_rw() returns after exactly one transfer, in the direction     *)
(* asked for, between its own block and its own buffer, whatever the order   *)
(* of completions, the wrap of the indices and the wakeups in between.       *)
IsBlockDevice == Device!Spec

InFlight(b) == pc[b] = "publish" \/ Submitted(b)

(* The chains of the running requests are disjoint, have three descriptors   *)
(* each and are together exactly the descriptors that are not free, so       *)
(* free_desc() never panics and none is lost; and the interrupt handler      *)
(* finds every chain the device returns recorded, with a good status.        *)
DescriptorsOwned ==
  /\ \A b \in Bufs : InFlight(b) => Cardinality(Chain(head[b])) = 3 /\ info[head[b]].b = b
  /\ \A b, c \in Bufs : InFlight(b) /\ InFlight(c) /\ b # c => Chain(head[b]) \cap Chain(head[c]) = {}
  /\ Free = Desc \ UNION {Chain(head[b]) : b \in {c \in Bufs : InFlight(c)}}
  /\ \A b \in Bufs : pc[b] # "panic"
  /\ vdisk_lock = Intr /\ used_idx # used_idx_dev =>
       LET id == used_ring[used_idx % NUM] IN info[id].status = 0 /\ info[id].b # None

(* No wakeup is missed: whenever vdisk_lock is free, who sleeps for          *)
(* descriptors waits for fewer than three free ones, and who sleeps on a     *)
(* buffer waits for a request that has not been completed; and a completion  *)
(* the handler has not seen has an interrupt pending.                        *)
SleeperNotMissed ==
  vdisk_lock = None =>
    /\ \A b \in Bufs : /\ pc[b] = "asleep_free" => Cardinality(Free) < 3
                       /\ pc[b] = "asleep_buf" => busy[b]
    /\ used_idx # used_idx_dev => irq

(* The queue between driver and device: what is lost is neither a descriptor *)
(* nor a completion.                                                         *)
QueueSound == TypeOK /\ DescriptorsOwned /\ SleeperNotMissed

(* A request given to the device returns: the interrupt of its completion is *)
(* not lost even if it is raised while the handler runs.                     *)
RequestReturns == \A b \in Bufs : pc[b] = "asleep_buf" ~> pc[b] = "idle"

(* The device works off what it is given; a CPU that wants vdisk_lock gets   *)
(* it some time, since it is released over and over.                         *)
Fairness ==
  /\ WF_vars(device_fetch) /\ \A i \in Desc : WF_vars(device_complete(i))
  /\ SF_vars(intr_ack) /\ WF_vars(intr_entry \/ intr_end)
  /\ \A b \in Bufs : SF_vars(Step(b))

LiveSpec == Spec /\ Fairness
=============================================================================
