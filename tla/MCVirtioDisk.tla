---------------------------- MODULE MCVirtioDisk ----------------------------
EXTENDS VirtioDisk

CONSTANTS b1, b2, b3
MCBufs == {b1, b2, b3}
MCRequests == {<<b1, "read">>, <<b1, "write">>, <<b2, "write">>, <<b3, "read">>}

(* Ring entries that nobody will read before they are overwritten, and the  *)
(* request blocks of free descriptors, do not tell states apart.            *)
Between(i, j) == {(i + k) % NUM : k \in 0 .. ((j + IDX - i) % IDX) - 1}
Pending == Between(seen, avail_idx) \cup IF \E b \in Bufs : pc[b] = "publish" THEN {avail_idx % NUM} ELSE {}
View ==
  <<free, desc, [i \in Desc |-> IF free[i] THEN <<>> ELSE <<ops[i], info[i]>>],
    [i \in Pending |-> avail_ring[i]], avail_idx,
    [i \in Between(used_idx, used_idx_dev) |-> used_ring[i]], used_idx_dev, used_idx,
    busy, vdisk_lock, irq, seen, work, moved, pc, rw, head>>
=============================================================================
