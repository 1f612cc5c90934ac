---------------------------- MODULE BlockDevice ----------------------------
(***************************************************************************)
(* What virtio_disk_rw() promises to the buffer cache: every request is    *)
(* served exactly once, in the direction asked for and for its own block,  *)
(* before the call returns.                                                *)
(***************************************************************************)
CONSTANTS Bufs

VARIABLES
  request,    \* what the caller has asked for, "none" between calls
  served      \* whether the transfer has been made

Init ==
  /\ request = [b \in Bufs |-> "none"]
  /\ served = [b \in Bufs |-> FALSE]

Submit(b, dir) ==
  /\ request[b] = "none"
  /\ request' = [request EXCEPT ![b] = dir]
  /\ UNCHANGED served

Serve(b) ==
  /\ request[b] # "none" /\ ~served[b]
  /\ served' = [served EXCEPT ![b] = TRUE]
  /\ UNCHANGED request

Return(b) ==
  /\ served[b]
  /\ request' = [request EXCEPT ![b] = "none"]
  /\ served' = [served EXCEPT ![b] = FALSE]

Next ==
  \E b \in Bufs :
    \/ \E dir \in {"read", "write"} : Submit(b, dir)
    \/ Serve(b)
    \/ Return(b)

Spec == Init /\ [][Next]_<<request, served>>
=============================================================================
