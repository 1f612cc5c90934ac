---------------------------- MODULE BoundedFifo ----------------------------
(* What a pipe promises about data: bytes come out in the order in which    *)
(* they went in, each once, and at most Capacity of them wait inside.       *)
EXTENDS Naturals, Sequences

CONSTANTS Bytes, Capacity

VARIABLE queue

Init == queue = <<>>

Put(c) ==
  /\ Len(queue) < Capacity
  /\ queue' = Append(queue, c)

Get ==
  /\ queue # <<>>
  /\ queue' = Tail(queue)

Spec == Init /\ [][(\E c \in Bytes : Put(c)) \/ Get]_queue
=============================================================================
