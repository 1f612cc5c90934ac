------------------------------ MODULE Umalloc ------------------------------
(***************************************************************************)
(* malloc() and free() of user programs (user/umalloc.c).                  *)
(*                                                                         *)
(* Addresses and sizes count Headers.  Address 0 is the static header      *)
(* base, below the heap.  A step is one turn of a loop over the free list. *)
(* Fields that no call reads again are dropped: ptr has the blocks of the  *)
(* free list, size has these and the blocks in use.                        *)
(***************************************************************************)
EXTENDS Naturals, FiniteSets, TLC

CONSTANTS
  Requests,     \* the sizes malloc() is asked for, header included
  CHUNK,        \* 4096: what morecore() asks for at least
  LIMIT         \* sbrk() fails above it

VARIABLES
  ptr, size,    \* the fields of the headers
  freep,        \* none before the first call
  brk,
  gaps,         \* units that sbrk() gave to the program itself
  call,         \* the call that runs: a request, or the block being freed
  p, prevp,
  turns         \* the blocks that the loop of the running call has left behind

heap == <<ptr, size, freep, brk, gaps>>
vars == <<heap, call, p, prevp, turns>>

none == LIMIT + 1
idle == [f |-> "idle"]
live == DOMAIN size \ DOMAIN ptr      \* the blocks the program holds

Init ==
  /\ ptr = (0 :> 0) /\ size = (0 :> 0)
  /\ freep = none
  /\ brk = 1 /\ gaps = {}
  /\ call = idle
  /\ p = none /\ prevp = none
  /\ turns = 0

Drop(f, a) == [x \in DOMAIN f \ {a} |-> f[x]]
Return == call' = idle /\ p' = none /\ prevp' = none /\ turns' = 0

malloc(n) ==
  /\ call = idle
  /\ call' = [f |-> "malloc", n |-> n]
  /\ freep' = IF freep = none THEN 0 ELSE freep
  /\ prevp' = freep' /\ p' = ptr[freep']
  /\ UNCHANGED <<ptr, size, brk, gaps, turns>>

(* A block that fits: all of it, or its tail. *)
malloc_found ==
  /\ call.f = "malloc" /\ size[p] >= call.n
  /\ LET rest == size[p] - call.n
     IN  IF rest = 0
         THEN ptr' = Drop([ptr EXCEPT ![prevp] = ptr[p]], p) /\ UNCHANGED size
         ELSE size' = (p :> rest @@ p + rest :> call.n @@ size) /\ UNCHANGED ptr
  /\ freep' = prevp
  /\ Return
  /\ UNCHANGED <<brk, gaps>>

malloc_next ==
  /\ call.f = "malloc" /\ size[p] < call.n /\ p # freep
  /\ prevp' = p /\ p' = ptr[p]
  /\ turns' = turns + 1
  /\ UNCHANGED <<heap, call>>

(* The list has no such block: morecore(), with sbrk(), up to its free() *)
morecore ==
  /\ call.f = "malloc" /\ size[p] < call.n /\ p = freep
  /\ LET nu == IF call.n < CHUNK THEN CHUNK ELSE call.n
     IN  IF brk + nu > LIMIT + 1
         THEN Return /\ UNCHANGED <<size, brk>>
         ELSE /\ brk' = brk + nu
              /\ size' = (brk :> nu @@ size)
              /\ call' = [f |-> "free", bp |-> brk, n |-> call.n]
              /\ p' = freep /\ prevp' = none /\ turns' = 0
  /\ UNCHANGED <<ptr, freep, gaps>>

(* free() *)
free(bp) ==
  /\ call = idle /\ bp \in live
  /\ call' = [f |-> "free", bp |-> bp, n |-> 0]
  /\ p' = freep
  /\ UNCHANGED <<heap, prevp, turns>>

(* The place of a block in the list: between two blocks, or around the end of memory *)
Place(bp) ==
  \/ bp > p /\ bp < ptr[p]
  \/ p >= ptr[p] /\ (bp > p \/ bp < ptr[p])

free_next ==
  /\ call.f = "free" /\ ~Place(call.bp)
  /\ p' = ptr[p]
  /\ turns' = turns + 1
  /\ UNCHANGED <<heap, call, prevp>>

(* Fault: a block is not joined with the one after it. *)
UpperApart(bp) == [size |-> (bp :> size[bp] @@ size), ptr |-> (bp :> ptr[p] @@ ptr)]

(* The headers once bp is joined with the block after it, if they touch *)
Upper(bp) ==
  IF bp + size[bp] = ptr[p]
  THEN [size |-> Drop([size EXCEPT ![bp] = @ + size[ptr[p]]], ptr[p]), ptr |-> Drop((bp :> ptr[ptr[p]] @@ ptr), ptr[p])]
  ELSE [size |-> size, ptr |-> (bp :> ptr[p] @@ ptr)]

(* Then bp is joined with the block before it, or linked.  After the free() *)
(* of morecore() malloc() goes on.                                          *)
free_join ==
  /\ call.f = "free" /\ Place(call.bp)
  /\ LET bp == call.bp
         up == Upper(bp)
     IN  IF p + size[p] = bp
         THEN /\ size' = Drop([up.size EXCEPT ![p] = @ + up.size[bp]], bp)
              /\ ptr' = Drop([up.ptr EXCEPT ![p] = up.ptr[bp]], bp)
         ELSE /\ size' = up.size
              /\ ptr' = [up.ptr EXCEPT ![p] = bp]
  /\ freep' = p
  /\ IF call.n = 0 THEN Return
     ELSE call' = [f |-> "malloc", n |-> call.n] /\ prevp' = p /\ p' = ptr'[p] /\ turns' = 0
  /\ UNCHANGED <<brk, gaps>>

(* The program's own sbrk(1) leaves a gap between the blocks. *)
sbrk ==
  /\ call = idle /\ brk <= LIMIT /\ gaps = {}
  /\ gaps' = {brk} /\ brk' = brk + 1
  /\ UNCHANGED <<ptr, size, freep, call, p, prevp, turns>>

Next ==
  \/ \E n \in Requests : malloc(n)
  \/ \E bp \in live : free(bp)
  \/ malloc_found \/ malloc_next \/ morecore \/ free_next \/ free_join \/ sbrk

Spec == Init /\ [][Next]_vars

-----------------------------------------------------------------------------
(* The blocks on the free list, followed from freep *)
Reached[k \in 0 .. LIMIT] == IF k = 0 THEN {freep} ELSE LET r == Reached[k - 1] IN r \cup {ptr[a] : a \in r}
Free == IF freep = none THEN {} ELSE Reached[LIMIT]

Units(a) == a .. a + size[a] - 1

(* Between calls the free list is one cycle through base in address order, the  *)
(* free blocks, the blocks in use and the program's own memory divide the heap  *)
(* without overlap, and no two free blocks touch: free() has joined them.       *)
HeapSound == call = idle =>
  /\ freep # none => Free = DOMAIN ptr /\ Cardinality({a \in Free : ptr[a] <= a}) = 1
  /\ \A a, b \in (Free \ {0}) \cup live : a # b => Units(a) \cap Units(b) = {}
  /\ UNION {Units(a) : a \in (Free \ {0}) \cup live} \cup gaps = 1 .. brk - 1
  /\ \A a, b \in Free \ {0} : a + size[a] # b

(* Every loop over the free list ends: malloc() leaves each block behind at     *)
(* most once before it has a new chunk, and free() finds the place of a block,  *)
(* also one below or above all others, before it is round the list.             *)
OneRound == turns < Cardinality(DOMAIN ptr)
=============================================================================
