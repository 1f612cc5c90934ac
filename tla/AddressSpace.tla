---------------------------- MODULE AddressSpace ----------------------------
(***************************************************************************)
(* What fork(), exec(), sbrk(), exit() and user stores promise: a process  *)
(* has a private memory, pages 0 .. n - 1, and a call changes it as a      *)
(* whole or not at all.                                                    *)
(***************************************************************************)
EXTENDS Integers, Sequences, FiniteSets, SequencesExt, FiniteSetsExt

CONSTANTS Procs, First, PGSIZE, Programs

VARIABLES
  space,      \* the pages of a process: what they hold and what is allowed
  live

Page(d, perm) == [data |-> d, perm |-> perm]
RoundUp(n) == (n + PGSIZE - 1) \div PGSIZE
Zero == Page("zero", {"R", "W", "U"})

(* The memory of a program: each segment adds pages up to its end, with its own *)
(* permissions, and fills the pages of the file.  Then the guard and the stack. *)
Add(sp, ph) ==
  LET n == Max({Cardinality(DOMAIN sp), RoundUp(ph.vaddr + ph.memsz)})
      first == ph.vaddr \div PGSIZE
      filled == first .. first + RoundUp(ph.filesz) - 1
  IN  [a \in 0 .. n - 1 |->
         Page(IF a \in filled THEN "text" ELSE IF a \in DOMAIN sp THEN sp[a].data ELSE "zero",
              IF a \in DOMAIN sp THEN sp[a].perm ELSE {"R", "U"} \cup ph.flags)]

Image(prog) ==
  LET sp == FoldLeft(Add, <<>>, SelectSeq(prog, LAMBDA ph : ph.type = "LOAD"))
      n == Cardinality(DOMAIN sp)
  IN  [a \in 0 .. n + 1 |-> IF a < n THEN sp[a]
                            ELSE IF a = n THEN Page("zero", {"R", "W"})
                            ELSE Page("args", {"R", "W", "U"})]

Init ==
  /\ space = [p \in Procs |-> IF p = First THEN [a \in {0} |-> Page("text", {"R", "W", "X", "U"})] ELSE <<>>]
  /\ live = [p \in Procs |-> p = First]

(* sbrk() up or down, exec(), and a store or copyout() to a page *)
Resized(old, new) ==
  new = [a \in 0 .. Cardinality(DOMAIN new) - 1 |-> IF a \in DOMAIN old THEN old[a] ELSE Zero]

Executed(new) == \E prog \in Programs : new = Image(prog)

StoredTo(old, new) ==
  \E a \in DOMAIN old :
    /\ {"U", "W"} \subseteq old[a].perm
    /\ new = [old EXCEPT ![a].data = "stored"]

Change(p) ==
  /\ live[p]
  /\ Resized(space[p], space'[p]) \/ Executed(space'[p]) \/ StoredTo(space[p], space'[p])
  /\ \A q \in Procs \ {p} : space'[q] = space[q]
  /\ UNCHANGED live

Fork(p, c) ==
  /\ live[p] /\ ~live[c]
  /\ space' = [space EXCEPT ![c] = space[p]]
  /\ live' = [live EXCEPT ![c] = TRUE]

Exit(p) ==
  /\ space' = [space EXCEPT ![p] = <<>>]
  /\ live' = [live EXCEPT ![p] = FALSE]

Next == \E p \in Procs : Change(p) \/ (\E c \in Procs : Fork(p, c)) \/ Exit(p)

Spec == Init /\ [][Next]_<<space, live>>
=============================================================================
