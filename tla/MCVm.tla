-------------------------------- MODULE MCVm --------------------------------
EXTENDS Vm

Segment(type, vaddr, memsz, filesz, flags) ==
  [type |-> type, vaddr |-> vaddr, memsz |-> memsz, filesz |-> filesz, flags |-> flags]

(* Text and data; a later segment below the end of an earlier one and a note; *)
(* a segment that wraps around.                                               *)
MCPrograms == {
  <<Segment("LOAD", 0, 3, 2, {"X"}), Segment("LOAD", PGSIZE, 2, 1, {"W"})>>,
  <<Segment("LOAD", PGSIZE, 1, 1, {"X"}), Segment("NOTE", 0, 0, 0, {}), Segment("LOAD", 0, 4, 4, {})>>,
  <<Segment("LOAD", WORD - PGSIZE, 2 * PGSIZE, 1, {"X"})>>}

MCSbrks == {3, -3}

(* Pages differ only in what they are used for: of a page table the model     *)
(* checker keeps its shape and what the pages hold, of free memory its size.  *)
(* That pages have one use each, which makes this sound, is part of the view; *)
(* its first component only has the values of the variables evaluated.        *)
Shape(t) == <<DOMAIN table[t].node,
              [a \in DOMAIN table[t].leaf \ {TRAPFRAME, TRAMPOLINE} |->
                 <<data[table[t].leaf[a].pa], table[t].leaf[a].perm>>],
              DOMAIN table[t].leaf>>
View == <<vars = vars, PagesOwned, Cardinality(free), [t \in DOMAIN table |-> Shape(t)], sz, state, parent,
          [p \in Procs |-> <<trapframe[p] # 0, IF k[p].mem = 0 THEN "none" ELSE data[k[p].mem],
                             [k[p] EXCEPT !.mem = 0, !.argv = Cardinality(@)]>>]>>
=============================================================================
