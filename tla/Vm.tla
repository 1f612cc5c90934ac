--------------------------------- MODULE Vm ---------------------------------
(***************************************************************************)
(* Physical pages (kernel/kalloc.c), user page tables (kernel/vm.c) and    *)
(* the calls that build, copy, replace and free address spaces: sbrk,      *)
(* fork, exec, exit and wait (kernel/proc.c, kernel/exec.c and             *)
(* kernel/sysfile.c).                                                      *)
(*                                                                         *)
(* A step is a kalloc(), a page of a loop or a freewalk(), so two          *)
(* processes may run out of memory at any point of their calls.  Addresses *)
(* are page numbers; sizes are bytes, PGSIZE to the page.  A page table is *)
(* the partial function `node' from the places of its page-table pages to  *)
(* their pages and the partial function `leaf' from addresses to PTEs.     *)
(***************************************************************************)
EXTENDS Integers, Sequences, FiniteSets, Functions, TLC

CONSTANTS
  Procs, First, None,
  NPAGES,          \* pages between end and PHYSTOP
  PGSIZE,
  FAN,             \* entries of a page-table page
  MAXARG,
  Sbrks,           \* the increments given to sbrk()
  WORD,            \* 2^64
  Programs,        \* the files given to exec(): their segments
  Stored           \* the addresses that user code stores to

Pages == 1 .. NPAGES
MAXVA == FAN * FAN * FAN
TRAMPOLINE == MAXVA - 1
TRAPFRAME == TRAMPOLINE - 1

ASSUME VmAssumption ==
  /\ NPAGES < TRAPFRAME      \* memory ends long before the address space
  /\ PGSIZE > 0 /\ FAN > 1 /\ First \in Procs

VARIABLES
  free,            \* kmem.freelist
  data,            \* what a page holds
  table,           \* page tables: p's <<p, "cur">> and, in exec(), <<p, "new">>
  trapframe, sz, state, parent,
  k                \* where a process is in its call

vars == <<free, data, table, trapframe, sz, state, parent, k>>

trampoline == 0
NoTable == [node |-> <<>>, leaf |-> <<>>]
User == {"R", "W", "X", "U"}
PGROUNDUP(n) == (n + PGSIZE - 1) \div PGSIZE

(* The page-table pages on the way to an address, the root first *)
Path(va) == <<<<2, 0>>, <<1, va \div (FAN * FAN)>>, <<0, va \div FAN>>>>
Missing(t, va) == {i \in 1 .. 3 : Path(va)[i] \notin DOMAIN table[t].node}

(* In a call: the table, loop bounds, page and permissions at hand, where the  *)
(* functions in progress go on (map, unmap, uvmalloc, freewalk), and the sizes, *)
(* child, segments and arguments of the call.                                  *)
Idle == [pc |-> "idle", t |-> None, a |-> 0, start |-> 0, end |-> 0, mem |-> 0, perm |-> {},
         then |-> "", bad |-> "", next |-> "", ok |-> "", fail |-> "", done |-> "",
         size |-> 0, nsz |-> 0, np |-> None, seg |-> <<>>, argv |-> {}]

(* The pages that kinit() puts on the free list *)
freerange == Pages

(* The page of initcode *)
uvmfirst(pa) == 0 :> [pa |-> pa, perm |-> User]

(* userinit() *)
Init ==
  LET places == <<<<2, 0>>, <<1, 0>>, <<1, FAN - 1>>, <<0, 0>>, <<0, FAN * FAN - 1>>>>
      pt == [node |-> [x \in Range(places) |-> 2 + (CHOOSE i \in 1 .. 5 : places[i] = x)],
             leaf |-> uvmfirst(2)
                      @@ TRAPFRAME :> [pa |-> 1, perm |-> {"R", "W"}]
                      @@ TRAMPOLINE :> [pa |-> trampoline, perm |-> {"R", "X"}]]
  IN  /\ free = freerange \ 1 .. 7
      /\ data = [x \in Pages |-> IF x = 2 THEN "text" ELSE "junk"]
      /\ table = [t \in Procs \X {"cur", "new"} |-> IF t = <<First, "cur">> THEN pt ELSE NoTable]
      /\ trapframe = [p \in Procs |-> IF p = First THEN 1 ELSE 0]
      /\ sz = [p \in Procs |-> IF p = First THEN PGSIZE ELSE 0]
      /\ state = [p \in Procs |-> IF p = First THEN "RUNNING" ELSE "UNUSED"]
      /\ parent = [p \in Procs |-> None]
      /\ k = [p \in Procs |-> Idle]

-----------------------------------------------------------------------------
(* Which of the free pages heads the list is no matter. *)
kalloc == CHOOSE x \in free : TRUE
kfree(S) == free' = free \cup (S \ {0})

At(p, l) == state[p] = "RUNNING" /\ k[p].pc = l
Goto(p, l) == k' = [k EXCEPT ![p].pc = l]
Return(p) == k' = [k EXCEPT ![p] = Idle]
Panic(p) == Goto(p, "panic") /\ UNCHANGED <<free, data, table>>

(* Unmap and free the pages a .. end - 1 of table t, then go to l *)
Unmap(p, t, a, end, l) ==
  [k[p] EXCEPT !.pc = "unmap", !.t = t, !.a = a, !.end = end, !.next = l]

(* Map mem at a in the table of the call, then go to `then' or to l without memory *)
Map(p, a, mem, perm, then, l) ==
  k' = [k EXCEPT ![p].pc = "map", ![p].a = a, ![p].mem = mem, ![p].perm = perm, ![p].then = then, ![p].bad = l]

(* walk() adds the next page-table page, or mappages() fails.  The page-table  *)
(* pages that it has added stay.                                               *)
walk(p) ==
  /\ At(p, "map") /\ Missing(k[p].t, k[p].a) # {}
  /\ LET i == CHOOSE j \in Missing(k[p].t, k[p].a) : j - 1 \notin Missing(k[p].t, k[p].a)
     IN  IF free = {}
         THEN Goto(p, k[p].bad) /\ UNCHANGED <<free, table>>
         ELSE /\ table' = [table EXCEPT ![k[p].t].node = @ @@ Path(k[p].a)[i] :> kalloc]
              /\ free' = free \ {kalloc}
              /\ UNCHANGED k
  /\ UNCHANGED <<data, trapframe, sz, state, parent>>

mappages(p) ==
  /\ At(p, "map") /\ Missing(k[p].t, k[p].a) = {}
  /\ IF k[p].a \in DOMAIN table[k[p].t].leaf
     THEN Panic(p)
     ELSE /\ table' = [table EXCEPT ![k[p].t].leaf = @ @@ k[p].a :> [pa |-> k[p].mem, perm |-> k[p].perm]]
          /\ k' = [k EXCEPT ![p].pc = k[p].then, ![p].mem = 0,
                     ![p].a = IF @ < TRAPFRAME THEN @ + 1 ELSE 0]
          /\ UNCHANGED <<free, data>>
  /\ UNCHANGED <<trapframe, sz, state, parent>>

(* uvmunmap() with do_free, a page of its loop *)
uvmunmap(p) ==
  /\ At(p, "unmap")
  /\ LET t == k[p].t
         a == k[p].a
     IN  \/ /\ a >= k[p].end
            /\ Goto(p, k[p].next)
            /\ UNCHANGED <<free, data, table>>
         \/ /\ a < k[p].end
            /\ IF a \notin DOMAIN table[t].leaf
               THEN Panic(p)
               ELSE /\ kfree({table[t].leaf[a].pa})
                    /\ table' = [table EXCEPT ![t].leaf = Restrict(@, DOMAIN @ \ {a})]
                    /\ k' = [k EXCEPT ![p].a = a + 1]
                    /\ UNCHANGED data
  /\ UNCHANGED <<trapframe, sz, state, parent>>

(* The end of uvmfree() *)
freewalk(p) ==
  /\ At(p, "freewalk")
  /\ LET t == k[p].t
     IN  IF DOMAIN table[t].leaf # {}
         THEN Panic(p)
         ELSE /\ kfree(Range(table[t].node))
              /\ table' = [table EXCEPT ![t] = NoTable]
              /\ Goto(p, k[p].done)
              /\ UNCHANGED data
  /\ UNCHANGED <<trapframe, sz, state, parent>>

-----------------------------------------------------------------------------
(* uvmalloc() of table t from oldsz to newsz, then go to ok or to fail *)
Alloc(p, t, oldsz, newsz, perm, ok, fail) ==
  LET start == PGROUNDUP(oldsz)
  IN  k' = [k EXCEPT ![p].pc = "uvmalloc", ![p].t = t, ![p].a = start, ![p].start = start,
              ![p].end = PGROUNDUP(newsz), ![p].perm = perm, ![p].size = newsz, ![p].ok = ok, ![p].fail = fail]

(* Fault: a new page is not cleared. *)
uvmallocDirty(p) ==
  /\ At(p, "uvmalloc")
  /\ \/ /\ k[p].a >= k[p].end
        /\ Goto(p, k[p].ok)
        /\ UNCHANGED <<free, data>>
     \/ /\ k[p].a < k[p].end /\ free = {}
        /\ Goto(p, "uvmalloc_bad")
        /\ UNCHANGED <<free, data>>
     \/ /\ k[p].a < k[p].end /\ free # {}
        /\ free' = free \ {kalloc}
        /\ data' = [data EXCEPT ![kalloc] = "junk"]
        /\ Map(p, k[p].a, kalloc, k[p].perm, "uvmalloc", "uvmalloc_bad")
  /\ UNCHANGED <<table, trapframe, sz, state, parent>>

uvmalloc(p) ==
  /\ At(p, "uvmalloc")
  /\ \/ /\ k[p].a >= k[p].end
        /\ Goto(p, k[p].ok)
        /\ UNCHANGED <<free, data>>
     \/ /\ k[p].a < k[p].end /\ free = {}
        /\ Goto(p, "uvmalloc_bad")
        /\ UNCHANGED <<free, data>>
     \/ /\ k[p].a < k[p].end /\ free # {}
        /\ free' = free \ {kalloc}
        /\ data' = [data EXCEPT ![kalloc] = "zero"]
        /\ Map(p, k[p].a, kalloc, k[p].perm, "uvmalloc", "uvmalloc_bad")
  /\ UNCHANGED <<table, trapframe, sz, state, parent>>

(* Fault: the page that could not be mapped is lost. *)
uvmalloc_badLoses(p) ==
  /\ At(p, "uvmalloc_bad")
  /\ k' = [k EXCEPT ![p] = [Unmap(p, k[p].t, k[p].start, k[p].a, k[p].fail) EXCEPT !.mem = 0]]
  /\ UNCHANGED <<free, data, table, trapframe, sz, state, parent>>

(* kfree(mem) and uvmdealloc(a, oldsz) *)
uvmalloc_bad(p) ==
  /\ At(p, "uvmalloc_bad")
  /\ kfree({k[p].mem})
  /\ k' = [k EXCEPT ![p] = [Unmap(p, k[p].t, k[p].start, k[p].a, k[p].fail) EXCEPT !.mem = 0]]
  /\ UNCHANGED <<data, table, trapframe, sz, state, parent>>

(* sys_sbrk(), growproc(): a size below 0 wraps around, and uvmdealloc() does nothing. *)
sbrk(p, n) ==
  /\ At(p, "idle")
  /\ \/ n > 0 /\ Alloc(p, <<p, "cur">>, sz[p], sz[p] + n, {"R", "W", "U"}, "sbrk_end", "return")
     \/ /\ n < 0 /\ sz[p] + n >= 0
        /\ k' = [k EXCEPT ![p] = [Unmap(p, <<p, "cur">>, PGROUNDUP(sz[p] + n), PGROUNDUP(sz[p]), "sbrk_end")
                                EXCEPT !.size = sz[p] + n]]
  /\ UNCHANGED <<free, data, table, trapframe, sz, state, parent>>

sbrk_end(p) ==
  /\ At(p, "sbrk_end")
  /\ sz' = [sz EXCEPT ![p] = k[p].size]
  /\ Return(p)
  /\ UNCHANGED <<free, data, table, trapframe, state, parent>>

return(p) == At(p, "return") /\ Return(p) /\ UNCHANGED <<free, data, table, trapframe, sz, state, parent>>

-----------------------------------------------------------------------------
(* proc_pagetable(): `ok' or, without memory, `done' is next. *)

(* uvmcreate(); the trampoline is mapped next. *)
uvmcreate(p) ==
  /\ At(p, "proc_pagetable")
  /\ IF free = {}
     THEN Goto(p, k[p].done) /\ UNCHANGED <<free, table>>
     ELSE /\ free' = free \ {kalloc}
          /\ table' = [table EXCEPT ![k[p].t].node = <<2, 0>> :> kalloc]
          /\ Map(p, TRAMPOLINE, trampoline, {"R", "X"}, "map_trapframe", "freewalk")
  /\ UNCHANGED <<data, trapframe, sz, state, parent>>

(* The page table is for the child in fork(), for the caller in exec().  What   *)
(* undoes a failure here is never run: see NoPanic.                             *)
map_trapframe(p) ==
  /\ At(p, "map_trapframe")
  /\ Map(p, TRAPFRAME, trapframe[k[p].t[1]], {"R", "W"}, k[p].ok, "unmap_trampoline")
  /\ UNCHANGED <<free, data, table, trapframe, sz, state, parent>>

(* proc_freepagetable(t, size), then go to l *)
FreePagetable(p, t, size, l) ==
  IF {TRAMPOLINE, TRAPFRAME} \subseteq DOMAIN table[t].leaf
  THEN /\ table' = [table EXCEPT ![t].leaf = Restrict(@, DOMAIN @ \ {TRAMPOLINE, TRAPFRAME})]
       /\ k' = [k EXCEPT ![p] = [Unmap(p, t, 0, PGROUNDUP(size), "freewalk") EXCEPT !.done = l]]
  ELSE Goto(p, "panic") /\ UNCHANGED table

-----------------------------------------------------------------------------
(* fork(): allocproc() with its trapframe, uvmcopy() *)

fork(p, c) ==
  /\ At(p, "idle") /\ state[c] = "UNUSED" /\ free # {}
  /\ state' = [state EXCEPT ![c] = "USED"]
  /\ trapframe' = [trapframe EXCEPT ![c] = kalloc]
  /\ free' = free \ {kalloc}
  /\ k' = [k EXCEPT ![p].pc = "proc_pagetable", ![p].t = <<c, "cur">>, ![p].np = c,
             ![p].ok = "uvmcopy", ![p].done = "freeproc"]
  /\ UNCHANGED <<data, table, sz, parent>>

(* A page of the loop, or the end of fork() *)
uvmcopy(p) ==
  /\ At(p, "uvmcopy")
  /\ LET a == k[p].a
         old == table[<<p, "cur">>].leaf
         np == k[p].np
     IN  \/ /\ a >= PGROUNDUP(sz[p])
            /\ sz' = [sz EXCEPT ![np] = sz[p]]
            /\ parent' = [parent EXCEPT ![np] = p]
            /\ state' = [state EXCEPT ![np] = "RUNNING"]
            /\ Return(p)
            /\ UNCHANGED <<free, data, table>>
         \/ /\ a < PGROUNDUP(sz[p])
            /\ IF a \notin DOMAIN old THEN Panic(p)
               ELSE IF free = {} THEN Goto(p, "uvmcopy_bad") /\ UNCHANGED <<free, data, table>>
               ELSE /\ free' = free \ {kalloc}
                    /\ data' = [data EXCEPT ![kalloc] = data[old[a].pa]]
                    /\ Map(p, a, kalloc, old[a].perm, "uvmcopy", "uvmcopy_bad")
                    /\ UNCHANGED table
            /\ UNCHANGED <<sz, parent, state>>
  /\ UNCHANGED trapframe

uvmcopy_bad(p) ==
  /\ At(p, "uvmcopy_bad")
  /\ kfree({k[p].mem})
  /\ k' = [k EXCEPT ![p] = [Unmap(p, k[p].t, 0, k[p].a, "freeproc") EXCEPT !.mem = 0]]
  /\ UNCHANGED <<data, table, trapframe, sz, state, parent>>

freeproc(p) ==
  /\ At(p, "freeproc")
  /\ LET np == k[p].np
     IN  /\ kfree({trapframe[np]})
         /\ trapframe' = [trapframe EXCEPT ![np] = 0]
         /\ IF table[<<np, "cur">>] = NoTable
            THEN Goto(p, "freed") /\ UNCHANGED table
            ELSE FreePagetable(p, <<np, "cur">>, sz[np], "freed")
  /\ UNCHANGED <<data, sz, state, parent>>

freed(p) ==
  /\ At(p, "freed")
  /\ sz' = [sz EXCEPT ![k[p].np] = 0]
  /\ parent' = [parent EXCEPT ![k[p].np] = None]
  /\ state' = [state EXCEPT ![k[p].np] = "UNUSED"]
  /\ Return(p)
  /\ UNCHANGED <<free, data, table, trapframe>>

(* exit() gives the children to init; wait() frees what a zombie has. *)
exit(p) ==
  /\ At(p, "idle") /\ p # First
  /\ state' = [state EXCEPT ![p] = "ZOMBIE"]
  /\ parent' = [q \in Procs |-> IF parent[q] = p THEN First ELSE parent[q]]
  /\ UNCHANGED <<free, data, table, trapframe, sz, k>>

wait(p, c) ==
  /\ At(p, "idle") /\ state[c] = "ZOMBIE" /\ parent[c] = p
  /\ k' = [k EXCEPT ![p].pc = "freeproc", ![p].np = c]
  /\ UNCHANGED <<free, data, table, trapframe, sz, state, parent>>

(* A store of user code, or a page of copyout() *)
copyout(p, va) ==
  /\ At(p, "idle") /\ va \in DOMAIN table[<<p, "cur">>].leaf
  /\ {"U", "W"} \subseteq table[<<p, "cur">>].leaf[va].perm
  /\ data' = [data EXCEPT ![table[<<p, "cur">>].leaf[va].pa] = "stored"]
  /\ UNCHANGED <<free, table, trapframe, sz, state, parent, k>>

-----------------------------------------------------------------------------
(* sys_exec() and exec() *)

sys_exec(p) ==
  /\ At(p, "idle")
  /\ Goto(p, "argv")
  /\ UNCHANGED <<free, data, table, trapframe, sz, state, parent>>

(* An argument: the last, one that cannot be fetched or has no memory, or a string *)
sys_exec_arg(p) ==
  /\ At(p, "argv")
  /\ \/ Cardinality(k[p].argv) < MAXARG /\ Goto(p, "exec") /\ UNCHANGED free
     \/ Goto(p, "exec_free") /\ UNCHANGED free
     \/ /\ Cardinality(k[p].argv) < MAXARG /\ free # {}
        /\ free' = free \ {kalloc}
        /\ \E l \in {"argv", "exec_free"} : k' = [k EXCEPT ![p].argv = @ \cup {kalloc}, ![p].pc = l]
  /\ UNCHANGED <<data, table, trapframe, sz, state, parent>>

(* namei() and the header of the file, which may be bad *)
exec(p) ==
  /\ At(p, "exec")
  /\ \/ Goto(p, "exec_free")
     \/ \E prog \in Programs :
          k' = [k EXCEPT ![p].pc = "proc_pagetable", ![p].t = <<p, "new">>, ![p].seg = prog,
                  ![p].ok = "segment", ![p].done = "exec_free"]
  /\ UNCHANGED <<free, data, table, trapframe, sz, state, parent>>

Valid(ph) ==
  /\ ph.memsz >= ph.filesz
  /\ (ph.vaddr + ph.memsz) % WORD >= ph.vaddr
  /\ ph.vaddr % PGSIZE = 0

flags2perm(ph) == {"R", "U"} \cup ph.flags

(* A program header, which may be cut short, or the two pages of the stack *)
exec_segment(p) ==
  /\ At(p, "segment")
  /\ LET t == <<p, "new">>
         ph == Head(k[p].seg)
         nsz == k[p].nsz
         stack == PGROUNDUP(nsz) * PGSIZE
     IN  \/ /\ k[p].seg = <<>>
            /\ Alloc(p, t, stack, stack + 2 * PGSIZE, {"R", "W", "U"}, "stack", "exec_freept")
         \/ k[p].seg # <<>> /\ Goto(p, "exec_freept")
         \/ /\ k[p].seg # <<>> /\ ph.type # "LOAD"
            /\ k' = [k EXCEPT ![p].seg = Tail(@)]
         \/ /\ k[p].seg # <<>> /\ ph.type = "LOAD" /\ Valid(ph)
            /\ IF ph.vaddr + ph.memsz < nsz THEN k' = [k EXCEPT ![p].pc = "load", ![p].size = nsz]
               ELSE IF ph.vaddr + ph.memsz = 0 THEN Goto(p, "exec_freept")
               ELSE Alloc(p, t, nsz, ph.vaddr + ph.memsz, flags2perm(ph), "load", "exec_freept")
  /\ UNCHANGED <<free, data, table, trapframe, sz, state, parent>>

(* The addresses of a page table that walkaddr() finds *)
walkaddr(leaf) == {a \in DOMAIN leaf : "U" \in leaf[a].perm}

loadseg(p) ==
  /\ At(p, "load")
  /\ LET ph == Head(k[p].seg)
         leaf == table[<<p, "new">>].leaf
         pages == {ph.vaddr \div PGSIZE + i : i \in 0 .. PGROUNDUP(ph.filesz) - 1}
     IN  IF ~(pages \subseteq walkaddr(leaf))
         THEN Panic(p)
         ELSE /\ \/ /\ data' = [x \in Pages |-> IF x \in {leaf[a].pa : a \in pages} THEN "text" ELSE data[x]]
                    /\ k' = [k EXCEPT ![p].pc = "segment", ![p].nsz = k[p].size, ![p].seg = Tail(@)]
                 \/ /\ k' = [k EXCEPT ![p].pc = "exec_freept", ![p].nsz = k[p].size]
                    /\ UNCHANGED data
              /\ UNCHANGED <<free, table>>
  /\ UNCHANGED <<trapframe, sz, state, parent>>

(* The guard page is out of reach of user code. *)
uvmclear(t, va) == [table[t] EXCEPT !.leaf[va].perm = @ \ {"U"}]

(* uvmclear() of the guard page, the arguments, which may not fit, and the      *)
(* commit; exec_freept then frees the old page table.                           *)
exec_stack(p) ==
  /\ At(p, "stack")
  /\ LET top == PGROUNDUP(k[p].size)
         new == uvmclear(<<p, "new">>, top - 2)
     IN  \/ /\ data' = [data EXCEPT ![new.leaf[top - 1].pa] = "args"]
            /\ table' = [table EXCEPT ![<<p, "cur">>] = new, ![<<p, "new">>] = table[<<p, "cur">>]]
            /\ sz' = [sz EXCEPT ![p] = k[p].size]
            /\ k' = [k EXCEPT ![p].pc = "exec_freept", ![p].nsz = sz[p]]
         \/ /\ table' = [table EXCEPT ![<<p, "new">>] = new]
            /\ k' = [k EXCEPT ![p].pc = "exec_freept", ![p].nsz = k[p].size]
            /\ UNCHANGED <<data, sz>>
  /\ UNCHANGED <<free, trapframe, state, parent>>

exec_freept(p) ==
  /\ At(p, "exec_freept")
  /\ FreePagetable(p, <<p, "new">>, k[p].nsz, "exec_free")
  /\ UNCHANGED <<free, data, trapframe, sz, state, parent>>

exec_free(p) ==
  /\ At(p, "exec_free")
  /\ kfree(k[p].argv)
  /\ Return(p)
  /\ UNCHANGED <<data, table, trapframe, sz, state, parent>>

Next == \E p \in Procs :
  \/ walk(p) \/ mappages(p) \/ uvmunmap(p) \/ freewalk(p)
  \/ uvmalloc(p) \/ uvmalloc_bad(p) \/ sbrk_end(p) \/ return(p)
  \/ uvmcreate(p) \/ map_trapframe(p)
  \/ uvmcopy(p) \/ uvmcopy_bad(p) \/ freeproc(p) \/ freed(p) \/ exit(p)
  \/ sys_exec(p) \/ sys_exec_arg(p) \/ exec(p) \/ exec_segment(p) \/ loadseg(p)
  \/ exec_stack(p) \/ exec_freept(p) \/ exec_free(p)
  \/ \E n \in Sbrks : sbrk(p, n)
  \/ \E c \in Procs : fork(p, c) \/ wait(p, c)
  \/ \E va \in Stored : copyout(p, va)

Spec == Init /\ [][Next]_vars

-----------------------------------------------------------------------------
(* What pages are used for *)
Uses ==
  {<<x, "free">> : x \in free}
  \cup UNION {{<<table[t].node[n], t, n>> : n \in DOMAIN table[t].node} : t \in DOMAIN table}
  \cup UNION {{<<table[t].leaf[a].pa, t, a>> : a \in DOMAIN table[t].leaf \ {TRAMPOLINE, TRAPFRAME}} : t \in DOMAIN table}
  \cup {<<trapframe[p], "trapframe", p>> : p \in {q \in Procs : trapframe[q] # 0}}
  \cup {<<k[p].mem, "map", p>> : p \in {q \in Procs : k[q].mem # 0 /\ k[q].a # TRAPFRAME}}
  \cup UNION {{<<x, "argv", p>> : x \in k[p].argv} : p \in Procs}

(* Every page has just one use: it is free, a page-table page, a user page at   *)
(* one address of one process, a trapframe, or held by a call.  Nothing is      *)
(* lost, freed twice or shared, wherever fork(), exec() and sbrk() run out of   *)
(* memory and undo what they have done.                                         *)
PagesOwned == Cardinality(Uses) = NPAGES /\ {u[1] : u \in Uses} = Pages

(* The panics of vm.c are not reached: no address is mapped twice, no missing   *)
(* page is unmapped or copied, no page table is freed with a page still in it.  *)
(* And the trapframe is always mapped by the page-table pages that were made    *)
(* for the trampoline.                                                          *)
NoPanic == \A p \in Procs : k[p].pc \notin {"panic", "unmap_trampoline"}

(* No failure of an allocation is left half undone. *)
PagesSafe == PagesOwned /\ NoPanic

(* What a process has: the pages below its size, once sbrk() has shrunk it, and *)
(* nothing unless it runs.                                                      *)
Size(p) == IF k[p].next = "sbrk_end" THEN k[p].size ELSE sz[p]
Space(p) ==
  IF state[p] # "RUNNING" THEN <<>>
  ELSE LET leaf == table[<<p, "cur">>].leaf
       IN  [a \in {b \in DOMAIN leaf : b < PGROUNDUP(Size(p))} |->
              [data |-> data[leaf[a].pa], perm |-> leaf[a].perm]]

A == INSTANCE AddressSpace WITH
       space <- [p \in Procs |-> Space(p)],
       live <- [p \in Procs |-> state[p] = "RUNNING"]

(* Address spaces are private, and each call makes its change to them at once   *)
(* or not at all: fork() makes a copy of the whole, a failed exec() or sbrk()   *)
(* leaves the caller as it was, new memory is zero, the guard page stays out    *)
(* of reach.                                                                    *)
IsAddressSpace == A!Spec
=============================================================================
