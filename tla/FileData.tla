------------------------------ MODULE FileData ------------------------------
(***************************************************************************)
(* The contents of files: block allocation, bmap(), itrunc(), readi() and  *)
(* writei() of kernel/fs.c under fileread() and filewrite() of             *)
(* kernel/file.c.                                                          *)
(*                                                                         *)
(* The processes share the open files, each on an inode of its own, and    *)
(* the free blocks.  A block is BSIZE cells, which are bytes or, in an     *)
(* indirect block, block numbers (so NINDIRECT = BSIZE).  A step is an     *)
(* iteration of writei() or a part of itrunc(), both under the inode lock. *)
(***************************************************************************)
EXTENDS Integers, FiniteSets, FiniteSetsExt

CONSTANTS
  Procs, None,
  Inodes,          \* an open file and its inode
  NBLOCKS,         \* data blocks 1 .. NBLOCKS
  BSIZE, NDIRECT,
  BPB,             \* bits per bitmap block
  MAXOPBLOCKS,
  Sizes,           \* the lengths that programs read and write
  Byte(_, _)       \* what is written at an offset of an inode

Blocks  == 1 .. NBLOCKS
Cells   == 0 .. BSIZE - 1
MAXFILE == NDIRECT + BSIZE
Limit   == MAXFILE * BSIZE
Zeroes  == [k \in Cells |-> 0]

VARIABLES
  used,            \* the bitmap
  data,            \* the data blocks
  addrs, size,     \* of the inodes
  lock,            \* the holder of ip->lock
  off,             \* f->off
  proc,            \* where a process is in its call
  logged           \* the blocks its transaction has written

vars == <<used, data, addrs, size, lock, off, proc, logged>>

Idle == [pc |-> "idle", ip |-> None, n |-> 0, n1 |-> 0, tot |-> 0]

Init ==
  /\ used = {}
  /\ data = [b \in Blocks |-> Zeroes]
  /\ addrs = [i \in Inodes |-> [k \in 0 .. NDIRECT |-> 0]]
  /\ size = [i \in Inodes |-> 0]
  /\ lock = [i \in Inodes |-> None]
  /\ off = [i \in Inodes |-> 0]
  /\ proc = [p \in Procs |-> Idle]
  /\ logged = [p \in Procs |-> {}]

-----------------------------------------------------------------------------
(* balloc(): the first free block, or 0 *)
balloc(U) == IF U = Blocks THEN 0 ELSE Min(Blocks \ U)

BBLOCK(b) == <<"bitmap", b \div BPB>>

(* bmap() works on m, the state it may change: the bitmap, the blocks, the    *)
(* block list of the inode, the blocks it logs and the address it returns.   *)
Disk(p, i) == [used |-> used, data |-> data, addrs |-> addrs[i], log |-> logged[p], addr |-> 0]

(* balloc() with its bzero(); addr = 0 if there is no block *)
Alloc(m) ==
  LET b == balloc(m.used)
  IN  IF b = 0 THEN [m EXCEPT !.addr = 0]
      ELSE [m EXCEPT !.used = @ \cup {b}, !.data[b] = Zeroes, !.addr = b,
                     !.log = @ \cup {BBLOCK(b), <<"data", b>>}]

(* The entry k of the list in the inode *)
Direct(m, k) ==
  IF m.addrs[k] # 0 THEN [m EXCEPT !.addr = m.addrs[k]]
  ELSE LET a == Alloc(m) IN [a EXCEPT !.addrs[k] = a.addr]

(* The entry k of the indirect block at m.addr *)
Indirect(m, k) ==
  IF m.addr = 0 THEN m
  ELSE IF m.data[m.addr][k] # 0 THEN [m EXCEPT !.addr = m.data[m.addr][k]]
  ELSE LET a == Alloc(m)
       IN  IF a.addr = 0 THEN a
           ELSE [a EXCEPT !.data[m.addr][k] = a.addr, !.log = @ \cup {<<"data", m.addr>>}]

bmap(m, bn) ==
  IF bn < NDIRECT THEN Direct(m, bn) ELSE Indirect(Direct(m, NDIRECT), bn - NDIRECT)

-----------------------------------------------------------------------------
(* filewrite(): chunks of at most max bytes, each in a transaction *)

(* Fault: no room is left for the inode, the bitmap and a block more. *)
maxGreedy == (MAXOPBLOCKS \div 2) * BSIZE

max == ((MAXOPBLOCKS - 1 - 1 - 2) \div 2) * BSIZE

write(p, i, n) ==
  /\ proc[p].pc = "idle"
  /\ proc' = [proc EXCEPT ![p] = [Idle EXCEPT !.pc = "filewrite", !.ip = i, !.n = n]]
  /\ UNCHANGED <<used, data, addrs, size, lock, off, logged>>

Lock(p, i) == lock[i] = None /\ lock' = [lock EXCEPT ![i] = p]
Release(i) == lock' = [lock EXCEPT ![i] = None]

(* begin_op(), ilock() and the checks at the start of writei() *)
writei(p) ==
  /\ proc[p].pc = "filewrite"
  /\ LET i == proc[p].ip
         n1 == Min({proc[p].n, max})
     IN  \/ /\ off[i] <= size[i] /\ off[i] + n1 <= Limit
            /\ Lock(p, i)
            /\ proc' = [proc EXCEPT ![p].pc = "writei", ![p].n1 = n1, ![p].tot = 0]
         \/ /\ off[i] > size[i] \/ off[i] + n1 > Limit
            /\ lock[i] = None
            /\ proc' = [proc EXCEPT ![p] = Idle]
            /\ UNCHANGED lock
  /\ UNCHANGED <<used, data, addrs, size, off, logged>>

(* An iteration: k of its m bytes are copied in, all of them or, if          *)
(* either_copyin() fails, fewer and without log_write().                     *)
writei_block(p) ==
  /\ proc[p].pc = "writei" /\ proc[p].tot < proc[p].n1
  /\ LET i  == proc[p].ip
         o  == off[i] + proc[p].tot
         d  == bmap(Disk(p, i), o \div BSIZE)
         m  == Min({proc[p].n1 - proc[p].tot, BSIZE - (o % BSIZE)})
         c  == o % BSIZE
     IN  /\ used' = d.used
         /\ addrs' = [addrs EXCEPT ![i] = d.addrs]
         /\ \/ /\ d.addr = 0
               /\ data' = d.data
               /\ logged' = [logged EXCEPT ![p] = d.log]
               /\ proc' = [proc EXCEPT ![p].pc = "writei_end"]
            \/ /\ d.addr # 0
               /\ \E k \in 0 .. m :
                    /\ data' = [d.data EXCEPT ![d.addr] =
                         [x \in Cells |-> IF x \in c .. c + k - 1 THEN Byte(i, o + x - c) ELSE @[x]]]
                    /\ logged' = [logged EXCEPT ![p] =
                                   IF k = m THEN d.log \cup {<<"data", d.addr>>} ELSE d.log]
                    /\ proc' = IF k = m THEN [proc EXCEPT ![p].tot = @ + m]
                               ELSE [proc EXCEPT ![p].pc = "writei_end"]
  /\ UNCHANGED <<size, lock, off>>

(* size, iupdate(), f->off, iunlock(), end_op() and the next chunk, if any *)
writei_end(p) ==
  /\ \/ proc[p].pc = "writei_end"
     \/ proc[p].pc = "writei" /\ proc[p].tot = proc[p].n1
  /\ LET i == proc[p].ip
         o == off[i] + proc[p].tot
     IN  /\ size' = [size EXCEPT ![i] = Max({@, o})]
         /\ off' = [off EXCEPT ![i] = o]
         /\ Release(i)
  /\ logged' = [logged EXCEPT ![p] = {}]
  /\ proc' = [proc EXCEPT ![p] =
       IF @.tot # @.n1 \/ @.n = @.n1 THEN Idle
       ELSE [@ EXCEPT !.pc = "filewrite", !.n = @ - proc[p].n1]]
  /\ UNCHANGED <<used, data, addrs>>

-----------------------------------------------------------------------------
(* fileread(): readi() under the inode lock, outside of any transaction.  It *)
(* changes f->off only, unless bmap() finds no block and allocates one.      *)
Hole(i, bn) ==
  \/ addrs[i][Min({bn, NDIRECT})] = 0
  \/ bn >= NDIRECT /\ data[addrs[i][NDIRECT]][bn - NDIRECT] = 0

fileread(p, i, n) ==
  /\ proc[p].pc = "idle" /\ lock[i] = None
  /\ off[i] <= size[i]                     \* readi() returns 0 otherwise
  /\ LET r == Min({n, size[i] - off[i]})
     IN  IF \E o \in off[i] .. off[i] + r - 1 : Hole(i, o \div BSIZE)
         THEN /\ Lock(p, i)
              /\ proc' = [proc EXCEPT ![p] = [Idle EXCEPT !.pc = "allocates", !.ip = i]]
              /\ UNCHANGED off
         ELSE \E moved \in {0, r} :        \* 0: either_copyout() fails
                /\ off' = [off EXCEPT ![i] = @ + moved]
                /\ UNCHANGED <<lock, proc>>
  /\ UNCHANGED <<used, data, addrs, size, logged>>

-----------------------------------------------------------------------------
(* open() with O_TRUNC: begin_op(), ilock(), itrunc().  The file is opened    *)
(* anew, or others have it open; here its offset is kept.                     *)

(* bfree() of the blocks in S panics if one of them is free already. *)
bfree(p, i, S, l) ==
  IF S \subseteq used
  THEN /\ used' = used \ S
       /\ proc' = [proc EXCEPT ![p].pc = l, ![p].ip = i]
       /\ logged' = [logged EXCEPT ![p] = @ \cup {BBLOCK(b) : b \in S}]
  ELSE /\ proc' = [proc EXCEPT ![p].pc = "panic"]
       /\ UNCHANGED <<used, logged>>

itrunc(p, i) ==
  /\ proc[p].pc = "idle" /\ Lock(p, i)
  /\ bfree(p, i, {addrs[i][k] : k \in 0 .. NDIRECT - 1} \ {0}, "itrunc")
  /\ addrs' = [addrs EXCEPT ![i] = [k \in DOMAIN @ |-> IF k = NDIRECT THEN @[k] ELSE 0]]
  /\ UNCHANGED <<data, size, off>>

Listed(i) == IF addrs[i][NDIRECT] = 0 THEN {}
             ELSE {data[addrs[i][NDIRECT]][k] : k \in Cells} \ {0}

(* Fault: the blocks of the indirect block stay allocated. *)
itrunc_indirectLeaks(p) ==
  /\ proc[p].pc = "itrunc"
  /\ LET i == proc[p].ip
     IN  /\ bfree(p, i, {addrs[i][NDIRECT]} \ {0}, "itrunc_end")
         /\ addrs' = [addrs EXCEPT ![i][NDIRECT] = 0]
  /\ UNCHANGED <<data, size, lock, off>>

itrunc_indirect(p) ==
  /\ proc[p].pc = "itrunc"
  /\ LET i == proc[p].ip
     IN  /\ bfree(p, i, Listed(i) \cup ({addrs[i][NDIRECT]} \ {0}), "itrunc_end")
         /\ addrs' = [addrs EXCEPT ![i][NDIRECT] = 0]
  /\ UNCHANGED <<data, size, lock, off>>

(* Fault: the blocks are gone, the size is not. *)
itrunc_endKeepsSize(p) ==
  /\ proc[p].pc = "itrunc_end"
  /\ Release(proc[p].ip)
  /\ proc' = [proc EXCEPT ![p] = Idle] /\ logged' = [logged EXCEPT ![p] = {}]
  /\ UNCHANGED <<used, data, addrs, size, off>>

(* size = 0, iupdate() and the end of the call *)
itrunc_end(p) ==
  /\ proc[p].pc = "itrunc_end"
  /\ LET i == proc[p].ip
     IN  /\ size' = [size EXCEPT ![i] = 0]
         /\ Release(i)
  /\ proc' = [proc EXCEPT ![p] = Idle]
  /\ logged' = [logged EXCEPT ![p] = {}]
  /\ UNCHANGED <<used, data, addrs, off>>

Next == \E p \in Procs :
  \/ \E i \in Inodes : \/ \E n \in Sizes : write(p, i, n) \/ fileread(p, i, n)
                       \/ itrunc(p, i)
  \/ writei(p) \/ writei_block(p) \/ writei_end(p)
  \/ itrunc_indirect(p) \/ itrunc_end(p)

Spec == Init /\ [][Next]_vars

-----------------------------------------------------------------------------
(* The cell at offset o of i, where bmap() finds it *)
Cell(i, o) ==
  LET bn == o \div BSIZE
      b  == IF bn < NDIRECT THEN addrs[i][bn] ELSE data[addrs[i][NDIRECT]][bn - NDIRECT]
  IN  data[b][o % BSIZE]

(* A file holds, at every offset below its size, the byte that was written   *)
(* at that offset of that file, whatever blocks came from and went to other  *)
(* files; and there is a block for it, so that readi(), which runs outside   *)
(* of a transaction, never makes bmap() allocate one.                        *)
Contents ==
  \A i \in Inodes : lock[i] = None =>
    \A o \in 0 .. size[i] - 1 : ~Hole(i, o \div BSIZE) /\ Cell(i, o) = Byte(i, o)

(* The places that hold a block number *)
Places(i) == {<<i, k, addrs[i][k]>> : k \in 0 .. NDIRECT} \cup
             (IF addrs[i][NDIRECT] = 0 THEN {}
              ELSE {<<i, NDIRECT + 1 + k, data[addrs[i][NDIRECT]][k]>> : k \in Cells})
Owned == {x \in UNION {Places(i) : i \in Inodes} : x[3] # 0}

(* Every block that is in use is in exactly one place of one file, also when *)
(* a write stops half-way because the disk is full or a copy fails; so none  *)
(* is lost, and bfree() does not panic.                                      *)
BlocksOwned ==
  /\ used = {x[3] : x \in Owned}
  /\ \A x, y \in Owned : x[3] = y[3] => x = y
  /\ \A p \in Procs : proc[p].pc # "panic"

(* A transaction of filewrite() or itrunc() writes at most MAXOPBLOCKS blocks*)
(* of the log, the inode included.                                           *)
FitsInLog == \A p \in Procs : Cardinality(logged[p]) + 1 <= MAXOPBLOCKS
=============================================================================
