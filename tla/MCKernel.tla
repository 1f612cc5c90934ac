------------------------------ MODULE MCKernel ------------------------------
(***************************************************************************)
(* One run for two parts that share nothing: traps and spin locks, and the *)
(* contents of files.  A behaviour is one of one part, while the other     *)
(* stays in its initial state, so what TLC explores is the sum.            *)
(***************************************************************************)
EXTENDS Trap

VARIABLES
  part,
  used, data, addrs, size, ilock, off, call, logged      \* of FileData

filevars == <<used, data, addrs, size, ilock, off, call, logged>>

MCByte(i, o) == 10 * i + o

File == INSTANCE FileData WITH
  Inodes <- {1, 2}, NBLOCKS <- 4, BSIZE <- 2, NDIRECT <- 1, BPB <- 4,
  MAXOPBLOCKS <- 6, Sizes <- {1, 3, 5}, Byte <- MCByte, lock <- ilock, proc <- call

MCInit == part \in {"trap", "file"} /\ Init /\ File!Init

MCNext ==
  \/ part = "trap" /\ Next      /\ UNCHANGED <<part, filevars>>
  \/ part = "file" /\ File!Next /\ UNCHANGED <<part, vars>>

MCVars == <<part, vars, filevars>>
MCSpec == MCInit /\ [][MCNext]_MCVars

(* Left out: intena while no lock is held, which is written before it is read;  *)
(* sepc and epc, read only by the step after a trap; and the cells of free      *)
(* blocks, also written before they are read.                                   *)
View ==
  <<part,
    sie, stvec, noff, proc, run, lock, state, stack, [c \in Cpus |-> noff[c] > 0 /\ intena[c]],
    used, [b \in used |-> data[b]], addrs, size, ilock, off, call, logged,
    MCVars = MCVars>>

(* fs.c: files hold what was written to them. *)
Contents == part = "file" => File!Contents

(* fs.c: a block in use is in one place of one file. *)
BlocksOwned == part = "file" => File!BlocksOwned

(* file.c: a transaction of filewrite() fits in its part of the log. *)
FitsInLog == part = "file" => File!FitsInLog
=============================================================================
