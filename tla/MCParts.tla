------------------------------ MODULE MCParts -------------------------------
(***************************************************************************)
(* One run for parts that share nothing: the buffer cache, the table of    *)
(* open files, the shell, malloc() and grep.  A behaviour is one of one    *)
(* part, while the others stay in an initial state, so what TLC explores   *)
(* is the sum.                                                             *)
(***************************************************************************)
EXTENDS Bcache

VARIABLES
  part,
  ftable, ends, inodes, ofile, running, call,                              \* of FileTable
  typed, lines, where, cmd, path, fds, parent, failed,                     \* of Sh
  ptr, size, freep, brk, gaps, request, p, prevp, turns,                   \* of Umalloc
  pattern, text, input, buf, out, done                                     \* of Grep

filevars == <<ftable, ends, inodes, ofile, running, call>>
shvars   == <<typed, lines, where, cmd, path, fds, parent, failed>>
heapvars == <<ptr, size, freep, brk, gaps, request, p, prevp, turns>>
grepvars == <<pattern, text, input, buf, out, done>>

Table == INSTANCE FileTable WITH
  Procs <- {"p1", "p2"}, First <- "p1", NFILE <- 3, NOFILE <- 2, Pipes <- {"k1"},
  pipe <- ends, proc <- call

(* a | a | a      (a < a ; a &) | a      (a | a > a) & ; a      and a line with too many arguments *)
a == [type |-> "EXEC", argc |-> 1]
Redir(c, tok) == [type |-> "REDIR", cmd |-> c, tok |-> tok]
Two(type, l, r) == [type |-> type, left |-> l, right |-> r]
Back(c) == [type |-> "BACK", cmd |-> c]

Shell == INSTANCE Sh WITH
  Cmds <- {Two("PIPE", a, Two("PIPE", a, a)), Two("PIPE", Two("LIST", Redir(a, "<"), Back(a)), a),
           Two("LIST", Back(Two("PIPE", a, Redir(a, ">"))), a), [a EXCEPT !.argc = 3]},
  DEPTH <- 2, MAXARGS <- 3, NPROC <- 6, MaxLines <- 1, pc <- where

Heap == INSTANCE Umalloc WITH Requests <- {2, 3}, CHUNK <- 4, LIMIT <- 11, call <- request

Search == INSTANCE Grep WITH
  Patterns <- UNION {[1 .. k -> {"x", ".", "*", "^", "$"}] : k \in 1 .. 2},
  Letters <- {"x", "y"}, MaxText <- 4, SIZE <- 4

BcacheOff == Init /\ \A k \in Blocks : disk[k] = data[1]
GrepOff == pattern = <<>> /\ text = <<>> /\ input = <<>> /\ buf = <<>> /\ out = <<>> /\ done = FALSE

MCInit ==
  /\ Table!Init /\ Shell!Init /\ Heap!Init
  /\ \/ part = "bcache" /\ Init /\ GrepOff
     \/ part \in {"files", "sh", "malloc"} /\ BcacheOff /\ data[1] = 0 /\ GrepOff
     \/ part = "grep" /\ BcacheOff /\ data[1] = 0 /\ Search!Init

MCNext ==
  \/ part = "bcache" /\ Next        /\ UNCHANGED <<part, filevars, shvars, heapvars, grepvars>>
  \/ part = "files"  /\ Table!Next  /\ UNCHANGED <<part, vars, shvars, heapvars, grepvars>>
  \/ part = "sh"     /\ Shell!Next  /\ UNCHANGED <<part, vars, filevars, heapvars, grepvars>>
  \/ part = "malloc" /\ Heap!Next   /\ UNCHANGED <<part, vars, filevars, shvars, grepvars>>
  \/ part = "grep"   /\ Search!Next /\ UNCHANGED <<part, vars, filevars, shvars, heapvars>>

MCSpec == MCInit /\ [][MCNext]_<<part, vars, filevars, shvars, heapvars, grepvars>>

(* file.c: the count of every open file is the number of descriptors and calls  *)
(* that use it, and the inodes' references are those of the open files.         *)
RefExact == part = "files" => Table!RefExact

(* pipe.c, pipeclose(): an end of a pipe is open as long as a file is on it.    *)
EndsExact == part = "files" => Table!EndsExact

(* sh.c: the parser finds the command that a line was written for. *)
ParseRight == part = "sh" => Shell!ParseRight

(* sh.c: a program has the input and output of its place in the line. *)
Wired == part = "sh" => Shell!Wired

(* sh.c: the prompt comes back, and then only background parts of the line      *)
(* still run.                                                                   *)
PromptReturns == part = "sh" => Shell!ForegroundDone /\ Shell!NobodyStuck

(* umalloc.c: between calls the free list and the blocks in use divide the      *)
(* heap, and malloc() and free() go round the list at most once.                *)
HeapSound == part = "malloc" => Heap!HeapSound /\ Heap!OneRound

(* grep.c: exactly the lines that match are printed, however read() cuts them.  *)
GrepRight == part = "grep" => Search!GrepRight
=============================================================================
