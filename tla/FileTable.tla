----------------------------- MODULE FileTable ------------------------------
(***************************************************************************)
(* The table of open files (kernel/file.c), the descriptors of processes   *)
(* and the calls that make, copy and close them (kernel/sysfile.c, fork()  *)
(* and exit() of kernel/proc.c, pipealloc() and pipeclose() of             *)
(* kernel/pipe.c).                                                         *)
(*                                                                         *)
(* A step is a critical section of ftable.lock or of a pipe's lock.  The   *)
(* descriptors of a process are its own; files and pipes are shared.       *)
(***************************************************************************)
EXTENDS Naturals, Sequences, FiniteSets

CONSTANTS
  Procs, None,
  First,           \* the process that runs at the start
  NFILE, NOFILE,
  Pipes            \* the pages that hold a pipe

Files == 1 .. NFILE
Fds   == 0 .. NOFILE - 1
Ends  == {"read", "write"}

VARIABLES
  ftable,          \* ref, type ("none", "inode" or the end of a pipe), pipe
  pipe,            \* the open ends: readopen, writeopen; none if the page is free
  inodes,          \* the references that open files have to inodes
  ofile, running,
  proc             \* where a process is in its call

vars == <<ftable, pipe, inodes, ofile, running, proc>>

NoFile == [ref |-> 0, type |-> "none", pipe |-> None]
NoFds  == [d \in Fds |-> 0]

(* In a call: the files in hand, those still to fileclose() and the copy of  *)
(* a file that fileclose() has just taken out of the table.                  *)
Idle == [pc |-> "idle", rf |-> 0, wf |-> 0, closing |-> <<>>, ff |-> NoFile]

Init ==
  /\ ftable = [f \in Files |-> NoFile]
  /\ pipe = [k \in Pipes |-> {}]
  /\ inodes = 0
  /\ ofile = [p \in Procs |-> NoFds]
  /\ running = [p \in Procs |-> p = First]
  /\ proc = [p \in Procs |-> Idle]

First0(S) == CHOOSE x \in S : \A y \in S : x <= y
FreeFiles == {f \in Files : ftable[f].ref = 0}
FreeFds(p) == {d \in Fds : ofile[p][d] = 0}

(* filealloc(), fdalloc() *)
filealloc == First0(FreeFiles)
fdalloc(p) == First0(FreeFds(p))

At(p, l) == running[p] /\ proc[p].pc = l /\ proc[p].closing = <<>> /\ proc[p].ff = NoFile

(* Return, with fileclose() of the files in s on the way *)
Return(p, s) == proc' = [proc EXCEPT ![p] = [Idle EXCEPT !.closing = s]]

-----------------------------------------------------------------------------
(* fileclose() of the next file: the last reference takes it out of the table, *)
(* and what it refers to is closed after ftable.lock is released.              *)
fileclose(p) ==
  /\ running[p] /\ proc[p].closing # <<>> /\ proc[p].ff = NoFile
  /\ LET f == Head(proc[p].closing)
     IN  IF ftable[f].ref < 1
         THEN proc' = [proc EXCEPT ![p].pc = "panic"] /\ UNCHANGED ftable
         ELSE /\ ftable' = [ftable EXCEPT ![f] = IF @.ref > 1 THEN [@ EXCEPT !.ref = @ - 1] ELSE NoFile]
              /\ proc' = [proc EXCEPT ![p].closing = Tail(@),
                            ![p].ff = IF ftable[f].ref > 1 THEN NoFile ELSE [ftable[f] EXCEPT !.ref = 0]]
  /\ UNCHANGED <<pipe, inodes, ofile, running>>

(* Fault: the read end is closed whichever end the file is. *)
fileclose_endRead(p) ==
  /\ proc[p].ff # NoFile
  /\ LET ff == proc[p].ff
     IN  /\ pipe' = IF ff.type \in Ends THEN [pipe EXCEPT ![ff.pipe] = @ \ {"read"}] ELSE pipe
         /\ inodes' = IF ff.type = "inode" THEN inodes - 1 ELSE inodes
  /\ proc' = [proc EXCEPT ![p].ff = NoFile]
  /\ UNCHANGED <<ftable, ofile, running>>

(* pipeclose(), which frees the page after both ends, or iput() *)
fileclose_end(p) ==
  /\ proc[p].ff # NoFile
  /\ LET ff == proc[p].ff
     IN  /\ pipe' = IF ff.type \in Ends THEN [pipe EXCEPT ![ff.pipe] = @ \ {ff.type}] ELSE pipe
         /\ inodes' = IF ff.type = "inode" THEN inodes - 1 ELSE inodes
  /\ proc' = [proc EXCEPT ![p].ff = NoFile]
  /\ UNCHANGED <<ftable, ofile, running>>

-----------------------------------------------------------------------------
(* sys_open(), from filealloc() on, with the inode found and referenced *)
sys_open(p) ==
  /\ At(p, "idle") /\ FreeFiles # {}
  /\ LET f == filealloc
     IN  \/ /\ FreeFds(p) # {}
            /\ ftable' = [ftable EXCEPT ![f] = [ref |-> 1, type |-> "inode", pipe |-> None]]
            /\ ofile' = [ofile EXCEPT ![p][fdalloc(p)] = f]
            /\ inodes' = inodes + 1
            /\ UNCHANGED proc
         \/ /\ FreeFds(p) = {}
            /\ ftable' = [ftable EXCEPT ![f].ref = 1]
            /\ Return(p, <<f>>)
            /\ UNCHANGED <<ofile, inodes>>
  /\ UNCHANGED <<pipe, running>>

(* The descriptor of a call is open. *)
argfd(p, d) == ofile[p][d] # 0

filedup(f) == ftable' = [ftable EXCEPT ![f].ref = @ + 1]

(* Fault: the copy is not counted. *)
sys_dupUncounted(p, d) ==
  /\ At(p, "idle") /\ argfd(p, d) /\ FreeFds(p) # {}
  /\ ofile' = [ofile EXCEPT ![p][fdalloc(p)] = ofile[p][d]]
  /\ UNCHANGED <<ftable, pipe, inodes, running, proc>>

(* fdalloc() and filedup() *)
sys_dup(p, d) ==
  /\ At(p, "idle") /\ argfd(p, d) /\ FreeFds(p) # {}
  /\ ofile' = [ofile EXCEPT ![p][fdalloc(p)] = ofile[p][d]]
  /\ filedup(ofile[p][d])
  /\ UNCHANGED <<pipe, inodes, running, proc>>

sys_close(p, d) ==
  /\ At(p, "idle") /\ argfd(p, d)
  /\ ofile' = [ofile EXCEPT ![p][d] = 0]
  /\ Return(p, <<ofile[p][d]>>)
  /\ UNCHANGED <<ftable, pipe, inodes, running>>

-----------------------------------------------------------------------------
(* sys_pipe(): the two files and the page of pipealloc(), then the descriptors *)

pipealloc_r(p) ==
  /\ At(p, "idle") /\ FreeFiles # {}
  /\ ftable' = [ftable EXCEPT ![filealloc].ref = 1]
  /\ proc' = [proc EXCEPT ![p].pc = "pipe_w", ![p].rf = filealloc]
  /\ UNCHANGED <<pipe, inodes, ofile, running>>

pipealloc_w(p) ==
  /\ At(p, "pipe_w")
  /\ \/ /\ FreeFiles = {}
        /\ Return(p, <<proc[p].rf>>)
        /\ UNCHANGED ftable
     \/ /\ FreeFiles # {}
        /\ ftable' = [ftable EXCEPT ![filealloc].ref = 1]
        /\ proc' = [proc EXCEPT ![p].pc = "pipe_page", ![p].wf = filealloc]
  /\ UNCHANGED <<pipe, inodes, ofile, running>>

(* kalloc() may fail. *)
pipealloc_page(p) ==
  /\ At(p, "pipe_page")
  /\ \/ /\ Return(p, <<proc[p].rf, proc[p].wf>>)
        /\ UNCHANGED <<ftable, pipe>>
     \/ \E k \in Pipes :
          /\ pipe[k] = {}
          /\ pipe' = [pipe EXCEPT ![k] = Ends]
          /\ ftable' = [ftable EXCEPT ![proc[p].rf].type = "read",  ![proc[p].rf].pipe = k,
                                      ![proc[p].wf].type = "write", ![proc[p].wf].pipe = k]
          /\ proc' = [proc EXCEPT ![p].pc = "pipe_fds"]
  /\ UNCHANGED <<inodes, ofile, running>>

(* Two descriptors and their copyout(), or none at all *)
sys_pipe(p) ==
  /\ At(p, "pipe_fds")
  /\ \/ Return(p, <<proc[p].rf, proc[p].wf>>) /\ UNCHANGED ofile
     \/ /\ Cardinality(FreeFds(p)) >= 2
        /\ LET d0 == fdalloc(p)
               d1 == First0(FreeFds(p) \ {d0})
           IN  ofile' = [ofile EXCEPT ![p][d0] = proc[p].rf, ![p][d1] = proc[p].wf]
        /\ Return(p, <<>>)
  /\ UNCHANGED <<ftable, pipe, inodes, running>>

-----------------------------------------------------------------------------
(* fork(): the files of the parent cannot go away meanwhile, so the order of  *)
(* its filedup() calls does not matter.                                       *)
fork(p, c) ==
  /\ At(p, "idle") /\ ~running[c]
  /\ ofile' = [ofile EXCEPT ![c] = ofile[p]]
  /\ ftable' = [f \in Files |->
       [ftable[f] EXCEPT !.ref = @ + Cardinality({d \in Fds : ofile[p][d] = f})]]
  /\ running' = [running EXCEPT ![c] = TRUE]
  /\ UNCHANGED <<pipe, inodes, proc>>

(* exit() closes the files in order; the slot is free once it is waited for. *)
exit(p) ==
  /\ running[p]
  /\ \/ At(p, "idle") /\ p # First
     \/ At(p, "exit")
  /\ LET open == Fds \ FreeFds(p)
         d == First0(open)
     IN  \/ /\ open # {}
            /\ proc' = [proc EXCEPT ![p].pc = "exit", ![p].closing = <<ofile[p][d]>>]
            /\ ofile' = [ofile EXCEPT ![p][d] = 0]
            /\ UNCHANGED running
         \/ /\ open = {}
            /\ proc' = [proc EXCEPT ![p] = Idle]
            /\ running' = [running EXCEPT ![p] = FALSE]
            /\ UNCHANGED ofile
  /\ UNCHANGED <<ftable, pipe, inodes>>

Next == \E p \in Procs :
  \/ fileclose(p) \/ fileclose_end(p)
  \/ sys_open(p) \/ pipealloc_r(p) \/ pipealloc_w(p) \/ pipealloc_page(p) \/ sys_pipe(p)
  \/ \E d \in Fds : sys_dup(p, d) \/ sys_close(p, d)
  \/ \E c \in Procs : fork(p, c)
  \/ exit(p)

Spec == Init /\ [][Next]_vars

-----------------------------------------------------------------------------
(* What refers to a file: descriptors and calls that have it in hand *)
References(f) ==
  {x \in Procs \X Fds : ofile[x[1]][x[2]] = f}
  \cup {<<p, "call">> : p \in {q \in Procs : f \in {proc[q].rf, proc[q].wf}}}
  \cup UNION {{<<p, "close", k>> : k \in {j \in DOMAIN proc[p].closing : proc[p].closing[j] = f}} : p \in Procs}

(* What holds an end of pipe k open: files, and copies of files being closed *)
Holders(k, e) ==
  {f \in Files : ftable[f].type = e /\ ftable[f].pipe = k}
  \cup {<<p>> : p \in {q \in Procs : proc[q].ff.type = e /\ proc[q].ff.pipe = k}}

(* The count of a file is the number of descriptors and calls that refer to  *)
(* it, through dup, fork, exit and the failures of open and pipe: a file is  *)
(* not closed under a process, and no slot of ftable is lost.  And an inode  *)
(* reference is given back just when the file that has it goes.              *)
RefExact ==
  /\ \A f \in Files : ftable[f].ref = Cardinality(References(f))
  /\ inodes = Cardinality({f \in Files : ftable[f].type = "inode"})
              + Cardinality({p \in Procs : proc[p].ff.type = "inode"})
  /\ \A p \in Procs : proc[p].pc # "panic"

(* An end of a pipe is open just as long as one file, referred to by some    *)
(* descriptor or call, stands for it: readers see the end of file when the   *)
(* last writer is gone and not before, and the page is freed once.           *)
EndsExact ==
  /\ \A k \in Pipes, e \in Ends :
       Cardinality(Holders(k, e)) = IF e \in pipe[k] THEN 1 ELSE 0
  /\ \A f \in Files : ftable[f].type # "none" => References(f) # {}
=============================================================================
