--------------------------------- MODULE Fs ---------------------------------
(***************************************************************************)
(* Inodes, directories and path names (kernel/fs.c) and the system calls   *)
(* on names (kernel/sysfile.c): open, mkdir, mknod, link, unlink, chdir    *)
(* and the iput() of a close.                                              *)
(*                                                                         *)
(* A step runs from one ilock() to the next place where another process    *)
(* may come in: another ilock(), or iput(), which uses itable.lock.  The   *)
(* slots of itable are named by the inode they hold.  A path is a flag and *)
(* the sequence of elements skipelem() finds in it.  Sizes and contents    *)
(* are in module FileData; a write to a directory may find the disk full.  *)
(***************************************************************************)
EXTENDS Naturals, Sequences, FiniteSets

CONSTANTS
  Procs, None,
  NINODES,         \* sb.ninodes - 1, the inodes 1 .. NINODES
  Names,
  Calls            \* [op, abs, path, new]: what programs call

ROOTINO == 1
Inodes == 1 .. NINODES
Entries == Names \cup {".", ".."}

VARIABLES
  disk,            \* dinode and, for a directory, its entries (0: none)
  itable,          \* ref, lock, valid and the copies of type and nlink
  proc             \* cwd, one open file, and where the call is

vars == <<disk, itable, proc>>

Empty == [e \in Entries |-> 0]
FreeInode == [type |-> "none", nlink |-> 0, ent |-> Empty]
NoInode == [ref |-> 0, lock |-> None, valid |-> FALSE, type |-> "none", nlink |-> 0]
Types == {"none", "dir", "file", "device"}

(* The fields of proc beside cwd and ofile: the call and its label, the label *)
(* after namex(), the path still to be walked, the inodes in hand, the inodes  *)
(* to iput() before anything else and whether the first of them is freed.      *)
Idle(cwd, f) == [pc |-> "idle", then |-> "idle", call |-> None, path |-> <<>>,
                 ip |-> 0, dp |-> 0, old |-> 0, puts |-> <<>>, freed |-> FALSE,
                 cwd |-> cwd, ofile |-> f]

Init ==
  /\ disk = [i \in Inodes |->
               IF i = ROOTINO THEN [type |-> "dir", nlink |-> 1,
                                    ent |-> [Empty EXCEPT !["."] = 1, ![".."] = 1]]
               ELSE FreeInode]
  /\ itable = [i \in Inodes |->
                 IF i = ROOTINO THEN [NoInode EXCEPT !.ref = Cardinality(Procs)] ELSE NoInode]
  /\ proc = [p \in Procs |-> Idle(ROOTINO, 0)]

-----------------------------------------------------------------------------
(* iget() and idup() on the table t *)
iget(t, i) ==
  [t EXCEPT ![i] = IF @.ref > 0 THEN [@ EXCEPT !.ref = @ + 1] ELSE [NoInode EXCEPT !.ref = 1]]

(* The slot of i once ilock() has read it from the disk, lock aside *)
Loaded(i) ==
  IF itable[i].valid THEN itable[i]
  ELSE [itable[i] EXCEPT !.valid = TRUE, !.type = disk[i].type, !.nlink = disk[i].nlink]

(* itable with i loaded, and locked by p or not *)
Locked(p, i) == [itable EXCEPT ![i] = [Loaded(i) EXCEPT !.lock = p]]
Read(i) == [itable EXCEPT ![i] = Loaded(i)]
Unlocked(i) == [itable EXCEPT ![i].lock = None]

dirlookup(i, name) == disk[i].ent[name]

isdirempty(i) == \A e \in Names : disk[i].ent[e] = 0

(* The first element of the path that is left *)
Elem(p) == Head(proc[p].path)

(* Where process p is, and that it has nothing left to iput() *)
At(p, l) == proc[p].pc = l /\ proc[p].puts = <<>>

(* p goes to l, and does iput() of the inodes in s on the way. *)
Goto(p, l, s) == proc' = [proc EXCEPT ![p].pc = l, ![p].puts = s]

(* end_op() and return, after the puts *)
Return(p, s) == proc' = [proc EXCEPT ![p] = [Idle(@.cwd, @.ofile) EXCEPT !.puts = s]]

(* namex() or a later check fails: sys_link() must undo its nlink++. *)
Fail(p, s) == IF proc[p].old # 0 THEN Goto(p, "link_bad", s) ELSE Return(p, s)

Panic(p) == Goto(p, "panic", <<>>) /\ UNCHANGED <<disk, itable>>

(* ilock(i), then A.  It panics, with the lock, if the inode is free. *)
ilock(p, i, A) ==
  /\ itable[i].lock = None
  /\ IF Loaded(i).type = "none"
     THEN Goto(p, "panic", <<>>) /\ itable' = Locked(p, i) /\ UNCHANGED disk
     ELSE A

(* ilock(d), then A, which starts with dirlookup(): d must be a directory. *)
ilockdir(p, d, A) == ilock(p, d, IF Loaded(d).type # "dir" THEN Panic(p) ELSE A)

-----------------------------------------------------------------------------
(* namex(): its start, and an iteration of its loop *)

nameiparent(p) == proc[p].then \in {"link_dir", "unlink_dir", "create_dir"}

StartInode(p, abs) == IF abs THEN ROOTINO ELSE proc[p].cwd

(* begin_op() and the start of a call with a path *)
Call(p, c) ==
  /\ At(p, "idle")
  /\ c.op \in {"open", "create"} => proc[p].ofile = 0
  /\ itable' = iget(itable, StartInode(p, c.abs))
  /\ proc' = [proc EXCEPT ![p].pc = "namex", ![p].call = c, ![p].path = c.path,
       ![p].ip = StartInode(p, c.abs),
       ![p].then = CASE c.op = "link" -> "link_inc"
                     [] c.op = "unlink" -> "unlink_dir"
                     [] c.op \in {"create", "mkdir", "mknod"} -> "create_dir"
                     [] c.op = "open" -> "open_lock"
                     [] c.op = "chdir" -> "chdir_lock"]
  /\ UNCHANGED disk

(* The path is used up. *)
namex_end(p) ==
  /\ At(p, "namex") /\ proc[p].path = <<>>
  /\ IF nameiparent(p) THEN Fail(p, <<proc[p].ip>>) ELSE Goto(p, proc[p].then, <<>>)
  /\ UNCHANGED <<disk, itable>>

namex_elem(p) ==
  /\ At(p, "namex") /\ proc[p].path # <<>>
  /\ LET i == proc[p].ip
         next == dirlookup(i, Elem(p))
         last == nameiparent(p) /\ Len(proc[p].path) = 1
     IN  ilock(p, i,
           /\ \/ /\ Loaded(i).type # "dir" \/ (~last /\ next = 0)
                 /\ itable' = Read(i)
                 /\ Fail(p, <<i>>)
              \/ /\ Loaded(i).type = "dir" /\ last
                 /\ itable' = Read(i)
                 /\ Goto(p, proc[p].then, <<>>)
              \/ /\ Loaded(i).type = "dir" /\ ~last /\ next # 0
                 /\ itable' = iget(Read(i), next)
                 /\ proc' = [proc EXCEPT ![p].ip = next, ![p].path = Tail(@), ![p].puts = <<i>>]
           /\ UNCHANGED disk)

-----------------------------------------------------------------------------
(* iput() of the first inode in puts.  The last reference to an inode without *)
(* links frees it: the sleep lock is taken under itable.lock, which panics if  *)
(* it has to wait.                                                             *)

LastPut(i) == itable[i].ref = 1 /\ itable[i].valid /\ itable[i].nlink = 0
Puts(p) == proc[p].puts # <<>> /\ proc[p].pc # "panic"
Putting(p) == Head(proc[p].puts)

iput_lock(p) ==
  /\ Puts(p)
  /\ LET i == Putting(p)
     IN  /\ ~proc[p].freed /\ LastPut(i) /\ itable[i].lock # p
         /\ IF itable[i].lock # None THEN Panic(p)
            ELSE /\ itable' = [itable EXCEPT ![i].lock = p]
                 /\ UNCHANGED <<disk, proc>>

(* itrunc(), type = 0, iupdate(), valid = 0, releasesleep() *)
iput_free(p) ==
  /\ Puts(p)
  /\ LET i == Putting(p)
     IN  /\ ~proc[p].freed /\ itable[i].lock = p
         /\ disk' = [disk EXCEPT ![i] = FreeInode]
         /\ itable' = [itable EXCEPT ![i] = [NoInode EXCEPT !.ref = itable[i].ref]]
  /\ proc' = [proc EXCEPT ![p].freed = TRUE]

(* ref--, with no second look at nlink if the inode was freed above *)
iput_drop(p) ==
  /\ Puts(p)
  /\ LET i == Putting(p)
     IN  /\ proc[p].freed \/ ~LastPut(i)
         /\ itable' = [itable EXCEPT ![i] = IF @.ref = 1 THEN NoInode ELSE [@ EXCEPT !.ref = @ - 1]]
  /\ proc' = [proc EXCEPT ![p].puts = Tail(@), ![p].freed = FALSE]
  /\ UNCHANGED disk

-----------------------------------------------------------------------------
(* dirlink(): the name is there already, or the entry is written, or there is *)
(* no block for it.                                                           *)
Linked(d, i, name, to) == [d EXCEPT ![i].ent[name] = to]

(* nlink of i becomes n: in itable, and by iupdate() on the disk *)
Relink(t, i, n) == [t EXCEPT ![i].nlink = n]

(* sys_link(): nlink++ of the old file, then the entry in the new directory *)

SecondPath(p) ==
  proc' = [proc EXCEPT ![p].pc = "namex", ![p].then = "link_dir", ![p].old = proc[p].ip,
             ![p].ip = StartInode(p, proc[p].call.abs), ![p].path = proc[p].call.new]

(* Fault: the link is not counted. *)
link_incNot(p) ==
  /\ At(p, "link_inc")
  /\ LET i == proc[p].ip
     IN  ilock(p, i, /\ Loaded(i).type # "dir"
                     /\ itable' = iget(Read(i), StartInode(p, proc[p].call.abs))
                     /\ SecondPath(p)
                     /\ UNCHANGED disk)

link_inc(p) ==
  /\ At(p, "link_inc")
  /\ LET i == proc[p].ip
         n == Loaded(i).nlink + 1
     IN  ilock(p, i,
           \/ /\ Loaded(i).type = "dir"
              /\ itable' = Read(i)
              /\ Return(p, <<i>>)
              /\ UNCHANGED disk
           \/ /\ Loaded(i).type # "dir"
              /\ disk' = Relink(disk, i, n)
              /\ itable' = iget(Relink(Read(i), i, n), StartInode(p, proc[p].call.abs))
              /\ SecondPath(p))

link_dir(p) ==
  /\ At(p, "link_dir")
  /\ LET d == proc[p].ip
         found == dirlookup(d, Elem(p))
     IN  ilockdir(p, d,
           \/ /\ found # 0                    \* dirlink() puts it with dp locked
              /\ itable' = iget(Locked(p, d), found)
              /\ Goto(p, "link_undir", <<found>>)
              /\ UNCHANGED disk
           \/ /\ found = 0
              /\ itable' = Read(d)
              /\ Goto(p, "link_bad", <<d>>)
              /\ UNCHANGED disk
           \/ /\ found = 0
              /\ disk' = Linked(disk, d, Elem(p), proc[p].old)
              /\ itable' = Read(d)
              /\ Return(p, <<d, proc[p].old>>))

link_undir(p) ==
  /\ At(p, "link_undir")
  /\ itable' = Unlocked(proc[p].ip)
  /\ Goto(p, "link_bad", <<proc[p].ip>>)
  /\ UNCHANGED disk

link_bad(p) ==
  /\ At(p, "link_bad")
  /\ LET i == proc[p].old
         n == Loaded(i).nlink - 1
     IN  ilock(p, i, /\ disk' = Relink(disk, i, n)
                     /\ itable' = Relink(Read(i), i, n)
                     /\ Return(p, <<i>>))

-----------------------------------------------------------------------------
(* sys_unlink() *)

(* Fault: "." may be unlinked. *)
NotUnlinkableDot == {".."}

NotUnlinkable == {".", ".."}

(* If the entry is there, the directory stays locked while ip is locked. *)
unlink_dir(p) ==
  /\ At(p, "unlink_dir")
  /\ LET d == proc[p].ip
         found == dirlookup(d, Elem(p))
     IN  ilockdir(p, d,
           /\ \/ /\ Elem(p) \in NotUnlinkable \/ found = 0
                 /\ itable' = Read(d)
                 /\ Return(p, <<d>>)
              \/ /\ Elem(p) \notin NotUnlinkable /\ found # 0
                 /\ itable' = iget(Locked(p, d), found)
                 /\ proc' = [proc EXCEPT ![p].pc = "unlink_ip", ![p].dp = d, ![p].ip = found]
           /\ UNCHANGED disk)

unlink_ip(p) ==
  /\ At(p, "unlink_ip")
  /\ LET d == proc[p].dp
         i == proc[p].ip
         n == IF Loaded(i).type = "dir" THEN itable[d].nlink - 1 ELSE itable[d].nlink
     IN  ilock(p, i,
           IF Loaded(i).nlink < 1 THEN Panic(p)
           ELSE \/ /\ Loaded(i).type = "dir" /\ ~isdirempty(i)
                   /\ itable' = Read(i)
                   /\ Goto(p, "unlink_bad", <<i>>)
                   /\ UNCHANGED disk
                \/ /\ Loaded(i).type = "dir" => isdirempty(i)
                   /\ disk' = Relink(Linked(disk, d, Elem(p), 0), d, n)
                   /\ itable' = Relink([Locked(p, i) EXCEPT ![d].lock = None], d, n)
                   /\ Goto(p, "unlink_end", <<d>>))

unlink_bad(p) ==
  /\ At(p, "unlink_bad")
  /\ itable' = Unlocked(proc[p].dp)
  /\ Return(p, <<proc[p].dp>>)
  /\ UNCHANGED disk

unlink_end(p) ==
  /\ At(p, "unlink_end")
  /\ LET i == proc[p].ip
         n == itable[i].nlink - 1
     IN  /\ disk' = Relink(disk, i, n)
         /\ itable' = Relink(Unlocked(i), i, n)
         /\ Return(p, <<i>>)

-----------------------------------------------------------------------------
(* create(), for open with O_CREATE, mkdir and mknod *)

Creates(p) == CASE proc[p].call.op = "mkdir" -> "dir"
                [] proc[p].call.op = "mknod" -> "device"
                [] OTHER -> "file"

(* ialloc() marks an inode that is free on the disk; which one does not matter. *)
ialloc(p, i) == [disk EXCEPT ![i] = [FreeInode EXCEPT !.type = Creates(p)]]

create_dir(p) ==
  /\ At(p, "create_dir")
  /\ LET d == proc[p].ip
         found == dirlookup(d, Elem(p))
         free == {i \in Inodes : disk[i].type = "none"}
     IN  ilockdir(p, d,
           \/ /\ found # 0
              /\ itable' = iget(Read(d), found)
              /\ proc' = [proc EXCEPT ![p].pc = "create_found", ![p].ip = found, ![p].puts = <<d>>]
              /\ UNCHANGED disk
           \/ /\ found = 0 /\ free = {}
              /\ itable' = Read(d)
              /\ Return(p, <<d>>)
              /\ UNCHANGED disk
           \/ /\ found = 0
              /\ \E i \in free :
                   /\ disk' = ialloc(p, i)
                   /\ itable' = iget(Locked(p, d), i)
                   /\ proc' = [proc EXCEPT ![p].pc = "create_init", ![p].dp = d, ![p].ip = i])

create_found(p) ==
  /\ At(p, "create_found")
  /\ LET i == proc[p].ip
     IN  ilock(p, i,
           /\ IF Creates(p) = "file" /\ Loaded(i).type \in {"file", "device"}
              THEN itable' = Locked(p, i) /\ Goto(p, "open_file", <<>>)
              ELSE itable' = Read(i) /\ Return(p, <<i>>)
           /\ UNCHANGED disk)

(* The new inode gets its link and its entries, or, if the disk is full at   *)
(* one of the writes, loses its link again.  dp stays locked until the end.  *)
create_init(p) ==
  /\ At(p, "create_init")
  /\ LET d == proc[p].dp
         i == proc[p].ip
         isdir == Creates(p) = "dir"
         n == IF isdir THEN itable[d].nlink + 1 ELSE itable[d].nlink
         dot == IF isdir THEN Linked(disk, i, ".", i) ELSE disk
         dots == IF isdir THEN Linked(dot, i, "..", d) ELSE disk
     IN  ilock(p, i,
           \/ /\ disk' = Relink(Relink(Linked(dots, d, Elem(p), i), i, 1), d, n)
              /\ itable' = Relink(Relink([Locked(p, i) EXCEPT ![d].lock = None], i, 1), d, n)
              /\ Goto(p, IF proc[p].call.op = "create" THEN "open_file" ELSE "create_done", <<d>>)
           \/ /\ disk' \in {disk, dot, dots}
              /\ itable' = Relink(Read(i), i, 0)
              /\ Goto(p, "create_fail", <<i>>))

create_fail(p) ==
  /\ At(p, "create_fail")
  /\ itable' = Unlocked(proc[p].dp)
  /\ Return(p, <<proc[p].dp>>)
  /\ UNCHANGED disk

(* iunlockput() of mkdir and mknod *)
create_done(p) ==
  /\ At(p, "create_done")
  /\ itable' = Unlocked(proc[p].ip)
  /\ Return(p, <<proc[p].ip>>)
  /\ UNCHANGED disk

-----------------------------------------------------------------------------
(* The rest of sys_open(), sys_chdir() and the close of an inode *)

open_lock(p) ==
  /\ At(p, "open_lock")
  /\ LET i == proc[p].ip
     IN  ilock(p, i,
           /\ \/ /\ Loaded(i).type = "dir"      \* and not O_RDONLY
                 /\ itable' = Read(i)
                 /\ Return(p, <<i>>)
              \/ /\ itable' = Locked(p, i)
                 /\ Goto(p, "open_file", <<>>)
           /\ UNCHANGED disk)

(* filealloc() and fdalloc() may fail, and so does a bad major number. *)
open_file(p) ==
  /\ At(p, "open_file")
  /\ itable' = Unlocked(proc[p].ip)
  /\ \/ Return(p, <<proc[p].ip>>)
     \/ proc' = [proc EXCEPT ![p] = Idle(@.cwd, @.ip)]
  /\ UNCHANGED disk

(* Fault: cwd is set before the iput() of the old one. *)
chdir_lockPutsNew(p) ==
  /\ At(p, "chdir_lock")
  /\ LET i == proc[p].ip
     IN  ilock(p, i,
           /\ itable' = Read(i)
           /\ IF Loaded(i).type = "dir"
              THEN proc' = [proc EXCEPT ![p] = [Idle(i, @.ofile) EXCEPT !.puts = <<i>>]]
              ELSE Return(p, <<i>>)
           /\ UNCHANGED disk)

chdir_lock(p) ==
  /\ At(p, "chdir_lock")
  /\ LET i == proc[p].ip
     IN  ilock(p, i,
           /\ itable' = Read(i)
           /\ IF Loaded(i).type = "dir"
              THEN proc' = [proc EXCEPT ![p] = [Idle(i, @.ofile) EXCEPT !.puts = <<proc[p].cwd>>]]
              ELSE Return(p, <<i>>)
           /\ UNCHANGED disk)

fileclose(p) ==
  /\ At(p, "idle") /\ proc[p].ofile # 0
  /\ proc' = [proc EXCEPT ![p] = [Idle(@.cwd, 0) EXCEPT !.puts = <<proc[p].ofile>>]]
  /\ UNCHANGED <<disk, itable>>

Step(p) ==
  \/ namex_end(p) \/ namex_elem(p)
  \/ iput_lock(p) \/ iput_free(p) \/ iput_drop(p)
  \/ link_inc(p) \/ link_dir(p) \/ link_undir(p) \/ link_bad(p)
  \/ unlink_dir(p) \/ unlink_ip(p) \/ unlink_bad(p) \/ unlink_end(p)
  \/ create_dir(p) \/ create_found(p) \/ create_init(p) \/ create_fail(p) \/ create_done(p)
  \/ open_lock(p) \/ open_file(p) \/ chdir_lock(p)

Next == \E p \in Procs : Step(p) \/ fileclose(p) \/ \E c \in Calls : Call(p, c)

Spec == Init /\ [][Next]_vars

-----------------------------------------------------------------------------
Slot == [ref : Nat, lock : Procs \cup {None}, valid : BOOLEAN, type : Types, nlink : Nat]

TypeOK ==
  /\ disk \in [Inodes -> [type : Types, nlink : Nat, ent : [Entries -> Inodes \cup {0}]]]
  /\ itable \in [Inodes -> Slot]
  /\ \A p \in Procs : /\ proc[p].cwd \in Inodes
                      /\ proc[p].ofile \in Inodes \cup {0}

(* No call is running: what is on the disk then is what a commit of the log  *)
(* makes durable, and what recovery finds after a crash.                     *)
Quiet == \A p \in Procs : At(p, "idle")

Named(i) == {<<d, e>> \in Inodes \X Names : disk[d].type = "dir" /\ disk[d].ent[e] = i}

(* Every committed state has a sound tree: an entry names an allocated inode,*)
(* which has at least as many links as there are entries for it, and a       *)
(* directory that has a name has only one.                                   *)
TreeSound ==
  Quiet => \A i \in Inodes :
    /\ Named(i) # {} => disk[i].type # "none" /\ disk[i].nlink >= Cardinality(Named(i))
    /\ disk[i].type = "dir" => Cardinality(Named(i)) <= 1

(* A file that is open and a current directory keep their inode: it is not   *)
(* freed, nor handed out by ialloc(), while they refer to it.                *)
OpenKept ==
  \A p \in Procs : \A i \in {proc[p].cwd, proc[p].ofile} \ {0} :
    /\ itable[i].ref > 0
    /\ disk[i].type # "none"
    /\ itable[i].valid => itable[i].type = disk[i].type

(* If that was the last reference and the inode has no links to it, iput()   *)
(* frees the inode: none stays allocated without links and references.       *)
NoLeak == Quiet => \A i \in Inodes : disk[i].type # "none" /\ disk[i].nlink = 0 => itable[i].ref > 0

(* The inode p is about to ilock(), or 0 *)
Wants(p) ==
  IF proc[p].puts # <<>> THEN 0
  ELSE CASE proc[p].pc = "namex" /\ proc[p].path # <<>> -> proc[p].ip
         [] proc[p].pc \in {"link_inc", "link_dir", "unlink_dir", "unlink_ip", "create_dir",
                            "create_found", "create_init", "open_lock", "chdir_lock"} -> proc[p].ip
         [] proc[p].pc = "link_bad" -> proc[p].old
         [] OTHER -> 0

(* Nobody waits for an inode lock that it holds itself, or that is held by   *)
(* somebody who waits for one it holds: directories are locked before what   *)
(* they contain, and otherwise one at a time.                                *)
LocksOrdered ==
  \A p \in Procs : Wants(p) # 0 =>
    LET q == itable[Wants(p)].lock
    IN  q # None => q # p /\ ~(Wants(q) # 0 /\ itable[Wants(q)].lock = p)

(* No check of the file system panics: an inode is never unlinked once too   *)
(* often, locked when it is free, searched when it is no directory, or freed *)
(* while somebody has it locked.                                             *)
NoPanic == \A p \in Procs : proc[p].pc # "panic"

(* Locks and checks: nobody waits for ever for an inode, or finds it in a    *)
(* state that the code takes for impossible.                                 *)
LocksSafe == TypeOK /\ LocksOrdered /\ NoPanic
=============================================================================
