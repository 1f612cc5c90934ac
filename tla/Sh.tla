--------------------------------- MODULE Sh ---------------------------------
(***************************************************************************)
(* The shell (user/sh.c): the parser of a command line, and runcmd(),      *)
(* which runs the parsed command with fork, pipe, close, dup, open, exec,  *)
(* wait and exit.                                                          *)
(*                                                                         *)
(* A line is a sequence of the tokens that gettoken() finds; "a" is a      *)
(* word.  The system calls are modelled from their use here: module        *)
(* FileTable has their insides.                                            *)
(***************************************************************************)
EXTENDS Naturals, Sequences, FiniteSets

CONSTANTS
  Cmds,         \* the commands that are typed
  DEPTH,        \* bound: the depth of the commands that the parser is checked on
  MAXARGS,
  NPROC,        \* processes 1 .. NPROC, the first is the shell
  MaxLines      \* bound on the lines typed

Symbols == {"<", ">", ">>", "|", "&", ";", "(", ")"}

execcmd(argc) == [type |-> "EXEC", argc |-> argc]
redircmd(cmd, tok) == [type |-> "REDIR", cmd |-> cmd, tok |-> tok]
pipecmd(l, r) == [type |-> "PIPE", left |-> l, right |-> r]
listcmd(l, r) == [type |-> "LIST", left |-> l, right |-> r]
backcmd(cmd) == [type |-> "BACK", cmd |-> cmd]

-----------------------------------------------------------------------------
(* The parser.  A function takes the tokens that are left and gives the    *)
(* command and what is left then; panic("...") ends the process.           *)

peek(s, toks) == s # <<>> /\ Head(s) \in toks
Parsed(cmd, s) == [cmd |-> cmd, rest |-> s]
Syntax == Parsed([type |-> "panic"], <<>>)
Bad(r) == r.cmd.type = "panic"

RECURSIVE parseredirs(_, _)
parseredirs(cmd, s) ==
  IF ~peek(s, {"<", ">", ">>"}) THEN Parsed(cmd, s)
  ELSE IF Len(s) < 2 \/ s[2] # "a" THEN Syntax
  ELSE parseredirs(redircmd(cmd, s[1]), SubSeq(s, 3, Len(s)))

(* The execcmd under the redirections gets its arguments while they are parsed. *)
RECURSIVE AddArg(_)
AddArg(cmd) == IF cmd.type = "EXEC" THEN execcmd(cmd.argc + 1) ELSE redircmd(AddArg(cmd.cmd), cmd.tok)

RECURSIVE Args(_, _)
Args(r, argc) ==
  IF Bad(r) \/ r.rest = <<>> \/ peek(r.rest, {"|", ")", "&", ";"}) THEN r
  ELSE IF Head(r.rest) # "a" \/ argc + 1 >= MAXARGS THEN Syntax
  ELSE Args(parseredirs(AddArg(r.cmd), Tail(r.rest)), argc + 1)

RECURSIVE parseline(_)
RECURSIVE parsepipe(_)

parseblock(s) ==
  LET r == parseline(Tail(s))
  IN  IF Bad(r) \/ ~peek(r.rest, {")"}) THEN Syntax ELSE parseredirs(r.cmd, Tail(r.rest))

parseexec(s) == IF peek(s, {"("}) THEN parseblock(s) ELSE Args(parseredirs(execcmd(0), s), 0)

(* Fault: a | b | c is (a | b) | c, with the second pipe left over. *)
parsepipeOnce(s) ==
  LET l == parseexec(s)
      r == parseexec(Tail(l.rest))
  IN  IF Bad(l) \/ ~peek(l.rest, {"|"}) THEN l
      ELSE IF Bad(r) THEN Syntax
      ELSE Parsed(pipecmd(l.cmd, r.cmd), r.rest)

parsepipe(s) ==
  LET l == parseexec(s)
      r == parsepipe(Tail(l.rest))
  IN  IF Bad(l) \/ ~peek(l.rest, {"|"}) THEN l
      ELSE IF Bad(r) THEN Syntax
      ELSE Parsed(pipecmd(l.cmd, r.cmd), r.rest)

RECURSIVE Backs(_)
Backs(r) == IF ~Bad(r) /\ peek(r.rest, {"&"}) THEN Backs(Parsed(backcmd(r.cmd), Tail(r.rest))) ELSE r

parseline(s) ==
  LET l == Backs(parsepipe(s))
      r == parseline(Tail(l.rest))
  IN  IF Bad(l) \/ ~peek(l.rest, {";"}) THEN l
      ELSE IF Bad(r) THEN Syntax
      ELSE Parsed(listcmd(l.cmd, r.cmd), r.rest)

parsecmd(s) == LET r == parseline(s) IN IF r.rest # <<>> THEN Syntax.cmd ELSE r.cmd

(* What to type for a command: parentheses where its operator binds less than its place *)
Level(cmd) == CASE cmd.type \in {"EXEC", "REDIR"} -> 0 [] cmd.type = "PIPE" -> 1 [] cmd.type = "BACK" -> 2 [] OTHER -> 3

RECURSIVE Text(_, _)
Text(cmd, level) ==
  IF Level(cmd) > level THEN <<"(">> \o Text(cmd, 3) \o <<")">>
  ELSE CASE cmd.type = "EXEC"  -> [i \in 1 .. cmd.argc |-> "a"]
         [] cmd.type = "REDIR" -> Text(cmd.cmd, 0) \o <<cmd.tok, "a">>
         [] cmd.type = "PIPE"  -> Text(cmd.left, 0) \o <<"|">> \o Text(cmd.right, 1)
         [] cmd.type = "BACK"  -> Text(cmd.cmd, 2) \o <<"&">>
         [] cmd.type = "LIST"  -> Text(cmd.left, 2) \o <<";">> \o Text(cmd.right, 3)

-----------------------------------------------------------------------------
(* runcmd() *)

VARIABLES
  typed,        \* the command that is run, and the number of lines typed
  lines,
  pc, cmd,
  path,         \* where cmd is in the command typed
  fds,          \* what a process's descriptors are open on
  parent,       \* 0 is init
  failed        \* lines of which a fork, pipe or open failed

vars == <<typed, lines, pc, cmd, path, fds, parent, failed>>

Pids == 1 .. NPROC
FDs == 0 .. 4
closed == <<"closed">>
console == <<"console">>
nothing == execcmd(0)

Init ==
  /\ typed = nothing /\ lines = 0
  /\ pc = [p \in Pids |-> IF p = 1 THEN "main" ELSE "free"]
  /\ cmd = [p \in Pids |-> nothing]
  /\ path = [p \in Pids |-> <<>>]
  /\ fds = [p \in Pids |-> [d \in FDs |-> IF p = 1 /\ d < 3 THEN console ELSE closed]]
  /\ parent = [p \in Pids |-> 0]
  /\ failed = {}

Lowest(fd) == CHOOSE d \in FDs : fd[d] = closed /\ \A e \in 0 .. d - 1 : fd[e] # closed
close(fd, d) == [fd EXCEPT ![d] = closed]
open(fd, file) == [fd EXCEPT ![Lowest(fd)] = file]
dup(fd, d) == open(fd, fd[d])

(* A pipe is named for the command it belongs to. *)
ReadEnd(k) == <<"read", k>>
WriteEnd(k) == <<"write", k>>

(* exit(): the zombies left to init are reaped at once. *)
exit(p) ==
  /\ pc' = [q \in Pids |-> IF q = p THEN IF parent[p] = 0 THEN "free" ELSE "zombie"
                            ELSE IF parent[q] = p /\ pc[q] = "zombie" THEN "free" ELSE pc[q]]
  /\ parent' = [q \in Pids |-> IF parent[q] = p THEN 0 ELSE parent[q]]
  /\ fds' = [fds EXCEPT ![p] = [d \in FDs |-> closed]]
  /\ cmd' = [cmd EXCEPT ![p] = nothing]
  /\ path' = [path EXCEPT ![p] = <<>>]

(* panic(), after fork(), pipe() or open() failed *)
panic(p) == exit(p) /\ failed' = failed \cup {path[p][i] : i \in DOMAIN path[p] \cap {1}}

(* fork1(): the child goes on with a part of the command, the parent at next. *)
fork1(p, next, fd, sub, part) ==
  \/ panic(p)
  \/ \E q \in Pids \ {1} :
       /\ pc[q] = "free" /\ \A r \in 2 .. q - 1 : pc[r] # "free"
       /\ pc' = [pc EXCEPT ![p] = next, ![q] = "runcmd"]
       /\ cmd' = [cmd EXCEPT ![q] = sub]
       /\ path' = [path EXCEPT ![q] = path[p] \o IF p = 1 THEN <<lines'>> ELSE <<part>>]
       /\ fds' = [fds EXCEPT ![q] = fd]
       /\ parent' = [parent EXCEPT ![q] = p]
       /\ UNCHANGED failed

(* wait(0): any child *)
wait(p, next) == \E q \in Pids :
  /\ parent[q] = p /\ pc[q] = "zombie"
  /\ pc' = [pc EXCEPT ![p] = next, ![q] = "free"]
  /\ parent' = [parent EXCEPT ![q] = 0]
  /\ UNCHANGED <<typed, lines, cmd, path, fds, failed>>

(* main(): a line is read, and a child parses and runs it. *)
main(c) ==
  /\ pc[1] = "main" /\ lines < MaxLines
  /\ typed' = c /\ lines' = lines + 1
  /\ fork1(1, "main_wait", fds[1], parsecmd(Text(c, 3)), "line")

main_wait == pc[1] = "main_wait" /\ wait(1, "main")

(* init starts the shell again, with three descriptors on the console. *)
init ==
  /\ pc[1] = "free"
  /\ pc' = [pc EXCEPT ![1] = "main"]
  /\ fds' = [fds EXCEPT ![1] = [d \in FDs |-> IF d < 3 THEN console ELSE closed]]
  /\ UNCHANGED <<typed, lines, cmd, path, parent, failed>>

Is(p, at, type) == p > 1 /\ pc[p] = at /\ cmd[p].type = type

(* A line with a syntax error *)
run_panic(p) == Is(p, "runcmd", "panic") /\ exit(p) /\ UNCHANGED <<typed, lines, failed>>

(* EXEC: without a word the process exits; exec() may fail. *)
run_exec(p) ==
  /\ Is(p, "runcmd", "EXEC")
  /\ \/ exit(p)
     \/ cmd[p].argc > 0 /\ pc' = [pc EXCEPT ![p] = "program"] /\ UNCHANGED <<cmd, path, fds, parent>>
  /\ UNCHANGED <<typed, lines, failed>>

(* A program that reads its standard input to the end *)
program(p) ==
  /\ p > 1 /\ pc[p] = "program"
  /\ fds[p][0][1] = "read" => \A q \in Pids, d \in FDs : fds[q][d] # WriteEnd(fds[p][0][2])
  /\ exit(p)
  /\ UNCHANGED <<typed, lines, failed>>

run_redir(p) ==
  /\ Is(p, "runcmd", "REDIR")
  /\ \/ panic(p)
     \/ /\ fds' = [fds EXCEPT ![p] = open(close(@, IF cmd[p].tok = "<" THEN 0 ELSE 1), <<"file">>)]
        /\ cmd' = [cmd EXCEPT ![p] = @.cmd]
        /\ path' = [path EXCEPT ![p] = Append(@, "cmd")]
        /\ UNCHANGED <<pc, parent, failed>>
  /\ UNCHANGED <<typed, lines>>

run_list(p) ==
  /\ Is(p, "runcmd", "LIST")
  /\ fork1(p, "list_wait", fds[p], cmd[p].left, "left")
  /\ UNCHANGED <<typed, lines>>

list_wait(p) ==
  /\ pc[p] = "list_wait"
  /\ \E q \in Pids : parent[q] = p /\ pc[q] = "zombie"
                      /\ pc' = [pc EXCEPT ![p] = "runcmd", ![q] = "free"] /\ parent' = [parent EXCEPT ![q] = 0]
  /\ cmd' = [cmd EXCEPT ![p] = @.right]
  /\ path' = [path EXCEPT ![p] = Append(@, "right")]
  /\ UNCHANGED <<typed, lines, fds, failed>>

(* PIPE: p[0] and p[1] *)
P0(p) == CHOOSE d \in FDs : fds[p][d] = ReadEnd(path[p])
P1(p) == CHOOSE d \in FDs : fds[p][d] = WriteEnd(path[p])

run_pipe(p) ==
  /\ Is(p, "runcmd", "PIPE")
  /\ \/ panic(p)
     \/ /\ fds' = [fds EXCEPT ![p] = open(open(@, ReadEnd(path[p])), WriteEnd(path[p]))]
        /\ pc' = [pc EXCEPT ![p] = "pipe_left"]
        /\ UNCHANGED <<cmd, path, parent, failed>>
  /\ UNCHANGED <<typed, lines>>

(* Fault: an end of the pipe stays open. *)
CloseRead(p, fd) == close(fd, P0(p))

CloseBoth(p, fd) == close(close(fd, P0(p)), P1(p))

(* The two children, each with its end of the pipe as standard output or input *)
pipe_left(p) ==
  /\ pc[p] = "pipe_left"
  /\ fork1(p, "pipe_right", CloseBoth(p, dup(close(fds[p], 1), P1(p))), cmd[p].left, "left")
  /\ UNCHANGED <<typed, lines>>

pipe_right(p) ==
  /\ pc[p] = "pipe_right"
  /\ fork1(p, "pipe_close", CloseBoth(p, dup(close(fds[p], 0), P0(p))), cmd[p].right, "right")
  /\ UNCHANGED <<typed, lines>>

(* Fault: the parent keeps the write end while it waits. *)
pipe_closeRead(p) ==
  /\ pc[p] = "pipe_close"
  /\ fds' = [fds EXCEPT ![p] = close(@, P0(p))]
  /\ pc' = [pc EXCEPT ![p] = "pipe_wait"]
  /\ UNCHANGED <<typed, lines, cmd, path, parent, failed>>

pipe_close(p) ==
  /\ pc[p] = "pipe_close"
  /\ fds' = [fds EXCEPT ![p] = CloseBoth(p, @)]
  /\ pc' = [pc EXCEPT ![p] = "pipe_wait"]
  /\ UNCHANGED <<typed, lines, cmd, path, parent, failed>>

pipe_wait(p) ==
  \/ pc[p] = "pipe_wait" /\ wait(p, "pipe_wait2")
  \/ pc[p] = "pipe_wait2" /\ wait(p, "end")

run_back(p) ==
  /\ Is(p, "runcmd", "BACK")
  /\ fork1(p, "end", fds[p], cmd[p].cmd, "back")
  /\ UNCHANGED <<typed, lines>>

run_end(p) == p > 1 /\ pc[p] = "end" /\ exit(p) /\ UNCHANGED <<typed, lines, failed>>

runcmd(p) ==
  \/ run_panic(p) \/ run_exec(p) \/ program(p) \/ run_redir(p) \/ run_list(p) \/ list_wait(p)
  \/ run_pipe(p) \/ pipe_left(p) \/ pipe_right(p) \/ pipe_close(p) \/ pipe_wait(p) \/ run_back(p) \/ run_end(p)

Next == (\E c \in Cmds : main(c)) \/ main_wait \/ init \/ \E p \in Pids : runcmd(p)

Spec == Init /\ [][Next]_vars

-----------------------------------------------------------------------------
Trees[n \in 0 .. DEPTH] ==
  IF n = 0 THEN {execcmd(argc) : argc \in 0 .. MAXARGS - 1}
  ELSE LET T == Trees[n - 1]
       IN  UNION {T, {redircmd(c, tok) : c \in T, tok \in {"<", ">", ">>"}}, {backcmd(c) : c \in T},
                  {pipecmd(l, r) : l, r \in T}, {listcmd(l, r) : l, r \in T}}

(* The parser finds the command a line was written for: operators bind as their *)
(* grammar says, to any depth of parentheses, and redirections between the      *)
(* arguments go around the whole of their command.                              *)
ParseRight ==
  /\ lines = 0 => \A c \in Trees[DEPTH] : parsecmd(Text(c, 3)) = c
  /\ \A p \in Pids : pc[p] = "runcmd" /\ path[p] = <<lines>> => cmd[p] = typed \/ typed = execcmd(MAXARGS)

(* What the part of a command at a path should have as input and output:   *)
(* the nearest pipe or redirection around it decides.                      *)
RECURSIVE Meant(_, _, _, _)
Meant(c, q, i, io) ==
  IF i = Len(q) THEN io
  ELSE LET step == q[i + 1]
           k == SubSeq(q, 1, i)
       IN  CASE step = "cmd" -> Meant(c.cmd, q, i + 1, [io EXCEPT ![IF c.tok = "<" THEN 0 ELSE 1] = <<"file">>])
             [] step = "back" -> Meant(c.cmd, q, i + 1, io)
             [] step = "left" -> Meant(c.left, q, i + 1, IF c.type = "PIPE" THEN [io EXCEPT ![1] = WriteEnd(k)] ELSE io)
             [] step = "right" -> Meant(c.right, q, i + 1, IF c.type = "PIPE" THEN [io EXCEPT ![0] = ReadEnd(k)] ELSE io)

Alive(p) == p > 1 /\ pc[p] \notin {"free", "zombie"}

(* Every program starts with the input and output that the typed line gives it, *)
(* through all the closes and dups on the way, and with no other descriptor:    *)
(* an end of a pipe kept by mistake would keep a reader waiting.                *)
Wired == \A p \in Pids :
  pc[p] = "program" /\ path[p][1] = lines =>
    fds[p] = Meant(typed, path[p], 1, [d \in FDs |-> IF d < 3 THEN console ELSE closed])

(* The shell is back at its prompt only when every part of the line has ended   *)
(* that was not started with &, unless a fork, pipe or open failed.             *)
ForegroundDone ==
  pc[1] = "main" => \A p \in Pids :
    Alive(p) /\ path[p][1] \notin failed => \E i \in DOMAIN path[p] : i > 1 /\ path[p][i] = "back"

(* The shell comes back to its prompt.  A command is finite and every step uses *)
(* up a part of it, so it ends unless everyone waits: for an end of input that  *)
(* cannot come because a process of the line keeps the pipe open, or for a      *)
(* child that is not there, as after a fork that failed.                        *)
NobodyStuck == pc[1] = "main_wait" => ENABLED (main_wait \/ \E p \in Pids : runcmd(p))
=============================================================================
