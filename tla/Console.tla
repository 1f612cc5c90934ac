------------------------------- MODULE Console -------------------------------
(***************************************************************************)
(* The console (kernel/console.c) on the serial port (kernel/uart.c):      *)
(* consoleread(), consolewrite(), printf() and the interrupt handler, with *)
(* cons.lock, uart_tx_lock and pr.lock.                                    *)
(*                                                                         *)
(* The handler is an actor of its own: the PLIC gives the interrupt of the *)
(* port to one CPU at a time, and one that holds no lock.  A step ends     *)
(* where another actor can see or change what matters: at locks, between   *)
(* LSR and THR of the port, and at each character.                         *)
(***************************************************************************)
EXTENDS Integers, Sequences, FiniteSets

CONSTANTS
  Readers, Writers, Printers,
  Casts,               \* who there may be at once, besides the handler
  None,
  Keys,                \* what is typed
  INPUT_BUF_SIZE, UART_TX_BUF_SIZE,
  UINT, UINT64,        \* the ranges of the indices of cons and of tx, which wrap around
  FIFO,                \* the size of the transmit FIFO of the port
  Reads                \* the sizes of read()s

Actors == Readers \cup Writers \cup Printers \cup {"intr"}

ASSUME ConsoleAssumption ==
  /\ INPUT_BUF_SIZE \in Nat \ {0} /\ UINT \in Nat
  /\ UINT % INPUT_BUF_SIZE = 0 /\ UINT > INPUT_BUF_SIZE
  /\ UART_TX_BUF_SIZE \in Nat \ {0} /\ UINT64 \in Nat
  /\ UINT64 % UART_TX_BUF_SIZE = 0 /\ UINT64 > UART_TX_BUF_SIZE
  /\ FIFO \in Nat /\ Reads \subseteq Nat
  /\ Readers \cap Writers = {} /\ Readers \cap Printers = {} /\ Writers \cap Printers = {}
  /\ "intr" \notin Readers \cup Writers \cup Printers /\ None \notin Actors

VARIABLES
  cons,        \* buf, r, w, e
  tx,          \* uart_tx_buf, uart_tx_r, uart_tx_w
  lock,        \* the holders of cons.lock, uart_tx_lock and pr.lock
  thr, lost,   \* the port: the number of characters in the FIFO; one was lost
  rx, irq,     \* the port: a key is typed; it interrupts
  at           \* where an actor is

vars == <<cons, tx, lock, thr, lost, rx, irq, at>>

(* Indices are unsigned: + and - wrap around. *)
Plus(i, j) == (i + j) % UINT
Minus(i, j) == (i - j) % UINT

(* What an actor has at hand: the bytes asked for and left to read, the key,   *)
(* the backspaces to send, and that it has seen LSR_TX_IDLE.                   *)
Idle == [pc |-> "idle", target |-> 0, n |-> 0, c |-> None, echo |-> 0, idle |-> FALSE, killed |-> FALSE]

Init ==
  /\ cons = [buf |-> [i \in 0 .. INPUT_BUF_SIZE - 1 |-> None], r |-> 0, w |-> 0, e |-> 0]
  /\ tx = [buf |-> [i \in 0 .. UART_TX_BUF_SIZE - 1 |-> None], r |-> 0, w |-> 0]
  /\ lock = [cons |-> None, tx |-> None, pr |-> None]
  /\ thr = 0 /\ lost = FALSE
  /\ rx = FALSE /\ irq = FALSE
  /\ \E S \in Casts : at = [x \in Actors |-> IF x \in S \cup {"intr"} THEN Idle ELSE [Idle EXCEPT !.pc = "absent"]]

Acquire(x, l) == lock[l] = None /\ lock' = [lock EXCEPT ![l] = x]
Release(l) == lock' = [lock EXCEPT ![l] = None]
Go(x, l) == at' = [at EXCEPT ![x].pc = l]
Done(x) == at' = [at EXCEPT ![x] = Idle]
Wakeup(from, to, f) == [x \in Actors |-> IF f[x].pc = from THEN [f[x] EXCEPT !.pc = to] ELSE f[x]]

-----------------------------------------------------------------------------
(* The characters the port can take, with the FIFO that uartinit() enables *)
FifoOn == FIFO

WriteTHR ==
  /\ lost' = (lost \/ thr >= FifoOn)
  /\ thr' = IF thr >= FifoOn THEN thr ELSE thr + 1

(* The port sends a character and interrupts when it has no more, or has a key. *)
device_send ==
  /\ thr > 0
  /\ thr' = thr - 1
  /\ irq' = (irq \/ thr = 1)
  /\ UNCHANGED <<cons, tx, lock, lost, rx, at>>

device_key ==
  /\ rx' = TRUE /\ irq' = TRUE
  /\ UNCHANGED <<cons, tx, lock, thr, lost, at>>

(* uartputc_sync(), by printf() and for echo: it takes no lock of the port. *)
uartputc_sync(x) ==
  /\ at[x].echo > 0
  /\ \/ /\ ~at[x].idle /\ thr = 0
        /\ at' = [at EXCEPT ![x].idle = TRUE]
        /\ UNCHANGED <<thr, lost>>
     \/ /\ at[x].idle
        /\ WriteTHR
        /\ at' = [at EXCEPT ![x].idle = FALSE, ![x].echo = @ - 1]
  /\ UNCHANGED <<cons, tx, lock, rx, irq>>

(* uartstart(), with uart_tx_lock: it returns, or takes a character from the   *)
(* buffer and then gives it to the port.                                       *)
uartstart(x) ==
  /\ at[x].pc = "uartstart"
  /\ \/ /\ ~at[x].idle /\ (tx.w = tx.r \/ thr # 0)
        /\ Release("tx")
        /\ Done(x)
        /\ UNCHANGED <<tx, thr, lost>>
     \/ /\ ~at[x].idle /\ tx.w # tx.r /\ thr = 0
        /\ tx' = [tx EXCEPT !.r = (@ + 1) % UINT64]
        /\ at' = Wakeup("tx_sleep", "uartputc", [at EXCEPT ![x].idle = TRUE])
        /\ UNCHANGED <<lock, thr, lost>>
     \/ /\ at[x].idle
        /\ WriteTHR
        /\ at' = [at EXCEPT ![x].idle = FALSE]
        /\ UNCHANGED <<tx, lock>>
  /\ UNCHANGED <<cons, rx, irq>>

-----------------------------------------------------------------------------
(* consolewrite() of a character: uartputc(), which goes on there after sleep() *)

(* Fault: one character too many is let in. *)
FullLate == tx.w = (tx.r + UART_TX_BUF_SIZE + 1) % UINT64

Full == tx.w = (tx.r + UART_TX_BUF_SIZE) % UINT64

uartputc(x) ==
  /\ at[x].pc \in {"idle", "uartputc"} /\ lock.tx = None
  /\ IF Full
     THEN Go(x, "tx_sleep") /\ UNCHANGED <<tx, lock>>
     ELSE /\ tx' = [tx EXCEPT !.buf[tx.w % UART_TX_BUF_SIZE] = x, !.w = (@ + 1) % UINT64]
          /\ Acquire(x, "tx")
          /\ Go(x, "uartstart")
  /\ UNCHANGED <<cons, thr, lost, rx, irq>>

(* printf() of a character, with pr.lock *)
printf(x) ==
  /\ \/ /\ at[x].pc = "idle"
        /\ Acquire(x, "pr")
        /\ at' = [at EXCEPT ![x].pc = "printf", ![x].echo = 1]
     \/ /\ at[x].pc = "printf" /\ at[x].echo = 0
        /\ Release("pr")
        /\ Done(x)
  /\ UNCHANGED <<cons, tx, thr, lost, rx, irq>>

-----------------------------------------------------------------------------
(* consoleread() *)

read(x, n) ==
  /\ at[x].pc = "idle"
  /\ Acquire(x, "cons")
  /\ at' = [at EXCEPT ![x].pc = "read_loop", ![x].target = n, ![x].n = n]
  /\ UNCHANGED <<cons, tx, thr, lost, rx, irq>>

(* The end of sleep() *)
read_woken(x) ==
  /\ at[x].pc = "read"
  /\ Acquire(x, "cons")
  /\ Go(x, "read_loop")
  /\ UNCHANGED <<cons, tx, thr, lost, rx, irq>>

Return(x) == Release("cons") /\ Done(x)

(* A character of the loop, with cons.lock.  The copy to user memory may fail. *)
consoleread(x) ==
  /\ at[x].pc = "read_loop"
  /\ LET c == cons.buf[cons.r % INPUT_BUF_SIZE]
     IN  \/ /\ cons.r = cons.w
            /\ Release("cons")
            /\ IF at[x].killed THEN Done(x) ELSE Go(x, "read_sleep")
            /\ UNCHANGED cons
         \/ /\ cons.r # cons.w /\ c = "^D"
            /\ cons' = IF at[x].n < at[x].target THEN cons ELSE [cons EXCEPT !.r = Plus(@, 1)]
            /\ Return(x)
         \/ /\ cons.r # cons.w /\ c # "^D"
            /\ cons' = [cons EXCEPT !.r = Plus(@, 1)]
            /\ \/ Return(x)
               \/ c # "nl" /\ at[x].n > 1 /\ at' = [at EXCEPT ![x].n = @ - 1] /\ UNCHANGED lock
  /\ UNCHANGED <<tx, thr, lost, rx, irq>>

kill(x) ==
  /\ ~at[x].killed
  /\ at' = [at EXCEPT ![x].killed = TRUE, ![x].pc = IF @ = "read_sleep" THEN "read" ELSE @]
  /\ UNCHANGED <<cons, tx, lock, thr, lost, rx, irq>>

-----------------------------------------------------------------------------
(* uartintr() *)

plic_claim ==
  /\ irq /\ at["intr"].pc = "idle"
  /\ irq' = FALSE
  /\ Go("intr", "getc")
  /\ UNCHANGED <<cons, tx, lock, thr, lost, rx>>

(* uartgetc(), and consoleintr() with cons.lock; after the last key, uartstart() *)
uartgetc ==
  /\ at["intr"].pc = "getc"
  /\ \/ /\ rx
        /\ Acquire("intr", "cons")
        /\ \E c \in Keys : at' = [at EXCEPT !["intr"].pc = "key", !["intr"].c = IF c = "cr" THEN "nl" ELSE c]
        /\ rx' = FALSE
     \/ /\ ~rx
        /\ Acquire("intr", "tx")
        /\ Go("intr", "uartstart")
        /\ UNCHANGED rx
  /\ UNCHANGED <<cons, tx, thr, lost, irq>>

Key(c) == at["intr"].pc = "key" /\ at["intr"].c = c /\ at["intr"].echo = 0

(* Fault: the handler is content with a key. *)
EndKeyReturns == Release("cons") /\ Done("intr")

EndKey == Release("cons") /\ at' = [at EXCEPT !["intr"] = [Idle EXCEPT !.pc = "getc"]]

(* Control-P: procdump() prints, with pr.lock. *)
procdump ==
  /\ Key("^P")
  /\ IF lock.pr = "intr"
     THEN Release("pr") /\ at' = [at EXCEPT !["intr"].c = "done"]
     ELSE Acquire("intr", "pr") /\ at' = [at EXCEPT !["intr"].echo = 1]
  /\ UNCHANGED <<cons, tx, thr, lost, rx, irq>>

(* The last character goes, with three characters of echo. *)
Erase == cons' = [cons EXCEPT !.e = Minus(@, 1)]

killline ==
  /\ Key("^U")
  /\ IF cons.e # cons.w /\ cons.buf[Minus(cons.e, 1) % INPUT_BUF_SIZE] # "nl"
     THEN Erase /\ at' = [at EXCEPT !["intr"].echo = 3] /\ UNCHANGED lock
     ELSE EndKey /\ UNCHANGED cons
  /\ UNCHANGED <<tx, thr, lost, rx, irq>>

(* Fault: erases what the readers already have. *)
backspaceAny ==
  /\ Key("^H")
  /\ IF cons.e # cons.r
     THEN Erase /\ at' = [at EXCEPT !["intr"].c = "done", !["intr"].echo = 3] /\ UNCHANGED lock
     ELSE EndKey /\ UNCHANGED cons
  /\ UNCHANGED <<tx, thr, lost, rx, irq>>

backspace ==
  /\ Key("^H")
  /\ IF cons.e # cons.w
     THEN Erase /\ at' = [at EXCEPT !["intr"].c = "done", !["intr"].echo = 3] /\ UNCHANGED lock
     ELSE EndKey /\ UNCHANGED cons
  /\ UNCHANGED <<tx, thr, lost, rx, irq>>

key_end == Key("done") /\ EndKey /\ UNCHANGED <<cons, tx, thr, lost, rx, irq>>

Typed == (Keys \ {"^P", "^U", "^H", "cr"}) \cup {"nl"}

(* Any other key is echoed first; a full buffer drops it. *)
consoleintr ==
  /\ at["intr"].pc = "key" /\ at["intr"].echo = 0 /\ at["intr"].c \in Typed
  /\ IF at["intr"].c # "nul" /\ Minus(cons.e, cons.r) < INPUT_BUF_SIZE
     THEN at' = [at EXCEPT !["intr"].pc = "store", !["intr"].echo = 1] /\ UNCHANGED lock
     ELSE EndKey
  /\ UNCHANGED <<cons, tx, thr, lost, rx, irq>>

(* ... then stored; a line, an end of file or a full buffer is for the readers. *)
consoleintr_store ==
  /\ at["intr"].pc = "store" /\ at["intr"].echo = 0
  /\ LET c == at["intr"].c
         e == Plus(cons.e, 1)
         line == c \in {"nl", "^D"} \/ Minus(e, cons.r) = INPUT_BUF_SIZE
     IN  /\ cons' = [cons EXCEPT !.buf[cons.e % INPUT_BUF_SIZE] = c, !.e = e, !.w = IF line THEN e ELSE cons.w]
         /\ at' = LET done == [at EXCEPT !["intr"].pc = "key", !["intr"].c = "done"]
                  IN  IF line THEN Wakeup("read_sleep", "read", done) ELSE done
  /\ UNCHANGED <<lock, tx, thr, lost, rx, irq>>

Next ==
  \/ device_send \/ device_key
  \/ \E x \in Actors : uartputc_sync(x) \/ uartstart(x)
  \/ \E x \in Writers : uartputc(x)
  \/ \E x \in Printers : printf(x)
  \/ \E x \in Readers : (\E n \in Reads : read(x, n)) \/ read_woken(x) \/ consoleread(x) \/ kill(x)
  \/ plic_claim \/ uartgetc \/ procdump \/ killline \/ backspace \/ key_end \/ consoleintr \/ consoleintr_store

Spec == Init /\ [][Next]_vars

-----------------------------------------------------------------------------
Ring(buf, from, to, size, uint) == [i \in 1 .. (to - from) % uint |-> buf[((from + i - 1) % uint) % size]]

L == INSTANCE LineDiscipline WITH
       Chars <- Keys \cup {"nl"}, Size <- INPUT_BUF_SIZE,
       lines <- Ring(cons.buf, cons.r, cons.w, INPUT_BUF_SIZE, UINT),
       edit <- Ring(cons.buf, cons.w, cons.e, INPUT_BUF_SIZE, UINT)

F == INSTANCE BoundedFifo WITH
       Bytes <- Writers, Capacity <- UART_TX_BUF_SIZE,
       queue <- Ring(tx.buf, tx.r, tx.w, UART_TX_BUF_SIZE, UINT64)

(* The three indices of cons, which wrap around, make one ring of whole lines   *)
(* and of the line being edited: readers get what was typed, in order and once, *)
(* and nothing is erased or overwritten that they can already read.             *)
IsLineDiscipline == L!Spec

(* What write() puts in uart_tx_buf goes to the port in order and once, and no  *)
(* writer overwrites what is not sent.                                          *)
OutputFifo == F!Spec

(* A reader sleeps only without a line and a writer only at a full buffer; and  *)
(* as long as the buffer has characters some uartstart() is still to come: one  *)
(* is at work, or the port interrupts now or after what it is sending.          *)
NobodyStuck ==
  /\ \A x \in Readers : at[x].pc = "read_sleep" => cons.r = cons.w /\ ~at[x].killed
  /\ \A x \in Writers : at[x].pc = "tx_sleep" => Full
  /\ tx.r # tx.w => thr > 0 \/ irq \/ lock.tx # None \/ at["intr"].pc # "idle"

(* uartstart() and uartputc_sync() look at LSR and write THR under no common    *)
(* lock, so several may find the port idle at once.  The FIFO takes them all.   *)
NoOverrun == ~lost

(* Between the port and the processes nothing is missed: neither a wakeup, nor  *)
(* an interrupt, nor room in the FIFO.                                          *)
PortSound == NobodyStuck /\ NoOverrun
=============================================================================
