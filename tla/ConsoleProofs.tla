---------------------------- MODULE ConsoleProofs ----------------------------
(***************************************************************************)
(* The proofs about Console: the inductive invariant, that the port never  *)
(* loses a byte and that nobody sleeps on what is there (PortSound), and   *)
(* that the two circular buffers, whose indices wrap around, implement a   *)
(* line discipline and a bounded queue.                                    *)
(***************************************************************************)
EXTENDS Console, TLAPS

PCs == {"absent", "idle", "read", "read_loop", "read_sleep", "tx_sleep", "uartputc", "uartstart",
        "printf", "getc", "key", "store"}
Chars == Keys \cup {"nl"}
Hand == Chars \cup {None, "done"}

At == [pc : PCs, target : Nat, n : Nat, c : Hand, echo : 0 .. 3, idle : BOOLEAN, killed : BOOLEAN]

Held == [cons : Actors \cup {None}, tx : Actors \cup {None}, pr : Actors \cup {None}]

TypeOK ==
  /\ lock \in Held
  /\ thr \in Nat /\ lost \in BOOLEAN /\ rx \in BOOLEAN /\ irq \in BOOLEAN
  /\ at \in [Actors -> At]

(* How far j is ahead of i, as indices below u that wrap around *)
Dist(i, j, u) == IF i <= j THEN j - i ELSE (j - i) + u

(* cons.r, cons.w and cons.e follow one another within the buffer. *)
Used == Dist(cons.r, cons.w, UINT) + Dist(cons.w, cons.e, UINT)
ConsOK ==
  /\ cons \in [buf : [0 .. INPUT_BUF_SIZE - 1 -> Chars \cup {None}],
               r : 0 .. UINT - 1, w : 0 .. UINT - 1, e : 0 .. UINT - 1]
  /\ Used <= INPUT_BUF_SIZE

TxOK ==
  /\ tx \in [buf : [0 .. UART_TX_BUF_SIZE - 1 -> Writers \cup {None}],
             r : 0 .. UINT64 - 1, w : 0 .. UINT64 - 1]
  /\ Dist(tx.r, tx.w, UINT64) <= UART_TX_BUF_SIZE

(* Where an actor may be, when it may be writing to the port or have seen it   *)
(* idle, and the lock it then has                                              *)
ActorOK(x) ==
  /\ x \in Readers => /\ at[x].pc \in {"absent", "idle", "read", "read_loop", "read_sleep"}
                      /\ at[x].echo = 0 /\ ~at[x].idle
  /\ x \in Writers => /\ at[x].pc \in {"absent", "idle", "tx_sleep", "uartputc", "uartstart"}
                      /\ at[x].echo = 0 /\ (at[x].idle => at[x].pc = "uartstart")
  /\ x \in Printers => /\ at[x].pc \in {"absent", "idle", "printf"}
                       /\ at[x].echo > 0 => at[x].pc = "printf"
                       /\ at[x].idle => at[x].echo > 0
  /\ x = "intr" => /\ at[x].pc \in {"idle", "getc", "key", "store", "uartstart"}
                   /\ at[x].echo > 0 => at[x].pc \in {"key", "store"}
                   /\ at[x].idle => at[x].pc = "uartstart" \/ at[x].echo > 0
  /\ at[x].pc = "uartstart" => lock.tx = x
  /\ at[x].pc \in {"read_loop", "key", "store"} => lock.cons = x
  /\ at[x].pc = "printf" => lock.pr = x

(* What consoleintr() is about to store still has room: only it adds to the    *)
(* line, with cons.lock.                                                       *)
StoreOK == at["intr"].pc = "store" => at["intr"].c \in Chars /\ Used < INPUT_BUF_SIZE

(* At most one handler, one process in uartstart() and one in printf() have    *)
(* seen the port idle, and all of them before it got what it now has.          *)
One(b) == IF b THEN 1 ELSE 0
SeenI == One(at["intr"].idle)
SeenW == One(\E x \in Writers : at[x].idle)
SeenP == One(\E x \in Printers : at[x].idle)
PortOK ==
  /\ thr + SeenI + SeenW + SeenP <= 3
  /\ FIFO >= 3 => ~lost

Inv ==
  /\ TypeOK /\ ConsOK /\ TxOK /\ (\A x \in Actors : ActorOK(x))
  /\ StoreOK /\ NobodyStuck /\ PortOK

-----------------------------------------------------------------------------
(* Remainders *)

(* A number is its quotient times the divisor, and the remainder. *)
LEMMA ModDef ==
  ASSUME NEW a \in Int, NEW m \in Nat \ {0}
  PROVE  a % m \in 0 .. m - 1 /\ a \div m \in Int /\ a = m * (a \div m) + (a % m)
BY SMT

(* The remainder is the only number of its kind. *)
LEMMA ModIs ==
  ASSUME NEW m \in Nat \ {0}, NEW q \in Int, NEW r \in 0 .. m - 1
  PROVE  (m * q + r) % m = r
<1> DEFINE a == m * q + r
           k == a \div m
           s == a % m
<1>1. a \in Int BY SMT
<1>2. s \in 0 .. m - 1 /\ k \in Int /\ m * q + r = m * k + s BY <1>1, ModDef, Zenon
<1> HIDE DEF k, s
<1>3. q < k => m * (q + 1) <= m * k BY <1>2, SMT
<1>4. k < q => m * (k + 1) <= m * q BY <1>2, SMT
<1>5. m * (q + 1) = m * q + m /\ m * (k + 1) = m * k + m BY <1>2, SMT
<1>6. m * q \in Int /\ m * k \in Int BY <1>2, SMT
<1>7. k = q BY <1>2, <1>3, <1>4, <1>5, <1>6, SMT
<1>8. s = r BY <1>2, <1>6, <1>7, SMT
<1> QED BY <1>8 DEF s

(* Whole turns do not change a remainder. *)
LEMMA ModShift ==
  ASSUME NEW m \in Nat \ {0}, NEW u \in Nat, u % m = 0, NEW a \in Nat
  PROVE  (a + u) % m = a % m
<1> DEFINE k == a \div m + u \div m
<1>1. a % m \in 0 .. m - 1 /\ a \div m \in Int /\ a = m * (a \div m) + (a % m) BY ModDef
<1>2. u \div m \in Int /\ u = m * (u \div m) BY ModDef
<1>3. a + u = m * k + (a % m) /\ k \in Int BY <1>1, <1>2, SMT
<1>4. (m * k + (a % m)) % m = a % m BY <1>1, <1>3, ModIs, Zenon
<1> QED BY <1>3, <1>4, Zenon

(* Numbers less than a turn apart have different remainders. *)
LEMMA ModApart ==
  ASSUME NEW m \in Nat \ {0}, NEW a \in Nat, NEW d \in 1 .. m - 1
  PROVE  (a + d) % m # a % m
<1> DEFINE k == a \div m
           s == a % m
<1>1. s \in 0 .. m - 1 /\ k \in Int /\ a = m * k + s BY ModDef
<1> HIDE DEF k, s
<1>2. CASE s + d < m
  <2>1. a + d = m * k + (s + d) /\ s + d \in 0 .. m - 1 BY <1>1, <1>2, SMT
  <2>2. (m * k + (s + d)) % m = s + d BY <1>1, <2>1, ModIs, Zenon
  <2>3. (a + d) % m = s + d BY <2>1, <2>2, Zenon
  <2> QED BY <2>3, <1>1, SMT DEF s
<1>3. CASE s + d >= m
  <2>1. a + d = m * (k + 1) + (s + d - m) /\ s + d - m \in 0 .. m - 1 /\ k + 1 \in Int BY <1>1, <1>3, SMT
  <2>2. (m * (k + 1) + (s + d - m)) % m = s + d - m BY <1>1, <2>1, ModIs, Zenon
  <2>3. (a + d) % m = s + d - m BY <2>1, <2>2, Zenon
  <2> QED BY <2>3, <1>1, SMT DEF s
<1> QED BY <1>2, <1>3, <1>1, SMT

(* A number at most a turn too small or too large *)
LEMMA Wrap ==
  ASSUME NEW u \in Nat \ {0}, NEW a \in Int, -u <= a, a < 2 * u
  PROVE  a % u = IF a < 0 THEN a + u ELSE IF a < u THEN a ELSE a - u
<1>1. PICK q \in {-1, 0, 1} : a - u * q \in 0 .. u - 1 /\ (q = -1 <=> a < 0) /\ (q = 1 <=> a >= u)
  <2>1. CASE a < 0 BY <2>1, SMT
  <2>2. CASE a \in 0 .. u - 1 BY <2>2, SMT
  <2>3. CASE a >= u BY <2>3, SMT
  <2> QED BY <2>1, <2>2, <2>3, SMT
<1> DEFINE r == a - u * q
<1>2. q \in Int /\ r \in 0 .. u - 1 /\ a = u * q + r BY <1>1, SMT
<1>3. (u * q + r) % u = r
  <2> HIDE DEF r
  <2> QED BY <1>2, ModIs, Zenon
<1>4. a % u = r BY <1>2, <1>3, Zenon
<1> QED BY <1>1, <1>4, SMT

-----------------------------------------------------------------------------
(* Rings: n cells, indices below u *)

Sizes(n, u) == n \in Nat \ {0} /\ u \in Nat /\ u % n = 0 /\ u > n

Succ(i, u) == (i + 1) % u
Pred(i, u) == (i - 1) % u
Put(buf, i, n, c) == [buf EXCEPT ![i % n] = c]

Indices(i, j, n, u) == Sizes(n, u) /\ i \in 0 .. u - 1 /\ j \in 0 .. u - 1

(* What is between i and j fits into the cells, which hold elements of S. *)
IsRing(buf, i, j, n, u, S) ==
  Indices(i, j, n, u) /\ Dist(i, j, u) <= n /\ buf \in [0 .. n - 1 -> S]

(* The distance of two indices, and their successors and predecessors *)
LEMMA Steps ==
  ASSUME NEW n, NEW u, NEW i, NEW j, Indices(i, j, n, u)
  PROVE  /\ (j - i) % u = Dist(i, j, u) /\ Dist(i, j, u) \in 0 .. u - 1
         /\ Dist(i, j, u) = 0 <=> i = j
         /\ Succ(i, u) = IF i + 1 = u THEN 0 ELSE i + 1
         /\ Pred(i, u) = IF i = 0 THEN u - 1 ELSE i - 1
<1>0. u \in Nat \ {0} /\ u > 1 /\ i \in 0 .. u - 1 /\ j \in 0 .. u - 1 BY DEF Indices, Sizes
<1>1. (j - i) % u = IF j - i < 0 THEN (j - i) + u ELSE IF j - i < u THEN j - i ELSE (j - i) - u
  <2>1. j - i \in Int /\ -u <= j - i /\ j - i < 2 * u BY <1>0, SMT
  <2> QED BY <1>0, <2>1, Wrap, Zenon
<1>2. (i + 1) % u = IF i + 1 < 0 THEN (i + 1) + u ELSE IF i + 1 < u THEN i + 1 ELSE (i + 1) - u
  <2>1. i + 1 \in Int /\ -u <= i + 1 /\ i + 1 < 2 * u BY <1>0, SMT
  <2> QED BY <1>0, <2>1, Wrap, Zenon
<1>3. (i - 1) % u = IF i - 1 < 0 THEN (i - 1) + u ELSE IF i - 1 < u THEN i - 1 ELSE (i - 1) - u
  <2>1. i - 1 \in Int /\ -u <= i - 1 /\ i - 1 < 2 * u BY <1>0, SMT
  <2> QED BY <1>0, <2>1, Wrap, Zenon
<1> DEFINE a == (j - i) % u
<1> HIDE DEF a
<1>4. a = Dist(i, j, u) BY <1>0, <1>1, SMT DEF Dist, a
<1>5. Succ(i, u) = IF i + 1 = u THEN 0 ELSE i + 1
  <2>1. Succ(i, u) = IF i + 1 < 0 THEN (i + 1) + u ELSE IF i + 1 < u THEN i + 1 ELSE (i + 1) - u BY <1>2 DEF Succ
  <2> QED BY <1>0, <2>1, SMT
<1>6. Pred(i, u) = IF i = 0 THEN u - 1 ELSE i - 1
  <2>1. Pred(i, u) = IF i - 1 < 0 THEN (i - 1) + u ELSE IF i - 1 < u THEN i - 1 ELSE (i - 1) - u BY <1>3 DEF Pred
  <2> QED BY <1>0, <2>1, SMT
<1>7. Dist(i, j, u) \in 0 .. u - 1 /\ (Dist(i, j, u) = 0 <=> i = j) BY <1>0, SMT DEF Dist
<1> QED BY <1>4, <1>5, <1>6, <1>7 DEF a

(* The cell k places after index i, whether or not the index wraps there *)
LEMMA Cell ==
  ASSUME NEW n, NEW u, Sizes(n, u), NEW i \in 0 .. u - 1, NEW k \in 0 .. n
  PROVE  ((i + k) % u) % n = (i + k) % n /\ (i + k) % n \in 0 .. n - 1
<1>0. u \in Nat \ {0} /\ n \in Nat \ {0} /\ i + k \in Int /\ -u <= i + k /\ i + k < 2 * u BY SMT DEF Sizes
<1>1. (i + k) % u = IF i + k < 0 THEN (i + k) + u ELSE IF i + k < u THEN i + k ELSE (i + k) - u
  BY <1>0, Wrap, Zenon
<1>2. CASE i + k < u
  <2>1. (i + k) % u = i + k BY <1>0, <1>1, <1>2
  <2> QED BY <1>0, <2>1, ModDef, Zenon
<1>3. CASE i + k >= u
  <2>1. (i + k) % u = (i + k) - u BY <1>0, <1>1, <1>3
  <2> DEFINE a == (i + k) - u
  <2>2. a \in Nat /\ a + u = i + k BY <1>0, <1>3, SMT
  <2> HIDE DEF a
  <2>3. (a + u) % n = a % n BY <1>0, <2>2, ModShift, Zenon DEF Sizes
  <2>4. (i + k) % n = a % n BY <2>2, <2>3, Zenon
  <2>5. (i + k) % n \in 0 .. n - 1 BY <1>0, ModDef, Zenon
  <2> QED BY <2>1, <2>4, <2>5 DEF a
<1> QED BY <1>0, <1>2, <1>3, SMT

-----------------------------------------------------------------------------
(* Sequences *)

(* Two sequences of the same length with the same elements are the same. *)
LEMMA SameSeq ==
  ASSUME NEW S, NEW s \in Seq(S), NEW t \in Seq(S), Len(s) = Len(t), \A k \in 1 .. Len(s) : s[k] = t[k]
  PROVE  s = t
OBVIOUS

(* One sequence after another *)
LEMMA CatSeq ==
  ASSUME NEW S, NEW s \in Seq(S), NEW t \in Seq(S)
  PROVE  /\ s \o t \in Seq(S) /\ Len(s \o t) = Len(s) + Len(t)
         /\ \A k \in 1 .. Len(s) + Len(t) : (s \o t)[k] = IF k <= Len(s) THEN s[k] ELSE t[k - Len(s)]
OBVIOUS

(* The cells after j are those after i, as far on as j is. *)
LEMMA CellFrom ==
  ASSUME NEW n, NEW u, NEW i, NEW j, Indices(i, j, n, u), NEW k \in Nat
  PROVE  (j + k) % n = (i + Dist(i, j, u) + k) % n
<1>1. CASE i <= j
  <2>1. i + Dist(i, j, u) + k = j + k BY <1>1, SMT DEF Indices, Sizes, Dist
  <2> QED BY <2>1
<1>2. CASE ~(i <= j)
  <2>1. i + Dist(i, j, u) + k = (j + k) + u /\ j + k \in Nat BY <1>2, SMT DEF Indices, Sizes, Dist
  <2>2. ((j + k) + u) % n = (j + k) % n BY <2>1, ModShift, Zenon DEF Indices, Sizes
  <2> QED BY <2>1, <2>2, Zenon
<1> QED BY <1>1, <1>2

(* What is between two indices is a sequence of as many cells. *)
LEMMA RingIs ==
  ASSUME NEW n, NEW u, NEW i, NEW j, NEW S, NEW buf, IsRing(buf, i, j, n, u, S)
  PROVE  /\ Ring(buf, i, j, n, u) \in Seq(S)
         /\ Len(Ring(buf, i, j, n, u)) = Dist(i, j, u)
         /\ \A k \in 1 .. Dist(i, j, u) : Ring(buf, i, j, n, u)[k] = buf[(i + (k - 1)) % n]
<1> DEFINE d == Dist(i, j, u)
           R == Ring(buf, i, j, n, u)
<1>0. Indices(i, j, n, u) /\ Sizes(n, u) /\ i \in 0 .. u - 1 /\ d <= n /\ buf \in [0 .. n - 1 -> S]
  BY DEF IsRing, Indices
<1>1. (j - i) % u = d /\ d \in 0 .. u - 1 BY <1>0, Steps
<1>2. R = [k \in 1 .. d |-> buf[((i + k - 1) % u) % n]] BY <1>1, Zenon DEF Ring
<1>3. ASSUME NEW k \in 1 .. d PROVE R[k] = buf[(i + (k - 1)) % n] /\ R[k] \in S
  <2>1. k - 1 \in 0 .. n /\ i + k - 1 = i + (k - 1) BY <1>0, <1>1, SMT DEF Sizes
  <2>2. ((i + (k - 1)) % u) % n = (i + (k - 1)) % n /\ (i + (k - 1)) % n \in 0 .. n - 1 BY <1>0, <2>1, Cell
  <2>3. R[k] = buf[((i + k - 1) % u) % n] BY <1>2, Zenon
  <2>4. R[k] = buf[(i + (k - 1)) % n] BY <2>1, <2>2, <2>3, Zenon
  <2> QED BY <1>0, <2>2, <2>4
<1> HIDE DEF d
<1>4. R \in [1 .. d -> S] BY <1>2, <1>3
<1>5. d \in Nat BY <1>0, <1>1, SMT DEF Sizes
<1>6. R \in Seq(S) /\ Len(R) = d
  <2> HIDE DEF R
  <2> QED BY <1>4, <1>5
<1> QED BY <1>3, <1>6 DEF d

(* Equal indices have nothing between them. *)
LEMMA RingEmpty ==
  ASSUME NEW n, NEW u, Sizes(n, u), NEW i \in 0 .. u - 1, NEW buf
  PROVE  Ring(buf, i, i, n, u) = <<>>
<1>1. (i - i) % u = 0
  <2>1. Dist(i, i, u) = 0 /\ Indices(i, i, n, u) BY SMT DEF Dist, Indices
  <2> QED BY <2>1, Steps
<1>2. Ring(buf, i, i, n, u) = [k \in 1 .. 0 |-> buf[((i + k - 1) % u) % n]] BY <1>1, Zenon DEF Ring
<1> QED BY <1>2

(* The first cell is taken out. *)
LEMMA RingTail ==
  ASSUME NEW n, NEW u, NEW i, NEW j, NEW S, NEW buf, IsRing(buf, i, j, n, u, S), i # j
  PROVE  /\ Succ(i, u) \in 0 .. u - 1 /\ Dist(Succ(i, u), j, u) = Dist(i, j, u) - 1
         /\ Ring(buf, i, j, n, u) # <<>>
         /\ Ring(buf, Succ(i, u), j, n, u) = Tail(Ring(buf, i, j, n, u))
<1> DEFINE i1 == Succ(i, u)
           R == Ring(buf, i, j, n, u)
           T == Ring(buf, i1, j, n, u)
           d == Dist(i, j, u)
<1>0. Indices(i, j, n, u) /\ n \in Nat /\ u \in Nat /\ i \in 0 .. u - 1 /\ j \in 0 .. u - 1 /\ d <= n
  BY DEF IsRing, Indices, Sizes
<1>1. d # 0 /\ d \in 0 .. u - 1 /\ i1 = (IF i + 1 = u THEN 0 ELSE i + 1) BY <1>0, Steps
<1> HIDE DEF i1
<1>2. i1 \in 0 .. u - 1 /\ Dist(i1, j, u) = d - 1 /\ Dist(i, i1, u) = 1 BY <1>0, <1>1, SMT DEF Dist
<1> HIDE DEF d
<1>3. d \in Int /\ d >= 1 /\ d - 1 <= n BY <1>0, <1>1, SMT
<1>4. R \in Seq(S) /\ Len(R) = d /\ \A k \in 1 .. d : R[k] = buf[(i + (k - 1)) % n]
  BY RingIs DEF d
<1>5. T \in Seq(S) /\ Len(T) = d - 1 /\ \A k \in 1 .. d - 1 : T[k] = buf[(i1 + (k - 1)) % n]
  <2>1. IsRing(buf, i1, j, n, u, S) BY <1>2, <1>3 DEF IsRing, Indices
  <2>2. T \in Seq(S) /\ Len(T) = Dist(i1, j, u) /\ \A k \in 1 .. Dist(i1, j, u) : T[k] = buf[(i1 + (k - 1)) % n]
    BY <2>1, RingIs
  <2> QED BY <1>2, <2>2, Zenon
<1>6. \A k \in Nat : (i1 + k) % n = (i + 1 + k) % n
  <2>1. Indices(i, i1, n, u) BY <1>0, <1>2 DEF Indices
  <2> QED BY <1>2, <2>1, CellFrom
<1> HIDE DEF R, T
<1>7. R # <<>> /\ Tail(R) \in Seq(S) /\ Len(Tail(R)) = d - 1 /\ \A k \in 1 .. d - 1 : Tail(R)[k] = R[k + 1]
  BY <1>3, <1>4
<1>8. ASSUME NEW k \in 1 .. d - 1 PROVE T[k] = Tail(R)[k]
  <2>1. k - 1 \in Nat /\ k + 1 \in 1 .. d /\ i + 1 + (k - 1) = i + ((k + 1) - 1) BY <1>0, <1>3, SMT
  <2>2. R[k + 1] = buf[(i + ((k + 1) - 1)) % n] BY <1>4, <2>1, Zenon
  <2> QED BY <1>5, <1>6, <1>7, <2>1, <2>2, Zenon
<1>9. T = Tail(R) BY <1>5, <1>7, <1>8, SameSeq
<1> QED BY <1>2, <1>7, <1>9 DEF R, T, i1, d

(* The last cell is given up. *)
LEMMA RingFront ==
  ASSUME NEW n, NEW u, NEW i, NEW j, NEW S, NEW buf, IsRing(buf, i, j, n, u, S), i # j
  PROVE  /\ Pred(j, u) \in 0 .. u - 1 /\ Dist(i, Pred(j, u), u) = Dist(i, j, u) - 1
         /\ Ring(buf, i, j, n, u) # <<>>
         /\ Ring(buf, i, Pred(j, u), n, u) =
              SubSeq(Ring(buf, i, j, n, u), 1, Len(Ring(buf, i, j, n, u)) - 1)
<1> DEFINE j1 == Pred(j, u)
           R == Ring(buf, i, j, n, u)
           T == Ring(buf, i, j1, n, u)
           d == Dist(i, j, u)
<1>0. /\ Indices(i, j, n, u) /\ Indices(j, i, n, u)
      /\ n \in Nat /\ u \in Nat /\ i \in 0 .. u - 1 /\ j \in 0 .. u - 1 /\ d <= n
  BY DEF IsRing, Indices, Sizes
<1>1. d # 0 /\ d \in 0 .. u - 1 /\ j1 = (IF j = 0 THEN u - 1 ELSE j - 1) BY <1>0, Steps
<1> HIDE DEF j1
<1>2. j1 \in 0 .. u - 1 /\ Dist(i, j1, u) = d - 1 BY <1>0, <1>1, SMT DEF Dist
<1> HIDE DEF d
<1>3. d \in Int /\ d >= 1 /\ d - 1 <= n BY <1>0, <1>1, SMT
<1>4. R \in Seq(S) /\ Len(R) = d /\ \A k \in 1 .. d : R[k] = buf[(i + (k - 1)) % n]
  BY RingIs DEF d
<1>5. T \in Seq(S) /\ Len(T) = d - 1 /\ \A k \in 1 .. d - 1 : T[k] = buf[(i + (k - 1)) % n]
  <2>1. IsRing(buf, i, j1, n, u, S) BY <1>2, <1>3 DEF IsRing, Indices
  <2>2. T \in Seq(S) /\ Len(T) = Dist(i, j1, u) /\ \A k \in 1 .. Dist(i, j1, u) : T[k] = buf[(i + (k - 1)) % n]
    BY <2>1, RingIs
  <2> QED BY <1>2, <2>2, Zenon
<1> HIDE DEF R, T
<1>6. /\ R # <<>> /\ SubSeq(R, 1, d - 1) \in Seq(S) /\ Len(SubSeq(R, 1, d - 1)) = d - 1
      /\ \A k \in 1 .. d - 1 : SubSeq(R, 1, d - 1)[k] = R[k]
  BY <1>3, <1>4
<1>7. \A k \in 1 .. d - 1 : T[k] = SubSeq(R, 1, d - 1)[k]
  <2>1. \A k \in 1 .. d - 1 : k \in 1 .. d BY <1>3
  <2> QED BY <1>4, <1>5, <1>6, <2>1, Zenon
<1>8. T = SubSeq(R, 1, d - 1) BY Zenon, <1>5, <1>6, <1>7, SameSeq
<1> QED BY <1>2, <1>4, <1>6, <1>8 DEF R, T, j1, d

(* A cell at least as far on as j is not among those between i and j. *)
LEMMA RingKept ==
  ASSUME NEW n, NEW u, NEW i, NEW j, NEW S, NEW buf, IsRing(buf, i, j, n, u, S),
         NEW l \in 0 .. u - 1, Dist(i, j, u) + Dist(j, l, u) < n, NEW c \in S
  PROVE  /\ IsRing(Put(buf, l, n, c), i, j, n, u, S)
         /\ Ring(Put(buf, l, n, c), i, j, n, u) = Ring(buf, i, j, n, u)
<1> DEFINE new == Put(buf, l, n, c)
           R == Ring(buf, i, j, n, u)
           T == Ring(new, i, j, n, u)
           d == Dist(i, j, u)
           f == Dist(j, l, u)
<1>0. /\ Indices(i, j, n, u) /\ Indices(j, l, n, u) /\ n \in Nat \ {0} /\ u \in Nat /\ i \in 0 .. u - 1
      /\ buf \in [0 .. n - 1 -> S]
  BY DEF IsRing, Indices, Sizes
<1>1. d \in 0 .. u - 1 /\ f \in 0 .. u - 1 BY <1>0, Steps
<1>2. d \in Nat /\ f \in Nat /\ d + f < n BY <1>0, <1>1, SMT
<1>3. l % n = (i + (d + f)) % n
  <2>1. 0 \in Nat /\ f + 0 \in Nat /\ j + f + 0 = j + (f + 0) /\ l + 0 = l /\ i + d + (f + 0) = i + (d + f)
    <3>1. i \in Int /\ j \in Int /\ l \in Int BY <1>0 DEF Indices
    <3> HIDE DEF d, f
    <3> QED BY <1>2, <3>1, SMT
  <2>2. (l + 0) % n = (j + f + 0) % n BY <1>0, <2>1, CellFrom
  <2>3. (j + (f + 0)) % n = (i + d + (f + 0)) % n BY <1>0, <2>1, CellFrom
  <2> QED BY <2>1, <2>2, <2>3, Zenon
<1> HIDE DEF d, f
<1>4. l % n \in 0 .. n - 1 /\ new \in [0 .. n - 1 -> S]
  <2>1. l \in Int BY <1>0
  <2>2. l % n \in 0 .. n - 1 BY <1>0, <2>1, ModDef, Zenon
  <2> QED BY <1>0, <2>2, Zenon DEF Put
<1>5. R \in Seq(S) /\ Len(R) = d /\ \A k \in 1 .. d : R[k] = buf[(i + (k - 1)) % n]
  BY RingIs DEF d
<1>6. IsRing(new, i, j, n, u, S) BY <1>4, Zenon DEF IsRing
<1>7. T \in Seq(S) /\ Len(T) = d /\ \A k \in 1 .. d : T[k] = new[(i + (k - 1)) % n]
  BY <1>6, RingIs DEF d
<1> HIDE DEF R, T
<1>8. ASSUME NEW k \in 1 .. d PROVE T[k] = R[k]
  <2> DEFINE a == i + (k - 1)
             b == (d + f) - (k - 1)
  <2>1. a \in Nat /\ b \in 1 .. n - 1 /\ a + b = i + (d + f) /\ a \in Int BY <1>0, <1>2, SMT
  <2>2. T[k] = new[a % n] /\ R[k] = buf[a % n] BY <1>5, <1>7, Zenon
  <2> HIDE DEF a, b
  <2>3. (a + b) % n # a % n BY <1>0, <2>1, ModApart, Zenon
  <2>4. a % n \in 0 .. n - 1 BY <1>0, <2>1, ModDef, Zenon
  <2>5. a % n # l % n BY <1>3, <2>1, <2>3, Zenon
  <2>6. new[a % n] = buf[a % n] BY <1>0, <2>4, <2>5, Zenon DEF Put
  <2> QED BY <2>2, <2>6, Zenon
<1>9. T = R
  <2>1. Len(T) = Len(R) /\ \A k \in 1 .. Len(T) : T[k] = R[k] BY <1>5, <1>7, <1>8, Zenon
  <2> QED BY <1>5, <1>7, <2>1, SameSeq, Zenon
<1> QED BY <1>6, <1>9 DEF R, T

(* Two rings that meet and fit into the cells together *)
TwoRings(buf, i, j, l, n, u, S) ==
  IsRing(buf, i, j, n, u, S) /\ IsRing(buf, j, l, n, u, S) /\ Dist(i, j, u) + Dist(j, l, u) <= n

(* They are one ring, and its contents are those of the two. *)
Joined(buf, i, j, l, n, u, S) ==
  /\ IsRing(buf, i, l, n, u, S)
  /\ Dist(i, l, u) = Dist(i, j, u) + Dist(j, l, u)
  /\ Ring(buf, i, l, n, u) = Ring(buf, i, j, n, u) \o Ring(buf, j, l, n, u)

(* Two pieces of a ring, one after the other *)
LEMMA RingCat ==
  ASSUME NEW n, NEW u, NEW i, NEW j, NEW l, NEW S, NEW buf,
         TwoRings(buf, i, j, l, n, u, S)
  PROVE  Joined(buf, i, j, l, n, u, S)
<1> DEFINE P == Ring(buf, i, j, n, u)
           Q == Ring(buf, j, l, n, u)
           R == Ring(buf, i, l, n, u)
           d == Dist(i, j, u)
           f == Dist(j, l, u)
<1>a. IsRing(buf, i, j, n, u, S) /\ IsRing(buf, j, l, n, u, S) /\ d + f <= n BY DEF TwoRings
<1>0. /\ Indices(i, j, n, u) /\ Indices(j, l, n, u) /\ n \in Nat /\ u \in Nat /\ n < u
      /\ i \in 0 .. u - 1 /\ j \in 0 .. u - 1 /\ l \in 0 .. u - 1
  BY <1>a DEF IsRing, Indices, Sizes
<1>1. d \in 0 .. u - 1 /\ f \in 0 .. u - 1 BY <1>0, Steps
<1>2. d \in Nat /\ f \in Nat /\ d + f <= n BY <1>a, <1>0, <1>1, SMT
<1>3. Dist(i, l, u) = d + f BY <1>0, <1>2, SMT DEF Dist
<1>4. IsRing(buf, i, l, n, u, S) BY <1>a, <1>2, <1>3 DEF IsRing, Indices
<1> HIDE DEF d, f
<1>5. P \in Seq(S) /\ Len(P) = d /\ \A k \in 1 .. d : P[k] = buf[(i + (k - 1)) % n]
  BY <1>a, RingIs DEF d
<1>6. Q \in Seq(S) /\ Len(Q) = f /\ \A k \in 1 .. f : Q[k] = buf[(j + (k - 1)) % n]
  BY <1>a, RingIs DEF f
<1>7. R \in Seq(S) /\ Len(R) = d + f /\ \A k \in 1 .. d + f : R[k] = buf[(i + (k - 1)) % n]
  <2>1. R \in Seq(S) /\ Len(R) = Dist(i, l, u) /\ \A k \in 1 .. Dist(i, l, u) : R[k] = buf[(i + (k - 1)) % n]
    BY <1>4, RingIs
  <2> QED BY <1>3, <2>1, Zenon
<1>8. \A k \in Nat : (j + k) % n = (i + d + k) % n BY <1>0, CellFrom, Zenon DEF d
<1> HIDE DEF P, Q, R
<1>9. /\ P \o Q \in Seq(S) /\ Len(P \o Q) = d + f
      /\ \A k \in 1 .. d + f : (P \o Q)[k] = IF k <= d THEN P[k] ELSE Q[k - d]
  <2>1. /\ P \o Q \in Seq(S) /\ Len(P \o Q) = Len(P) + Len(Q)
        /\ \A k \in 1 .. Len(P) + Len(Q) : (P \o Q)[k] = IF k <= Len(P) THEN P[k] ELSE Q[k - Len(P)]
    BY <1>5, <1>6, CatSeq, Zenon
  <2> QED BY <1>5, <1>6, <2>1, Zenon
<1>10. ASSUME NEW k \in 1 .. d + f PROVE R[k] = (P \o Q)[k]
  <2>1. CASE k <= d
    <3>1. k \in 1 .. d BY <1>2, <2>1
    <3> QED BY <1>5, <1>7, <1>9, <2>1, <3>1, Zenon
  <2>2. CASE ~(k <= d)
    <3>1. k - d \in 1 .. f /\ (k - d) - 1 \in Nat /\ i + d + ((k - d) - 1) = i + (k - 1) BY <1>0, <1>2, <2>2, SMT
    <3>2. (j + ((k - d) - 1)) % n = (i + (k - 1)) % n BY <1>8, <3>1, Zenon
    <3>3. Q[k - d] = buf[(j + ((k - d) - 1)) % n] BY <1>6, <3>1, Zenon
    <3> QED BY <1>7, <1>9, <2>2, <3>2, <3>3, Zenon
  <2> QED BY <2>1, <2>2, Zenon
<1>11. R = P \o Q
  <2>1. Len(R) = Len(P \o Q) /\ \A k \in 1 .. Len(R) : R[k] = (P \o Q)[k] BY <1>7, <1>9, <1>10, Zenon
  <2> QED BY <1>7, <1>9, <2>1, SameSeq, Zenon
<1> QED BY <1>3, <1>4, <1>11 DEF P, Q, R, d, f, Joined

(* A cell is added behind the last. *)
LEMMA RingPut ==
  ASSUME NEW n, NEW u, NEW i, NEW j, NEW S, NEW buf, IsRing(buf, i, j, n, u, S), Dist(i, j, u) < n,
         NEW c \in S
  PROVE  /\ Succ(j, u) \in 0 .. u - 1 /\ Dist(i, Succ(j, u), u) = Dist(i, j, u) + 1
         /\ IsRing(Put(buf, j, n, c), i, Succ(j, u), n, u, S)
         /\ Ring(Put(buf, j, n, c), i, Succ(j, u), n, u) = Append(Ring(buf, i, j, n, u), c)
<1> DEFINE new == Put(buf, j, n, c)
           j1 == Succ(j, u)
           d == Dist(i, j, u)
           R == Ring(buf, i, j, n, u)
           T == Ring(new, j, j1, n, u)
<1>0. /\ Indices(i, j, n, u) /\ Indices(j, i, n, u) /\ n \in Nat \ {0} /\ u \in Nat /\ u > n
      /\ i \in 0 .. u - 1 /\ j \in 0 .. u - 1 /\ buf \in [0 .. n - 1 -> S]
  BY DEF IsRing, Indices, Sizes
<1>a. d \in 0 .. u - 1 BY <1>0, Steps
<1>b. j1 = IF j + 1 = u THEN 0 ELSE j + 1
  <2>1. Indices(j, j, n, u) BY <1>0 DEF Indices
  <2> QED BY <2>1, Steps, SMT
<1>2. /\ j1 \in 0 .. u - 1 /\ Dist(i, j1, u) = d + 1 /\ Dist(j, j1, u) = 1 /\ Dist(j, j, u) = 0
      /\ d + 0 < n /\ d + 1 <= n /\ 1 <= n
  BY <1>0, <1>a, <1>b, SMT DEF Dist
<1>3. IsRing(new, i, j, n, u, S) /\ Ring(new, i, j, n, u) = R
  <2>1. d + Dist(j, j, u) < n BY <1>2
  <2> QED BY <1>0, <2>1, RingKept
<1> HIDE DEF d
<1>4. new[j % n] = c /\ j \in Int
  <2>1. j \in Int BY <1>0
  <2>2. j % n \in 0 .. n - 1 BY <1>0, <2>1, ModDef, Zenon
  <2> QED BY <1>0, <2>1, <2>2, Zenon DEF Put
<1>5. IsRing(new, j, j1, n, u, S) BY <1>0, <1>2, <1>3 DEF IsRing, Indices
<1>6. T = <<c>>
  <2>1. T \in Seq(S) /\ Len(T) = Dist(j, j1, u) /\ \A k \in 1 .. Dist(j, j1, u) : T[k] = new[(j + (k - 1)) % n]
    BY <1>5, RingIs
  <2> HIDE DEF T
  <2>2. 1 \in 1 .. 1 /\ j + (1 - 1) = j BY <1>0, SMT
  <2>3. T \in Seq(S) /\ Len(T) = 1 /\ T[1] = new[(j + (1 - 1)) % n] BY <1>2, <2>1, <2>2, Zenon
  <2>4. T[1] = c BY <1>4, <2>2, <2>3, Zenon
  <2> QED BY <2>3, <2>4
<1>7. Ring(new, i, j1, n, u) = R \o T /\ IsRing(new, i, j1, n, u, S)
  <2>1. Dist(i, j, u) + Dist(j, j1, u) <= n BY <1>2 DEF d
  <2>2. TwoRings(new, i, j, j1, n, u, S) BY <1>3, <1>5, <2>1, Zenon DEF TwoRings
  <2>3. Joined(new, i, j, j1, n, u, S) BY <2>2, RingCat, Zenon
  <2>4. IsRing(new, i, j1, n, u, S) BY <2>3, Zenon DEF Joined
  <2>5. Ring(new, i, j1, n, u) = Ring(new, i, j, n, u) \o T BY <2>3, Zenon DEF Joined
  <2> QED BY <1>3, <2>4, <2>5, Zenon
<1>8. R \in Seq(S) BY RingIs, Zenon
<1> HIDE DEF T, R
<1>9. R \o T = Append(R, c) BY <1>6, <1>8
<1> QED BY <1>2, <1>7, <1>9 DEF R, d

(* Going from a to b, x alone moves, and then has that at hand. *)
Moves(a, b, x, pc, c, echo, idle, killed) ==
  /\ b \in [Actors -> At]
  /\ b[x].pc = pc /\ b[x].c = c /\ b[x].echo = echo /\ b[x].idle = idle /\ b[x].killed = killed
  /\ \A y \in Actors \ {x} : b[y] = a[y]

(* The assignments to what an actor has at hand: where it is, *)
LEMMA SetPc ==
  ASSUME NEW a \in [Actors -> At], NEW x \in Actors, NEW v \in PCs
  PROVE  Moves(a, [a EXCEPT ![x].pc = v], x, v, a[x].c, a[x].echo, a[x].idle, a[x].killed)
BY DEF At, Moves

(* ... the key, *)
LEMMA SetC ==
  ASSUME NEW a \in [Actors -> At], NEW x \in Actors, NEW v \in Hand
  PROVE  Moves(a, [a EXCEPT ![x].c = v], x, a[x].pc, v, a[x].echo, a[x].idle, a[x].killed)
BY DEF At, Moves

(* ... what it has to send, *)
LEMMA SetEcho ==
  ASSUME NEW a \in [Actors -> At], NEW x \in Actors, NEW v \in 0 .. 3
  PROVE  Moves(a, [a EXCEPT ![x].echo = v], x, a[x].pc, a[x].c, v, a[x].idle, a[x].killed)
BY DEF At, Moves

(* ... whether it has seen the port idle, *)
LEMMA SetIdle ==
  ASSUME NEW a \in [Actors -> At], NEW x \in Actors, NEW v \in BOOLEAN
  PROVE  Moves(a, [a EXCEPT ![x].idle = v], x, a[x].pc, a[x].c, a[x].echo, v, a[x].killed)
BY DEF At, Moves

(* ... whether it is killed, *)
LEMMA SetKilled ==
  ASSUME NEW a \in [Actors -> At], NEW x \in Actors, NEW v \in BOOLEAN
  PROVE  Moves(a, [a EXCEPT ![x].killed = v], x, a[x].pc, a[x].c, a[x].echo, a[x].idle, v)
BY DEF At, Moves

(* ... and the bytes it has left, *)
LEMMA SetN ==
  ASSUME NEW a \in [Actors -> At], NEW x \in Actors, NEW v \in Nat
  PROVE  Moves(a, [a EXCEPT ![x].n = v], x, a[x].pc, a[x].c, a[x].echo, a[x].idle, a[x].killed)
BY DEF At, Moves

(* ... of those it was asked for *)
LEMMA SetTarget ==
  ASSUME NEW a \in [Actors -> At], NEW x \in Actors, NEW v \in Nat
  PROVE  Moves(a, [a EXCEPT ![x].target = v], x, a[x].pc, a[x].c, a[x].echo, a[x].idle, a[x].killed)
BY DEF At, Moves

(* Two assignments at once *)
LEMMA Assign2 ==
  ASSUME NEW a \in [Actors -> At], NEW x \in Actors, NEW pc \in PCs, NEW c \in Hand, NEW echo \in 0 .. 3,
         NEW idle \in BOOLEAN
  PROVE  /\ Moves(a, [a EXCEPT ![x].pc = pc, ![x].echo = echo], x, pc, a[x].c, echo, a[x].idle, a[x].killed)
         /\ Moves(a, [a EXCEPT ![x].pc = pc, ![x].c = c], x, pc, c, a[x].echo, a[x].idle, a[x].killed)
         /\ Moves(a, [a EXCEPT ![x].c = c, ![x].echo = echo], x, a[x].pc, c, echo, a[x].idle, a[x].killed)
<1> DEFINE p == [a EXCEPT ![x].pc = pc]
           q == [a EXCEPT ![x].c = c]
<1>0. /\ [a EXCEPT ![x].pc = pc, ![x].echo = echo] = [p EXCEPT ![x].echo = echo]
      /\ [a EXCEPT ![x].pc = pc, ![x].c = c] = [p EXCEPT ![x].c = c]
      /\ [a EXCEPT ![x].c = c, ![x].echo = echo] = [q EXCEPT ![x].echo = echo]
  OBVIOUS
<1>1. /\ Moves(a, p, x, pc, a[x].c, a[x].echo, a[x].idle, a[x].killed)
      /\ Moves(a, q, x, a[x].pc, c, a[x].echo, a[x].idle, a[x].killed)
  BY SetPc, SetC, Zenon
<1> HIDE DEF p, q
<1>2. /\ Moves(p, [p EXCEPT ![x].echo = echo], x, p[x].pc, p[x].c, echo, p[x].idle, p[x].killed)
      /\ Moves(p, [p EXCEPT ![x].c = c], x, p[x].pc, c, p[x].echo, p[x].idle, p[x].killed)
      /\ Moves(q, [q EXCEPT ![x].echo = echo], x, q[x].pc, q[x].c, echo, q[x].idle, q[x].killed)
  <2>1. p \in [Actors -> At] /\ q \in [Actors -> At] BY <1>1 DEF Moves
  <2> QED BY <2>1, SetC, SetEcho, Zenon
<1> QED BY <1>0, <1>1, <1>2, ZenonT(30) DEF Moves

(* ... where it is, and the bytes to read *)
LEMMA Assign3 ==
  ASSUME NEW a \in [Actors -> At], NEW x \in Actors, NEW pc \in PCs, NEW n \in Nat
  PROVE  Moves(a, [a EXCEPT ![x].pc = pc, ![x].target = n, ![x].n = n], x, pc, a[x].c, a[x].echo, a[x].idle, a[x].killed)
<1> DEFINE p == [a EXCEPT ![x].pc = pc]
           q == [p EXCEPT ![x].target = n]
           r == [q EXCEPT ![x].n = n]
<1>0. [a EXCEPT ![x].pc = pc, ![x].target = n, ![x].n = n] = r OBVIOUS
<1>1. Moves(a, p, x, pc, a[x].c, a[x].echo, a[x].idle, a[x].killed) BY SetPc, Zenon
<1> HIDE DEF p
<1>2. Moves(p, q, x, p[x].pc, p[x].c, p[x].echo, p[x].idle, p[x].killed) BY <1>1, SetTarget, Zenon DEF Moves
<1>3. q \in [Actors -> At] BY <1>2, Zenon DEF Moves
<1> HIDE DEF q
<1>4. Moves(q, r, x, q[x].pc, q[x].c, q[x].echo, q[x].idle, q[x].killed) BY <1>3, SetN, Zenon
<1> HIDE DEF r
<1> QED BY <1>0, <1>1, <1>2, <1>4, Zenon DEF Moves

(* kill(), which wakes up *)
LEMMA AssignKilled ==
  ASSUME NEW a \in [Actors -> At], NEW x \in Actors
  PROVE  Moves(a, [a EXCEPT ![x].killed = TRUE, ![x].pc = IF @ = "read_sleep" THEN "read" ELSE @], x,
               IF a[x].pc = "read_sleep" THEN "read" ELSE a[x].pc, a[x].c, a[x].echo, a[x].idle, TRUE)
<1> DEFINE p == [a EXCEPT ![x].killed = TRUE]
           pc == IF p[x].pc = "read_sleep" THEN "read" ELSE p[x].pc
<1>0. [a EXCEPT ![x].killed = TRUE, ![x].pc = IF @ = "read_sleep" THEN "read" ELSE @] = [p EXCEPT ![x].pc = pc] OBVIOUS
<1>1. Moves(a, p, x, a[x].pc, a[x].c, a[x].echo, a[x].idle, TRUE) BY SetKilled, Zenon
<1> HIDE DEF p
<1>2. pc \in PCs /\ pc = IF a[x].pc = "read_sleep" THEN "read" ELSE a[x].pc BY <1>1 DEF Moves, At, PCs
<1> HIDE DEF pc
<1>b. p \in [Actors -> At] BY <1>1, Zenon DEF Moves
<1>3. Moves(p, [p EXCEPT ![x].pc = pc], x, pc, p[x].c, p[x].echo, p[x].idle, p[x].killed)
  BY <1>b, <1>2, SetPc, Zenon
<1> QED BY <1>0, <1>1, <1>2, <1>3, Zenon DEF Moves

(* A character goes to the port. *)
LEMMA AssignSent ==
  ASSUME NEW a \in [Actors -> At], NEW x \in Actors, a[x].echo > 0
  PROVE  /\ Moves(a, [a EXCEPT ![x].idle = FALSE, ![x].echo = @ - 1], x,
                  a[x].pc, a[x].c, a[x].echo - 1, FALSE, a[x].killed)
         /\ a[x].echo \in 1 .. 3
<1> DEFINE p == [a EXCEPT ![x].idle = FALSE]
           k == p[x].echo - 1
<1>0. [a EXCEPT ![x].idle = FALSE, ![x].echo = @ - 1] = [p EXCEPT ![x].echo = k] OBVIOUS
<1>1. Moves(a, p, x, a[x].pc, a[x].c, a[x].echo, FALSE, a[x].killed) BY SetIdle, Zenon
<1>a. a[x].echo \in 0 .. 3 BY DEF At
<1> HIDE DEF p
<1>2. k \in 0 .. 3 /\ k = a[x].echo - 1 /\ a[x].echo \in 1 .. 3 BY <1>1, <1>a DEF Moves
<1> HIDE DEF k
<1>b. p \in [Actors -> At] BY <1>1, Zenon DEF Moves
<1>3. Moves(p, [p EXCEPT ![x].echo = k], x, p[x].pc, p[x].c, k, p[x].idle, p[x].killed)
  BY <1>b, <1>2, SetEcho, Zenon
<1> QED BY <1>0, <1>1, <1>2, <1>3, Zenon DEF Moves

(* An actor starts anew. *)
LEMMA AssignIdle ==
  ASSUME NEW a \in [Actors -> At], NEW x \in Actors
  PROVE  Moves(a, [a EXCEPT ![x] = Idle], x, "idle", None, 0, FALSE, FALSE)
<1>1. Idle \in At BY DEF At, Idle, PCs, Hand
<1>2. Idle.pc = "idle" /\ Idle.c = None /\ Idle.echo = 0 /\ Idle.idle = FALSE /\ Idle.killed = FALSE BY DEF Idle
<1> QED BY <1>1, <1>2 DEF Moves

(* ... and the handler before its next key *)
LEMMA AssignGetc ==
  ASSUME NEW a \in [Actors -> At], NEW x \in Actors
  PROVE  Moves(a, [a EXCEPT ![x] = [Idle EXCEPT !.pc = "getc"]], x, "getc", None, 0, FALSE, FALSE)
<1> DEFINE g == [Idle EXCEPT !.pc = "getc"]
<1>1. Idle \in At BY DEF At, Idle, PCs, Hand
<1>2. Idle.c = None /\ Idle.echo = 0 /\ Idle.idle = FALSE /\ Idle.killed = FALSE BY DEF Idle
<1>3. g \in At /\ g.pc = "getc" BY <1>1 DEF At, PCs
<1>4. g.c = None /\ g.echo = 0 /\ g.idle = FALSE /\ g.killed = FALSE BY <1>1, <1>2 DEF At
<1> HIDE DEF g
<1>5. Moves(a, [a EXCEPT ![x] = g], x, "getc", None, 0, FALSE, FALSE) BY <1>3, <1>4 DEF Moves
<1> QED BY <1>5, Zenon DEF g

(* What wakeup() does *)
Wakes(a, b, from, to) ==
  /\ b \in [Actors -> At]
  /\ \A y \in Actors : /\ b[y].pc = IF a[y].pc = from THEN to ELSE a[y].pc
                       /\ b[y].c = a[y].c /\ b[y].echo = a[y].echo
                       /\ b[y].idle = a[y].idle /\ b[y].killed = a[y].killed

(* ... to those who sleep in one place: they go on in another. *)
LEMMA WakeupIs ==
  ASSUME NEW a \in [Actors -> At], NEW from \in PCs, NEW to \in PCs
  PROVE  Wakes(a, Wakeup(from, to, a), from, to)
BY DEF At, Wakes, Wakeup

(* All but x stay where they are, or are woken up. *)
Others(x) ==
  \A y \in Actors \ {x} :
    /\ at'[y].c = at[y].c /\ at'[y].echo = at[y].echo /\ at'[y].idle = at[y].idle /\ at'[y].killed = at[y].killed
    /\ \/ at'[y].pc = at[y].pc
       \/ at[y].pc = "tx_sleep" /\ at'[y].pc = "uartputc"
       \/ at[y].pc = "read_sleep" /\ at'[y].pc = "read"

(* x takes no lock that another holds, and releases none. *)
Locks(x) ==
  /\ lock'.cons = lock.cons \/ lock.cons \in {x, None}
  /\ lock'.tx = lock.tx \/ lock.tx \in {x, None}
  /\ lock'.pr = lock.pr \/ lock.pr \in {x, None}

(* What holds of the others goes on to hold. *)
LEMMA OthersOK ==
  ASSUME Inv, NEW x \in Actors, Others(x), Locks(x), ActorOK(x)'
  PROVE  \A y \in Actors : ActorOK(y)'
<1>1. ASSUME NEW y \in Actors \ {x} PROVE ActorOK(y)'
  <2>1. ActorOK(y) /\ None # y BY ConsoleAssumption DEF Inv
  <2>2. /\ at'[y].echo = at[y].echo /\ at'[y].idle = at[y].idle
        /\ \/ at'[y].pc = at[y].pc
           \/ at[y].pc = "tx_sleep" /\ at'[y].pc = "uartputc"
           \/ at[y].pc = "read_sleep" /\ at'[y].pc = "read"
    BY DEF Others
  <2>3. /\ lock.cons = y => lock'.cons = y
        /\ lock.tx = y => lock'.tx = y
        /\ lock.pr = y => lock'.pr = y
    BY <2>1 DEF Locks
  <2>4. CASE at'[y].pc = at[y].pc BY Zenon, <2>1, <2>2, <2>3, <2>4 DEF ActorOK
  <2>5. CASE at[y].pc = "tx_sleep" /\ at'[y].pc = "uartputc" BY Zenon, <2>1, <2>2, <2>5, ConsoleAssumption DEF ActorOK
  <2>6. CASE at[y].pc = "read_sleep" /\ at'[y].pc = "read" BY Zenon, <2>1, <2>2, <2>6, ConsoleAssumption DEF ActorOK
  <2> QED BY <2>2, <2>4, <2>5, <2>6
<1> QED BY <1>1

(* Nobody, or one, of each kind has seen the port idle. *)
LEMMA Seen == /\ SeenI \in 0 .. 1 /\ SeenW \in 0 .. 1 /\ SeenP \in 0 .. 1
              /\ SeenI' \in 0 .. 1 /\ SeenW' \in 0 .. 1 /\ SeenP' \in 0 .. 1
BY DEF SeenI, SeenW, SeenP, One

(* A step after which no more have seen it idle *)
LEMMA SeenKept ==
  ASSUME \A y \in Actors : at'[y].idle => at[y].idle
  PROVE  SeenI' <= SeenI /\ SeenW' <= SeenW /\ SeenP' <= SeenP
<1>1. SeenI' <= SeenI BY DEF Actors, SeenI, One
<1>2. SeenW' <= SeenW
  <2>1. (\E x \in Writers : at'[x].idle) => (\E x \in Writers : at[x].idle) BY DEF Actors
  <2> QED BY <2>1 DEF SeenW, One
<1>3. SeenP' <= SeenP
  <2>1. (\E x \in Printers : at'[x].idle) => (\E x \in Printers : at[x].idle) BY DEF Actors
  <2> QED BY <2>1 DEF SeenP, One
<1> QED BY <1>1, <1>2, <1>3

(* ... and that gives nothing to the port *)
LEMMA PortQuiet ==
  ASSUME Inv, thr' \in Nat, thr' <= thr, lost' = lost, \A y \in Actors : at'[y].idle => at[y].idle
  PROVE  PortOK'
<1>1. thr \in Nat /\ thr + SeenI + SeenW + SeenP <= 3 BY DEF Inv, TypeOK, PortOK
<1>a. \A t \in Nat : \A i, w, p \in 0 .. 1 :
        t <= thr /\ i <= SeenI /\ w <= SeenW /\ p <= SeenP => t + i + w + p <= 3
  BY <1>1, Seen
<1>2. thr' + SeenI' + SeenW' + SeenP' <= 3 BY <1>a, Seen, SeenKept, Zenon
<1>3. FIFO >= 3 => ~lost' BY Zenon DEF Inv, PortOK
<1> QED BY <1>2, <1>3 DEF PortOK

(* One that sees it idle *)
LEMMA PortSeen ==
  ASSUME Inv, thr' = 0, lost' = lost
  PROVE  PortOK'
<1>0. \A i, w, p \in 0 .. 1 : 0 + i + w + p <= 3 OBVIOUS
<1>1. thr' + SeenI' + SeenW' + SeenP' <= 3 BY <1>0, Seen, Zenon
<1>2. FIFO >= 3 => ~lost' BY Zenon DEF Inv, PortOK
<1> QED BY <1>1, <1>2 DEF PortOK

(* One that gives it a character: who does has seen it idle, alone of its kind, *)
(* since the others that may hold another lock.                                 *)
LEMMA PortWritten ==
  ASSUME Inv, NEW x \in Writers \cup Printers \cup {"intr"}, WriteTHR, at[x].idle, ~at'[x].idle,
         \A y \in Actors \ {x} : at'[y].idle = at[y].idle
  PROVE  PortOK'
<1>0. x \in Actors BY DEF Actors
<1>1. thr \in Nat /\ FIFO \in Nat /\ thr + SeenI + SeenW + SeenP <= 3 BY ConsoleAssumption DEF Inv, TypeOK, PortOK
<1>2. \A y \in Actors : at'[y].idle => at[y].idle BY <1>0
<1>3. SeenI' <= SeenI /\ SeenW' <= SeenW /\ SeenP' <= SeenP BY <1>2, SeenKept
<1>4. (SeenI = 1 /\ SeenI' = 0) \/ (SeenW = 1 /\ SeenW' = 0) \/ (SeenP = 1 /\ SeenP' = 0)
  <2>1. CASE x = "intr" BY <2>1 DEF SeenI, One
  <2>2. CASE x \in Writers
    <3>1. ASSUME NEW y \in Writers, at'[y].idle PROVE FALSE
      <4>1. y # x /\ y \in Actors BY <3>1 DEF Actors
      <4>2. at[y].idle BY <3>1, <4>1
      <4>3. at[y].pc = "uartstart" /\ at[x].pc = "uartstart" BY <1>0, <2>2, <4>1, <4>2, Zenon DEF Inv, ActorOK
      <4> QED BY Zenon, <1>0, <4>1, <4>3 DEF Inv, ActorOK
    <3> QED BY <2>2, <3>1 DEF SeenW, One
  <2>3. CASE x \in Printers
    <3>1. ASSUME NEW y \in Printers, at'[y].idle PROVE FALSE
      <4>1. y # x /\ y \in Actors BY <3>1 DEF Actors
      <4>2. at[y].idle BY <3>1, <4>1
      <4>3. at[y].pc = "printf" /\ at[x].pc = "printf" BY <1>0, <2>3, <4>1, <4>2, Zenon DEF Inv, ActorOK
      <4> QED BY ZenonT(30), <1>0, <4>1, <4>3 DEF Inv, ActorOK
    <3> QED BY <2>3, <3>1 DEF SeenP, One
  <2> QED BY <2>1, <2>2, <2>3
<1>5. thr <= 2 /\ thr' \in Nat /\ thr' <= thr + 1 BY <1>1, <1>4, Seen DEF WriteTHR, FifoOn
<1>a. \A t \in Nat : \A i, w, p \in 0 .. 1 :
        /\ t <= thr + 1 /\ i <= SeenI /\ w <= SeenW /\ p <= SeenP
        /\ (SeenI = 1 /\ i = 0) \/ (SeenW = 1 /\ w = 0) \/ (SeenP = 1 /\ p = 0)
        => t + i + w + p <= 3
  BY <1>1, Seen
<1>6. thr' + SeenI' + SeenW' + SeenP' <= 3 BY <1>a, <1>3, <1>4, <1>5, Seen, Zenon
<1>7. FIFO >= 3 => ~lost'
  <2>1. FIFO >= 3 => ~(thr >= FifoOn) BY <1>1, <1>5 DEF FifoOn
  <2> QED BY <2>1, Zenon DEF WriteTHR, Inv, PortOK
<1> QED BY <1>6, <1>7 DEF PortOK

(* Of those who slept, who still does? *)
LEMMA Asleep ==
  ASSUME Inv, NEW x \in Actors, Others(x), NEW y \in Actors \ {x}
  PROVE  /\ y \in Readers /\ at'[y].pc = "read_sleep" => cons.r = cons.w /\ ~at'[y].killed
         /\ y \in Writers /\ at'[y].pc = "tx_sleep" => Full
<1>1. /\ at'[y].killed = at[y].killed
      /\ \/ at'[y].pc = at[y].pc
         \/ at[y].pc = "tx_sleep" /\ at'[y].pc = "uartputc"
         \/ at[y].pc = "read_sleep" /\ at'[y].pc = "read"
  BY DEF Others
<1>2. at'[y].pc = "read_sleep" => at[y].pc = "read_sleep" BY <1>1
<1>3. at'[y].pc = "tx_sleep" => at[y].pc = "tx_sleep" BY <1>1
<1> QED BY <1>1, <1>2, <1>3, Zenon DEF Inv, NobodyStuck

(* A step of x that changes neither the output buffer nor what the port has, *)
(* and after which there is still no line for the readers if there was none,  *)
(* or no reader asleep                                                        *)
LEMMA QuietStep ==
  ASSUME Inv, NEW x \in Actors, TypeOK', Others(x), Locks(x), ActorOK(x)', ConsOK', StoreOK',
         UNCHANGED <<tx, thr, lost>>, at'[x].idle => at[x].idle \/ thr = 0,
         (cons.r = cons.w => cons'.r = cons'.w) \/ (\A y \in Readers : at'[y].pc # "read_sleep"),
         x \in Readers /\ at'[x].pc = "read_sleep" => cons'.r = cons'.w /\ ~at'[x].killed,
         x \in Writers /\ at'[x].pc = "tx_sleep" => Full,
         tx.r # tx.w => thr > 0 \/ irq' \/ lock'.tx # None \/ at'["intr"].pc # "idle"
  PROVE  Inv'
<1>1. TxOK' BY Zenon DEF Inv, TxOK
<1>2. \A y \in Actors : ActorOK(y)' BY Zenon, OthersOK
<1>4. PortOK'
  <2>1. CASE thr = 0 BY <2>1, PortSeen
  <2>2. CASE thr # 0
    <3>1. \A y \in Actors : at'[y].idle => at[y].idle BY <2>2, Zenon DEF Others
    <3>2. thr' \in Nat /\ thr' <= thr /\ lost' = lost BY DEF TypeOK
    <3> QED BY Zenon, <3>1, <3>2, PortQuiet
  <2> QED BY Zenon, <2>1, <2>2
<1>5. NobodyStuck'
  <2>1. \A y \in Actors : /\ y \in Readers /\ at'[y].pc = "read_sleep" => cons'.r = cons'.w /\ ~at'[y].killed
                          /\ y \in Writers /\ at'[y].pc = "tx_sleep" => Full
    BY Asleep
  <2>2. Full' = Full /\ Readers \subseteq Actors /\ Writers \subseteq Actors BY DEF Full, Actors
  <2> QED BY <2>1, <2>2, Zenon DEF NobodyStuck
<1> QED BY Zenon, <1>1, <1>2, <1>4, <1>5 DEF Inv

(* acquire() and release() of cons.lock: the holder becomes x. *)
LEMMA LockCons ==
  ASSUME lock \in Held, NEW x, x \in Actors \/ x = None, lock' = [lock EXCEPT !["cons"] = x]
  PROVE  lock' \in Held /\ lock'.cons = x /\ lock'.tx = lock.tx /\ lock'.pr = lock.pr
BY DEF Held

(* ... of uart_tx_lock *)
LEMMA LockTx ==
  ASSUME lock \in Held, NEW x, x \in Actors \/ x = None, lock' = [lock EXCEPT !["tx"] = x]
  PROVE  lock' \in Held /\ lock'.cons = lock.cons /\ lock'.tx = x /\ lock'.pr = lock.pr
BY DEF Held

(* ... of pr.lock *)
LEMMA LockPr ==
  ASSUME lock \in Held, NEW x, x \in Actors \/ x = None, lock' = [lock EXCEPT !["pr"] = x]
  PROVE  lock' \in Held /\ lock'.cons = lock.cons /\ lock'.tx = lock.tx /\ lock'.pr = x
BY DEF Held

(* What the kinds of actors have to do with each other: nothing *)
LEMMA Kinds ==
  /\ \A x \in Readers : x \in Actors /\ x \notin Writers /\ x \notin Printers /\ x # "intr" /\ x # None
  /\ \A x \in Writers : x \in Actors /\ x \notin Readers /\ x \notin Printers /\ x # "intr" /\ x # None
  /\ \A x \in Printers : x \in Actors /\ x \notin Readers /\ x \notin Writers /\ x # "intr" /\ x # None
  /\ "intr" \in Actors /\ "intr" \notin Readers /\ "intr" \notin Writers /\ "intr" \notin Printers /\ "intr" # None
BY ConsoleAssumption DEF Actors

(* What is left to echo is compared with zero. *)
LEMMA Zero == \A n : (n = 0 => ~(n > 0)) /\ (n = 3 => n > 0) /\ (n = 1 => n > 0)
OBVIOUS

(* What the invariant says of the actors and of the ports. *)
LEMMA Now ==
  ASSUME Inv
  PROVE  /\ at \in [Actors -> At] /\ lock \in Held /\ thr \in Nat
         /\ lost \in BOOLEAN /\ rx \in BOOLEAN /\ irq \in BOOLEAN
         /\ \A x \in Actors : ActorOK(x)
BY DEF Inv, TypeOK

(* A distance is a number, *)
LEMMA DistType ==
  ASSUME NEW u \in Nat, NEW i \in 0 .. u - 1, NEW j \in 0 .. u - 1
  PROVE  Dist(i, j, u) \in Nat
BY DEF Dist

(* ... and so is what is used of the input buffer, *)
LEMMA UsedType == ConsOK => Used \in Nat
<1> SUFFICES ASSUME ConsOK PROVE Used \in Nat OBVIOUS
<1>1. /\ cons.r \in 0 .. UINT - 1 /\ cons.w \in 0 .. UINT - 1 /\ cons.e \in 0 .. UINT - 1 /\ UINT \in Nat
  BY ConsoleAssumption DEF ConsOK
<1>2. Dist(cons.r, cons.w, UINT) \in Nat /\ Dist(cons.w, cons.e, UINT) \in Nat BY <1>1, DistType, Zenon
<1> QED BY <1>2 DEF Used

(* ... in the next state, too. *)
LEMMA UsedNext == ConsOK' => Used' \in Nat
<1> SUFFICES ASSUME ConsOK' PROVE Used' \in Nat OBVIOUS
<1>1. /\ cons'.r \in 0 .. UINT - 1 /\ cons'.w \in 0 .. UINT - 1 /\ cons'.e \in 0 .. UINT - 1 /\ UINT \in Nat
  BY ConsoleAssumption DEF ConsOK
<1>2. Dist(cons'.r, cons'.w, UINT) \in Nat /\ Dist(cons'.w, cons'.e, UINT) \in Nat BY <1>1, DistType, Zenon
<1> QED BY <1>2 DEF Used

(* x alone moves. *)
Only(x) == at' \in [Actors -> At] /\ \A y \in Actors \ {x} : at'[y] = at[y]

(* Such a step, that moves x alone *)
LEMMA MoveInv ==
  ASSUME Inv, NEW x \in Actors, Only(x), lock' \in Held, Locks(x), ActorOK(x)',
         UNCHANGED <<tx, thr, lost>>, rx' \in BOOLEAN, irq' \in BOOLEAN, at'[x].idle => at[x].idle \/ thr = 0,
         ConsOK', x # "intr" => Used' <= Used, cons.r = cons.w => cons'.r = cons'.w,
         x \in Readers /\ at'[x].pc = "read_sleep" => cons'.r = cons'.w /\ ~at'[x].killed,
         x \in Writers /\ at'[x].pc = "tx_sleep" => Full,
         x = "intr" /\ at'[x].pc = "store" => at'[x].c \in Chars /\ Used' < INPUT_BUF_SIZE,
         tx.r # tx.w => thr > 0 \/ irq' \/ lock'.tx # None \/ at'["intr"].pc # "idle"
  PROVE  Inv'
<1>1. TypeOK' BY Zenon, Now DEF TypeOK, Only
<1>2. Others(x) BY Zenon DEF Others, Only
<1>3. StoreOK'
  <2>1. CASE x = "intr" BY Zenon, <2>1 DEF StoreOK
  <2>2. CASE x # "intr"
    <3>1. at'["intr"] = at["intr"] /\ Used' <= Used BY Zenon, <2>2, Kinds DEF Only
    <3>2. Used \in Int /\ Used' \in Int /\ INPUT_BUF_SIZE \in Int BY UsedType, UsedNext, ConsoleAssumption DEF Inv
    <3> QED BY <3>1, <3>2 DEF StoreOK, Inv
  <2> QED BY Zenon, <2>1, <2>2
<1> QED BY Zenon, <1>1, <1>2, <1>3, QuietStep

(* ... and that leaves the input buffer alone, too *)
LEMMA PlainInv ==
  ASSUME Inv, NEW x \in Actors, Only(x), lock' \in Held, Locks(x), ActorOK(x)',
         UNCHANGED <<cons, tx, thr, lost>>, rx' \in BOOLEAN, irq' \in BOOLEAN, at'[x].idle => at[x].idle,
         at'[x].pc \notin {"read_sleep", "tx_sleep", "store"},
         tx.r # tx.w => thr > 0 \/ irq' \/ lock'.tx # None \/ at'["intr"].pc # "idle"
  PROVE  Inv'
<1>1. ConsOK' /\ Used' = Used /\ Used \in Nat BY Zenon, UsedType DEF Inv, ConsOK, Used
<1> QED BY <1>1, MoveInv


Cells == Chars \cup {None}
ConsType == [buf : [0 .. INPUT_BUF_SIZE - 1 -> Cells], r : 0 .. UINT - 1, w : 0 .. UINT - 1, e : 0 .. UINT - 1]

Lines == Ring(cons.buf, cons.r, cons.w, INPUT_BUF_SIZE, UINT)
Edit == Ring(cons.buf, cons.w, cons.e, INPUT_BUF_SIZE, UINT)

(* The assignments to the input buffer *)
LEMMA ConsE ==
  ASSUME NEW k \in ConsType, NEW e
  PROVE  [k EXCEPT !.e = e] = [buf |-> k.buf, r |-> k.r, w |-> k.w, e |-> e]
BY DEF ConsType

(* The input buffer is two rings, one behind the other. *)
LEMMA ConsRings ==
  ASSUME ConsOK
  PROVE  /\ Sizes(INPUT_BUF_SIZE, UINT) /\ cons \in ConsType
         /\ IsRing(cons.buf, cons.r, cons.w, INPUT_BUF_SIZE, UINT, Cells)
         /\ IsRing(cons.buf, cons.w, cons.e, INPUT_BUF_SIZE, UINT, Cells)
         /\ Dist(cons.r, cons.w, UINT) \in Nat /\ Dist(cons.w, cons.e, UINT) \in Nat
         /\ Len(Lines) = Dist(cons.r, cons.w, UINT) /\ Len(Edit) = Dist(cons.w, cons.e, UINT)
<1>1. /\ cons.buf \in [0 .. INPUT_BUF_SIZE - 1 -> Cells] /\ cons \in ConsType
      /\ cons.r \in 0 .. UINT - 1 /\ cons.w \in 0 .. UINT - 1 /\ cons.e \in 0 .. UINT - 1
  BY DEF ConsOK, Cells, ConsType
<1>2. Sizes(INPUT_BUF_SIZE, UINT) /\ INPUT_BUF_SIZE \in Nat /\ UINT \in Nat BY ConsoleAssumption, Zenon DEF Sizes
<1>3. Dist(cons.r, cons.w, UINT) \in Nat /\ Dist(cons.w, cons.e, UINT) \in Nat BY <1>1, <1>2, DistType, Zenon
<1>4. Dist(cons.r, cons.w, UINT) <= INPUT_BUF_SIZE /\ Dist(cons.w, cons.e, UINT) <= INPUT_BUF_SIZE
  BY <1>2, <1>3 DEF ConsOK, Used
<1>5. /\ IsRing(cons.buf, cons.r, cons.w, INPUT_BUF_SIZE, UINT, Cells)
      /\ IsRing(cons.buf, cons.w, cons.e, INPUT_BUF_SIZE, UINT, Cells)
  BY <1>1, <1>2, <1>4, Zenon DEF IsRing, Indices
<1>6. Len(Lines) = Dist(cons.r, cons.w, UINT) /\ Len(Edit) = Dist(cons.w, cons.e, UINT)
  BY <1>5, RingIs DEF Lines, Edit
<1> QED BY <1>1, <1>2, <1>3, <1>5, <1>6

(* A reader takes the first character of the lines. *)
LEMMA TakeCons ==
  ASSUME ConsOK, cons.r # cons.w, cons' = [cons EXCEPT !.r = Plus(cons.r, 1)]
  PROVE  ConsOK' /\ Used' = Used - 1 /\ L!Read
<1>0. Plus(cons.r, 1) = Succ(cons.r, UINT) BY DEF Plus, Succ
<1>1. /\ Succ(cons.r, UINT) \in 0 .. UINT - 1
      /\ Dist(Succ(cons.r, UINT), cons.w, UINT) = Dist(cons.r, cons.w, UINT) - 1
      /\ Ring(cons.buf, cons.r, cons.w, INPUT_BUF_SIZE, UINT) # <<>>
      /\ Ring(cons.buf, Succ(cons.r, UINT), cons.w, INPUT_BUF_SIZE, UINT) = Tail(Ring(cons.buf, cons.r, cons.w, INPUT_BUF_SIZE, UINT))
  BY ConsRings, RingTail
<1>2. /\ cons' \in ConsType /\ cons'.buf = cons.buf /\ cons'.r = Succ(cons.r, UINT)
      /\ cons'.w = cons.w /\ cons'.e = cons.e
  BY Zenon, <1>0, <1>1, ConsRings DEF ConsType
<1>3. Used' = Used - 1 BY <1>1, <1>2, ConsRings DEF Used
<1>4. ConsOK'
  <2>1. Used' <= INPUT_BUF_SIZE BY <1>3, UsedType, ConsoleAssumption DEF ConsOK
  <2> QED BY <1>2, <2>1 DEF ConsOK, ConsType, Cells
<1>5. L!Read BY <1>1, <1>2, Zenon DEF L!Read
<1> QED BY <1>3, <1>4, <1>5

(* The last character being edited goes. *)
LEMMA EraseCons ==
  ASSUME ConsOK, cons.e # cons.w, Erase
  PROVE  ConsOK' /\ Used' = Used - 1 /\ cons'.r = cons.r /\ cons'.w = cons.w /\ L!Erase
<1>0. Minus(cons.e, 1) = Pred(cons.e, UINT) BY Zenon DEF Minus, Pred
<1>1. /\ Pred(cons.e, UINT) \in 0 .. UINT - 1
      /\ Dist(cons.w, Pred(cons.e, UINT), UINT) = Dist(cons.w, cons.e, UINT) - 1
      /\ Ring(cons.buf, cons.w, cons.e, INPUT_BUF_SIZE, UINT) # <<>>
      /\ Ring(cons.buf, cons.w, Pred(cons.e, UINT), INPUT_BUF_SIZE, UINT) =
           SubSeq(Ring(cons.buf, cons.w, cons.e, INPUT_BUF_SIZE, UINT), 1, Len(Ring(cons.buf, cons.w, cons.e, INPUT_BUF_SIZE, UINT)) - 1)
  BY ConsRings, RingFront
<1>2. /\ cons' \in ConsType /\ cons'.buf = cons.buf /\ cons'.e = Pred(cons.e, UINT)
      /\ cons'.w = cons.w /\ cons'.r = cons.r
  <2>1. cons' = [cons EXCEPT !.e = Pred(cons.e, UINT)] BY <1>0, Zenon DEF Erase
  <2>2. cons' = [buf |-> cons.buf, r |-> cons.r, w |-> cons.w, e |-> Pred(cons.e, UINT)]
    BY <2>1, ConsRings, ConsE, Zenon
  <2> QED BY Zenon, <1>1, <2>2, ConsRings DEF ConsType
<1>3. Used' = Used - 1 BY <1>1, <1>2, ConsRings DEF Used
<1>4. ConsOK'
  <2>1. Used' <= INPUT_BUF_SIZE BY <1>3, UsedType, ConsoleAssumption DEF ConsOK
  <2> QED BY Zenon, <1>2, <2>1 DEF ConsOK, ConsType, Cells
<1>5. L!Erase BY <1>1, <1>2, Zenon DEF L!Erase
<1> QED BY <1>2, <1>3, <1>4, <1>5

(* consoleintr() stores c, and then gives the line to the readers or not. *)
Line(c) == c \in {"nl", "^D"} \/ Minus(Plus(cons.e, 1), cons.r) = INPUT_BUF_SIZE

Stores(c) ==
  cons' = [cons EXCEPT !.buf[cons.e % INPUT_BUF_SIZE] = c, !.e = Plus(cons.e, 1),
                       !.w = IF Line(c) THEN Plus(cons.e, 1) ELSE cons.w]

(* The buffer after that, field by field *)
LEMMA StoresIs ==
  ASSUME cons \in ConsType, NEW c, Stores(c)
  PROVE  cons' = [buf |-> Put(cons.buf, cons.e, INPUT_BUF_SIZE, c), r |-> cons.r,
                  w |-> IF Line(c) THEN Plus(cons.e, 1) ELSE cons.w, e |-> Plus(cons.e, 1)]
<1> DEFINE i == cons.e % INPUT_BUF_SIZE
           e == Plus(cons.e, 1)
           w == IF Line(c) THEN e ELSE cons.w
           p == [cons EXCEPT !.buf[i] = c]
           q == [p EXCEPT !.e = e]
           s == [q EXCEPT !.w = w]
<1>0. cons' = s BY DEF Stores
<1>1. p = [buf |-> [cons.buf EXCEPT ![i] = c], r |-> cons.r, w |-> cons.w, e |-> cons.e] BY DEF ConsType
<1> HIDE DEF p, i, e, w
<1>2. q = [buf |-> [cons.buf EXCEPT ![i] = c], r |-> cons.r, w |-> cons.w, e |-> e] BY <1>1
<1>3. DOMAIN q = {"buf", "r", "w", "e"} BY <1>2
<1> HIDE DEF q
<1>4. s = [buf |-> [cons.buf EXCEPT ![i] = c], r |-> cons.r, w |-> w, e |-> e] BY <1>2, <1>3
<1> QED BY <1>0, <1>4, Zenon DEF i, e, w, Put

(* A character is added to the line being edited, which may end it. *)
LEMMA StoreCons ==
  ASSUME ConsOK, NEW c \in Chars, Used < INPUT_BUF_SIZE, Stores(c)
  PROVE  ConsOK' /\ cons'.r = cons.r /\ (~Line(c) => cons'.w = cons.w) /\ L!Type(c)
<1> DEFINE N == INPUT_BUF_SIZE
           r == cons.r
           w == cons.w
           e == cons.e
           f == Succ(e, UINT)
           new == Put(cons.buf, e, N, c)
<1>a. c \in Cells /\ N \in Nat BY ConsoleAssumption DEF Cells
<1>b. /\ IsRing(cons.buf, r, w, N, UINT, Cells) /\ IsRing(cons.buf, w, e, N, UINT, Cells)
      /\ Sizes(N, UINT) /\ Dist(r, w, UINT) \in Nat /\ Dist(w, e, UINT) \in Nat
      /\ r \in 0 .. UINT - 1 /\ w \in 0 .. UINT - 1 /\ e \in 0 .. UINT - 1
      /\ Len(Lines) = Dist(r, w, UINT) /\ Len(Edit) = Dist(w, e, UINT)
  BY ConsRings DEF ConsType
<1>c. /\ Dist(w, e, UINT) < N /\ Dist(r, w, UINT) + Dist(w, e, UINT) < N BY <1>a, <1>b DEF Used
<1>0. Plus(e, 1) = f /\ Minus(f, r) = (f - r) % UINT BY DEF Plus, Minus, Succ
<1>1. /\ f \in 0 .. UINT - 1 /\ Dist(w, f, UINT) = Dist(w, e, UINT) + 1 /\ IsRing(new, w, f, N, UINT, Cells)
      /\ Ring(new, w, f, N, UINT) = Append(Ring(cons.buf, w, e, N, UINT), c)
  BY <1>a, <1>b, <1>c, RingPut
<1>2. IsRing(new, r, w, N, UINT, Cells) /\ Ring(new, r, w, N, UINT) = Ring(cons.buf, r, w, N, UINT)
  BY <1>a, <1>b, <1>c, RingKept
<1>3. /\ IsRing(new, r, f, N, UINT, Cells) /\ Dist(r, f, UINT) = Dist(r, w, UINT) + (Dist(w, e, UINT) + 1)
      /\ Ring(new, r, f, N, UINT) = Ring(new, r, w, N, UINT) \o Ring(new, w, f, N, UINT)
  <2>1. Dist(r, w, UINT) + Dist(w, f, UINT) <= N BY <1>1, <1>a, <1>b, <1>c
  <2>3. TwoRings(new, r, w, f, N, UINT, Cells) BY <1>1, <1>2, <2>1, Zenon DEF TwoRings
  <2> HIDE DEF N, r, w, f, new
  <2>2. /\ IsRing(new, r, f, N, UINT, Cells) /\ Dist(r, f, UINT) = Dist(r, w, UINT) + Dist(w, f, UINT)
        /\ Ring(new, r, f, N, UINT) = Ring(new, r, w, N, UINT) \o Ring(new, w, f, N, UINT)
    <3>1. Joined(new, r, w, f, N, UINT, Cells) BY <2>3, RingCat, Zenon
    <3> QED BY <3>1, Zenon DEF Joined
  <2> QED BY Zenon, <1>1, <2>2
<1>4. (f - r) % UINT = Dist(r, f, UINT) /\ Dist(f, f, UINT) = 0
  <2>1. Indices(r, f, N, UINT) /\ Indices(f, f, N, UINT) BY Zenon, <1>1, <1>3, <1>b DEF IsRing, Indices
  <2> QED BY <2>1, Steps
<1>5. Ring(new, f, f, N, UINT) = <<>> BY Zenon, <1>1, <1>b, RingEmpty
<1>6. Line(c) <=> L!Complete(c)
  <2>1. (f - r) % UINT = N <=> Len(Lines) + Len(Edit) + 1 = N BY <1>3, <1>4, <1>a, <1>b
  <2> QED BY <2>1, <1>0, Zenon DEF Line, L!Complete, Lines, Edit
<1>7. cons' = [buf |-> new, r |-> r, w |-> IF Line(c) THEN f ELSE w, e |-> f]
  <2>1. cons \in ConsType BY Zenon, ConsRings
  <2> QED BY <1>0, <2>1, StoresIs, Zenon
<1>9. new \in [0 .. N - 1 -> Cells] BY Zenon, <1>2 DEF IsRing
<1> HIDE DEF new, f
<1>8. cons'.buf = new /\ cons'.r = r /\ cons'.e = f /\ cons'.w = IF Line(c) THEN f ELSE w BY <1>7
<1>10. ConsOK'
  <2>1. cons' \in ConsType
    <3>1. (IF Line(c) THEN f ELSE w) \in 0 .. UINT - 1 BY Zenon, <1>1, <1>b
    <3> QED BY Zenon, <1>1, <1>7, <1>9, <1>b, <3>1 DEF ConsType
  <2>2. Used' <= N
    <3>1. PICK a, b, d \in Nat : /\ a = Dist(r, w, UINT) /\ b = Dist(w, e, UINT) /\ d = N /\ a + b < d
                              /\ Dist(w, f, UINT) = b + 1 /\ Dist(r, f, UINT) = a + (b + 1) /\ Dist(f, f, UINT) = 0
      BY <1>1, <1>3, <1>4, <1>a, <1>b, <1>c, Zenon
    <3>2. Used' = a + (b + 1) + 0 \/ Used' = a + (b + 1) BY <1>8, <3>1, Zenon DEF Used
    <3> HIDE DEF N
    <3> QED BY <3>1, <3>2
  <2> QED BY <2>1, <2>2 DEF ConsOK, ConsType, Cells
<1>11. L!Type(c)
  <2>1. Len(Lines) + Len(Edit) < N BY <1>b, <1>c
  <2>2. CASE Line(c)
    <3>1. cons'.w = f BY <1>8, <2>2
    <3> QED BY <1>2, <1>1, <1>3, <1>5, <1>6, <1>8, <2>1, <2>2, <3>1, Zenon DEF L!Type, Lines, Edit
  <2>3. CASE ~Line(c)
    <3>1. cons'.w = w BY <1>8, <2>3
    <3> QED BY <1>2, <1>1, <1>6, <1>8, <2>1, <2>3, <3>1, Zenon DEF L!Type, Lines, Edit
  <2> QED BY <2>2, <2>3
<1> QED BY <1>8, <1>10, <1>11


(* What consoleintr() compares with the size: e - r, which wraps around, is what is used. *)
LEMMA UsedIs == ASSUME ConsOK PROVE Minus(cons.e, cons.r) = Used
<1> DEFINE N == INPUT_BUF_SIZE
<1>1. TwoRings(cons.buf, cons.r, cons.w, cons.e, N, UINT, Cells)
  BY ConsRings, Zenon DEF TwoRings, ConsOK, Used
<1>2. Joined(cons.buf, cons.r, cons.w, cons.e, N, UINT, Cells) BY <1>1, RingCat, Zenon
<1>3. Dist(cons.r, cons.e, UINT) = Used BY <1>2, Zenon DEF Joined, Used
<1>4. Indices(cons.r, cons.e, N, UINT) BY <1>2, Zenon DEF Joined, IsRing
<1>5. (cons.e - cons.r) % UINT = Dist(cons.r, cons.e, UINT) BY <1>4, Steps, SMT
<1> QED BY <1>3, <1>5, Zenon DEF Minus

(* The output buffer *)
TxCells == Writers \cup {None}
TxType == [buf : [0 .. UART_TX_BUF_SIZE - 1 -> TxCells], r : 0 .. UINT64 - 1, w : 0 .. UINT64 - 1]
Queue == Ring(tx.buf, tx.r, tx.w, UART_TX_BUF_SIZE, UINT64)

(* uartputc() finds it full when it has as many characters as cells. *)
LEMMA FullIs ==
  ASSUME NEW r \in 0 .. UINT64 - 1, NEW w \in 0 .. UINT64 - 1
  PROVE  w = (r + UART_TX_BUF_SIZE) % UINT64 <=> Dist(r, w, UINT64) = UART_TX_BUF_SIZE
<1> DEFINE N == UART_TX_BUF_SIZE
<1>0. N \in Nat \ {0} /\ UINT64 \in Nat \ {0} /\ N < UINT64 BY ConsoleAssumption
<1> HIDE DEF N
<1>1. r + N \in Int /\ -UINT64 <= r + N /\ r + N < 2 * UINT64 /\ ~(r + N < 0) BY <1>0, SMT
<1>2. (r + N) % UINT64 = IF r + N < 0 THEN (r + N) + UINT64 ELSE IF r + N < UINT64 THEN r + N ELSE (r + N) - UINT64
  BY <1>0, <1>1, Wrap, Zenon
<1>3. w = (r + N) % UINT64 <=> Dist(r, w, UINT64) = N BY <1>0, <1>1, <1>2, SMT DEF Dist
<1> QED BY <1>3, Zenon DEF N

(* It is a ring of what was put and not yet taken. *)
LEMMA TxRing ==
  ASSUME TxOK
  PROVE  /\ Sizes(UART_TX_BUF_SIZE, UINT64) /\ tx \in TxType
         /\ IsRing(tx.buf, tx.r, tx.w, UART_TX_BUF_SIZE, UINT64, TxCells)
         /\ Dist(tx.r, tx.w, UINT64) \in Nat /\ Len(Queue) = Dist(tx.r, tx.w, UINT64)
         /\ Full <=> Dist(tx.r, tx.w, UINT64) = UART_TX_BUF_SIZE
<1> DEFINE N == UART_TX_BUF_SIZE
           r == tx.r
           w == tx.w
<1>1. /\ tx \in TxType /\ tx.buf \in [0 .. N - 1 -> TxCells] /\ r \in 0 .. UINT64 - 1 /\ w \in 0 .. UINT64 - 1
      /\ Dist(r, w, UINT64) <= N
  BY DEF TxOK, TxCells, TxType
<1>2. Sizes(N, UINT64) /\ N \in Nat \ {0} /\ UINT64 \in Nat \ {0} /\ N < UINT64 BY ConsoleAssumption DEF Sizes
<1>3. Dist(r, w, UINT64) \in Nat BY <1>1, <1>2, DistType, Zenon
<1>4. IsRing(tx.buf, r, w, N, UINT64, TxCells) BY <1>1, <1>2, Zenon DEF IsRing, Indices
<1>5. Len(Queue) = Dist(r, w, UINT64) BY <1>4, RingIs DEF Queue
<1>6. Full <=> Dist(r, w, UINT64) = N BY <1>1, FullIs, Zenon DEF Full
<1> QED BY Zenon, <1>1, <1>2, <1>3, <1>4, <1>5, <1>6

(* uartputc() adds a character ... *)
Puts(x) == tx' = [tx EXCEPT !.buf[tx.w % UART_TX_BUF_SIZE] = x, !.w = (@ + 1) % UINT64]

(* The buffer after that, field by field *)
LEMMA PutsIs ==
  ASSUME tx \in TxType, NEW x, Puts(x)
  PROVE  tx' = [buf |-> Put(tx.buf, tx.w, UART_TX_BUF_SIZE, x), r |-> tx.r, w |-> Succ(tx.w, UINT64)]
<1> DEFINE i == tx.w % UART_TX_BUF_SIZE
           p == [tx EXCEPT !.buf[i] = x]
           w == (p.w + 1) % UINT64
           q == [p EXCEPT !.w = w]
<1>0. tx' = q BY DEF Puts
<1>1. p = [buf |-> [tx.buf EXCEPT ![i] = x], r |-> tx.r, w |-> tx.w] BY DEF TxType
<1>2. w = Succ(tx.w, UINT64) BY <1>1 DEF Succ
<1>3. DOMAIN p = {"buf", "r", "w"} BY <1>1
<1> HIDE DEF p, i, w
<1>4. q = [buf |-> [tx.buf EXCEPT ![i] = x], r |-> tx.r, w |-> w] BY <1>1, <1>3
<1> QED BY <1>0, <1>2, <1>4, Zenon DEF i, Put

(* ... to a buffer that is not full. *)
LEMMA PutTx ==
  ASSUME TxOK, ~Full, NEW x \in Writers, Puts(x)
  PROVE  TxOK' /\ F!Put(x)
<1> DEFINE N == UART_TX_BUF_SIZE
           r == tx.r
           w == tx.w
           f == Succ(w, UINT64)
           new == Put(tx.buf, w, N, x)
<1>a. x \in TxCells /\ N \in Nat BY ConsoleAssumption DEF TxCells
<1>b. /\ IsRing(tx.buf, r, w, N, UINT64, TxCells) /\ Dist(r, w, UINT64) \in Nat /\ Dist(r, w, UINT64) # N
      /\ r \in 0 .. UINT64 - 1 /\ Len(Queue) = Dist(r, w, UINT64) /\ tx \in TxType
  BY TxRing DEF TxType
<1>c. Dist(r, w, UINT64) < N BY <1>a, <1>b DEF TxOK
<1>1. /\ f \in 0 .. UINT64 - 1 /\ Dist(r, f, UINT64) = Dist(r, w, UINT64) + 1 /\ IsRing(new, r, f, N, UINT64, TxCells)
      /\ Ring(new, r, f, N, UINT64) = Append(Ring(tx.buf, r, w, N, UINT64), x)
  BY <1>a, <1>b, <1>c, RingPut
<1>2. tx' = [buf |-> new, r |-> r, w |-> f] BY <1>b, PutsIs, Zenon
<1>3. new \in [0 .. N - 1 -> TxCells] BY Zenon, <1>1 DEF IsRing
<1> HIDE DEF new, f
<1>4. tx'.buf = new /\ tx'.r = r /\ tx'.w = f BY <1>2
<1>5. TxOK'
  <2>1. tx' \in TxType BY Zenon, <1>1, <1>2, <1>3, <1>b DEF TxType
  <2>2. Dist(tx'.r, tx'.w, UINT64) <= N
    <3>1. PICK a, d \in Nat : d = N /\ a < d /\ Dist(tx'.r, tx'.w, UINT64) = a + 1 BY <1>1, <1>4, <1>a, <1>b, <1>c, Zenon
    <3> HIDE DEF N
    <3> QED BY <3>1
  <2> QED BY <2>1, <2>2, Zenon DEF TxOK, TxType, TxCells
<1>6. F!Put(x) BY <1>1, <1>4, <1>b, <1>c, Zenon DEF F!Put, Queue
<1> QED BY <1>5, <1>6

(* uartstart() takes the first one, and then there is room. *)
Gets == tx' = [tx EXCEPT !.r = (@ + 1) % UINT64]

(* What is left is the rest of the queue. *)
LEMMA GetTx ==
  ASSUME TxOK, tx.r # tx.w, Gets
  PROVE  TxOK' /\ ~Full' /\ F!Get
<1> DEFINE N == UART_TX_BUF_SIZE
           f == Succ(tx.r, UINT64)
<1>b. /\ IsRing(tx.buf, tx.r, tx.w, N, UINT64, TxCells) /\ Dist(tx.r, tx.w, UINT64) \in Nat /\ tx \in TxType
      /\ N \in Nat
  BY Zenon, TxRing, ConsoleAssumption
<1>1. /\ f \in 0 .. UINT64 - 1 /\ Dist(f, tx.w, UINT64) = Dist(tx.r, tx.w, UINT64) - 1
      /\ Ring(tx.buf, tx.r, tx.w, N, UINT64) # <<>>
      /\ Ring(tx.buf, f, tx.w, N, UINT64) = Tail(Ring(tx.buf, tx.r, tx.w, N, UINT64))
  BY <1>b, RingTail
<1>2. tx' \in TxType /\ tx'.buf = tx.buf /\ tx'.r = f /\ tx'.w = tx.w
  <2>1. tx' = [tx EXCEPT !.r = f] BY DEF Succ, Gets
  <2> HIDE DEF f
  <2>2. tx' = [buf |-> tx.buf, r |-> f, w |-> tx.w] BY <2>1, <1>b DEF TxType
  <2> QED BY <2>2, <1>1, <1>b DEF TxType
<1>4. TxOK'
  <2>1. Dist(tx'.r, tx'.w, UINT64) <= N BY <1>1, <1>2, <1>b DEF TxOK
  <2> QED BY <1>2, <2>1, Zenon DEF TxOK, TxType, TxCells
<1>5. ~Full'
  <2>1. tx'.r \in 0 .. UINT64 - 1 /\ tx'.w \in 0 .. UINT64 - 1 BY <1>2 DEF TxType
  <2>2. Full' <=> Dist(tx'.r, tx'.w, UINT64) = N BY <2>1, FullIs, Zenon DEF Full
  <2>3. Dist(tx'.r, tx'.w, UINT64) # N BY <1>1, <1>2, <1>b DEF TxOK
  <2> QED BY Zenon, <2>2, <2>3
<1>6. F!Get BY <1>1, <1>2, Zenon DEF F!Get
<1> QED BY <1>4, <1>5, <1>6

(* consoleread() begins. *)
LEMMA readInv ==
  ASSUME Inv, NEW x \in Readers, NEW n \in Reads, read(x, n)
  PROVE  Inv'
<1>0. x \in Actors /\ n \in Nat /\ ActorOK(x) /\ "read_loop" \in PCs /\ at \in [Actors -> At] /\ lock \in Held
  BY Zenon, Kinds, Now, ConsoleAssumption DEF PCs
<1>1. Only(x) /\ at'[x].pc = "read_loop" /\ at'[x].echo = at[x].echo /\ at'[x].idle = at[x].idle
  <2>1. Moves(at, at', x, "read_loop", at[x].c, at[x].echo, at[x].idle, at[x].killed) BY <1>0, Assign3, Zenon DEF read
  <2> QED BY <2>1, Zenon DEF Moves, Only
<1>2. lock' \in Held /\ lock.cons = None /\ lock'.cons = x /\ lock'.tx = lock.tx /\ lock'.pr = lock.pr
  <2>1. lock.cons = None /\ lock' = [lock EXCEPT !["cons"] = x] BY Zenon DEF read, Acquire
  <2> QED BY <1>0, <2>1, LockCons, Zenon
<1>3. UNCHANGED <<cons, tx, thr, lost, rx, irq>> BY Zenon DEF read
<1>4. ActorOK(x)' BY Zenon, <1>0, <1>1, <1>2, Kinds DEF ActorOK
<1>5. Locks(x) BY <1>2 DEF Locks
<1>6. tx.r # tx.w => thr > 0 \/ irq' \/ lock'.tx # None \/ at'["intr"].pc # "idle"
  BY Zenon, <1>1, <1>2, <1>3, Kinds DEF Inv, NobodyStuck, Only
<1> QED BY ZenonT(30), <1>0, <1>1, <1>2, <1>3, <1>4, <1>5, <1>6, Now, PlainInv

(* ... and goes on after sleep(). *)
LEMMA read_wokenInv ==
  ASSUME Inv, NEW x \in Readers, read_woken(x)
  PROVE  Inv'
<1>0. x \in Actors /\ ActorOK(x) /\ "read_loop" \in PCs /\ at \in [Actors -> At] /\ lock \in Held BY Kinds, Now DEF PCs
<1>1. Only(x) /\ at'[x].pc = "read_loop" /\ at'[x].echo = at[x].echo /\ at'[x].idle = at[x].idle
  <2>1. Moves(at, at', x, "read_loop", at[x].c, at[x].echo, at[x].idle, at[x].killed)
    BY <1>0, SetPc, Zenon DEF read_woken, Go
  <2> QED BY <2>1, Zenon DEF Moves, Only
<1>2. lock' \in Held /\ lock.cons = None /\ lock'.cons = x /\ lock'.tx = lock.tx /\ lock'.pr = lock.pr
  <2>1. lock.cons = None /\ lock' = [lock EXCEPT !["cons"] = x] BY Zenon DEF read_woken, Acquire
  <2> QED BY <1>0, <2>1, LockCons, Zenon
<1>3. UNCHANGED <<cons, tx, thr, lost, rx, irq>> BY Zenon DEF read_woken
<1>4. ActorOK(x)' BY Zenon, <1>0, <1>1, <1>2, Kinds DEF ActorOK
<1>5. Locks(x) BY Zenon, <1>2 DEF Locks
<1>6. tx.r # tx.w => thr > 0 \/ irq' \/ lock'.tx # None \/ at'["intr"].pc # "idle"
  BY Zenon, <1>1, <1>2, <1>3, Kinds DEF Inv, NobodyStuck, Only
<1> QED BY ZenonT(30), <1>0, <1>1, <1>2, <1>3, <1>4, <1>5, <1>6, Now, PlainInv

(* kill() of a reader, which wakes it up *)
LEMMA killInv ==
  ASSUME Inv, NEW x \in Readers, kill(x)
  PROVE  Inv'
<1>0. x \in Actors /\ ActorOK(x) /\ at \in [Actors -> At] /\ lock \in Held /\ x # "intr" BY Kinds, Now
<1>1. /\ Only(x) /\ at'[x].echo = at[x].echo /\ at'[x].idle = at[x].idle
      /\ at'[x].pc = IF at[x].pc = "read_sleep" THEN "read" ELSE at[x].pc
  <2>1. Moves(at, at', x, IF at[x].pc = "read_sleep" THEN "read" ELSE at[x].pc, at[x].c, at[x].echo, at[x].idle, TRUE)
    BY <1>0, AssignKilled, Zenon DEF kill
  <2> QED BY <2>1, Zenon DEF Moves, Only
<1>2. at'[x].pc \in {"absent", "idle", "read", "read_loop"} /\ (at'[x].pc = "read_loop" => at[x].pc = "read_loop")
  BY Zenon, <1>0, <1>1, Kinds DEF ActorOK
<1>3. UNCHANGED <<cons, tx, lock, thr, lost, rx, irq>> BY Zenon DEF kill
<1>4. ActorOK(x)' BY Zenon, <1>0, <1>1, <1>2, <1>3, Kinds DEF ActorOK
<1>5. Locks(x) BY <1>3 DEF Locks
<1>6. tx.r # tx.w => thr > 0 \/ irq' \/ lock'.tx # None \/ at'["intr"].pc # "idle"
  BY Zenon, <1>0, <1>1, <1>3, Kinds DEF Inv, NobodyStuck, Only
<1> QED BY ZenonT(30), <1>0, <1>1, <1>2, <1>3, <1>4, <1>5, <1>6, Now, PlainInv

(* printf() takes pr.lock, and releases it after its character. *)
LEMMA printfInv ==
  ASSUME Inv, NEW x \in Printers, printf(x)
  PROVE  Inv'
<1>0. x \in Actors /\ ActorOK(x) /\ "printf" \in PCs /\ at \in [Actors -> At] /\ lock \in Held /\ x # "intr"
  BY Kinds, Now DEF PCs
<1>3. UNCHANGED <<cons, tx, thr, lost, rx, irq>> BY Zenon DEF printf
<1>1. /\ Only(x) /\ lock.pr \in {None, x}
      /\ \/ /\ at'[x].pc = "printf" /\ at'[x].idle = at[x].idle /\ at'[x].echo = 1
            /\ lock' = [lock EXCEPT !["pr"] = x] /\ at[x].pc = "idle"
         \/ /\ at'[x].pc = "idle" /\ at'[x].echo = 0 /\ ~at'[x].idle
            /\ lock' = [lock EXCEPT !["pr"] = None] /\ at[x].pc = "printf"
  <2>1. CASE at[x].pc = "idle"
    <3>1. at' = [at EXCEPT ![x].pc = "printf", ![x].echo = 1] BY <2>1 DEF printf
    <3>2. lock.pr = None /\ lock' = [lock EXCEPT !["pr"] = x] BY <2>1 DEF printf, Acquire
    <3>3. None \in Hand /\ 1 \in 0 .. 3 BY DEF Hand
    <3>4. Moves(at, at', x, "printf", at[x].c, 1, at[x].idle, at[x].killed) BY <1>0, <3>1, <3>3, Assign2, Zenon
    <3> QED BY <2>1, <3>2, <3>4, Zenon DEF Moves, Only
  <2>2. CASE at[x].pc # "idle"
    <3>1. at' = [at EXCEPT ![x] = Idle] /\ at[x].pc = "printf" BY <2>2 DEF printf, Done
    <3>2. lock' = [lock EXCEPT !["pr"] = None] BY <2>2 DEF printf, Release
    <3>3. lock.pr = x BY Zenon, <1>0, <3>1 DEF ActorOK
    <3>4. Moves(at, at', x, "idle", None, 0, FALSE, FALSE) BY <1>0, <3>1, AssignIdle, Zenon
    <3> QED BY <3>1, <3>2, <3>3, <3>4, Zenon DEF Moves, Only
  <2> QED BY Zenon, <2>1, <2>2
<1>2. /\ lock' \in Held /\ lock'.cons = lock.cons /\ lock'.tx = lock.tx
      /\ lock'.pr \in {x, None} /\ (at'[x].pc = "printf" => lock'.pr = x)
  BY Zenon, <1>0, <1>1, LockPr
<1>4. ActorOK(x)' BY Zenon, Zero, <1>0, <1>1, <1>2, Kinds DEF ActorOK
<1>5. Locks(x) BY Zenon, <1>1, <1>2 DEF Locks
<1>6. tx.r # tx.w => thr > 0 \/ irq' \/ lock'.tx # None \/ at'["intr"].pc # "idle"
  BY Zenon, <1>0, <1>1, <1>2, <1>3, Kinds DEF Inv, NobodyStuck, Only
<1> QED BY Zenon, <1>0, <1>1, <1>2, <1>3, <1>4, <1>5, <1>6, Now, PlainInv


(* The port sends a character ... *)
LEMMA device_sendInv ==
  ASSUME Inv, device_send
  PROVE  Inv'
<1>1. UNCHANGED <<cons, tx, lock, lost, rx, at>> /\ thr > 0 /\ thr' = thr - 1 /\ irq' = (irq \/ thr = 1) BY DEF device_send
<1>2. thr' \in Nat /\ thr' <= thr /\ (thr = 1 \/ thr' > 0) BY <1>1, Now
<1>3. TypeOK'
  <2>1. irq' \in BOOLEAN BY <1>1
  <2> QED BY <1>1, <1>2, <2>1, Zenon DEF Inv, TypeOK
<1>4. ConsOK' /\ TxOK' /\ StoreOK' BY <1>1, Zenon DEF Inv, ConsOK, TxOK, StoreOK, Used
<1>5. \A x \in Actors : ActorOK(x)' BY <1>1, Now, Zenon DEF ActorOK
<1>6. NobodyStuck'
  <2>1. tx.r # tx.w => thr' > 0 \/ irq' BY <1>1, <1>2, Zenon
  <2> QED BY <1>1, <2>1, Zenon DEF Inv, NobodyStuck, Full
<1>7. PortOK' BY Zenon, <1>1, <1>2, PortQuiet
<1> QED BY <1>3, <1>4, <1>5, <1>6, <1>7, Zenon DEF Inv

(* ... or has a key. *)
LEMMA device_keyInv ==
  ASSUME Inv, device_key
  PROVE  Inv'
<1>1. UNCHANGED <<cons, tx, lock, thr, lost, at>> /\ rx' = TRUE /\ irq' = TRUE BY DEF device_key
<1>2. thr' \in Nat /\ thr' <= thr BY <1>1, Now
<1>3. TypeOK' BY <1>1, Zenon DEF Inv, TypeOK
<1>4. ConsOK' /\ TxOK' /\ StoreOK' BY <1>1, Zenon DEF Inv, ConsOK, TxOK, StoreOK, Used
<1>5. \A x \in Actors : ActorOK(x)' BY <1>1, Now, Zenon DEF ActorOK
<1>6. NobodyStuck' BY <1>1, Zenon DEF Inv, NobodyStuck, Full
<1>7. PortOK' BY <1>1, <1>2, PortQuiet
<1> QED BY <1>3, <1>4, <1>5, <1>6, <1>7, Zenon DEF Inv

(* x gives the port a character. *)
LEMMA WriteInv ==
  ASSUME Inv, NEW x \in Writers \cup Printers \cup {"intr"}, Only(x), UNCHANGED <<cons, tx, lock, rx, irq>>,
         WriteTHR, at[x].idle, ~at'[x].idle, at'[x].pc = at[x].pc, at'[x].c = at[x].c, ActorOK(x)'
  PROVE  Inv'
<1>0. x \in Actors /\ x \notin Readers BY Kinds
<1>1. lost' = (lost \/ thr >= FIFO) /\ thr' = IF thr >= FIFO THEN thr ELSE thr + 1 BY Zenon DEF WriteTHR, FifoOn
<1>2. thr' \in Nat /\ (thr > 0 => thr' > 0) /\ lost' \in BOOLEAN BY <1>1, Now
<1>3. TypeOK' BY <1>2, Zenon DEF Inv, TypeOK, Only
<1>4. ConsOK' /\ TxOK' BY Zenon DEF Inv, ConsOK, TxOK, Used
<1>5. \A y \in Actors : at'[y].pc = at[y].pc /\ at'[y].c = at[y].c BY DEF Only
<1>6. StoreOK' BY <1>5, Kinds, Zenon DEF Inv, StoreOK, Used
<1>7. \A y \in Actors : ActorOK(y)'
  <2>1. Others(x) BY Zenon DEF Others, Only
  <2>2. Locks(x) BY DEF Locks
  <2> QED BY Zenon, <1>0, <2>1, <2>2, OthersOK
<1>8. NobodyStuck'
  <2>1. \A y \in Readers : at'[y] = at[y] BY <1>0, Kinds, Zenon DEF Only
  <2>2. \A y \in Writers : at'[y].pc = at[y].pc BY <1>5, Kinds, Zenon
  <2>3. at'["intr"].pc = at["intr"].pc BY <1>5, Kinds, Zenon
  <2> QED BY <1>2, <2>1, <2>2, <2>3, Zenon DEF Inv, NobodyStuck, Full
<1>9. PortOK'
  <2>1. \A y \in Actors \ {x} : at'[y].idle = at[y].idle BY DEF Only
  <2> QED BY Zenon, <2>1, PortWritten
<1> QED BY <1>3, <1>4, <1>6, <1>7, <1>8, <1>9, Zenon DEF Inv

(* x, with uart_tx_lock, changes the output buffer, and leaves no writer asleep. *)
LEMMA TxInv ==
  ASSUME Inv, NEW x \in Actors, TypeOK', Others(x), Locks(x), ActorOK(x)', UNCHANGED <<cons, thr, lost>>, TxOK',
         at'[x].idle => at[x].idle \/ thr = 0, at'[x].pc \notin {"read_sleep", "store"},
         \A y \in Writers : at'[y].pc # "tx_sleep", lock'.tx # None
  PROVE  Inv'
<1>1. \A y \in Actors : ActorOK(y)' BY Zenon, OthersOK
<1>2. ConsOK' /\ Used' = Used BY Zenon DEF Inv, ConsOK, Used
<1>3. StoreOK'
  <2>1. CASE x = "intr" BY Zenon, <2>1 DEF StoreOK
  <2>2. CASE x # "intr"
    <3>1. at'["intr"].pc = "store" => at["intr"].pc = "store" BY Zenon, <2>2, Kinds DEF Others
    <3>2. at'["intr"].c = at["intr"].c BY <2>2, Kinds, Zenon DEF Others
    <3> QED BY <1>2, <3>1, <3>2, Zenon DEF Inv, StoreOK
  <2> QED BY Zenon, <2>1, <2>2
<1>4. PortOK'
  <2>1. CASE thr = 0 BY Zenon, <2>1, PortSeen
  <2>2. CASE thr # 0
    <3>1. \A y \in Actors : at'[y].idle => at[y].idle BY <2>2, Zenon DEF Others
    <3>2. thr' \in Nat /\ thr' <= thr /\ lost' = lost BY DEF TypeOK
    <3> QED BY Zenon, <3>1, <3>2, PortQuiet
  <2> QED BY Zenon, <2>1, <2>2
<1>5. NobodyStuck'
  <2>1. \A y \in Readers : at'[y].pc = "read_sleep" => cons.r = cons.w /\ ~at'[y].killed BY Zenon, Asleep, Kinds
  <2> QED BY <2>1, Zenon DEF NobodyStuck
<1> QED BY <1>1, <1>2, <1>3, <1>4, <1>5, Zenon DEF Inv

(* A character of printf() or of echo: the port is seen idle, and then gets it. *)
LEMMA uartputc_syncInv ==
  ASSUME Inv, NEW x \in Actors, uartputc_sync(x)
  PROVE  Inv'
<1>0. ActorOK(x) /\ at \in [Actors -> At] /\ lock \in Held /\ at[x].echo > 0 BY Now DEF uartputc_sync
<1>1. x \in Printers \cup {"intr"}
  <2>1. ~(0 > 0) OBVIOUS
  <2> QED BY <1>0, <2>1, Zenon DEF Actors, ActorOK
<1>2. UNCHANGED <<cons, tx, lock, rx, irq>> BY DEF uartputc_sync
<1>3. Locks(x) BY <1>2 DEF Locks
<1>4. CASE ~at[x].idle
  <2>1. thr = 0 /\ at' = [at EXCEPT ![x].idle = TRUE] /\ UNCHANGED <<thr, lost>> BY <1>4, Zenon DEF uartputc_sync
  <2>2. Moves(at, at', x, at[x].pc, at[x].c, at[x].echo, TRUE, at[x].killed) BY <1>0, <2>1, SetIdle, Zenon
  <2>3. Only(x) /\ at'[x].pc = at[x].pc /\ at'[x].c = at[x].c /\ at'[x].echo = at[x].echo BY <2>2, Zenon DEF Moves, Only
  <2>4. ActorOK(x)' BY Zenon, <1>0, <1>1, <1>2, <2>3, Kinds DEF ActorOK
  <2>5. ConsOK' /\ Used' = Used /\ Used \in Nat BY Zenon, <1>2, UsedType DEF Inv, ConsOK, Used
  <2>6. at'[x].pc \notin {"read_sleep", "tx_sleep"} BY Zenon, <1>0, <1>1, <2>3, Kinds DEF ActorOK
  <2>7. x = "intr" /\ at'[x].pc = "store" => at'[x].c \in Chars /\ Used' < INPUT_BUF_SIZE
    BY <2>3, <2>5, Zenon DEF Inv, StoreOK
  <2>8. at'["intr"].pc = at["intr"].pc BY <2>3, Kinds DEF Only
  <2>9. tx.r # tx.w => thr > 0 \/ irq' \/ lock'.tx # None \/ at'["intr"].pc # "idle"
    BY <1>2, <2>8, Zenon DEF Inv, NobodyStuck
  <2> QED BY <1>0, <1>1, <1>2, <1>3, <2>1, <2>3, <2>4, <2>5, <2>6, <2>7, <2>9, Now, MoveInv
<1>5. CASE at[x].idle
  <2>1. WriteTHR /\ at' = [at EXCEPT ![x].idle = FALSE, ![x].echo = @ - 1] BY <1>5, Zenon DEF uartputc_sync
  <2>2. Moves(at, at', x, at[x].pc, at[x].c, at[x].echo - 1, FALSE, at[x].killed) /\ at[x].echo \in 1 .. 3
    BY <1>0, <2>1, AssignSent, Zenon
  <2>3. Only(x) /\ at'[x].pc = at[x].pc /\ at'[x].c = at[x].c /\ at'[x].echo = at[x].echo - 1 /\ ~at'[x].idle
    BY <2>2, Zenon DEF Moves, Only
  <2>4. ActorOK(x)' BY Zenon, <1>0, <1>1, <1>2, <2>3, Kinds DEF ActorOK
  <2>5. x \in Writers \cup Printers \cup {"intr"} BY <1>1
  <2> QED BY <1>2, <1>5, <2>1, <2>3, <2>4, <2>5, WriteInv, Zenon
<1> QED BY <1>4, <1>5

(* uartstart() returns, ... *)
LEMMA uartstart_doneInv ==
  ASSUME Inv, NEW x \in Actors, at[x].pc = "uartstart", tx.w = tx.r \/ thr # 0, Release("tx"), Done(x),
         UNCHANGED <<cons, tx, thr, lost, rx, irq>>
  PROVE  Inv'
<1>0. ActorOK(x) /\ at \in [Actors -> At] /\ lock \in Held /\ thr \in Nat BY Zenon, Now
<1>1. Only(x) /\ at'[x].pc = "idle" /\ at'[x].echo = 0 /\ ~at'[x].idle
  <2>1. Moves(at, at', x, "idle", None, 0, FALSE, FALSE) BY <1>0, AssignIdle, Zenon DEF Done
  <2> QED BY <2>1, Zenon DEF Moves, Only
<1>2. lock' \in Held /\ lock'.cons = lock.cons /\ lock'.tx = None /\ lock'.pr = lock.pr
  BY <1>0, LockTx, Zenon DEF Release
<1>3. lock.tx = x BY <1>0, Zenon DEF ActorOK
<1>4. ActorOK(x)' BY Zenon, Zero, <1>0, <1>1, <1>2, Kinds DEF ActorOK
<1>5. Locks(x) BY Zenon, <1>2, <1>3 DEF Locks
<1>6. tx.r # tx.w => thr > 0 BY <1>0
<1> QED BY Zenon, <1>1, <1>2, <1>4, <1>5, <1>6, Now, PlainInv

(* ... takes a character for the idle port, and wakes up the writers, ... *)
Takes(x) == at' = Wakeup("tx_sleep", "uartputc", [at EXCEPT ![x].idle = TRUE])

(* It has seen the port idle, as others may have, but has the buffer alone. *)
LEMMA uartstart_takeInv ==
  ASSUME Inv, NEW x \in Actors, at[x].pc = "uartstart", tx.r # tx.w, thr = 0, Gets, Takes(x),
         UNCHANGED <<cons, lock, thr, lost, rx, irq>>
  PROVE  Inv'
<1> DEFINE a == [at EXCEPT ![x].idle = TRUE]
<1>0. ActorOK(x) /\ at \in [Actors -> At] /\ lock \in Held /\ "tx_sleep" \in PCs /\ "uartputc" \in PCs BY Zenon, Now DEF PCs
<1>1. Moves(at, a, x, at[x].pc, at[x].c, at[x].echo, TRUE, at[x].killed) BY <1>0, SetIdle, Zenon
<1>2. at' = Wakeup("tx_sleep", "uartputc", a) BY Zenon DEF Takes
<1> HIDE DEF a
<1>3. /\ a \in [Actors -> At] /\ a[x].pc = at[x].pc /\ a[x].echo = at[x].echo /\ \A y \in Actors \ {x} : a[y] = at[y]
  BY <1>1, Zenon DEF Moves
<1>4. Wakes(a, at', "tx_sleep", "uartputc") BY <1>0, <1>2, <1>3, WakeupIs, Zenon
<1>5. /\ at' \in [Actors -> At]
      /\ \A y \in Actors : /\ at'[y].pc = IF a[y].pc = "tx_sleep" THEN "uartputc" ELSE a[y].pc
                           /\ at'[y].c = a[y].c /\ at'[y].echo = a[y].echo
                           /\ at'[y].idle = a[y].idle /\ at'[y].killed = a[y].killed
  BY <1>4, Zenon DEF Wakes
<1>6. at'[x].pc = "uartstart" /\ at'[x].echo = at[x].echo BY Zenon, <1>3, <1>5
<1>7. Others(x)
  <2> SUFFICES ASSUME NEW y \in Actors \ {x}
               PROVE  /\ at'[y].c = at[y].c /\ at'[y].echo = at[y].echo /\ at'[y].idle = at[y].idle /\ at'[y].killed = at[y].killed
                      /\ at'[y].pc = at[y].pc \/ (at[y].pc = "tx_sleep" /\ at'[y].pc = "uartputc")
    BY Zenon DEF Others
  <2>1. a[y] = at[y] BY Zenon, <1>3
  <2>2. /\ at'[y].c = at[y].c /\ at'[y].echo = at[y].echo /\ at'[y].idle = at[y].idle /\ at'[y].killed = at[y].killed
    BY <1>5, <2>1, Zenon
  <2>3. at'[y].pc = IF at[y].pc = "tx_sleep" THEN "uartputc" ELSE at[y].pc BY <1>5, <2>1, Zenon
  <2> QED BY Zenon, <2>2, <2>3
<1>8. \A y \in Writers : at'[y].pc # "tx_sleep" BY Zenon, <1>5, Kinds
<1>9. lock.tx = x /\ x # None BY Zenon, <1>0, Kinds DEF ActorOK, Actors
<1>10. ActorOK(x)' BY Zenon, <1>0, <1>6, <1>9, Kinds DEF ActorOK
<1>11. Locks(x) BY Zenon DEF Locks
<1>12. TypeOK' BY Zenon, <1>5, Now DEF TypeOK
<1>13. TxOK' BY Zenon, GetTx DEF Inv
<1> QED BY ZenonT(30), <1>6, <1>7, <1>8, <1>9, <1>10, <1>11, <1>12, <1>13, TxInv

(* ... or gives it to the port. *)
LEMMA uartstartInv ==
  ASSUME Inv, NEW x \in Actors, uartstart(x)
  PROVE  Inv'
<1>0. ActorOK(x) /\ at \in [Actors -> At] /\ at[x].pc = "uartstart" /\ UNCHANGED <<cons, rx, irq>>
  BY Now DEF uartstart
<1>1. CASE ~at[x].idle /\ (tx.w = tx.r \/ thr # 0)
  <2>1. Release("tx") /\ Done(x) /\ UNCHANGED <<tx, thr, lost>> BY <1>1, Zenon DEF uartstart
  <2> QED BY Zenon, <1>0, <1>1, <2>1, uartstart_doneInv
<1>2. CASE ~at[x].idle /\ tx.w # tx.r /\ thr = 0
  <2>1. Gets /\ Takes(x) /\ UNCHANGED <<lock, thr, lost>> BY <1>2, Zenon DEF uartstart, Gets, Takes
  <2>2. tx.r # tx.w BY Zenon, <1>2
  <2> QED BY <1>0, <1>2, <2>1, <2>2, uartstart_takeInv, Zenon
<1>3. CASE at[x].idle
  <2>1. WriteTHR /\ at' = [at EXCEPT ![x].idle = FALSE] /\ UNCHANGED <<tx, lock>> BY <1>3, Zenon DEF uartstart
  <2>2. Moves(at, at', x, at[x].pc, at[x].c, at[x].echo, FALSE, at[x].killed) BY <1>0, <2>1, SetIdle, Zenon
  <2>3. Only(x) /\ at'[x].pc = at[x].pc /\ at'[x].c = at[x].c /\ at'[x].echo = at[x].echo /\ ~at'[x].idle
    BY <2>2, Zenon DEF Moves, Only
  <2>4. ActorOK(x)' BY <1>0, <2>1, <2>3, Kinds DEF ActorOK
  <2>5. x \in Writers \cup Printers \cup {"intr"} BY Zenon, <1>0 DEF ActorOK, Actors
  <2> QED BY <1>0, <1>3, <2>1, <2>3, <2>4, <2>5, WriteInv
<1> QED BY <1>0, <1>1, <1>2, <1>3, Zenon DEF uartstart

(* A writer sleeps at a full buffer, or puts its character there. *)
LEMMA uartputcInv ==
  ASSUME Inv, NEW x \in Writers, uartputc(x)
  PROVE  Inv'
<1>0. /\ x \in Actors /\ x # "intr" /\ x # None /\ ActorOK(x) /\ at \in [Actors -> At] /\ lock \in Held
      /\ "tx_sleep" \in PCs /\ "uartstart" \in PCs
  BY Zenon, Now, Kinds DEF PCs
<1>1. UNCHANGED <<cons, thr, lost, rx, irq>> /\ lock.tx = None /\ at[x].pc \in {"idle", "uartputc"} BY Zenon DEF uartputc
<1>2. CASE Full
  <2>1. Go(x, "tx_sleep") /\ UNCHANGED <<tx, lock>> BY <1>2 DEF uartputc
  <2>2. Moves(at, at', x, "tx_sleep", at[x].c, at[x].echo, at[x].idle, at[x].killed) BY <1>0, <2>1, SetPc, Zenon DEF Go
  <2>3. Only(x) /\ at'[x].pc = "tx_sleep" /\ at'[x].echo = at[x].echo /\ at'[x].idle = at[x].idle
    BY <2>2, Zenon DEF Moves, Only
  <2>4. ActorOK(x)' BY Zenon, <1>0, <1>1, <2>1, <2>3, Kinds DEF ActorOK
  <2>5. ConsOK' /\ Used' = Used /\ Used \in Nat BY Zenon, <1>1, UsedType DEF Inv, ConsOK, Used
  <2>6. Locks(x) BY Zenon, <2>1 DEF Locks
  <2>7. at'["intr"].pc = at["intr"].pc BY <1>0, <2>3, Kinds DEF Only
  <2>8. tx.r # tx.w => thr > 0 \/ irq' \/ lock'.tx # None \/ at'["intr"].pc # "idle"
    BY <1>1, <2>1, <2>7, Zenon DEF Inv, NobodyStuck
  <2>9. Used' <= Used BY <2>5
  <2>10. x \notin Readers /\ (at'[x].idle => at[x].idle) /\ at'[x].pc # "read_sleep" BY <2>3, Kinds, Zenon
  <2>11. rx' \in BOOLEAN /\ irq' \in BOOLEAN /\ lock' \in Held BY <1>0, <1>1, <2>1, Now, Zenon
  <2> QED BY ZenonT(30), <1>0, <1>1, <1>2, <2>1, <2>3, <2>4, <2>5, <2>6, <2>8, <2>9, <2>10, <2>11, MoveInv
<1>3. CASE ~Full
  <2>1. Puts(x) /\ lock' = [lock EXCEPT !["tx"] = x] /\ Go(x, "uartstart") BY <1>3, Zenon DEF uartputc, Acquire, Puts
  <2>2. Moves(at, at', x, "uartstart", at[x].c, at[x].echo, at[x].idle, at[x].killed) BY <1>0, <2>1, SetPc, Zenon DEF Go
  <2>3. Only(x) /\ at'[x].pc = "uartstart" /\ at'[x].echo = at[x].echo /\ at'[x].idle = at[x].idle
    BY <2>2, Zenon DEF Moves, Only
  <2>4. lock' \in Held /\ lock'.cons = lock.cons /\ lock'.tx = x /\ lock'.pr = lock.pr BY <1>0, <2>1, LockTx, Zenon
  <2>5. ActorOK(x)' BY Zenon, <1>0, <1>1, <2>3, <2>4, Kinds DEF ActorOK
  <2>6. Locks(x) BY Zenon, <1>1, <2>4 DEF Locks
  <2>7. \A y \in Writers : at'[y].pc # "tx_sleep"
    <3>1. \A y \in Writers : at[y].pc # "tx_sleep" BY <1>3, Zenon DEF Inv, NobodyStuck
    <3> QED BY Zenon, <2>3, <3>1, Kinds DEF Only
  <2>8. TypeOK' BY Zenon, <1>1, <2>3, <2>4, Now DEF TypeOK, Only
  <2>9. Others(x) BY <2>3, Zenon DEF Others, Only
  <2>10. TxOK' BY <1>3, <2>1, PutTx DEF Inv
  <2> QED BY ZenonT(30), <1>0, <1>1, <2>3, <2>4, <2>5, <2>6, <2>7, <2>8, <2>9, <2>10, TxInv
<1> QED BY <1>2, <1>3


(* consoleread() with cons.lock: x sleeps, returns, or goes on with its next character. *)
LEMMA consolereadInv ==
  ASSUME Inv, NEW x \in Readers, consoleread(x)
  PROVE  Inv'
<1>0. /\ x \in Actors /\ x # "intr" /\ x \notin Writers /\ ActorOK(x) /\ at \in [Actors -> At] /\ lock \in Held
      /\ "read_sleep" \in PCs
  BY Zenon, Now, Kinds DEF PCs
<1>1. UNCHANGED <<tx, thr, lost, rx, irq>> /\ at[x].pc = "read_loop" BY DEF consoleread
<1>2. lock.cons = x BY <1>0, <1>1, Zenon DEF ActorOK
<1>3. /\ ConsOK' /\ Used' <= Used
      /\ (cons' = cons \/ cons.r # cons.w)
  <2>1. CASE cons' = cons BY <2>1, UsedType DEF Inv, ConsOK, Used
  <2>2. CASE cons' # cons
    <3>1. cons.r # cons.w /\ cons' = [cons EXCEPT !.r = Plus(cons.r, 1)] BY <2>2 DEF consoleread
    <3>2. ConsOK' /\ Used' = Used - 1 /\ Used \in Nat BY <3>1, TakeCons, UsedType DEF Inv
    <3> QED BY <3>1, <3>2
  <2> QED BY Zenon, <2>1, <2>2
<1>4. /\ Only(x) /\ lock' \in Held /\ lock'.tx = lock.tx /\ lock'.pr = lock.pr
      /\ at'[x].echo = 0 /\ ~at'[x].idle
      /\ \/ at'[x].pc = "idle" 
         \/ at'[x].pc = "read_sleep" /\ cons' = cons /\ cons.r = cons.w /\ ~at'[x].killed
         \/ at'[x].pc = "read_loop" /\ lock'.cons = x
  <2>0. at[x].echo = 0 /\ ~at[x].idle BY <1>0, Zenon DEF ActorOK
  <2>1. CASE Return(x)
    <3>1. Moves(at, at', x, "idle", None, 0, FALSE, FALSE) BY <1>0, <2>1, AssignIdle, Zenon DEF Return, Done
    <3>2. lock' \in Held /\ lock'.tx = lock.tx /\ lock'.pr = lock.pr BY <1>0, <2>1, LockCons, Zenon DEF Return, Release
    <3> QED BY <3>1, <3>2, Zenon DEF Moves, Only
  <2>2. CASE Release("cons") /\ Go(x, "read_sleep") /\ ~at[x].killed /\ cons' = cons /\ cons.r = cons.w
    <3>1. Moves(at, at', x, "read_sleep", at[x].c, at[x].echo, at[x].idle, at[x].killed) BY <1>0, <2>2, SetPc, Zenon DEF Go
    <3>2. lock' \in Held /\ lock'.tx = lock.tx /\ lock'.pr = lock.pr BY <1>0, <2>2, LockCons, Zenon DEF Release
    <3> QED BY <2>0, <2>2, <3>1, <3>2, Zenon DEF Moves, Only
  <2>3. CASE at[x].n > 1 /\ at' = [at EXCEPT ![x].n = @ - 1] /\ lock' = lock
    <3>1. at[x].n - 1 \in Nat BY <1>0, <2>3 DEF At
    <3>2. at' = [at EXCEPT ![x].n = at[x].n - 1] BY <1>0, <2>3
    <3>3. Moves(at, at', x, at[x].pc, at[x].c, at[x].echo, at[x].idle, at[x].killed) BY <1>0, <3>1, <3>2, SetN, Zenon
    <3> QED BY <1>0, <1>1, <1>2, <2>0, <2>3, <3>3, Zenon DEF Moves, Only
  <2> QED BY <2>1, <2>2, <2>3, Zenon DEF consoleread, Return
<1>5. ActorOK(x)' BY Zenon, <1>0, <1>4, Kinds DEF ActorOK
<1>6. Locks(x) BY Zenon, <1>2, <1>4 DEF Locks
<1>7. tx.r # tx.w => thr > 0 \/ irq' \/ lock'.tx # None \/ at'["intr"].pc # "idle"
  <2>1. at'["intr"].pc = at["intr"].pc BY Zenon, <1>0, <1>4, Kinds DEF Only
  <2> QED BY <1>1, <1>4, <2>1, Zenon DEF Inv, NobodyStuck
<1>8. cons.r = cons.w => cons'.r = cons'.w BY Zenon, <1>3
<1>9. at'[x].pc = "read_sleep" => cons'.r = cons'.w /\ ~at'[x].killed BY <1>4, Zenon
<1> QED BY ZenonT(30), <1>0, <1>1, <1>3, <1>4, <1>5, <1>6, <1>7, <1>8, <1>9, Now, MoveInv

(* The handler: it begins, *)
LEMMA plic_claimInv ==
  ASSUME Inv, plic_claim
  PROVE  Inv'
<1> DEFINE x == "intr"
<1>0. x \in Actors /\ ActorOK(x) /\ at \in [Actors -> At] /\ lock \in Held /\ "getc" \in PCs BY Zenon, Now, Kinds DEF PCs
<1>1. UNCHANGED <<cons, tx, lock, thr, lost, rx>> /\ irq' = FALSE /\ at[x].pc = "idle" BY Zenon DEF plic_claim
<1>2. Only(x) /\ at'[x].pc = "getc" /\ at'[x].echo = at[x].echo /\ at'[x].idle = at[x].idle
  <2>1. Moves(at, at', x, "getc", at[x].c, at[x].echo, at[x].idle, at[x].killed) BY <1>0, SetPc, Zenon DEF plic_claim, Go
  <2> QED BY <2>1, Zenon DEF Moves, Only
<1>3. ActorOK(x)' BY Zenon, <1>0, <1>1, <1>2, Kinds DEF ActorOK
<1>4. Locks(x) BY Zenon, <1>1 DEF Locks
<1>5. lock' \in Held /\ UNCHANGED <<cons, tx, thr, lost>> /\ rx' \in BOOLEAN /\ irq' \in BOOLEAN BY <1>0, <1>1, Now, Zenon
<1>6. at'[x].pc \notin {"read_sleep", "tx_sleep", "store"} /\ at'[x].pc # "idle" BY Zenon, <1>2
<1> QED BY Zenon, <1>0, <1>2, <1>3, <1>4, <1>5, <1>6, PlainInv

(* ... gets a key, or has got the last, *)
LEMMA uartgetcInv ==
  ASSUME Inv, uartgetc
  PROVE  Inv'
<1> DEFINE x == "intr"
<1>0. /\ x \in Actors /\ ActorOK(x) /\ at \in [Actors -> At] /\ lock \in Held
      /\ "key" \in PCs /\ "uartstart" \in PCs
  BY Zenon, Now, Kinds DEF PCs
<1>1. UNCHANGED <<cons, tx, thr, lost, irq>> /\ at[x].pc = "getc" BY DEF uartgetc
<1>2. at[x].echo = 0 /\ ~at[x].idle BY <1>0, <1>1 DEF ActorOK, At
<1>3. CASE rx
  <2>1. lock.cons = None /\ lock' = [lock EXCEPT !["cons"] = x] /\ rx' = FALSE BY <1>3, Zenon DEF uartgetc, Acquire
  <2>2. PICK c \in Keys : at' = [at EXCEPT ![x].pc = "key", ![x].c = IF c = "cr" THEN "nl" ELSE c]
    BY <1>3, Zenon DEF uartgetc
  <2> DEFINE k == IF c = "cr" THEN "nl" ELSE c
  <2>3. k \in Hand /\ 1 \in 0 .. 3 BY DEF Hand, Chars
  <2>4. at' = [at EXCEPT ![x].pc = "key", ![x].c = k] BY <2>2
  <2> HIDE DEF k
  <2>5. Moves(at, at', x, "key", k, at[x].echo, at[x].idle, at[x].killed) BY <1>0, <2>3, <2>4, Assign2, Zenon
  <2>6. Only(x) /\ at'[x].pc = "key" /\ at'[x].echo = 0 /\ ~at'[x].idle BY <1>2, <2>5, Zenon DEF Moves, Only
  <2>7. lock' \in Held /\ lock'.cons = x /\ lock'.tx = lock.tx /\ lock'.pr = lock.pr BY <1>0, <2>1, LockCons, Zenon
  <2>8. ActorOK(x)' BY Zenon, <1>0, <2>6, <2>7, Kinds DEF ActorOK
  <2>9. Locks(x) BY Zenon, <2>1, <2>7 DEF Locks
  <2>10. UNCHANGED <<cons, tx, thr, lost>> /\ rx' \in BOOLEAN /\ irq' \in BOOLEAN BY <1>1, <2>1, Now, Zenon
  <2>11. at'[x].pc \notin {"read_sleep", "tx_sleep", "store"} /\ at'[x].pc # "idle" BY Zenon, <2>6
  <2> QED BY ZenonT(30), <1>0, <2>6, <2>7, <2>8, <2>9, <2>10, <2>11, PlainInv
<1>4. CASE ~rx
  <2>1. lock.tx = None /\ lock' = [lock EXCEPT !["tx"] = x] /\ Go(x, "uartstart") /\ rx' = rx
    BY <1>4, Zenon DEF uartgetc, Acquire
  <2>5. Moves(at, at', x, "uartstart", at[x].c, at[x].echo, at[x].idle, at[x].killed) BY <1>0, <2>1, SetPc, Zenon DEF Go
  <2>6. Only(x) /\ at'[x].pc = "uartstart" /\ at'[x].echo = 0 /\ ~at'[x].idle BY <1>2, <2>5, Zenon DEF Moves, Only
  <2>7. lock' \in Held /\ lock'.cons = lock.cons /\ lock'.tx = x /\ lock'.pr = lock.pr BY <1>0, <2>1, LockTx, Zenon
  <2>8. ActorOK(x)' BY Zenon, Zero, <1>0, <2>6, <2>7, Kinds DEF ActorOK
  <2>9. Locks(x) BY <2>1, <2>7 DEF Locks
  <2>10. UNCHANGED <<cons, tx, thr, lost>> /\ rx' \in BOOLEAN /\ irq' \in BOOLEAN BY <1>1, <2>1, Now, Zenon
  <2>11. at'[x].pc \notin {"read_sleep", "tx_sleep", "store"} /\ at'[x].pc # "idle" BY <2>6
  <2> QED BY ZenonT(30), <1>0, <2>6, <2>7, <2>8, <2>9, <2>10, <2>11, PlainInv
<1> QED BY <1>3, <1>4

(* ... is done with a key, *)
LEMMA EndKeyInv ==
  ASSUME Inv, at["intr"].pc = "key", EndKey, UNCHANGED <<cons, tx, thr, lost, rx, irq>>
  PROVE  Inv'
<1> DEFINE x == "intr"
<1>0. x \in Actors /\ ActorOK(x) /\ at \in [Actors -> At] /\ lock \in Held BY Zenon, Now, Kinds
<1>1. lock.cons = x BY <1>0, Zenon DEF ActorOK
<1>2. Only(x) /\ at'[x].pc = "getc" /\ at'[x].echo = 0 /\ ~at'[x].idle
  <2>1. Moves(at, at', x, "getc", None, 0, FALSE, FALSE) BY <1>0, AssignGetc, Zenon DEF EndKey
  <2> QED BY <2>1, Zenon DEF Moves, Only
<1>3. lock' \in Held /\ lock'.tx = lock.tx /\ lock'.pr = lock.pr BY <1>0, LockCons, Zenon DEF EndKey, Release
<1>4. ActorOK(x)' BY Zenon, Zero, <1>0, <1>2, Kinds DEF ActorOK
<1>5. Locks(x) BY Zenon, <1>1, <1>3 DEF Locks
<1> QED BY ZenonT(30), <1>0, <1>2, <1>3, <1>4, <1>5, Now, PlainInv


(* ... prints the list of processes, *)
LEMMA procdumpInv ==
  ASSUME Inv, procdump
  PROVE  Inv'
<1> DEFINE x == "intr"
<1>0. /\ x \in Actors /\ x # None /\ ActorOK(x) /\ at \in [Actors -> At] /\ lock \in Held
      /\ "done" \in Hand /\ 0 \in 0 .. 3 /\ 1 \in 0 .. 3
  BY Now, Kinds DEF Hand
<1>1. UNCHANGED <<cons, tx, thr, lost, rx, irq>> /\ at[x].pc = "key" /\ at[x].echo = 0 BY Zenon DEF procdump, Key
<1>2. ~at[x].idle /\ lock.cons = x BY <1>0, <1>1 DEF ActorOK
<1>3. /\ Only(x) /\ at'[x].pc = "key" /\ at'[x].echo \in 0 .. 3 /\ ~at'[x].idle /\ lock.pr \in {x, None}
      /\ lock' = [lock EXCEPT !["pr"] = None] \/ lock' = [lock EXCEPT !["pr"] = x]
  <2>1. CASE lock.pr = x
    <3>1. lock' = [lock EXCEPT !["pr"] = None] /\ at' = [at EXCEPT ![x].c = "done"] BY <2>1, Zenon DEF procdump, Release
    <3>2. Moves(at, at', x, at[x].pc, "done", at[x].echo, at[x].idle, at[x].killed) BY <1>0, <3>1, SetC, Zenon
    <3>3. at'[x].echo = 0 BY <1>1, <3>2, Zenon DEF Moves
    <3> QED BY <1>0, <1>1, <1>2, <2>1, <3>1, <3>2, <3>3, Zenon DEF Moves, Only
  <2>2. CASE lock.pr # x
    <3>1. lock.pr = None /\ lock' = [lock EXCEPT !["pr"] = x] /\ at' = [at EXCEPT ![x].echo = 1]
      BY <2>2, Zenon DEF procdump, Acquire
    <3>2. Moves(at, at', x, at[x].pc, at[x].c, 1, at[x].idle, at[x].killed) BY <1>0, <3>1, SetEcho, Zenon
    <3> QED BY <1>0, <1>1, <1>2, <3>1, <3>2, Zenon DEF Moves, Only
  <2> QED BY Zenon, <2>1, <2>2
<1>4. lock' \in Held /\ lock'.cons = lock.cons /\ lock'.tx = lock.tx /\ lock'.pr \in {x, None}
  BY <1>0, <1>3, LockPr, Zenon
<1>5. ActorOK(x)' BY Zenon, <1>0, <1>2, <1>3, <1>4, Kinds DEF ActorOK
<1>6. Locks(x) BY Zenon, <1>3, <1>4 DEF Locks
<1> QED BY Zenon, <1>0, <1>1, <1>3, <1>4, <1>5, <1>6, Now, PlainInv

(* ... erases a character, and echoes that, *)
LEMMA EraseInv ==
  ASSUME Inv, at["intr"].pc = "key", at["intr"].echo = 0, cons.e # cons.w, Erase,
         Only("intr"), at'["intr"].pc = "key", at'["intr"].echo = 3, at'["intr"].idle = at["intr"].idle,
         UNCHANGED <<tx, lock, thr, lost, rx, irq>>
  PROVE  Inv'
<1> DEFINE x == "intr"
<1>0. x \in Actors /\ ActorOK(x) /\ lock \in Held /\ x \notin Readers /\ x \notin Writers BY Zenon, Now, Kinds
<1>1. ConsOK' /\ cons'.r = cons.r /\ cons'.w = cons.w BY Zenon, EraseCons DEF Inv
<1>2. ActorOK(x)' BY Zenon, Zero, <1>0, Kinds DEF ActorOK
<1>3. Locks(x) BY Zenon DEF Locks
<1>4. at'[x].pc # "store" /\ at'[x].pc # "idle" /\ (cons.r = cons.w => cons'.r = cons'.w) BY Zenon, <1>1
<1>5. lock' \in Held /\ rx' \in BOOLEAN /\ irq' \in BOOLEAN BY Now, Zenon
<1> QED BY ZenonT(30), <1>0, <1>1, <1>2, <1>3, <1>4, <1>5, MoveInv

(* ... or all of the line, one by one, *)
LEMMA killlineInv ==
  ASSUME Inv, killline
  PROVE  Inv'
<1>0. "intr" \in Actors /\ at \in [Actors -> At] /\ 3 \in 0 .. 3 BY Now, Kinds
<1>1. UNCHANGED <<tx, thr, lost, rx, irq>> /\ at["intr"].pc = "key" /\ at["intr"].echo = 0 BY Zenon DEF killline, Key
<1>2. CASE EndKey /\ UNCHANGED cons BY Zenon, <1>1, <1>2, EndKeyInv
<1>3. CASE ~(EndKey /\ UNCHANGED cons)
  <2>1. cons.e # cons.w /\ Erase /\ at' = [at EXCEPT !["intr"].echo = 3] /\ UNCHANGED lock BY <1>3, Zenon DEF killline
  <2>2. Moves(at, at', "intr", at["intr"].pc, at["intr"].c, 3, at["intr"].idle, at["intr"].killed)
    BY <1>0, <2>1, SetEcho, Zenon
  <2>3. Only("intr") /\ at'["intr"].pc = "key" /\ at'["intr"].echo = 3 /\ at'["intr"].idle = at["intr"].idle
    BY <1>1, <2>2, Zenon DEF Moves, Only
  <2> QED BY <1>1, <2>1, <2>3, EraseInv, Zenon
<1> QED BY <1>2, <1>3

(* ... the last one, *)
LEMMA backspaceInv ==
  ASSUME Inv, backspace
  PROVE  Inv'
<1>0. "intr" \in Actors /\ at \in [Actors -> At] /\ 3 \in 0 .. 3 /\ "done" \in Hand /\ "key" \in PCs
  BY Now, Kinds DEF Hand, PCs
<1>1. UNCHANGED <<tx, thr, lost, rx, irq>> /\ at["intr"].pc = "key" /\ at["intr"].echo = 0 BY DEF backspace, Key
<1>2. CASE EndKey /\ UNCHANGED cons BY <1>1, <1>2, EndKeyInv
<1>3. CASE ~(EndKey /\ UNCHANGED cons)
  <2>1. /\ cons.e # cons.w /\ Erase /\ UNCHANGED lock
        /\ at' = [at EXCEPT !["intr"].c = "done", !["intr"].echo = 3]
    BY <1>3, Zenon DEF backspace
  <2>2. Moves(at, at', "intr", at["intr"].pc, "done", 3, at["intr"].idle, at["intr"].killed)
    BY <1>0, <2>1, Assign2, Zenon
  <2>3. Only("intr") /\ at'["intr"].pc = "key" /\ at'["intr"].echo = 3 /\ at'["intr"].idle = at["intr"].idle
    BY <1>1, <2>2, Zenon DEF Moves, Only
  <2> QED BY <1>1, <2>1, <2>3, EraseInv, Zenon
<1> QED BY <1>2, <1>3

(* ... echoes a key that has room, or drops it, *)
LEMMA consoleintrInv ==
  ASSUME Inv, consoleintr
  PROVE  Inv'
<1> DEFINE x == "intr"
<1>0. /\ x \in Actors /\ x \notin Readers /\ x \notin Writers /\ ActorOK(x) /\ at \in [Actors -> At] /\ lock \in Held
      /\ 1 \in 0 .. 3 /\ "store" \in PCs /\ None \in Hand
  BY Now, Kinds DEF Hand, PCs
<1>1. UNCHANGED <<cons, tx, thr, lost, rx, irq>> /\ at[x].pc = "key" /\ at[x].c \in Typed BY Zenon DEF consoleintr
<1>2. CASE EndKey BY Zenon, <1>1, <1>2, EndKeyInv
<1>3. CASE ~EndKey
  <2>1. /\ Minus(cons.e, cons.r) < INPUT_BUF_SIZE /\ UNCHANGED lock
        /\ at' = [at EXCEPT ![x].pc = "store", ![x].echo = 1]
    BY <1>3, Zenon DEF consoleintr
  <2>2. Moves(at, at', x, "store", at[x].c, 1, at[x].idle, at[x].killed) BY <1>0, <2>1, Assign2, Zenon
  <2>3. Only(x) /\ at'[x].pc = "store" /\ at'[x].echo = 1 /\ at'[x].idle = at[x].idle /\ at'[x].c = at[x].c
    BY <2>2, Zenon DEF Moves, Only
  <2>4. ActorOK(x)' BY <1>0, <1>1, <2>1, <2>3, Kinds DEF ActorOK
  <2>5. Locks(x) BY <2>1 DEF Locks
  <2>6. ConsOK' /\ Used' = Used BY Zenon, <1>1 DEF Inv, ConsOK, Used
  <2>7. at'[x].c \in Chars BY Zenon, <1>1, <2>3 DEF Typed, Chars
  <2>8. Used' < INPUT_BUF_SIZE BY <2>1, <2>6, UsedIs DEF Inv
  <2> QED BY <1>0, <1>1, <2>1, <2>3, <2>4, <2>5, <2>6, <2>7, <2>8, Now, MoveInv
<1> QED BY <1>2, <1>3


(* ... and stores it; if that makes a line, it wakes up the readers. *)
LEMMA consoleintr_storeInv ==
  ASSUME Inv, consoleintr_store
  PROVE  Inv'
<1> DEFINE x == "intr"
           c == at[x].c
           done == [at EXCEPT ![x].pc = "key", ![x].c = "done"]
<1>0. /\ x \in Actors /\ x \notin Readers /\ x \notin Writers /\ x # None /\ ActorOK(x)
      /\ at \in [Actors -> At] /\ lock \in Held
      /\ 1 \in 0 .. 3 /\ "key" \in PCs /\ "done" \in Hand /\ "read_sleep" \in PCs /\ "read" \in PCs
  BY Now, Kinds DEF Hand, PCs
<1>1. UNCHANGED <<lock, tx, thr, lost, rx, irq>> /\ at[x].pc = "store" /\ at[x].echo = 0 BY Zenon DEF consoleintr_store
<1>2. c \in Chars /\ Used < INPUT_BUF_SIZE BY Zenon, <1>1 DEF Inv, StoreOK
<1>3. Stores(c) BY Zenon DEF consoleintr_store, Stores, Line
<1>4. at' = IF Line(c) THEN Wakeup("read_sleep", "read", done) ELSE done BY Zenon DEF consoleintr_store, Line
<1>5. Moves(at, done, x, "key", "done", at[x].echo, at[x].idle, at[x].killed) BY <1>0, Assign2, Zenon
<1> HIDE DEF done, c
<1>6. ConsOK' /\ cons'.r = cons.r /\ (~Line(c) => cons'.w = cons.w) BY Zenon, <1>2, <1>3, StoreCons DEF Inv
<1>7. /\ done \in [Actors -> At] /\ done[x].pc = "key" /\ done[x].echo = 0 /\ done[x].idle = at[x].idle
      /\ \A y \in Actors \ {x} : done[y] = at[y]
  BY <1>1, <1>5, Zenon DEF Moves
<1>8. /\ at' \in [Actors -> At] /\ at'[x].pc = "key" /\ at'[x].echo = 0 /\ at'[x].idle = at[x].idle /\ Others(x)
      /\ Line(c) => \A y \in Actors : at'[y].pc # "read_sleep"
  <2>1. CASE ~Line(c) 
    <3>1. at' = done BY <1>4, <2>1
    <3> QED BY <1>7, <2>1, <3>1, Zenon DEF Others
  <2>2. CASE Line(c)
    <3>1. Wakes(done, at', "read_sleep", "read") BY <1>0, <1>4, <1>7, <2>2, WakeupIs, Zenon
    <3>2. /\ at' \in [Actors -> At]
          /\ \A y \in Actors : /\ at'[y].pc = IF done[y].pc = "read_sleep" THEN "read" ELSE done[y].pc
                               /\ at'[y].c = done[y].c /\ at'[y].echo = done[y].echo
                               /\ at'[y].idle = done[y].idle /\ at'[y].killed = done[y].killed
      BY <3>1, Zenon DEF Wakes
    <3>3. at'[x].pc = "key" /\ at'[x].echo = 0 /\ at'[x].idle = at[x].idle BY Zenon, <1>0, <1>7, <3>2
    <3>4. Others(x)
      <4> SUFFICES ASSUME NEW y \in Actors \ {x}
                   PROVE  /\ at'[y].c = at[y].c /\ at'[y].echo = at[y].echo
                          /\ at'[y].idle = at[y].idle /\ at'[y].killed = at[y].killed
                          /\ at'[y].pc = at[y].pc \/ (at[y].pc = "read_sleep" /\ at'[y].pc = "read")
        BY Zenon DEF Others
      <4>1. done[y] = at[y] BY Zenon, <1>7
      <4>2. /\ at'[y].c = at[y].c /\ at'[y].echo = at[y].echo /\ at'[y].idle = at[y].idle /\ at'[y].killed = at[y].killed
        BY <3>2, <4>1, Zenon
      <4>3. at'[y].pc = IF at[y].pc = "read_sleep" THEN "read" ELSE at[y].pc BY <3>2, <4>1, Zenon
      <4> QED BY Zenon, <4>2, <4>3
    <3>5. \A y \in Actors : at'[y].pc # "read_sleep" BY Zenon, <3>2
    <3> QED BY <3>2, <3>3, <3>4, <3>5, Zenon
  <2> QED BY Zenon, <2>1, <2>2
<1>9. ActorOK(x)' BY Zenon, <1>0, <1>1, <1>8, Kinds DEF ActorOK
<1>10. TypeOK' BY <1>1, <1>8, Now, Zenon DEF TypeOK
<1>11. Locks(x) BY Zenon, <1>1 DEF Locks
<1>12. StoreOK' BY Zenon, <1>8 DEF StoreOK
<1>13. (cons.r = cons.w => cons'.r = cons'.w) \/ (\A y \in Readers : at'[y].pc # "read_sleep")
  BY Zenon, <1>6, <1>8, Kinds
<1>14. at'["intr"].pc # "idle" BY Zenon, <1>8
<1> QED BY ZenonT(30), <1>0, <1>1, <1>6, <1>8, <1>9, <1>10, <1>11, <1>12, <1>13, <1>14, QuietStep


(* The invariant holds at boot ... *)
LEMMA InitInv == Init => Inv
<1> SUFFICES ASSUME Init PROVE Inv OBVIOUS
<1>1. PICK S \in Casts : at = [x \in Actors |-> IF x \in S \cup {"intr"} THEN Idle ELSE [Idle EXCEPT !.pc = "absent"]]
  BY Zenon DEF Init
<1> DEFINE a == [Idle EXCEPT !.pc = "absent"]
<1>2. /\ Idle \in At /\ Idle.pc = "idle" /\ Idle.echo = 0 /\ ~Idle.idle
      /\ a \in At /\ a.pc = "absent" /\ a.echo = 0 /\ ~a.idle
  <2>1. Idle \in At BY DEF At, Idle, PCs, Hand
  <2>2. Idle.pc = "idle" /\ Idle.echo = 0 /\ Idle.idle = FALSE BY Zenon DEF Idle
  <2>3. a \in At /\ a.pc = "absent" BY Zenon, <2>1 DEF At, PCs
  <2>4. a.echo = 0 /\ a.idle = FALSE BY <2>1, <2>2 DEF At
  <2> QED BY <2>1, <2>2, <2>3, <2>4, Zenon
<1>3. at = [x \in Actors |-> IF x \in S \cup {"intr"} THEN Idle ELSE a] BY <1>1
<1> HIDE DEF a
<1>4. /\ at \in [Actors -> At]
      /\ \A x \in Actors : /\ at[x].pc \in {"idle", "absent"} /\ at[x].echo = 0 /\ ~at[x].idle
                           /\ x = "intr" => at[x].pc = "idle"
  BY <1>2, <1>3
<1>5. /\ cons = [buf |-> [i \in 0 .. INPUT_BUF_SIZE - 1 |-> None], r |-> 0, w |-> 0, e |-> 0]
      /\ tx = [buf |-> [i \in 0 .. UART_TX_BUF_SIZE - 1 |-> None], r |-> 0, w |-> 0]
      /\ lock = [cons |-> None, tx |-> None, pr |-> None]
      /\ thr = 0 /\ lost = FALSE /\ rx = FALSE /\ irq = FALSE
  BY Zenon DEF Init
<1>6. TypeOK
  <2>1. lock \in Held /\ thr \in Nat BY Zenon, <1>5 DEF Held
  <2> QED BY <1>4, <1>5, <2>1, Zenon DEF TypeOK
<1>7. ConsOK
  <2>1. Dist(0, 0, UINT) = 0 BY DEF Dist
  <2> QED BY <1>5, <2>1, ConsoleAssumption DEF ConsOK, Used
<1>8. TxOK
  <2>1. Dist(0, 0, UINT64) = 0 BY DEF Dist
  <2> QED BY <1>5, <2>1, ConsoleAssumption DEF TxOK
<1>9. \A x \in Actors : ActorOK(x) BY <1>4 DEF ActorOK
<1>10. StoreOK BY Zenon, <1>4, Kinds DEF StoreOK
<1>11. NobodyStuck
  <2>1. tx.r = tx.w BY Zenon, <1>5
  <2>2. \A x \in Actors : at[x].pc # "read_sleep" /\ at[x].pc # "tx_sleep" BY Zenon, <1>4
  <2> QED BY <2>1, <2>2, Kinds, Zenon DEF NobodyStuck
<1>12. PortOK
  <2>1. ~at["intr"].idle /\ (\A x \in Writers \cup Printers : ~at[x].idle) BY Zenon, <1>4, Kinds
  <2>2. SeenI = 0 /\ SeenW = 0 /\ SeenP = 0 BY Zenon, <2>1 DEF SeenI, SeenW, SeenP, One
  <2> QED BY <1>5, <2>2 DEF PortOK
<1> QED BY <1>6, <1>7, <1>8, <1>9, <1>10, <1>11, <1>12 DEF Inv

(* ... and every step keeps it. *)
LEMMA InvStep == Inv /\ [Next]_vars => Inv'
<1> SUFFICES ASSUME Inv, [Next]_vars PROVE Inv' OBVIOUS
<1>1. CASE UNCHANGED vars
  <2>1. UNCHANGED <<cons, tx, lock, thr, lost, rx, irq, at>> BY <1>1 DEF vars
  <2>2. TypeOK' /\ ConsOK' /\ TxOK' /\ StoreOK' BY <2>1, Zenon DEF Inv, TypeOK, ConsOK, TxOK, StoreOK, Used
  <2>3. \A x \in Actors : ActorOK(x)' BY <2>1, Now, Zenon DEF ActorOK
  <2>4. NobodyStuck' /\ PortOK' BY <2>1, Zenon DEF Inv, NobodyStuck, Full, PortOK, SeenI, SeenW, SeenP, One
  <2> QED BY <2>2, <2>3, <2>4, Zenon DEF Inv
<1>2. CASE device_send BY <1>2, device_sendInv
<1>3. CASE device_key BY <1>3, device_keyInv
<1>4. ASSUME NEW x \in Actors, uartputc_sync(x) \/ uartstart(x) PROVE Inv' BY Zenon, <1>4, uartputc_syncInv, uartstartInv
<1>5. ASSUME NEW x \in Writers, uartputc(x) PROVE Inv' BY <1>5, uartputcInv
<1>6. ASSUME NEW x \in Printers, printf(x) PROVE Inv' BY Zenon, <1>6, printfInv
<1>7. ASSUME NEW x \in Readers, (\E n \in Reads : read(x, n)) \/ read_woken(x) \/ consoleread(x) \/ kill(x) PROVE Inv'
  BY Zenon, <1>7, readInv, read_wokenInv, consolereadInv, killInv
<1>8. CASE plic_claim BY <1>8, plic_claimInv
<1>9. CASE uartgetc BY <1>9, uartgetcInv
<1>10. CASE procdump BY <1>10, procdumpInv
<1>11. CASE killline BY <1>11, killlineInv
<1>12. CASE backspace BY <1>12, backspaceInv
<1>13. CASE key_end
  <2>1. at["intr"].pc = "key" /\ EndKey /\ UNCHANGED <<cons, tx, thr, lost, rx, irq>> BY <1>13, Zenon DEF key_end, Key
  <2> QED BY <2>1, EndKeyInv, Zenon
<1>14. CASE consoleintr BY <1>14, consoleintrInv
<1>15. CASE consoleintr_store BY <1>15, consoleintr_storeInv
<1> QED BY <1>1, <1>2, <1>3, <1>4, <1>5, <1>6, <1>7, <1>8, <1>9, <1>10, <1>11, <1>12, <1>13, <1>14, <1>15, Zenon DEF Next

(* Inv is an invariant of the console. *)
LEMMA InvInvariant == Spec => []Inv
BY InitInv, InvStep, PTL DEF Spec

(* Nobody sleeps for what is there, an interrupt is to come as long as the     *)
(* output buffer has characters, and the port loses none, as long as its FIFO  *)
(* takes one from each that can have seen it idle: the handler, a process in   *)
(* uartstart() and one in printf().  That of the 16550 takes 16.               *)
THEOREM PortSoundInvariant ==
  ASSUME FIFO >= 3
  PROVE  Spec => []PortSound
<1>1. Inv => PortSound BY Zenon DEF Inv, PortOK, PortSound, NoOverrun
<1> QED BY <1>1, InvInvariant, PTL

(* A step leaves the input buffer alone, or is one of the line discipline. *)
LEMMA ConsStep ==
  ASSUME Inv, [Next]_vars, cons' # cons
  PROVE  L!Next
<1>0. ConsOK BY DEF Inv
<1>1. ASSUME NEW x \in Readers, consoleread(x) PROVE L!Next
  <2>1. cons.r # cons.w /\ cons' = [cons EXCEPT !.r = Plus(cons.r, 1)] BY <1>1 DEF consoleread
  <2> QED BY <1>0, <2>1, TakeCons, Zenon DEF L!Next
<1>2. CASE killline
  <2>1. cons.e # cons.w /\ Erase BY <1>2, Zenon DEF killline
  <2> QED BY <1>0, <2>1, EraseCons, Zenon DEF L!Next
<1>3. CASE backspace
  <2>1. cons.e # cons.w /\ Erase BY <1>3, Zenon DEF backspace
  <2> QED BY <1>0, <2>1, EraseCons, Zenon DEF L!Next
<1>4. CASE consoleintr_store
  <2>1. at["intr"].c \in Chars /\ Used < INPUT_BUF_SIZE BY <1>4, Zenon DEF consoleintr_store, Inv, StoreOK
  <2>2. Stores(at["intr"].c) BY <1>4, Zenon DEF consoleintr_store, Stores, Line
  <2>3. L!Type(at["intr"].c) BY <1>0, <2>1, <2>2, StoreCons, Zenon
  <2> QED BY <2>1, <2>3, Zenon DEF L!Next, Chars
<1> QED BY <1>1, <1>2, <1>3, <1>4, Zenon
  DEF Next, vars, device_send, device_key, uartputc_sync, uartstart, uartputc, printf, read, read_woken, kill,
      plic_claim, uartgetc, procdump, key_end, consoleintr

(* ... and the output buffer alone, or is one of the queue. *)
LEMMA TxStep ==
  ASSUME Inv, [Next]_vars, tx' # tx
  PROVE  (\E c \in Writers : F!Put(c)) \/ F!Get
<1>0. TxOK BY DEF Inv
<1>1. ASSUME NEW x \in Actors, uartstart(x) PROVE F!Get
  <2>1. tx.w # tx.r /\ Gets BY <1>1, Zenon DEF uartstart, Gets
  <2>2. tx.r # tx.w BY Zenon, <2>1
  <2> QED BY <1>0, <2>1, <2>2, GetTx, Zenon
<1>2. ASSUME NEW x \in Writers, uartputc(x) PROVE F!Put(x)
  <2>1. ~Full /\ Puts(x) BY <1>2, Zenon DEF uartputc, Puts
  <2> QED BY <1>0, <2>1, PutTx, Zenon
<1> QED BY <1>1, <1>2, Zenon
  DEF Next, vars, device_send, device_key, uartputc_sync, consoleread, printf, read, read_woken, kill,
      plic_claim, uartgetc, procdump, killline, backspace, key_end, consoleintr, consoleintr_store

(* The console implements the line discipline: what was typed and not erased   *)
(* comes out of consoleread() in order and once, and erasing does not reach    *)
(* what the readers may have.                                                  *)
THEOREM LineDisciplineRefinement == Spec => IsLineDiscipline
<1>1. Init => L!Init
  <2> SUFFICES ASSUME Init PROVE L!Init OBVIOUS
  <2>1. cons.r = 0 /\ cons.w = 0 /\ cons.e = 0 BY DEF Init
  <2>2. Sizes(INPUT_BUF_SIZE, UINT) /\ 0 \in 0 .. UINT - 1 BY ConsoleAssumption DEF Sizes
  <2>3. Ring(cons.buf, 0, 0, INPUT_BUF_SIZE, UINT) = <<>> BY <2>2, RingEmpty, Zenon
  <2> QED BY <2>1, <2>3, Zenon DEF L!Init
<1>2. Inv /\ [Next]_vars => [L!Next]_<<Lines, Edit>>
  <2> SUFFICES ASSUME Inv, [Next]_vars PROVE [L!Next]_<<Lines, Edit>> OBVIOUS
  <2>1. CASE cons' = cons BY <2>1, Zenon DEF Lines, Edit
  <2>2. CASE cons' # cons BY <2>2, ConsStep
  <2> QED BY <2>1, <2>2
<1> QED BY <1>1, <1>2, InvInvariant, PTL DEF Spec, IsLineDiscipline, L!Spec, Lines, Edit

(* What writers put in uart_tx_buf is given to the port in order and once. *)
THEOREM OutputFifoRefinement == Spec => OutputFifo
<1>1. Init => F!Init
  <2> SUFFICES ASSUME Init PROVE F!Init OBVIOUS
  <2>1. tx.r = 0 /\ tx.w = 0 BY DEF Init
  <2>2. Sizes(UART_TX_BUF_SIZE, UINT64) /\ 0 \in 0 .. UINT64 - 1 BY ConsoleAssumption DEF Sizes
  <2>3. Ring(tx.buf, 0, 0, UART_TX_BUF_SIZE, UINT64) = <<>> BY <2>2, RingEmpty, Zenon
  <2> QED BY <2>1, <2>3, Zenon DEF F!Init
<1>2. Inv /\ [Next]_vars => [(\E c \in Writers : F!Put(c)) \/ F!Get]_Queue
  <2> SUFFICES ASSUME Inv, [Next]_vars PROVE [(\E c \in Writers : F!Put(c)) \/ F!Get]_Queue OBVIOUS
  <2>1. CASE tx' = tx BY <2>1, Zenon DEF Queue
  <2>2. CASE tx' # tx BY <2>2, TxStep
  <2> QED BY <2>1, <2>2
<1> QED BY <1>1, <1>2, InvInvariant, PTL DEF Spec, OutputFifo, F!Spec, Queue
=============================================================================
