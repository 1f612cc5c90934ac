----------------------------- MODULE PipeProofs -----------------------------
(***************************************************************************)
(* PipeSafe and IsFifo of module Pipe, for any readers, writers and sizes. *)
(***************************************************************************)
EXTENDS Pipe, Integers, SequenceTheorems, TLAPS

-----------------------------------------------------------------------------
(* PipeSafe: an inductive invariant *)

(* Who is inside the loops of piperead() and pipewrite() holds pi->lock. *)
LockOK == \A p \in Procs : pc[p] \in {"loop", "sleep", "copy"} <=> lock = p

(* A call has its end of the pipe open. *)
OpenOK ==
  /\ \A p \in Procs : pc[p] # "idle" => open[p]
  /\ \A r \in Readers : open[r] => readopen
  /\ \A w \in Writers : open[w] => writeopen

(* What was tested under pi->lock still holds. *)
TestedOK ==
  /\ \A w \in Writers : pc[w] = "copy" => readopen /\ n[w] > 0
  /\ \A w \in Writers : pc[w] # "sleep"
  /\ \A r \in Readers : pc[r] = "sleep" => Empty /\ writeopen

(* A sleeping writer has no room, or a reader that will wake it is at work. *)
WriterOK ==
  \A w \in Writers : pc[w] = "asleep" =>
    (Full /\ readopen) \/ \E r \in Readers : lock = r /\ pc[r] = "copy"

(* A sleeping reader has no data, or a writer that will wake it is at work, *)
(* unless that is killed.                                                   *)
ReaderOK ==
  (\A w \in Writers : ~killed[w]) =>
    \A r \in Readers : pc[r] = "asleep" =>
      (Empty /\ writeopen) \/ \E w \in Writers : lock = w

Inv == TypeOK /\ LockOK /\ OpenOK /\ TestedOK /\ WriterOK /\ ReaderOK

(* pipealloc() establishes the invariant. *)
LEMMA InitInv == Init => Inv
BY ConstantsAssumption DEF Init, Inv, TypeOK, PCs, LockOK, OpenOK, TestedOK, WriterOK, ReaderOK, Procs

(* Every step of piperead(), pipewrite(), pipeclose() and kill() keeps Inv.   *)
(* pi->lock keeps others from nread and nwrite between a test and its use,    *)
(* and from the wakeup that a sleeper relies on.                              *)
LEMMA InvStep ==
  ASSUME Inv, [Next]_vars
  PROVE  Inv'
<1> SUFFICES ASSUME NEW p \in Procs,
                    \/ \E k \in 0 .. MaxCount : Call(p, k)
                    \/ Step(p) \/ Close(p) \/ kill(p)
             PROVE  Inv'
  <2>1. CASE UNCHANGED vars
    BY <2>1 DEF Inv, vars, pipe, proc, TypeOK, LockOK, OpenOK, TestedOK, WriterOK, ReaderOK, Full, Empty
  <2> QED BY <2>1 DEF Next
<1> USE ConstantsAssumption DEF Inv, TypeOK, LockOK, OpenOK, TestedOK, WriterOK, ReaderOK,
                                Goto, WakeupGoto, ReturnError, pipe, Procs, Full, Empty
<1>1. ASSUME NEW k \in 0 .. MaxCount, Call(p, k) PROVE Inv'
  BY <1>1 DEF Call, PCs
<1>2. CASE Acquire(p)
  BY <1>2 DEF Acquire, PCs
<1>3. CASE pipewrite_error(p)
  BY <1>3 DEF pipewrite_error, PCs
<1>4. CASE pipewrite_check(p)
  BY <1>4 DEF pipewrite_check, PCs
<1>5. CASE pipewrite_full(p)
  BY <1>5 DEF pipewrite_full, PCs
<1>6. ASSUME NEW c \in Bytes, pipewrite_byte(p, c) PROVE Inv'
  BY <1>6 DEF pipewrite_byte, PCs
<1>7. CASE pipewrite_end(p)
  BY SMTT(30), <1>7 DEF pipewrite_end, PCs
<1>8. CASE piperead_error(p)
  BY <1>8 DEF piperead_error, PCs
<1>9. CASE piperead_empty(p)
  BY <1>9 DEF piperead_empty, PCs
<1>10. CASE piperead_sleep(p)
  BY <1>10 DEF piperead_sleep, PCs
<1>11. CASE piperead_ready(p)
  BY <1>11 DEF piperead_ready, PCs
<1>12. CASE piperead_byte(p)
  <2>1. n' \in [Procs -> 0 .. MaxCount]
    BY <1>12 DEF piperead_byte
  <2>2. TypeOK'
    BY <1>12, <2>1 DEF piperead_byte, PCs
  <2>3. LockOK' /\ OpenOK' /\ TestedOK'
    BY <1>12, <2>1 DEF piperead_byte, PCs
  <2>4. WriterOK' /\ ReaderOK'
    BY <1>12 DEF piperead_byte, PCs
  <2> QED BY <2>2, <2>3, <2>4
<1>13. CASE piperead_end(p)
  BY SMTT(30), <1>13 DEF piperead_end, PCs
<1>14. CASE Close(p)
  <2>a. pc' \in [Procs -> PCs]
    BY <1>14 DEF Close, PCs
  <2>b. readopen' \in BOOLEAN /\ writeopen' \in BOOLEAN /\ open' \in [Procs -> BOOLEAN]
    BY <1>14, Zenon DEF Close
  <2>1. TypeOK'
    BY <1>14, <2>a, <2>b DEF Close
  <2>2. LockOK' /\ OpenOK' /\ TestedOK'
    BY <1>14 DEF Close, PCs
  <2>3. WriterOK' /\ ReaderOK'
    BY <1>14 DEF Close, PCs
  <2> QED BY <2>1, <2>2, <2>3
<1>15. CASE kill(p)
  BY <1>15 DEF kill, PCs
<1> HIDE DEF Inv
<1> QED BY <1>1, <1>2, <1>3, <1>4, <1>5, <1>6, <1>7, <1>8, <1>9, <1>10, <1>11, <1>12, <1>13, <1>14,
           <1>15 DEF Step

(* So it always holds. *)
LEMMA InvInvariant == Spec => []Inv
BY InitInv, InvStep, PTL DEF Spec

(* For every instance: a sleeping writer misses no room and no close, nor a   *)
(* sleeping reader data or close while no writer is killed, and the page of   *)
(* the pipe is freed under nobody.                                            *)
THEOREM PipeSafeInvariant == Spec => []PipeSafe
<1>1. Inv => PipeSafe
  BY ConstantsAssumption
  DEF Inv, PipeSafe, LockOK, OpenOK, WriterOK, ReaderOK, WriterNotMissed, ReaderNotMissed, NoUseAfterFree,
      TypeOK, Procs
<1> QED BY <1>1, InvInvariant, PTL

-----------------------------------------------------------------------------
(* IsFifo: remainders *)

(* A number is its quotient times the divisor, and the remainder. *)
LEMMA ModDef ==
  ASSUME NEW a \in Nat, NEW m \in Nat \ {0}
  PROVE  a % m \in 0 .. m - 1 /\ a \div m \in Nat /\ a = m * (a \div m) + (a % m)
BY SMT

(* The remainder is the only number of its kind. *)
LEMMA ModIs ==
  ASSUME NEW m \in Nat \ {0}, NEW q \in Nat, NEW r \in 0 .. m - 1
  PROVE  (m * q + r) % m = r
<1> DEFINE a == m * q + r
           k == a \div m
           s == a % m
<1>1. a \in Nat BY SMT
<1>2. s \in 0 .. m - 1 /\ k \in Nat /\ m * q + r = m * k + s BY <1>1, ModDef
<1> HIDE DEF k, s
<1>3. q < k => m * (q + 1) <= m * k BY <1>2, SMT
<1>4. k < q => m * (k + 1) <= m * q BY <1>2, SMT
<1>5. m * (q + 1) = m * q + m /\ m * (k + 1) = m * k + m BY <1>2, SMT
<1>6. m * q \in Int /\ m * k \in Int BY <1>2, SMT
<1>7. k = q BY <1>2, <1>3, <1>4, <1>5, <1>6, SMT
<1>8. s = r BY <1>2, <1>6, <1>7, SMT
<1> QED BY <1>8 DEF s

(* Whole turns do not change a remainder. *)
LEMMA ModShift ==
  ASSUME NEW m \in Nat \ {0}, NEW u \in Nat, u % m = 0, NEW a \in Nat
  PROVE  (a + u) % m = a % m
<1> DEFINE k == a \div m + u \div m
<1>1. a % m \in 0 .. m - 1 /\ a \div m \in Nat /\ a = m * (a \div m) + (a % m) BY ModDef
<1>2. u \div m \in Nat /\ u = m * (u \div m) BY ModDef
<1>3. a + u = m * k + (a % m) /\ k \in Nat BY <1>1, <1>2, SMT
<1>4. (m * k + (a % m)) % m = a % m BY <1>1, <1>3, ModIs, Zenon
<1> QED BY <1>3, <1>4, Zenon

(* Numbers less than a turn apart have different remainders. *)
LEMMA ModApart ==
  ASSUME NEW m \in Nat \ {0}, NEW a \in Nat, NEW d \in 1 .. m - 1
  PROVE  (a + d) % m # a % m
<1> DEFINE k == a \div m
           s == a % m
<1>1. s \in 0 .. m - 1 /\ k \in Nat /\ a = m * k + s BY ModDef
<1> HIDE DEF k, s
<1>2. CASE s + d < m
  <2>1. a + d = m * k + (s + d) /\ s + d \in 0 .. m - 1 BY <1>1, <1>2, SMT
  <2>2. (m * k + (s + d)) % m = s + d BY <1>1, <2>1, ModIs, Zenon
  <2>3. (a + d) % m = s + d BY <2>1, <2>2, Zenon
  <2> QED BY <2>3, <1>1, SMT DEF s
<1>3. CASE s + d >= m
  <2>1. a + d = m * (k + 1) + (s + d - m) /\ s + d - m \in 0 .. m - 1 /\ k + 1 \in Nat BY <1>1, <1>3, SMT
  <2>2. (m * (k + 1) + (s + d - m)) % m = s + d - m BY <1>1, <2>1, ModIs, Zenon
  <2>3. (a + d) % m = s + d - m BY <2>1, <2>2, Zenon
  <2> QED BY <2>3, <1>1, SMT DEF s
<1> QED BY <1>2, <1>3, <1>1, SMT

(* What the sizes are, without remainders, for linear arithmetic *)
LEMMA Sizes == PIPESIZE \in Nat \ {0} /\ UINT \in Nat \ {0} /\ UINT > PIPESIZE
BY ConstantsAssumption

(* A counter of the pipe, once around at most *)
LEMMA ModOnce ==
  ASSUME NEW a \in Nat, a < 2 * UINT
  PROVE  a % UINT = IF a < UINT THEN a ELSE a - UINT
<1> USE ConstantsAssumption
<1>1. CASE a < UINT BY <1>1, SMT
<1>2. CASE a >= UINT
  <2>1. a = UINT * 1 + (a - UINT) /\ a - UINT \in 0 .. UINT - 1 /\ UINT \in Nat \ {0} BY <1>2, SMT
  <2>2. (UINT * 1 + (a - UINT)) % UINT = a - UINT BY <2>1, ModIs, Zenon
  <2>3. a % UINT = a - UINT BY <2>1, <2>2, Zenon
  <2> QED BY <1>2, <2>3
<1> QED BY <1>1, <1>2

-----------------------------------------------------------------------------
(* IsFifo: the ring buffer *)

(* How many bytes are in the pipe: never more than fit *)
Count == (nwrite + UINT - nread) % UINT
RingOK == Count <= PIPESIZE

(* Count without the remainder *)
LEMMA Distance ==
  ASSUME NEW r \in 0 .. UINT - 1, NEW w \in 0 .. UINT - 1
  PROVE  (w + UINT - r) % UINT = IF r <= w THEN w - r ELSE w + UINT - r
<1> DEFINE a == w + UINT - r
<1>1. a \in Nat /\ a < 2 * UINT BY Sizes, SMT
<1>2. a % UINT = IF a < UINT THEN a ELSE a - UINT BY <1>1, ModOnce, Zenon
<1> QED BY <1>1, <1>2, Sizes, SMT

(* A counter that goes on *)
LEMMA Advance ==
  ASSUME NEW x \in 0 .. UINT - 1, NEW d \in 0 .. UINT
  PROVE  (x + d) % UINT = IF x + d < UINT THEN x + d ELSE (x + d) - UINT
<1>1. x + d \in Nat /\ x + d < 2 * UINT BY Sizes, SMT
<1> QED BY <1>1, ModOnce, Zenon

(* What Full and Empty say of Count *)
LEMMA CountIs ==
  ASSUME TypeOK
  PROVE  /\ Count = IF nread <= nwrite THEN nwrite - nread ELSE nwrite + UINT - nread
         /\ Count \in Nat
         /\ Full <=> Count = PIPESIZE
         /\ Empty <=> Count = 0
<1> DEFINE end == (nread + PIPESIZE) % UINT
<1>1. nread \in 0 .. UINT - 1 /\ nwrite \in 0 .. UINT - 1 BY DEF TypeOK
<1>2. Count = IF nread <= nwrite THEN nwrite - nread ELSE nwrite + UINT - nread
  BY <1>1, Distance, Zenon DEF Count
<1>3. PIPESIZE \in 0 .. UINT BY Sizes, SMT
<1>4. end = IF nread + PIPESIZE < UINT THEN nread + PIPESIZE ELSE (nread + PIPESIZE) - UINT
  BY <1>1, <1>3, Advance, Zenon
<1>5. Full <=> nwrite = end BY DEF Full
<1> HIDE DEF end
<1>6. Full <=> Count = PIPESIZE BY <1>1, <1>2, <1>4, <1>5, Sizes, SMT
<1>7. Empty <=> Count = 0 BY <1>1, <1>2, Sizes, SMT DEF Empty
<1> QED BY <1>1, <1>2, <1>6, <1>7, Sizes, SMT

(* The place of the next byte is that after the last one in the ring. *)
LEMMA NextPlace ==
  ASSUME TypeOK
  PROVE  nwrite % PIPESIZE = (nread + Count) % PIPESIZE
<1> USE ConstantsAssumption DEF TypeOK
<1>1. CASE nread <= nwrite
  <2>1. nread + Count = nwrite BY <1>1, CountIs, SMT
  <2> QED BY <2>1
<1>2. CASE ~(nread <= nwrite)
  <2>1. nread + Count = nwrite + UINT BY <1>2, CountIs, SMT
  <2>2. (nwrite + UINT) % PIPESIZE = nwrite % PIPESIZE
    <3>1. nwrite \in Nat BY SMT
    <3> QED BY <3>1, ModShift, Zenon
  <2> QED BY <2>1, <2>2
<1> QED BY <1>1, <1>2

(* What is in the pipe is a sequence of bytes. *)
LEMMA ContentsSeq ==
  ASSUME TypeOK
  PROVE  /\ Contents \in Seq(Bytes)
         /\ Len(Contents) = Count
         /\ Contents = [k \in 1 .. Count |-> data[(nread + k - 1) % PIPESIZE]]
<1>1. Contents = [k \in 1 .. Count |-> data[(nread + k - 1) % PIPESIZE]] BY DEF Contents, Count
<1>2. ASSUME NEW k \in 1 .. Count PROVE data[(nread + k - 1) % PIPESIZE] \in Bytes
  <2>1. nread + k - 1 \in Nat BY CountIs, SMT DEF TypeOK
  <2>2. (nread + k - 1) % PIPESIZE \in 0 .. PIPESIZE - 1
    BY <2>1, ModDef, ConstantsAssumption, Zenon
  <2> QED BY <2>2 DEF TypeOK
<1>3. Contents \in [1 .. Count -> Bytes] BY <1>1, <1>2
<1>4. Count \in Nat BY CountIs
<1>5. Contents \in Seq(Bytes) /\ Len(Contents) = Count BY <1>3, <1>4
<1> QED BY <1>1, <1>5

(* Append and Tail as functions *)
LEMMA AppendIs ==
  ASSUME NEW S, NEW s \in Seq(S), NEW c \in S
  PROVE  Append(s, c) = [k \in 1 .. Len(s) + 1 |-> IF k = Len(s) + 1 THEN c ELSE s[k]]
<1>1. Append(s, c) \in Seq(S) /\ Len(Append(s, c)) = Len(s) + 1 OBVIOUS
<1>2. \A k \in 1 .. Len(s) + 1 : Append(s, c)[k] = IF k = Len(s) + 1 THEN c ELSE s[k] OBVIOUS
<1>3. Append(s, c) = [k \in 1 .. Len(s) + 1 |-> Append(s, c)[k]] BY <1>1, LenProperties
<1> QED BY <1>2, <1>3, Zenon

(* The same for Tail *)
LEMMA TailIs ==
  ASSUME NEW S, NEW s \in Seq(S), Len(s) > 0
  PROVE  Tail(s) = [k \in 1 .. Len(s) - 1 |-> s[k + 1]]
<1>1. Tail(s) \in Seq(S) /\ Len(Tail(s)) = Len(s) - 1 OBVIOUS
<1>2. \A k \in 1 .. Len(s) - 1 : Tail(s)[k] = s[k + 1] OBVIOUS
<1>3. Tail(s) = [k \in 1 .. Len(s) - 1 |-> Tail(s)[k]] BY <1>1, LenProperties
<1> QED BY <1>2, <1>3, Zenon

(* pipewrite() puts its byte at the end, and overwrites none that is in the *)
(* pipe.                                                                    *)
LEMMA PutByte ==
  ASSUME TypeOK, RingOK, NEW p \in Procs, NEW c \in Bytes, pipewrite_byte(p, c), TypeOK'
  PROVE  /\ RingOK'
         /\ Fifo!Put(c)
<1> USE Sizes
<1>0. /\ Count = IF nread <= nwrite THEN nwrite - nread ELSE nwrite + UINT - nread
      /\ Count \in Nat /\ nread \in 0 .. UINT - 1 /\ nwrite \in 0 .. UINT - 1
      /\ nread' \in 0 .. UINT - 1 /\ nwrite' \in 0 .. UINT - 1
  BY CountIs, Zenon DEF TypeOK
<1>1. Count < PIPESIZE BY CountIs, SMT DEF pipewrite_byte, RingOK
<1>2. nwrite' = (nwrite + 1) % UINT /\ nread' = nread
      /\ data' = [data EXCEPT ![nwrite % PIPESIZE] = c]
  BY DEF pipewrite_byte
<1>3. nwrite' = IF nwrite + 1 < UINT THEN nwrite + 1 ELSE (nwrite + 1) - UINT
  <2>1. 1 \in 0 .. UINT BY SMT
  <2> QED BY <1>2, <2>1, Advance, Zenon DEF TypeOK
<1>4. Count' = IF nread' <= nwrite' THEN nwrite' - nread' ELSE nwrite' + UINT - nread'
  BY Distance, Zenon DEF TypeOK, Count
<1>5. Count' = Count + 1
  <2>1. nread' = nread BY <1>2
  <2> QED BY <1>0, <1>1, <2>1, <1>3, <1>4, SMT
<1>6. RingOK' BY <1>0, <1>1, <1>5, SMT DEF RingOK
<1>7. \A k \in 1 .. Count : data'[(nread + k - 1) % PIPESIZE] = data[(nread + k - 1) % PIPESIZE]
  <2> SUFFICES ASSUME NEW k \in 1 .. Count
               PROVE  (nread + k - 1) % PIPESIZE # nwrite % PIPESIZE
    BY <1>2 DEF TypeOK
  <2> DEFINE a == nread + k - 1
             d == Count - (k - 1)
  <2>1. a \in Nat /\ d \in 1 .. PIPESIZE - 1 /\ a + d = nread + Count BY <1>0, <1>1, SMT
  <2> HIDE DEF a, d
  <2>2. (a + d) % PIPESIZE # a % PIPESIZE BY <2>1, ModApart, Zenon
  <2> QED BY <2>1, <2>2, NextPlace DEF a
<1>8. data'[(nread + (Count + 1) - 1) % PIPESIZE] = c
  <2>1. nread + (Count + 1) - 1 = nread + Count BY <1>0, SMT
  <2>2. nwrite % PIPESIZE \in 0 .. PIPESIZE - 1 BY ModDef, SMT DEF TypeOK
  <2> QED BY <1>2, <2>1, <2>2, NextPlace DEF TypeOK
<1>9. Contents' = Append(Contents, c)
  <2>1. Contents' = [k \in 1 .. Count' |-> data'[(nread' + k - 1) % PIPESIZE]]
    BY DEF Contents, Count
  <2>2. Append(Contents, c) = [k \in 1 .. Count + 1 |-> IF k = Count + 1 THEN c ELSE Contents[k]]
    <3>1. Contents \in Seq(Bytes) /\ Len(Contents) = Count BY ContentsSeq
    <3>2. Append(Contents, c) = [k \in 1 .. Len(Contents) + 1 |->
                                   IF k = Len(Contents) + 1 THEN c ELSE Contents[k]]
      BY <3>1, AppendIs
    <3> QED BY <3>1, <3>2
  <2>3. ASSUME NEW k \in 1 .. Count + 1
        PROVE  data'[(nread + k - 1) % PIPESIZE] = IF k = Count + 1 THEN c ELSE Contents[k]
    <3>1. CASE k = Count + 1 BY <3>1, <1>8
    <3>2. CASE k # Count + 1
      <4>1. k \in 1 .. Count BY <1>0, <3>2, SMT
      <4> QED BY <3>2, <4>1, <1>7, ContentsSeq
    <3> QED BY <3>1, <3>2
  <2>4. nread' = nread BY <1>2
  <2> QED BY <2>1, <2>2, <2>3, <2>4, <1>5, Zenon
<1> QED BY <1>1, <1>6, <1>9, ContentsSeq DEF Fifo!Put

(* piperead() takes the oldest byte. *)
LEMMA GetByte ==
  ASSUME TypeOK, RingOK, NEW p \in Procs, piperead_byte(p), TypeOK'
  PROVE  /\ RingOK'
         /\ Fifo!Get
<1> USE Sizes
<1>0. /\ Count = IF nread <= nwrite THEN nwrite - nread ELSE nwrite + UINT - nread
      /\ Count \in Nat /\ nread \in 0 .. UINT - 1 /\ nwrite \in 0 .. UINT - 1
      /\ nread' \in 0 .. UINT - 1 /\ nwrite' \in 0 .. UINT - 1
  BY CountIs, Zenon DEF TypeOK
<1>1. Count > 0 BY CountIs, SMT DEF piperead_byte
<1>2. nread' = (nread + 1) % UINT /\ nwrite' = nwrite /\ data' = data BY DEF piperead_byte
<1>3. nread' = IF nread + 1 < UINT THEN nread + 1 ELSE (nread + 1) - UINT
  <2>1. 1 \in 0 .. UINT BY SMT
  <2> QED BY <1>2, <2>1, Advance, Zenon DEF TypeOK
<1>4. Count' = IF nread' <= nwrite' THEN nwrite' - nread' ELSE nwrite' + UINT - nread'
  BY Distance, Zenon DEF TypeOK, Count
<1>5. Count' = Count - 1
  <2>1. nwrite' = nwrite BY <1>2
  <2> QED BY <1>0, <1>1, <2>1, <1>3, <1>4, SMT
<1>6. RingOK' BY <1>0, <1>5, SMT DEF RingOK
<1>7. ASSUME NEW k \in 1 .. Count - 1
      PROVE  (nread' + k - 1) % PIPESIZE = (nread + (k + 1) - 1) % PIPESIZE
  <2>1. CASE nread + 1 < UINT
    <3>1. nread' + k - 1 = nread + (k + 1) - 1 BY <1>0, <1>3, <2>1, SMT
    <3> QED BY <3>1
  <2>2. CASE ~(nread + 1 < UINT)
    <3>1. nread' + k - 1 \in Nat /\ nread + (k + 1) - 1 = (nread' + k - 1) + UINT
      BY <1>0, <1>3, <2>2, SMT
    <3>2. ((nread' + k - 1) + UINT) % PIPESIZE = (nread' + k - 1) % PIPESIZE
      BY <3>1, ModShift, ConstantsAssumption, Zenon
    <3> QED BY <3>1, <3>2
  <2> QED BY <2>1, <2>2
<1>8. Contents' = Tail(Contents)
  <2>1. Contents' = [k \in 1 .. Count - 1 |-> data[(nread' + k - 1) % PIPESIZE]]
    BY <1>2, <1>5, Zenon DEF Contents, Count
  <2>2. Tail(Contents) = [k \in 1 .. Count - 1 |-> Contents[k + 1]]
    BY ZenonT(30), <1>1, ContentsSeq, TailIs
  <2>3. ASSUME NEW k \in 1 .. Count - 1
        PROVE  data[(nread' + k - 1) % PIPESIZE] = Contents[k + 1]
    <3>1. k + 1 \in 1 .. Count BY <1>0, SMT
    <3>2. Contents[k + 1] = data[(nread + (k + 1) - 1) % PIPESIZE] BY <3>1, ContentsSeq
    <3> QED BY <3>2, <1>7
  <2> QED BY <2>1, <2>2, <2>3
<1> QED BY <1>1, <1>6, <1>8, ContentsSeq DEF Fifo!Get

(* No other step touches the ring. *)
LEMMA RingStep ==
  ASSUME Inv, Inv', RingOK, [Next]_vars
  PROVE  RingOK' /\ ((\E c \in Bytes : Fifo!Put(c)) \/ Fifo!Get \/ UNCHANGED Contents)
<1> SUFFICES ASSUME ~UNCHANGED <<data, nread, nwrite>>
             PROVE  RingOK' /\ ((\E c \in Bytes : Fifo!Put(c)) \/ Fifo!Get)
  BY DEF RingOK, Count, Contents
<1>1. PICK p \in Procs : (\E c \in Bytes : pipewrite_byte(p, c)) \/ piperead_byte(p)
  BY DEF Next, vars, pipe, Step, Call, Acquire, pipewrite_error, pipewrite_check, pipewrite_full, pipewrite_end,
         piperead_error, piperead_empty, piperead_sleep, piperead_ready, piperead_end, ReturnError, Close, kill
<1>2. CASE \E c \in Bytes : pipewrite_byte(p, c) BY <1>2, PutByte DEF Inv
<1>3. CASE piperead_byte(p) BY <1>3, GetByte DEF Inv
<1> QED BY <1>1, <1>2, <1>3

(* For every instance: the pipe is a queue of at most PIPESIZE bytes, across  *)
(* the wrap of its counters and whatever kills, closes and copy failures come *)
(* in between.                                                                *)
THEOREM FifoRefinement == Spec => IsFifo
<1>1. Init => RingOK /\ Fifo!Init
  <2> SUFFICES ASSUME Init PROVE RingOK /\ Contents = <<>>
    BY DEF Fifo!Init
  <2>1. TypeOK BY InitInv DEF Inv
  <2>2. Count = 0 BY <2>1, CountIs DEF Init, Empty
  <2>3. RingOK BY <2>2, ConstantsAssumption DEF RingOK
  <2> QED BY <2>1, <2>2, <2>3, ContentsSeq
<1>2. Inv /\ Inv' /\ RingOK /\ [Next]_vars =>
        RingOK' /\ [(\E c \in Bytes : Fifo!Put(c)) \/ Fifo!Get]_Contents
  BY RingStep
<1> QED BY <1>1, <1>2, InvInvariant, PTL DEF Spec, IsFifo, Fifo!Spec
=============================================================================
