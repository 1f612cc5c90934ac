-------------------------------- MODULE Grep --------------------------------
(***************************************************************************)
(* grep (user/grep.c): the matcher, and the loop that finds the lines of   *)
(* its input in a buffer, whatever pieces read() gives.                    *)
(***************************************************************************)
EXTENDS Naturals, Sequences

CONSTANTS
  Patterns,     \* sequences of characters
  Letters,
  MaxText,      \* bound on the length of the input
  SIZE          \* 1024, the size of buf

newline == "\n"

VARIABLES pattern, text, input, buf, out, done
vars == <<pattern, text, input, buf, out, done>>

-----------------------------------------------------------------------------
(* The matcher: re and s are what the pointers re and text are at. *)

RECURSIVE matchhere(_, _)
RECURSIVE matchstar(_, _, _)

matchstar(c, re, s) ==
  \/ matchhere(re, s)
  \/ s # <<>> /\ (s[1] = c \/ c = ".") /\ matchstar(c, re, Tail(s))

matchhere(re, s) ==
  IF re = <<>> THEN TRUE
  ELSE IF Len(re) > 1 /\ re[2] = "*" THEN matchstar(re[1], SubSeq(re, 3, Len(re)), s)
  ELSE IF re = <<"$">> THEN s = <<>>
  ELSE s # <<>> /\ (re[1] = "." \/ re[1] = s[1]) /\ matchhere(Tail(re), Tail(s))

match(re, s) ==
  IF re # <<>> /\ re[1] = "^" THEN matchhere(Tail(re), s)
  ELSE \E i \in 1 .. Len(s) + 1 : matchhere(re, SubSeq(s, i, Len(s)))

-----------------------------------------------------------------------------
Texts == UNION {[1 .. k -> Letters \cup {newline}] : k \in 0 .. MaxText}

Init ==
  /\ pattern \in Patterns /\ text \in Texts
  /\ input = text
  /\ buf = <<>> /\ out = <<>>
  /\ done = FALSE

(* Where strchr() finds the first newline *)
strchr(s) == CHOOSE i \in DOMAIN s : s[i] = newline /\ \A j \in 1 .. i - 1 : s[j] # newline

(* The lines in the buffer: those that match, with their newlines, and what is left after the last one *)
RECURSIVE Lines(_, _)
Lines(s, printed) ==
  IF \A i \in DOMAIN s : s[i] # newline THEN [printed |-> printed, rest |-> s]
  ELSE LET q == strchr(s)
           line == SubSeq(s, 1, q)
       IN  Lines(SubSeq(s, q + 1, Len(s)),
                 IF match(pattern, SubSeq(s, 1, q - 1)) THEN printed \o line ELSE printed)

(* Fault: what is left of the buffer is lost at the next read. *)
KeptNone(s) == <<>>

(* memmove() of what is left to the start of the buffer *)
Kept(s) == s

(* One turn of the loop of grep(): read() gives k bytes, at most what fits. *)
grep(k) ==
  /\ ~done
  /\ k <= Len(input) /\ k <= SIZE - 1 - Len(buf)
  /\ k = 0 => input = <<>> \/ Len(buf) = SIZE - 1
  /\ LET r == Lines(buf \o SubSeq(input, 1, k), <<>>)
     IN  IF k = 0 THEN done' = TRUE /\ UNCHANGED <<input, buf, out>>
         ELSE /\ input' = SubSeq(input, k + 1, Len(input))
              /\ out' = out \o r.printed
              /\ buf' = Kept(r.rest)
              /\ UNCHANGED done
  /\ UNCHANGED <<pattern, text>>

Next == \E k \in 0 .. SIZE : grep(k)

Spec == Init /\ [][Next]_vars

-----------------------------------------------------------------------------
(* What a pattern means: a sequence of characters, each perhaps repeated.  *)
(* From a set of places in s where its first part may end, the places      *)
(* where the whole of it may end.                                          *)

Fits(c, x) == c = "." \/ c = x

RECURSIVE Ends(_, _, _)
Ends(re, s, from) ==
  IF re = <<>> THEN from
  ELSE IF Len(re) > 1 /\ re[2] = "*"
  THEN Ends(SubSeq(re, 3, Len(re)), s,
            {j \in 0 .. Len(s) : \E i \in from : i <= j /\ \A x \in i + 1 .. j : Fits(re[1], s[x])})
  ELSE IF re = <<"$">> THEN from \cap {Len(s)}
  ELSE Ends(Tail(re), s, {i + 1 : i \in {j \in from : j < Len(s) /\ Fits(re[1], s[j + 1])}})

Means(re, s) ==
  IF re # <<>> /\ re[1] = "^" THEN Ends(Tail(re), s, {0}) # {} ELSE Ends(re, s, 0 .. Len(s)) # {}

(* The input's lines that match, each with its newline *)
RECURSIVE Wanted(_, _)
Wanted(s, line) ==
  IF s = <<>> THEN <<>>
  ELSE IF s[1] # newline THEN Wanted(Tail(s), Append(line, s[1]))
  ELSE (IF Means(pattern, line) THEN Append(line, newline) ELSE <<>>) \o Wanted(Tail(s), <<>>)

(* No SIZE - 1 characters in a row without a newline *)
LinesFit == \A i \in 0 .. Len(text) - (SIZE - 1) : \E j \in i + 1 .. i + SIZE - 1 : text[j] = newline

(* grep prints exactly the lines that its pattern describes, once each and in   *)
(* order, however read() cuts the input, if every line fits in its buffer.      *)
GrepRight == done /\ LinesFit => out = Wanted(text, <<>>)
=============================================================================
