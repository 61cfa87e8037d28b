-------------------------------- MODULE Oaq ---------------------------------
(***************************************************************************)
(* oaq.c: numbers as few bytes, in an order that memcmp sees.  Chars are   *)
(* unsigned, as the code takes them to be.  A word is a number, a long its *)
(* four bytes, the highest first.                                          *)
(***************************************************************************)
EXTENDS Integers, Sequences, SequencesExt

Word == 0..65535

-----------------------------------------------------------------------------
\* 0..127 and -1 as they are; 14.9 bits; a negative byte; or all 16 bits.
OAQLowFirst(w) ==
  LET hi == w \div 256  lo == w % 256
  IN  IF w <= 127 \/ w = 65535 THEN <<lo>>
      ELSE IF hi = 255 THEN <<254, lo>>
      ELSE IF hi <= 111 THEN <<128 + hi, lo>> ELSE <<240, lo, hi>>
OAQ(w) ==
  LET hi == w \div 256  lo == w % 256
  IN  IF w <= 127 \/ w = 65535 THEN <<lo>>
      ELSE IF hi = 255 THEN <<254, lo>>
      ELSE IF hi <= 111 THEN <<128 + hi, lo>> ELSE <<240, hi, lo>>

\* The word at the start of s, and the bytes it takes: after the prefix 240 + n
\* come two bytes and n more that are passed over.
QAO(s) ==
  LET c == s[1]
  IN  IF c <= 127 THEN [word |-> c, used |-> 1]
      ELSE IF c = 255 THEN [word |-> 65535, used |-> 1]
      ELSE IF c = 254 THEN [word |-> 65280 + s[2], used |-> 2]
      ELSE IF c <= 239 THEN [word |-> 256 * (c - 128) + s[2], used |-> 2]
      ELSE [word |-> 256 * s[2] + s[3], used |-> 3 + c - 240]

-----------------------------------------------------------------------------
Complement(l) == [i \in 1..4 |-> 255 - l[i]]     \* ~l
LowWord(l) == 256 * l[3] + l[4]

\* What is left of l after the leading bytes b; the last byte stays.
Without(l, b) ==
  LET k == CHOOSE k \in 1..4 : /\ k = 4 \/ l[k] # b
                               /\ \A i \in 1..k - 1 : l[i] = b
  IN  SubSeq(l, k, 4)

\* A small negative, -256 .. -1.  `-(int32_t)l` overflows for the least: a compiler
\* that wraps takes it for small, one that reasons about signs does not.
SmallNegative(l) == SubSeq(l, 1, 3) = <<255, 255, 255>>
Least == <<128, 0, 0, 0>>

\* Words and small negatives as OAQ has them, the rest with their length in the prefix:
\* more bytes for a larger number, fewer for one nearer -1.
LongCodeUpsideDown(l) ==
  IF SubSeq(l, 1, 2) = <<0, 0>> \/ SmallNegative(l) THEN OAQ(LowWord(l))
  ELSE IF l[1] = 255 THEN LET rest == Without(l, 255) IN <<248 + Len(rest)>> \o rest
  ELSE LET rest == Without(l, 0) IN <<238 + Len(rest)>> \o rest
LongCode(l) ==
  IF SubSeq(l, 1, 2) = <<0, 0>> \/ SmallNegative(l) THEN OAQ(LowWord(l))
  ELSE IF l[1] = 255 THEN LET rest == Without(l, 255) IN <<255 - Len(rest)>> \o rest
  ELSE LET rest == Without(l, 0) IN <<238 + Len(rest)>> \o rest

\* What LOAQ may write for l.
LOAQ(l) == IF l = Least THEN {LongCode(l), OAQ(LowWord(l))} ELSE {LongCode(l)}
=============================================================================
