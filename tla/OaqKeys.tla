------------------------------ MODULE OaqKeys -------------------------------
(***************************************************************************)
(* Keys of several numbers, written one behind the other with OAQ or LOAQ  *)
(* and compared as bytes: what the encoding is for ("binary orderable      *)
(* without any fuzz. This is useful for database index style files").      *)
(***************************************************************************)
EXTENDS Oaq

CONSTANTS Words, Longs,  \* the numbers of keys of several
          MaxFields      \* bound: numbers of a key

ASSUME OaqKeysAssumption ==
  Words \subseteq Word /\ Longs \subseteq [1..4 -> 0..255] /\ MaxFields \in Nat

VARIABLES kind,    \* what the numbers of both keys are: "word", "long", or "neighbours"
          key,     \* two keys: [numbers, bytes]
          at,      \* bytes of the first key that have been read
          got       \* the words read from it
oaqVars == <<kind, key, at, got>>

OaqInit == /\ kind \in {"word", "long"} /\ key = [k \in 1..2 |-> [numbers |-> <<>>, bytes |-> <<>>]]
           /\ at = 0 /\ got = <<>>

Write(k, number, code) ==
  /\ Len(key[k].numbers) < MaxFields
  /\ key' = [key EXCEPT ![k] = [numbers |-> Append(@.numbers, number), bytes |-> @.bytes \o code]]
  /\ UNCHANGED <<kind, at, got>>

WriteWord == kind = "word" /\ \E k \in 1..2 : \E w \in Words : Write(k, w, OAQ(w))
WriteLong == kind = "long" /\ \E k \in 1..2 : \E l \in Longs : \E code \in LOAQ(l) : Write(k, l, code)

\* Every word, and the next.
Neighbours(w) == [k \in 1..2 |-> [numbers |-> <<w + k - 1>>, bytes |-> OAQ(w + k - 1)]]
WriteNeighbours ==
  /\ kind = "word" /\ \A k \in 1..2 : key[k].numbers = <<>>
  /\ \E w \in Word \ {65535} : key' = Neighbours(w)
  /\ kind' = "neighbours" /\ UNCHANGED <<at, got>>

Read ==
  /\ kind # "long" /\ at < Len(key[1].bytes)
  /\ LET next == QAO(SubSeq(key[1].bytes, at + 1, Len(key[1].bytes)))
     IN  got' = Append(got, next.word) /\ at' = at + next.used
  /\ UNCHANGED <<kind, key>>

OaqNext == WriteWord \/ WriteLong \/ WriteNeighbours \/ Read
OaqSpec == OaqInit /\ [][OaqNext]_oaqVars

-----------------------------------------------------------------------------
\* QAO takes exactly the bytes of one number, whatever follows them, and gives that
\* number: the words come back in order and none is left over.
WordsReadBack ==
  kind # "long" =>
    /\ IsPrefix(got, key[1].numbers)
    /\ at >= Len(key[1].bytes) <=> got = key[1].numbers

\* a is less than b where they first differ, or ends there.
Below(a, b, Less(_, _)) ==
  \/ IsStrictPrefix(a, b)
  \/ \E i \in DOMAIN a \cap DOMAIN b : Less(a[i], b[i]) /\ SubSeq(a, 1, i - 1) = SubSeq(b, 1, i - 1)
LessNumber(a, b) == a < b
LessLong(a, b) == Below(a, b, LessNumber)

\* Longs LOAQ gives the code of another: 0xff00 .. 0xffff have the codes of
\* -256 .. -1, and the least long may have that of 0.
Ambiguous(l) == SubSeq(l, 1, 3) = <<0, 0, 255>> \/ l = Least

\* memcmp of two keys is the comparison of their numbers, unsigned, from the first on:
\* no number is the beginning of another, and a field never shows through the one
\* before it.  For longs, except those that share their code.
KeysSortAsNumbers ==
  \/ kind = "long" /\ \E k \in 1..2 : \E l \in ToSet(key[k].numbers) : Ambiguous(l)
  \/ Below(key[1].bytes, key[2].bytes, LessNumber)
       <=> IF kind = "long" THEN Below(key[1].numbers, key[2].numbers, LessLong)
                            ELSE Below(key[1].numbers, key[2].numbers, LessNumber)
=============================================================================
