-------------------------------- MODULE Index --------------------------------
(***************************************************************************)
(* indexer.c and search.c: the words of a text, the pairs of neighbouring  *)
(* words and the three-letter fragments are hashed into one bit set, which *)
(* is folded and written; a query is answered from the bits alone.         *)
(*                                                                         *)
(* Characters are their codes.                                             *)
(***************************************************************************)
EXTENDS Bitset, Sequences, SequencesExt

CONSTANTS HashBits,     \* 13
          CharMod,      \* where the word length, a char, wraps: 256
          Texts, Queries

\* A hash has as many values as the set has bits, and HashBigram turns it by the
\* bits of a byte number; a text or query ends at its first NUL.
IndexAssumption ==
  /\ 2^HashBits = 8 * BitsetBytes /\ 2^(HashBits - 3) = BitsetBytes
  /\ CharMod \in Nat \ {0}
  /\ Texts \cup Queries \subseteq Seq(1..255)
ASSUME IndexAssumption

VARIABLES text, p,      \* the text (or the query), and the place in it
          wstart, wlen, \* the word under way
          last_whash,
          query,        \* <<>> while indexing
          total, hits   \* scores: how many words and pairs were asked, and found
indexVars == <<bitVars, text, p, wstart, wlen, last_whash, query, total, hits>>

Bit(x, i) == (x \div 2^i) % 2
Xor(a, b) ==
  FoldLeft(LAMBDA s, i : s + ((Bit(a, i - 1) + Bit(b, i - 1)) % 2) * 2^(i - 1), 0,
           [i \in 1..16 |-> i])
Hashed(h) == h % 2^HashBits

Digit(c) == c \in 48..57
Letter(c) == c \in 65..90 \cup 97..122
IsAlnum(c) == Digit(c) \/ Letter(c)
ToLower(c) == IF c \in 65..90 THEN c + 32 ELSE c

\* 5381, then times 9 and xor, in 16 bits.
HashUnigram(w) ==
  Hashed(FoldLeft(LAMBDA h, c : Xor((9 * h) % 65536, ToLower(c)), 5381, w))
HashBigram(h1, h2) == Hashed(Xor(8 * h1 + h1 \div 2^(HashBits - 3), h2))
HashTrigram(a, b, c) ==
  LET h == Xor(16 * ToLower(a), ToLower(b))
  IN IF ~IsAlnum(a) \/ ~IsAlnum(b) \/ c >= 128 THEN 0
     ELSE Hashed(IF IsAlnum(c) THEN Xor(16 * h, ToLower(c)) ELSE h)

At(s, i) == IF i \in DOMAIN s THEN s[i] ELSE 0
Here == IF query = <<>> THEN text ELSE query
Char == At(Here, p)
Fragment(s, i) == HashTrigram(At(s, i), At(s, i + 1), At(s, i + 2))
Word == SubSeq(Here, wstart, wstart + wlen - 1)
InWord == IsAlnum(Char)
WordEnds == ~InWord /\ wlen > 0
whash == HashUnigram(Word)

ReadChar ==             \* of a word
  /\ wstart' = IF wlen = 0 THEN p ELSE wstart
  /\ wlen' = (wlen + 1) % CharMod
  /\ UNCHANGED last_whash

-----------------------------------------------------------------------------
(* index_string: one character.                                             *)

Bigrams == IF last_whash # 0 THEN {HashBigram(last_whash, whash)} ELSE {}
Fragments == {Fragment(text, p)} \ {0}

IndexChar ==
  /\ phase = "mark" /\ Char # 0
  /\ IF InWord THEN ReadChar
     ELSE IF WordEnds THEN wlen' = 0 /\ last_whash' = whash /\ UNCHANGED wstart
     ELSE UNCHANGED <<wstart, wlen, last_whash>>
  /\ MarkAll((IF WordEnds THEN {whash} \cup Bigrams ELSE {}) \cup Fragments)
  /\ p' = p + 1
  /\ UNCHANGED <<text, query, total, hits>>
IndexLastForgotten ==   \* (the end of the text tested before the word)
  /\ phase = "mark" /\ Char = 0 /\ WordEnds
  /\ MarkAll({}) /\ wlen' = 0 /\ last_whash' = whash
  /\ UNCHANGED <<wstart, text, p, query, total, hits>>
IndexLast ==            \* at the end of the text, its last word
  /\ phase = "mark" /\ Char = 0 /\ WordEnds
  /\ MarkAll({whash} \cup Bigrams)
  /\ wlen' = 0 /\ last_whash' = whash
  /\ UNCHANGED <<wstart, text, p, query, total, hits>>
Indexed ==
  /\ Char = 0 /\ ~WordEnds /\ Marked
  /\ UNCHANGED <<text, p, wstart, wlen, last_whash, query, total, hits>>

FoldIndex ==            \* fold_index
  /\ Fold \/ Folded
  /\ UNCHANGED <<text, p, wstart, wlen, last_whash, query, total, hits>>

-----------------------------------------------------------------------------
(* search.                                                                  *)

Ask(q) ==
  /\ phase = "folded" /\ query = <<>>
  /\ query' = q /\ p' = 1 /\ wlen' = 0 /\ wstart' = 1 /\ last_whash' = 0
  /\ UNCHANGED <<bitVars, text, total, hits>>

\* The word's bit, and those of its fragments ("counter-collision check").
Found ==
  /\ TestBit(whash)
  /\ \A i \in wstart..(wstart + wlen - 3) :
       Fragment(query, i) = 0 \/ TestBit(Fragment(query, i))

SearchChar ==
  /\ query # <<>> /\ p <= Len(query) + 1
  /\ IF InWord THEN ReadChar /\ UNCHANGED <<total, hits>>
     ELSE IF ~WordEnds THEN UNCHANGED <<wstart, wlen, last_whash, total, hits>>
     ELSE LET pairs == IF last_whash # 0 THEN 1 ELSE 0
              both == IF pairs = 1 /\ TestBit(HashBigram(last_whash, whash)) THEN 1 ELSE 0
          IN /\ total' = total + 1 + pairs
             /\ hits' = hits + (IF Found THEN 1 ELSE 0) + both
             /\ last_whash' = IF Found THEN whash ELSE 0
             /\ wlen' = 0 /\ UNCHANGED wstart
  /\ p' = p + 1
  /\ UNCHANGED <<bitVars, text, query>>

Init ==
  /\ BitInit /\ text \in Texts
  /\ p = 1 /\ wstart = 1 /\ wlen = 0 /\ last_whash = 0 /\ query = <<>> /\ total = 0 /\ hits = 0
Next == IndexChar \/ IndexLast \/ Indexed \/ FoldIndex \/ (\E q \in Queries : Ask(q)) \/ SearchChar
Spec == Init /\ [][Next]_indexVars

-----------------------------------------------------------------------------
\* The words of a text, in lower case: those that ended, and the one under way.
Small(c) == IF c \in 65..90 THEN c + 32 ELSE c
ReadOn(w, c) ==
  IF IsAlnum(c) THEN [w EXCEPT !.word = Append(@, Small(c))]
  ELSE IF w.word = <<>> THEN w
  ELSE [done |-> Append(w.done, w.word), word |-> <<>>]
NoWords == [done |-> <<>>, word |-> <<>>]
Words(s) == FoldLeft(ReadOn, NoWords, Append(s, 0)).done

\* A query of words that follow each other in the text scores full marks: no
\* word, pair or fragment of the text is missed, however far the set was folded,
\* in whatever case the words are written.
Quotes == LET words == Words(text)
          IN \E i, k \in DOMAIN words : Words(query) = SubSeq(words, i, k)
NothingMissed == hits # total => ~Quotes

\* The indexer does to the bit set what Bitset allows.
UsesBitset == BitSpec
=============================================================================
