------------------------------- MODULE Bitset -------------------------------
(***************************************************************************)
(* The bit set of indexer.c: hashes are marked in it, then it is folded in *)
(* half, upper onto lower, until it is dense enough or small enough, and   *)
(* search.c asks the folded one for a hash by masking it. What is marked   *)
(* must be found, whatever the size it was folded to.                      *)
(***************************************************************************)
EXTENDS Integers, FiniteSets

CONSTANTS BitsetBytes,  \* 1024
          MinFold,      \* bytes that are not folded further, 64
          Sizes,        \* MinFold, twice that, .., BitsetBytes
          TargetDensity \* percent of bits, 25

BitsetAssumption ==
  /\ Sizes \subseteq Nat \ {0} /\ BitsetBytes \in Sizes /\ MinFold \in Sizes
  /\ \A s \in Sizes : s > MinFold => s % 2 = 0 /\ s \div 2 \in Sizes
  /\ \A s \in Sizes : s <= BitsetBytes
  /\ TargetDensity \in 1..100
ASSUME BitsetAssumption

Hashes == 0..(8 * BitsetBytes - 1)

VARIABLES phase,        \* "mark", "fold", "folded"
          bits,         \* positions set in bitset[]
          z,            \* bytes in use
          marked        \* the hashes that were marked
bitVars == <<phase, bits, z, marked>>

BitInit == phase = "mark" /\ bits = {} /\ z = BitsetBytes /\ marked = {}

MarkOnly(H) ==
  phase = "mark" /\ bits' = H /\ marked' = marked \cup H /\ UNCHANGED <<phase, z>>
MarkAll(H) ==           \* bitset[h >> 3] |= 1 << (h & 7)
  /\ phase = "mark"
  /\ bits' = bits \cup H /\ marked' = marked \cup H
  /\ UNCHANGED <<phase, z>>
Marked == phase = "mark" /\ phase' = "fold" /\ UNCHANGED <<bits, z, marked>>

\* What is counted, and what append_index writes.
InUse == {b \in bits : b < 8 * z}
Ones == Cardinality(InUse)         \* index_popcount
Density == (Ones * 100) \div (8 * z)

Halved(half) == bits \cup {b - 8 * half : b \in {c \in bits : c >= 8 * half /\ c < 16 * half}}
KeepsFolding == Density < TargetDensity /\ z > MinFold
Fold ==
  /\ phase = "fold" /\ KeepsFolding
  /\ z' = z \div 2 /\ bits' = Halved(z \div 2)
  /\ UNCHANGED <<phase, marked>>
Folded ==
  /\ phase = "fold" /\ ~KeepsFolding
  /\ phase' = "folded" /\ UNCHANGED <<bits, z, marked>>

MarkSome ==             \* whichever hashes the text has
  /\ phase = "mark"
  /\ marked' \in SUBSET Hashes /\ marked \subseteq marked'
  /\ bits' = bits \cup marked'
  /\ UNCHANGED <<phase, z>>
BitNext == MarkSome \/ Marked \/ Fold \/ Folded
BitSpec == BitInit /\ [][BitNext]_bitVars

-----------------------------------------------------------------------------
\* test_bit: byte (h >> 3) & (size - 1), bit h & 7; the size is a power of two.
PositionUnmasked(h, size) == h
Position(h, size) == (8 * ((h \div 8) % size)) + (h % 8)
TestBit(h) == Position(h, z) \in InUse

BitTypeOK ==
  /\ phase \in {"mark", "fold", "folded"} /\ z \in Sizes
  /\ bits \subseteq Hashes /\ marked \subseteq Hashes

\* However far it was folded, every hash that was marked is found.
MarkedIsFound == \A h \in marked : TestBit(h)
=============================================================================
