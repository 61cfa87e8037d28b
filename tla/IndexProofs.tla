----------------------------- MODULE IndexProofs -----------------------------
(***************************************************************************)
(* What is marked is found, for a bit set of any size folded to any size.  *)
(* A hash sits at its position for the present size; folding moves every   *)
(* position of the upper half where the smaller mask will look for it.     *)
(* Then the words: a text is read as a query is, so that a quotation meets *)
(* only hashes that were marked when the text was indexed.                 *)
(***************************************************************************)
EXTENDS Index, SequenceTheorems, WellFoundedInduction, TLAPS

IInv ==
  /\ BitTypeOK
  /\ phase = "mark" => z = BitsetBytes
  /\ \A h \in marked : Position(h, z) \in bits

LEMMA DivMod ==
  ASSUME NEW n \in Nat, NEW m \in Nat \ {0}
  PROVE  n \div m \in Nat /\ n % m \in 0..(m - 1) /\ n = m * (n \div m) + (n % m)
OBVIOUS

LEMMA Remainder ==
  ASSUME NEW k \in Nat \ {0}, NEW b \in Nat, NEW s \in 0..(k - 1)
  PROVE  (k * b + s) % k = s
<1> DEFINE n == k * b + s
           d == n \div k
           r == n % k
<1>1. n \in Nat
  OBVIOUS
<1>2. d \in Nat /\ r \in 0..(k - 1) /\ n = k * d + r
  BY <1>1, DivMod
<1>3. k * b + s = k * d + r
  BY <1>2
<1> HIDE DEF n, d, r
<1>4. k * (b - d) = r - s /\ b - d \in Int
  BY <1>2, <1>3
<1>5. r - s < k /\ r - s > -k
  BY <1>2
<1>6. b - d < 1
  <2>1. ASSUME b - d >= 1 PROVE k * (b - d) >= k
    BY <2>1, <1>4
  <2> QED BY <2>1, <1>4, <1>5
<1>7. b - d > -1
  <2>1. ASSUME b - d <= -1 PROVE k * (b - d) <= -k
    BY <2>1, <1>4
  <2> QED BY <2>1, <1>4, <1>5
<1>8. b - d = 0 /\ r = s
  BY <1>4, <1>6, <1>7, <1>2
<1> QED BY <1>8 DEF n, r

\* The remainder by k is that by 2 k, less k if it is not below k already: what
\* `h & (size - 1)` becomes when the size is halved.
LEMMA Halving ==
  ASSUME NEW n \in Nat, NEW k \in Nat \ {0}
  PROVE  n % k = IF n % (2 * k) < k THEN n % (2 * k) ELSE (n % (2 * k)) - k
<1> DEFINE a == n \div (2 * k)
           r == n % (2 * k)
<1>1. a \in Nat /\ r \in 0..(2 * k - 1) /\ n = (2 * k) * a + r
  <2>1. 2 * k \in Nat \ {0}
    OBVIOUS
  <2> QED BY ONLY <2>1, n \in Nat, DivMod
<1> HIDE DEF a, r
<1>2. CASE r < k
  <2>1. n = k * (2 * a) + r /\ r \in 0..(k - 1) /\ 2 * a \in Nat
    BY <1>1, <1>2
  <2>2. n % k = r
    BY <2>1, Remainder
  <2> QED BY <2>2, <1>2 DEF r
<1>3. CASE ~(r < k)
  <2>1. n = k * (2 * a + 1) + (r - k) /\ r - k \in 0..(k - 1) /\ 2 * a + 1 \in Nat
    BY <1>1, <1>3
  <2>2. n % k = r - k
    BY <2>1, Remainder
  <2> QED BY <2>2, <1>3 DEF r
<1> QED BY <1>2, <1>3

\* A position lies in the bytes in use, and within them is the hash itself.
LEMMA PositionInRange ==
  ASSUME NEW h \in Nat, NEW s \in Nat \ {0}
  PROVE  /\ Position(h, s) \in 0..(8 * s - 1)
         /\ h < 8 * s => Position(h, s) = h
<1> DEFINE q == (h \div 8) % s
<1>1. q \in 0..(s - 1) /\ h % 8 \in 0..7 /\ h \div 8 \in Nat /\ h = 8 * (h \div 8) + (h % 8)
  OBVIOUS
<1>2. Position(h, s) = 8 * q + (h % 8)
  BY DEF Position
<1>3. 8 * q + (h % 8) \in 0..(8 * s - 1)
  BY <1>1
<1>4. h < 8 * s => q = h \div 8
  <2>1. h < 8 * s => h \div 8 < s
    BY <1>1
  <2> QED BY <2>1, <1>1
<1> QED BY <1>1, <1>2, <1>3, <1>4

\* A fold puts every position where the halved mask looks for it.
LEMMA FoldedPosition ==
  ASSUME NEW h \in Nat, NEW k \in Nat \ {0}
  PROVE  Position(h, k) = IF Position(h, 2 * k) < 8 * k THEN Position(h, 2 * k)
                          ELSE Position(h, 2 * k) - 8 * k
<1> DEFINE n == h \div 8
           q == n % (2 * k)
<1>1. n \in Nat /\ h % 8 \in 0..7
  OBVIOUS
<1>2. q \in 0..(2 * k - 1)
  BY <1>1
<1>3. n % k = IF q < k THEN q ELSE q - k
  BY <1>1, Halving
<1>4. Position(h, k) = 8 * (n % k) + (h % 8) /\ Position(h, 2 * k) = 8 * q + (h % 8)
  BY DEF Position
<1>5. (8 * q + (h % 8) < 8 * k) <=> q < k
  BY <1>1, <1>2
<1> DEFINE m == n % k
           low == h % 8
           old == Position(h, 2 * k)
           new == Position(h, k)
<1>6. low \in 0..7 /\ q \in 0..(2 * k - 1) /\ m = (IF q < k THEN q ELSE q - k)
      /\ new = 8 * m + low /\ old = 8 * q + low
  BY <1>1, <1>2, <1>3, <1>4
<1> HIDE DEF n, q, m, low, old, new
<1>7. new = IF old < 8 * k THEN old ELSE old - 8 * k
  BY <1>6
<1> QED BY <1>7 DEF old, new

-----------------------------------------------------------------------------
LEMMA SizesFacts ==
  ASSUME BitsetAssumption
  PROVE  /\ Sizes \subseteq Nat \ {0} /\ BitsetBytes \in Sizes
         /\ \A s \in Sizes : s <= BitsetBytes
         /\ \A s \in Sizes : s > MinFold => s \div 2 \in Sizes /\ s = 2 * (s \div 2)
BY DEF BitsetAssumption

LEMMA InitInvariant == BitsetAssumption /\ BitInit => IInv
BY SizesFacts DEF BitInit, IInv, BitTypeOK

LEMMA MarkInvariant == BitsetAssumption /\ IInv /\ MarkSome => IInv'
<1> SUFFICES ASSUME BitsetAssumption, IInv, MarkSome PROVE IInv'
  OBVIOUS
<1>1. BitTypeOK'
  BY SizesFacts DEF IInv, BitTypeOK, MarkSome
<1>2. z = BitsetBytes /\ z' = z /\ phase' = phase /\ BitsetBytes \in Nat \ {0}
  BY SizesFacts DEF IInv, MarkSome
<1>3. ASSUME NEW h \in marked' PROVE Position(h, z') \in bits'
  <2>1. h \in Nat /\ h < 8 * BitsetBytes
    BY <1>2, <1>3 DEF MarkSome, Hashes
  <2>2. Position(h, z) = h
    BY <2>1, <1>2, PositionInRange
  <2> QED BY <2>2, <1>2, <1>3 DEF MarkSome
<1> QED BY <1>1, <1>2, <1>3 DEF IInv

LEMMA FoldInvariant == BitsetAssumption /\ IInv /\ Fold => IInv'
<1> SUFFICES ASSUME BitsetAssumption, IInv, Fold PROVE IInv'
  OBVIOUS
<1> DEFINE k == z \div 2
<1>1. k \in Sizes /\ k \in Nat \ {0} /\ z = 2 * k /\ z' = k /\ bits' = Halved(k)
  <2>1. z \in Sizes /\ z > MinFold
    BY DEF IInv, BitTypeOK, Fold, KeepsFolding
  <2> QED BY <2>1, SizesFacts DEF Fold
<1> HIDE DEF k
<1>2. phase = "fold" /\ phase' = "fold" /\ marked' = marked /\ bits \subseteq Hashes /\ marked \subseteq Hashes
  BY DEF Fold, IInv, BitTypeOK
<1>3. BitTypeOK'
  <2>1. BitsetBytes \in Nat /\ z <= BitsetBytes
    BY SizesFacts DEF IInv, BitTypeOK
  <2>2. ASSUME NEW c \in bits, c >= 8 * k PROVE c - 8 * k \in Hashes
    <3>1. c \in 0..(8 * BitsetBytes - 1)
      BY <1>2 DEF Hashes
    <3> QED BY <3>1, <2>1, <2>2, <1>1 DEF Hashes
  <2>3. Halved(k) \subseteq Hashes
    BY <2>2, <1>2 DEF Halved
  <2> QED BY <2>3, <1>1, <1>2 DEF BitTypeOK
<1>4. ASSUME NEW h \in marked PROVE Position(h, k) \in Halved(k)
  <2>1. h \in Nat
    BY <1>2, SizesFacts DEF Hashes
  <2> DEFINE old == Position(h, 2 * k)
  <2>2. old \in bits
    BY <1>1 DEF IInv
  <2>3. old \in 0..(8 * (2 * k) - 1)
    BY <2>1, <1>1, PositionInRange
  <2>4. Position(h, k) = IF old < 8 * k THEN old ELSE old - 8 * k
    BY <2>1, <1>1, FoldedPosition
  <2> HIDE DEF old
  <2>5. CASE old < 8 * k
    BY <2>2, <2>4, <2>5 DEF Halved
  <2>6. CASE ~(old < 8 * k)
    <3>1. old >= 8 * k /\ old < 16 * k
      BY <2>3, <2>6, <1>1
    <3>2. old - 8 * k \in Halved(k)
      BY <3>1, <2>2 DEF Halved
    <3> QED BY <3>2, <2>4, <2>6
  <2> QED BY <2>5, <2>6
<1> QED BY <1>1, <1>2, <1>3, <1>4 DEF IInv

LEMMA StepInvariant == BitsetAssumption /\ IInv /\ [BitNext]_bitVars => IInv'
<1> SUFFICES ASSUME BitsetAssumption, IInv, [BitNext]_bitVars PROVE IInv'
  OBVIOUS
<1>1. CASE MarkSome
  BY <1>1, MarkInvariant
<1>2. CASE Marked
  BY <1>2 DEF Marked, IInv, BitTypeOK
<1>3. CASE Fold
  BY <1>3, FoldInvariant
<1>4. CASE Folded
  BY <1>4 DEF Folded, IInv, BitTypeOK
<1>5. CASE UNCHANGED bitVars
  BY <1>5 DEF bitVars, IInv, BitTypeOK
<1> QED BY <1>1, <1>2, <1>3, <1>4, <1>5 DEF BitNext

LEMMA IInvFinds == BitsetAssumption /\ IInv => MarkedIsFound
<1> SUFFICES ASSUME BitsetAssumption, IInv, NEW h \in marked PROVE TestBit(h)
  BY DEF MarkedIsFound
<1>1. z \in Nat \ {0} /\ h \in Nat /\ Position(h, z) \in bits
  BY SizesFacts DEF IInv, BitTypeOK, Hashes
<1>2. Position(h, z) \in 0..(8 * z - 1)
  BY <1>1, PositionInRange
<1>3. Position(h, z) < 8 * z
  BY <1>1, <1>2
<1> QED BY <1>1, <1>3 DEF TestBit, InUse

\* Every hash marked by indexer.c is found by search.c's test_bit, for every size
\* of the bit set and however far fold_index folds it.
THEOREM FoundTheorem == BitSpec => []MarkedIsFound
<1>1. BitInit => IInv
  BY InitInvariant, BitsetAssumption
<1>2. IInv /\ [BitNext]_bitVars => IInv'
  BY StepInvariant, BitsetAssumption
<1>3. IInv => MarkedIsFound
  BY IInvFinds, BitsetAssumption
<1> QED BY <1>1, <1>2, <1>3, PTL DEF BitSpec

-----------------------------------------------------------------------------
(* Folds.                                                                   *)

LEMMA LeastOf ==
  ASSUME NEW S, S \subseteq Nat, S # {}
  PROVE  \E i \in S : \A k \in S : i <= k
<1>1. PICK i \in S : \A k \in S : ~ (<<k, i>> \in OpToRel(<, Nat))
  BY WFMin, NatLessThanWellFounded
<1>2. ASSUME NEW k \in S, k < i PROVE FALSE
  <2>1. <<k, i>> \in {ss \in Nat \X Nat : ss[1] < ss[2]}
    BY <1>2
  <2> QED BY <1>1, <2>1 DEF OpToRel
<1> QED BY <1>2

\* The three that indexer.c is modelled with: bit by bit, character by character,
\* and the words of a text.
Step(kind, a, b, v, x) ==
  IF kind = "xor" THEN v + ((Bit(a, x - 1) + Bit(b, x - 1)) % 2) * 2^(x - 1)
  ELSE IF kind = "hash" THEN Xor((9 * v) % 65536, ToLower(x))
  ELSE ReadOn(v, x)

\* The function that a fold of the first m elements is defined by: its value for a
\* set of places is what has come of the elements at these places.
Folds(kind, a, b, t, s, m, f) ==
  f = [S \in SUBSET (1..m) |-> IF S = {} THEN t ELSE Step(kind, a, b, f[S \ {Max(S)}], s[Max(S)])]

LEMMA MaxFacts ==
  ASSUME NEW m \in Nat, NEW S, S \subseteq 1..m, S # {}
  PROVE  Max(S) \in S /\ \A i \in S : i <= Max(S)
<1> DEFINE D == {m - i : i \in S}
<1>1. D \subseteq Nat /\ D # {}
  <2>1. ASSUME NEW i \in S PROVE m - i \in Nat
    <3>1. i \in 1..m
      OBVIOUS
    <3> QED BY ONLY <3>1, m \in Nat
  <2> QED BY <2>1
<1>2. PICK d \in D : \A e \in D : d <= e
  <2> HIDE DEF D
  <2> QED BY <1>1, LeastOf
<1>3. PICK i \in S : d = m - i
  BY <1>2
<1>4. \A k \in S : k \in Int /\ m - k \in D
  OBVIOUS
<1>5. \A k \in S : i >= k
  BY <1>2, <1>3, <1>4
<1> HIDE DEF D
<1>6. Max(S) \in S /\ \A k \in S : Max(S) >= k
  BY <1>5 DEF Max
<1> QED BY <1>4, <1>6

LEMMA FoldsExist ==
  ASSUME NEW kind, NEW a, NEW b, NEW t, NEW s, NEW m \in Nat
  PROVE  \E f : Folds(kind, a, b, t, s, m, f)
<1> DEFINE Bad == {i \in Nat : ~\E f : Folds(kind, a, b, t, s, i, f)}
<1>1. ASSUME NEW i \in Nat, NEW f, Folds(kind, a, b, t, s, i, f)
      PROVE  \E h : Folds(kind, a, b, t, s, i + 1, h)
  <2> DEFINE h == [S \in SUBSET (1..(i + 1)) |->
                     IF S = {} THEN t ELSE Step(kind, a, b, f[S \ {Max(S)}], s[Max(S)])]
  <2>1. ASSUME NEW S \in SUBSET (1..(i + 1)), S # {}
        PROVE  S \ {Max(S)} \in SUBSET (1..i)
    <3>1. i + 1 \in Nat
      OBVIOUS
    <3>2. Max(S) \in S /\ \A k \in S : k <= Max(S)
      BY <2>1, <3>1, MaxFacts
    <3>3. \A k \in S : k \in Int /\ 1 <= k /\ k <= i + 1
      OBVIOUS
    <3>4. PICK last : last = Max(S)
      OBVIOUS
    <3>5. ASSUME NEW k \in S \ {last} PROVE k \in 1..i
      <4>1. k \in Int /\ last \in Int /\ 1 <= k /\ k <= last /\ last <= i + 1 /\ k # last
        BY <3>2, <3>3, <3>4
      <4> QED BY ONLY <4>1, i \in Nat
    <3> QED BY <3>4, <3>5
  <2>2. ASSUME NEW R \in SUBSET (1..i) PROVE h[R] = f[R]
    <3>1. R \in SUBSET (1..(i + 1))
      OBVIOUS
    <3>2. h[R] = IF R = {} THEN t ELSE Step(kind, a, b, f[R \ {Max(R)}], s[Max(R)])
      BY <3>1
    <3>3. f[R] = IF R = {} THEN t ELSE Step(kind, a, b, f[R \ {Max(R)}], s[Max(R)])
      BY <1>1 DEF Folds
    <3> QED BY <3>2, <3>3
  <2>3. \A S \in SUBSET (1..(i + 1)) : S # {} => h[S \ {Max(S)}] = f[S \ {Max(S)}]
    BY <2>1, <2>2
  <2>4. h = [S \in SUBSET (1..(i + 1)) |->
               IF S = {} THEN t ELSE Step(kind, a, b, h[S \ {Max(S)}], s[Max(S)])]
    <3> DEFINE e == [S \in SUBSET (1..(i + 1)) |->
                       IF S = {} THEN t ELSE Step(kind, a, b, h[S \ {Max(S)}], s[Max(S)])]
    <3>1. \A S \in SUBSET (1..(i + 1)) : e[S] = h[S]
      BY <2>3
    <3> QED BY <3>1
  <2> HIDE DEF h
  <2> QED BY <2>4 DEF Folds
<1>2. 0 \notin Bad
  <2> DEFINE h == [S \in SUBSET (1..0) |-> t]
  <2>1. \A S \in SUBSET (1..0) : S = {}
    OBVIOUS
  <2>2. h = [S \in SUBSET (1..0) |-> IF S = {} THEN t ELSE Step(kind, a, b, h[S \ {Max(S)}], s[Max(S)])]
    BY <2>1
  <2> HIDE DEF h
  <2> QED BY <2>2 DEF Folds
<1>3. Bad = {}
  <2> SUFFICES ASSUME Bad # {} PROVE FALSE
    OBVIOUS
  <2>1. PICK i \in Bad : \A k \in Bad : i <= k
    <3>1. Bad \subseteq Nat
      OBVIOUS
    <3> HIDE DEF Bad
    <3> QED BY <3>1, LeastOf
  <2>2. PICK k \in Nat : i = k + 1
    <3>1. i \in Nat /\ i # 0
      BY <1>2
    <3>2. i - 1 \in Nat /\ i = (i - 1) + 1
      BY ONLY <3>1
    <3> QED BY ONLY <3>2
  <2>3. k \notin Bad
    BY <2>1, <2>2
  <2> QED BY <1>1, <2>2, <2>3
<1> QED BY <1>3

\* What has come of the elements up to each.
Steps(kind, a, b, t, s, u) ==
  u[0] = t /\ \A k \in 1..Len(s) : u[k] = Step(kind, a, b, u[k - 1], s[k])

FoldOf(kind, a, b, t, s) == (CHOOSE f : Folds(kind, a, b, t, s, Len(s), f))[1..Len(s)]

LEMMA FoldSteps ==
  ASSUME NEW kind, NEW a, NEW b, NEW t, NEW s, Len(s) \in Nat
  PROVE  \E u : Steps(kind, a, b, t, s, u) /\ u[Len(s)] = FoldOf(kind, a, b, t, s)
<1>1. Len(s) \in Nat
  OBVIOUS
<1>2. PICK f : f = (CHOOSE h : Folds(kind, a, b, t, s, Len(s), h)) /\ Folds(kind, a, b, t, s, Len(s), f)
  <2>1. \E h : Folds(kind, a, b, t, s, Len(s), h)
    BY <1>1, FoldsExist
  <2> QED BY <2>1
<1> DEFINE u == [k \in 0..Len(s) |-> f[1..k]]
<1>3. u[0] = t
  <2>1. 1..0 = {} /\ {} \in SUBSET (1..Len(s)) /\ 0 \in 0..Len(s)
    BY <1>1
  <2> QED BY <1>2, <2>1 DEF Folds
<1>4. ASSUME NEW k \in 1..Len(s) PROVE u[k] = Step(kind, a, b, u[k - 1], s[k])
  <2>1. 1..k \in SUBSET (1..Len(s)) /\ 1..k # {} /\ k \in Nat /\ k \in 0..Len(s) /\ k - 1 \in 0..Len(s)
    <3>1. PICK m \in Nat : m = Len(s)
      BY <1>1
    <3>2. k \in Nat /\ 1 <= k /\ k <= m
      BY <3>1
    <3>3. 1..k \in SUBSET (1..m) /\ 1 \in 1..k /\ k \in 0..m /\ k - 1 \in 0..m
      BY ONLY <3>2, m \in Nat
    <3> QED BY <3>1, <3>2, <3>3
  <2>2. Max(1..k) \in 1..k /\ \A i \in 1..k : i <= Max(1..k)
    BY <2>1, MaxFacts
  <2>3. Max(1..k) = k
    BY <2>1, <2>2
  <2>4. (1..k) \ {k} = 1..(k - 1)
    BY <2>1
  <2>5. f[1..k] = Step(kind, a, b, f[(1..k) \ {Max(1..k)}], s[Max(1..k)])
    BY <1>2, <2>1 DEF Folds
  <2> QED BY <2>1, <2>3, <2>4, <2>5
<1>5. u[Len(s)] = f[1..Len(s)]
  BY <1>1
<1> HIDE DEF u
<1> QED BY <1>2, <1>3, <1>4, <1>5 DEF Steps, FoldOf

LEMMA UpTo ==
  ASSUME NEW m \in Nat, NEW S, 0 \in S, \A k \in 1..m : k - 1 \in S => k \in S
  PROVE  0..m \subseteq S
<1> DEFINE Bad == {k \in 0..m : k \notin S}
<1> SUFFICES ASSUME Bad # {} PROVE FALSE
  OBVIOUS
<1>1. PICK k \in Bad : \A i \in Bad : k <= i
  <2>1. Bad \subseteq Nat
    OBVIOUS
  <2> HIDE DEF Bad
  <2> QED BY <2>1, LeastOf
<1>2. k \in Nat /\ k # 0 /\ k <= m /\ k \notin S
  OBVIOUS
<1>3. k \in 1..m /\ k - 1 \in 0..m /\ ~(k <= k - 1)
  BY ONLY <1>2, m \in Nat
<1>4. k - 1 \in S
  BY <1>1, <1>3
<1> QED BY <1>2, <1>3, <1>4


-----------------------------------------------------------------------------
(* The hashes.                                                              *)

Small16 == 0..65535
LEMMA Powers == \A i \in 0..15 : 2^i \in Nat \ {0}
<1>1. /\ 2^0 = 1 /\ 2^1 = 2 /\ 2^2 = 4 /\ 2^3 = 8 /\ 2^4 = 16 /\ 2^5 = 32 /\ 2^6 = 64 /\ 2^7 = 128
      /\ 2^8 = 256 /\ 2^9 = 512 /\ 2^10 = 1024 /\ 2^11 = 2048 /\ 2^12 = 4096 /\ 2^13 = 8192
      /\ 2^14 = 16384 /\ 2^15 = 32768
  OBVIOUS
<1> SUFFICES ASSUME NEW i \in 0..15 PROVE 2^i \in Nat \ {0}
  OBVIOUS
<1>2. \/ i = 0 \/ i = 1 \/ i = 2 \/ i = 3 \/ i = 4 \/ i = 5 \/ i = 6 \/ i = 7
      \/ i = 8 \/ i = 9 \/ i = 10 \/ i = 11 \/ i = 12 \/ i = 13 \/ i = 14 \/ i = 15
  OBVIOUS
<1> DEFINE P(k) == 2^k \in Nat \ {0}
<1>3. /\ P(0) /\ P(1) /\ P(2) /\ P(3) /\ P(4) /\ P(5) /\ P(6) /\ P(7)
      /\ P(8) /\ P(9) /\ P(10) /\ P(11) /\ P(12) /\ P(13) /\ P(14) /\ P(15)
  BY <1>1
<1> HIDE DEF P
<1>4. P(i)
  BY <1>2, <1>3, Zenon
<1> QED BY <1>4 DEF P

LEMMA BitRange ==
  ASSUME NEW x \in Nat, NEW i \in 0..15
  PROVE  Bit(x, i) \in {0, 1}
<1>1. PICK m \in Nat \ {0} : m = 2^i
  BY Powers
<1>2. PICK d \in Nat : d = x \div m
  BY ONLY x \in Nat, m \in Nat \ {0}, DivMod
<1>3. d % 2 \in {0, 1}
  BY ONLY <1>2
<1> QED BY <1>1, <1>2, <1>3 DEF Bit

LEMMA XorNat ==
  ASSUME NEW a \in Nat, NEW b \in Nat
  PROVE  Xor(a, b) \in Nat
<1> DEFINE s == [i \in 1..16 |-> i]
<1>1. s \in Seq(Nat) /\ Len(s) = 16 /\ DOMAIN s = 1..16 /\ \A k \in 1..16 : s[k] = k
  OBVIOUS
<1> HIDE DEF s
<1>2. Xor(a, b) = FoldOf("xor", a, b, 0, s)
  BY <1>1 DEF s, FoldOf, Xor, FoldLeft, MapThenFoldSet, Folds, Step
<1>3. PICK u : Steps("xor", a, b, 0, s, u) /\ u[16] = FoldOf("xor", a, b, 0, s)
  <2>1. \E u : Steps("xor", a, b, 0, s, u) /\ u[Len(s)] = FoldOf("xor", a, b, 0, s)
    <3>1. Len(s) \in Nat
      BY <1>1
    <3> QED BY ONLY <3>1, FoldSteps, Zenon
  <2> QED BY ONLY <1>1, <2>1
<1> DEFINE S == {k \in 0..16 : u[k] \in Nat}
<1>4. 0 \in S
  BY <1>3 DEF Steps
<1>5. ASSUME NEW k \in 1..16, k - 1 \in S PROVE k \in S
  <2>0. s[k] = k /\ k \in 1..Len(s) /\ k - 1 \in 0..15
    BY ONLY <1>1, k \in 1..16
  <2>1. u[k] = u[k - 1] + ((Bit(a, k - 1) + Bit(b, k - 1)) % 2) * 2^(k - 1)
    <3>1. u[k] = Step("xor", a, b, u[k - 1], s[k])
      BY <1>3, <2>0 DEF Steps
    <3> QED BY ONLY <2>0, <3>1 DEF Step
  <2>2. Bit(a, k - 1) \in {0, 1} /\ Bit(b, k - 1) \in {0, 1}
    BY <2>0, BitRange
  <2>3. PICK c \in {0, 1} : c = (Bit(a, k - 1) + Bit(b, k - 1)) % 2
    BY <2>2
  <2>4. PICK m \in Nat : m = 2^(k - 1)
    BY <2>0, Powers, Zenon
  <2>5. PICK v \in Nat : v = u[k - 1]
    BY <1>5
  <2>6. v + c * m \in Nat
    BY ONLY c \in {0, 1}, m \in Nat, v \in Nat
  <2> QED BY <2>1, <2>3, <2>4, <2>5, <2>6
<1>6. 16 \in S
  <2> HIDE DEF S
  <2>1. 0..16 \subseteq S
    BY <1>4, <1>5, UpTo
  <2> QED BY <2>1
<1> QED BY <1>2, <1>3, <1>6

LEMMA HashedIsHash == \A h \in Nat : Hashed(h) \in Hashes
<1>1. BitsetBytes \in Nat \ {0}
  BY BitsetAssumption, SizesFacts
<1>2. 2^HashBits = 8 * BitsetBytes
  BY IndexAssumption DEF IndexAssumption
<1> SUFFICES ASSUME NEW h \in Nat PROVE h % (8 * BitsetBytes) \in 0..(8 * BitsetBytes - 1)
  BY <1>2 DEF Hashed, Hashes
<1>3. PICK m \in Nat \ {0} : m = 8 * BitsetBytes
  BY <1>1
<1> QED BY <1>3, DivMod

LEMMA LowerNat == \A c \in Nat : ToLower(c) \in Nat /\ Small(c) = ToLower(c) /\ ToLower(ToLower(c)) = ToLower(c)
BY DEF ToLower, Small

LEMMA UnigramSteps ==
  ASSUME NEW w \in Seq(Nat)
  PROVE  \E u : Steps("hash", 0, 0, 5381, w, u) /\ HashUnigram(w) = Hashed(u[Len(w)])
<1>1. DOMAIN w = 1..Len(w)
  OBVIOUS
<1>2. HashUnigram(w) = Hashed(FoldOf("hash", 0, 0, 5381, w))
  BY <1>1 DEF FoldOf, HashUnigram, FoldLeft, MapThenFoldSet, Folds, Step
<1> QED BY <1>2, FoldSteps

LEMMA UnigramStep ==
  ASSUME NEW w \in Seq(Nat), NEW u, Steps("hash", 0, 0, 5381, w, u)
  PROVE  u[0] = 5381 /\ \A k \in 1..Len(w) : u[k] = Xor((9 * u[k - 1]) % 65536, ToLower(w[k]))
BY DEF Steps, Step

LEMMA UnigramIsHash ==
  ASSUME NEW w \in Seq(Nat)
  PROVE  HashUnigram(w) \in Hashes
<1>1. PICK u : Steps("hash", 0, 0, 5381, w, u) /\ HashUnigram(w) = Hashed(u[Len(w)])
  BY UnigramSteps
<1>2. PICK n \in Nat : n = Len(w)
  OBVIOUS
<1> DEFINE S == {k \in 0..n : u[k] \in Nat}
<1>3. 0 \in S
  BY <1>1, UnigramStep
<1>4. ASSUME NEW k \in 1..n, k - 1 \in S PROVE k \in S
  <2>1. u[k] = Xor((9 * u[k - 1]) % 65536, ToLower(w[k]))
    BY <1>1, <1>2, UnigramStep
  <2>2. w[k] \in Nat
    BY <1>2
  <2>3. PICK v \in Nat : v = (9 * u[k - 1]) % 65536
    BY <1>4
  <2>4. Xor(v, ToLower(w[k])) \in Nat
    BY <2>2, LowerNat, XorNat
  <2> QED BY <2>1, <2>3, <2>4
<1>5. n \in S
  <2> HIDE DEF S
  <2>1. 0..n \subseteq S
    BY <1>3, <1>4, UpTo
  <2> QED BY <2>1
<1> QED BY <1>1, <1>2, <1>5, HashedIsHash

\* The case of the letters makes no difference.
LEMMA SameUnigram ==
  ASSUME NEW v \in Seq(Nat), NEW w \in Seq(Nat), Len(v) = Len(w),
         \A k \in 1..Len(w) : ToLower(v[k]) = ToLower(w[k])
  PROVE  HashUnigram(v) = HashUnigram(w)
<1>1. PICK u : Steps("hash", 0, 0, 5381, w, u) /\ HashUnigram(w) = Hashed(u[Len(w)])
  BY UnigramSteps
<1>2. PICK t : Steps("hash", 0, 0, 5381, v, t) /\ HashUnigram(v) = Hashed(t[Len(v)])
  BY UnigramSteps
<1>3. PICK n \in Nat : n = Len(w)
  OBVIOUS
<1> DEFINE S == {k \in 0..n : u[k] = t[k]}
<1>4. 0 \in S
  BY <1>1, <1>2, UnigramStep
<1>5. ASSUME NEW k \in 1..n, k - 1 \in S PROVE k \in S
  <2>1. u[k] = Xor((9 * u[k - 1]) % 65536, ToLower(w[k]))
    BY <1>1, <1>3, UnigramStep
  <2>2. t[k] = Xor((9 * t[k - 1]) % 65536, ToLower(v[k]))
    BY <1>2, <1>3, UnigramStep
  <2>3. u[k - 1] = t[k - 1] /\ ToLower(v[k]) = ToLower(w[k])
    BY <1>3, <1>5
  <2> QED BY <2>1, <2>2, <2>3
<1>6. n \in S
  <2> HIDE DEF S
  <2>1. 0..n \subseteq S
    BY <1>4, <1>5, UpTo
  <2> QED BY <2>1
<1> QED BY <1>1, <1>2, <1>3, <1>6

LEMMA BigramIsHash ==
  ASSUME NEW g \in Nat, NEW h \in Nat
  PROVE  HashBigram(g, h) \in Hashes
<1>1. BitsetBytes \in Nat \ {0} /\ 2^(HashBits - 3) = BitsetBytes
  BY BitsetAssumption, SizesFacts, IndexAssumption DEF IndexAssumption
<1>2. PICK q \in Nat : q = g \div BitsetBytes
  BY <1>1, DivMod
<1>3. PICK x \in Nat : x = 8 * g + q
  OBVIOUS
<1>4. HashBigram(g, h) = Hashed(Xor(x, h))
  BY <1>1, <1>2, <1>3 DEF HashBigram
<1> QED BY <1>4, XorNat, HashedIsHash

LEMMA TrigramIsHash ==
  ASSUME NEW a \in Nat, NEW b \in Nat, NEW c \in Nat
  PROVE  HashTrigram(a, b, c) \in Hashes
<1>1. PICK h \in Nat : h = Xor(16 * ToLower(a), ToLower(b))
  <2>1. 16 * ToLower(a) \in Nat /\ ToLower(b) \in Nat
    BY LowerNat
  <2> QED BY <2>1, XorNat
<1>2. Xor(16 * h, ToLower(c)) \in Nat
  <2>1. 16 * h \in Nat /\ ToLower(c) \in Nat
    BY LowerNat
  <2> QED BY <2>1, XorNat
<1>3. 0 \in Hashes
  <2>1. BitsetBytes \in Nat \ {0}
    BY BitsetAssumption, SizesFacts
  <2> QED BY <2>1 DEF Hashes
<1> QED BY <1>1, <1>2, <1>3, HashedIsHash DEF HashTrigram

\* Nor does it in a fragment of three letters.
LEMMA SameTrigram ==
  ASSUME NEW a \in Nat, NEW b \in Nat, NEW c \in Nat, IsAlnum(a), IsAlnum(b), IsAlnum(c),
         NEW d \in Nat, NEW e \in Nat, NEW f \in Nat, IsAlnum(d), IsAlnum(e), IsAlnum(f),
         ToLower(a) = ToLower(d), ToLower(b) = ToLower(e), ToLower(c) = ToLower(f)
  PROVE  HashTrigram(a, b, c) = HashTrigram(d, e, f)
<1>1. c < 128 /\ f < 128
  BY DEF IsAlnum, Digit, Letter
<1> QED BY <1>1 DEF HashTrigram

-----------------------------------------------------------------------------
(* Reading: the words that have ended, and the one under way.               *)

Code == 1..255
Strings == Seq(Code)
Reading == [done : Seq(Seq(Nat)), word : Seq(Nat)]

LEMMA StringsAreCodes == Strings \subseteq Seq(Nat)
<1>1. Code \subseteq Nat
  BY DEF Code
<1> QED BY <1>1, SeqMonotonic DEF Strings

LEMMA CharFacts ==
  ASSUME NEW s \in Strings
  PROVE  /\ Len(s) \in Nat
         /\ \A i \in Int : At(s, i) \in Nat /\ (At(s, i) = 0 <=> ~(1 <= i /\ i <= Len(s)))
         /\ \A i \in 1..Len(s) : At(s, i) = s[i] /\ s[i] \in Nat
         /\ ~IsAlnum(0)
<1>1. PICK n \in Nat : n = Len(s)
  BY DEF Strings
<1>2. DOMAIN s = 1..n /\ \A i \in 1..n : s[i] \in Code
  BY <1>1 DEF Strings
<1>3. \A c \in Code : c \in Nat /\ c # 0
  BY DEF Code
<1>4. ASSUME NEW i \in Int PROVE At(s, i) \in Nat /\ (At(s, i) = 0 <=> ~(1 <= i /\ i <= n))
  <2>1. CASE i \in 1..n
    BY <1>2, <1>3, <2>1 DEF At
  <2>2. CASE i \notin 1..n
    BY <1>2, <2>2 DEF At
  <2> QED BY <2>1, <2>2
<1>5. \A i \in 1..n : At(s, i) = s[i] /\ s[i] \in Nat
  BY <1>2, <1>3 DEF At
<1>6. ~IsAlnum(0)
  BY DEF IsAlnum, Digit, Letter
<1> QED BY <1>1, <1>4, <1>5, <1>6

LEMMA WordsFold ==
  ASSUME NEW t, DOMAIN t = 1..Len(t)
  PROVE  FoldLeft(ReadOn, NoWords, t) = FoldOf("words", 0, 0, NoWords, t)
BY DEF FoldOf, FoldLeft, MapThenFoldSet, Folds, Step

\* What has been read after each character, and after the NUL.
Read(s) == CHOOSE u : Steps("words", 0, 0, NoWords, Append(s, 0), u) /\ Words(s) = u[Len(s) + 1].done

LEMMA ReadSteps ==
  ASSUME NEW s \in Strings
  PROVE  /\ Read(s)[0] = NoWords /\ Words(s) = Read(s)[Len(s) + 1].done
         /\ \A k \in 1..(Len(s) + 1) : Read(s)[k] = ReadOn(Read(s)[k - 1], At(s, k))
<1> DEFINE t == Append(s, 0)
<1>1. /\ Len(t) = Len(s) + 1 /\ Len(t) \in Nat /\ DOMAIN t = 1..Len(t)
      /\ \A k \in 1..Len(t) : t[k] = At(s, k)
  BY DEF Strings, At
<1> HIDE DEF t
<1>2. Words(s) = FoldOf("words", 0, 0, NoWords, t).done
  <2>1. FoldLeft(ReadOn, NoWords, t) = FoldOf("words", 0, 0, NoWords, t)
    BY <1>1, WordsFold
  <2> QED BY <2>1 DEF Words, t
<1>3. \E u : Steps("words", 0, 0, NoWords, t, u) /\ u[Len(t)] = FoldOf("words", 0, 0, NoWords, t)
  BY ONLY <1>1, FoldSteps, Zenon
<1>4. \E u : Steps("words", 0, 0, NoWords, t, u) /\ Words(s) = u[Len(s) + 1].done
  BY ONLY <1>1, <1>2, <1>3
<1>5. Steps("words", 0, 0, NoWords, t, Read(s)) /\ Words(s) = Read(s)[Len(s) + 1].done
  BY <1>4 DEF Read, t
<1>6. ASSUME NEW k \in 1..(Len(s) + 1) PROVE Read(s)[k] = ReadOn(Read(s)[k - 1], At(s, k))
  <2>1. k \in 1..Len(t) /\ t[k] = At(s, k)
    BY <1>1
  <2>2. Read(s)[k] = Step("words", 0, 0, Read(s)[k - 1], t[k])
    BY <1>5, <2>1 DEF Steps
  <2> QED BY <2>1, <2>2 DEF Step
<1> QED BY <1>5, <1>6 DEF Steps

LEMMA ReadOnForm ==
  ASSUME NEW w \in Reading, NEW c \in Nat
  PROVE  /\ ReadOn(w, c) \in Reading
         /\ IsAlnum(c) => ReadOn(w, c).done = w.done /\ ReadOn(w, c).word = Append(w.word, ToLower(c))
         /\ ~IsAlnum(c) => /\ ReadOn(w, c).word = <<>>
                           /\ ReadOn(w, c).done = IF w.word = <<>> THEN w.done
                                                  ELSE Append(w.done, w.word)
<1>1. w.done \in Seq(Seq(Nat)) /\ w.word \in Seq(Nat) /\ w = [done |-> w.done, word |-> w.word]
  BY DEF Reading
<1>2. Small(c) = ToLower(c) /\ ToLower(c) \in Nat
  BY LowerNat
<1>3. CASE IsAlnum(c)
  <2>1. ReadOn(w, c) = [done |-> w.done, word |-> Append(w.word, ToLower(c))]
    BY <1>1, <1>2, <1>3 DEF ReadOn
  <2>2. Append(w.word, ToLower(c)) \in Seq(Nat)
    BY <1>1, <1>2
  <2> QED BY <1>1, <1>3, <2>1, <2>2 DEF Reading
<1>4. CASE ~IsAlnum(c)
  <2>1. CASE w.word = <<>>
    BY <1>4, <2>1 DEF ReadOn
  <2>2. CASE w.word # <<>>
    <3>1. ReadOn(w, c) = [done |-> Append(w.done, w.word), word |-> <<>>]
      BY <1>4, <2>2 DEF ReadOn
    <3>2. Append(w.done, w.word) \in Seq(Seq(Nat)) /\ <<>> \in Seq(Nat)
      BY <1>1
    <3> QED BY <1>4, <2>2, <3>1, <3>2 DEF Reading
  <2> QED BY <2>1, <2>2
<1> QED BY <1>3, <1>4

\* w stands in s, in any case, up to the place e.
Spelt(s, e, w) ==
  \A t \in 1..Len(w) : /\ (e + t) - Len(w) \in 1..Len(s) /\ IsAlnum(s[(e + t) - Len(w)])
                       /\ w[t] = ToLower(s[(e + t) - Len(w)])

ReadWell(s, k) ==
  /\ Read(s)[k] \in Reading
  /\ Spelt(s, k, Read(s)[k].word)
  /\ \A i \in 1..Len(Read(s)[k].done) : \E e \in Nat : Spelt(s, e, Read(s)[k].done[i])

LEMMA SpeltOn ==
  ASSUME NEW s \in Strings, NEW k \in 1..Len(s), NEW w \in Seq(Nat), Spelt(s, k - 1, w), IsAlnum(s[k])
  PROVE  Spelt(s, k, Append(w, ToLower(s[k])))
<1> DEFINE v == Append(w, ToLower(s[k]))
<1>1. PICK n \in Nat : n = Len(w)
  OBVIOUS
<1>2. Len(v) = n + 1 /\ (\A t \in 1..n : v[t] = w[t]) /\ v[n + 1] = ToLower(s[k])
  BY <1>1
<1>3. k \in Nat
  BY DEF Strings
<1> HIDE DEF v
<1>4. ASSUME NEW t \in 1..(n + 1)
      PROVE  /\ (k + t) - (n + 1) \in 1..Len(s) /\ IsAlnum(s[(k + t) - (n + 1)])
             /\ v[t] = ToLower(s[(k + t) - (n + 1)])
  <2>1. CASE t = n + 1
    <3>1. (k + t) - (n + 1) = k
      BY <1>3, <2>1
    <3> QED BY <1>2, <2>1, <3>1
  <2>2. CASE t # n + 1
    <3>1. t \in 1..n /\ (k + t) - (n + 1) = ((k - 1) + t) - n
      BY <1>3, <2>2
    <3> QED BY <1>1, <1>2, <3>1 DEF Spelt
  <2> QED BY <2>1, <2>2
<1> QED BY <1>2, <1>4 DEF Spelt, v

LEMMA AllReadWell ==
  ASSUME NEW s \in Strings
  PROVE  \A k \in 0..(Len(s) + 1) : ReadWell(s, k)
<1>1. PICK n \in Nat : n = Len(s) + 1
  BY CharFacts
<1> DEFINE S == {k \in 0..n : ReadWell(s, k)}
<1>2. 0 \in S
  <2>1. NoWords \in Reading /\ NoWords.word = <<>> /\ NoWords.done = <<>>
    BY DEF NoWords, Reading
  <2>2. Read(s)[0] = NoWords /\ 0 \in 0..n
    BY <1>1, ReadSteps
  <2>3. Spelt(s, 0, <<>>)
    BY DEF Spelt
  <2>4. ReadWell(s, 0)
    BY <2>1, <2>2, <2>3 DEF ReadWell
  <2> QED BY <2>2, <2>4
<1>3. ASSUME NEW k \in 1..n, k - 1 \in S PROVE k \in S
  <2>1. PICK w \in Reading : w = Read(s)[k - 1]
    BY <1>3 DEF ReadWell
  <2>2. PICK c \in Nat : c = At(s, k)
    BY <1>1, CharFacts
  <2>3. Read(s)[k] = ReadOn(w, c)
    BY <1>1, <2>1, <2>2, ReadSteps
  <2>4. Spelt(s, k - 1, w.word) /\ \A i \in 1..Len(w.done) : \E e \in Nat : Spelt(s, e, w.done[i])
    BY <1>3, <2>1 DEF ReadWell
  <2>5. w.done \in Seq(Seq(Nat)) /\ w.word \in Seq(Nat)
    BY DEF Reading
  <2>6. CASE IsAlnum(c)
    <3>1. k \in 1..Len(s) /\ c = s[k]
      <4>1. c # 0
        BY <2>6, CharFacts
      <4> QED BY <1>1, <2>2, <4>1, CharFacts
    <3>2. Spelt(s, k, Append(w.word, ToLower(c)))
      BY <2>4, <2>5, <2>6, <3>1, SpeltOn
    <3>3. PICK d : d = w.done
      OBVIOUS
    <3>4. PICK v : v = Append(w.word, ToLower(c))
      OBVIOUS
    <3>5. PICK x : x = Read(s)[k]
      OBVIOUS
    <3>6. x \in Reading /\ x.done = d /\ x.word = v
      BY <2>3, <2>6, <3>3, <3>4, <3>5, ReadOnForm
    <3>7. Spelt(s, k, v) /\ \A i \in 1..Len(d) : \E e \in Nat : Spelt(s, e, d[i])
      BY <2>4, <3>2, <3>3, <3>4
    <3> QED BY <3>5, <3>6, <3>7 DEF ReadWell
  <2>7. CASE ~IsAlnum(c)
    <3>1. Spelt(s, k, <<>>)
      BY DEF Spelt
    <3>2. CASE w.word = <<>>
      <4>1. PICK d : d = w.done
        OBVIOUS
      <4>2. PICK x : x = Read(s)[k]
        OBVIOUS
      <4>3. x \in Reading /\ x.done = d /\ x.word = <<>>
        BY <2>3, <2>7, <3>2, <4>1, <4>2, ReadOnForm
      <4>4. \A i \in 1..Len(d) : \E e \in Nat : Spelt(s, e, d[i])
        BY <2>4, <4>1
      <4> QED BY <3>1, <4>2, <4>3, <4>4 DEF ReadWell
    <3>3. CASE w.word # <<>>
      <4>1. PICK d \in Seq(Seq(Nat)) : d = Append(w.done, w.word)
        <5>1. PICK ws \in Seq(Seq(Nat)) : ws = w.done
          BY <2>5
        <5>2. PICK v \in Seq(Nat) : v = w.word
          BY <2>5
        <5>3. Append(ws, v) \in Seq(Seq(Nat))
          OBVIOUS
        <5> QED BY <5>1, <5>2, <5>3
      <4>2. /\ Len(d) = Len(w.done) + 1 /\ d[Len(w.done) + 1] = w.word
            /\ \A i \in 1..Len(w.done) : d[i] = w.done[i]
        BY <2>5, <4>1
      <4>3. k - 1 \in Nat
        OBVIOUS
      <4>4. ASSUME NEW i \in 1..Len(d) PROVE \E e \in Nat : Spelt(s, e, d[i])
        <5>1. CASE i \in 1..Len(w.done)
          BY <2>4, <4>2, <5>1
        <5>2. CASE i \notin 1..Len(w.done)
          <6>1. i = Len(w.done) + 1
            BY <2>5, <4>2, <5>2
          <6> QED BY <2>4, <4>2, <4>3, <6>1
        <5> QED BY <5>1, <5>2
      <4>5. PICK x : x = Read(s)[k]
        OBVIOUS
      <4>6. x \in Reading /\ x.done = d /\ x.word = <<>>
        BY <2>3, <2>7, <3>3, <4>1, <4>5, ReadOnForm
      <4>7. Spelt(s, k, x.word) /\ \A i \in 1..Len(x.done) : \E e \in Nat : Spelt(s, e, x.done[i])
        BY <3>1, <4>4, <4>6
      <4>8. ReadWell(s, k)
        BY <4>5, <4>6, <4>7 DEF ReadWell
      <4> QED BY <4>8
    <3> QED BY <3>2, <3>3
  <2> QED BY <2>6, <2>7
<1>4. 0..n \subseteq S
  <2> HIDE DEF S
  <2> QED BY <1>2, <1>3, UpTo
<1> QED BY <1>1, <1>4

\* The words read so far are the first of all.
Starts(a, b) == Len(a) <= Len(b) /\ \A i \in 1..Len(a) : b[i] = a[i]

LEMMA ReadStarts ==
  ASSUME NEW s \in Strings, NEW k \in 0..(Len(s) + 1)
  PROVE  Starts(Read(s)[k].done, Words(s))
<1>0. PICK l \in Nat : l = Len(s) /\ k \in 0..(l + 1)
  BY CharFacts
<1>1. PICK n \in Nat : n = (Len(s) + 1) - k
  BY <1>0
<1>2. Len(s) \in Nat /\ k \in Nat
  BY <1>0
<1>3. PICK a \in Seq(Seq(Nat)) : a = Read(s)[k].done
  BY AllReadWell DEF ReadWell, Reading
<1> DEFINE S == {m \in 0..n : Starts(a, Read(s)[k + m].done)}
<1>4. 0 \in S
  BY <1>2, <1>3 DEF Starts
<1>5. ASSUME NEW m \in 1..n, m - 1 \in S PROVE m \in S
  <2>1. k + m \in 1..(Len(s) + 1) /\ (k + m) - 1 = k + (m - 1) /\ (k + m) - 1 \in 0..(Len(s) + 1)
    BY <1>1, <1>2
  <2>2. PICK i \in 1..(Len(s) + 1) : i = k + m
    BY <2>1
  <2>3. PICK w \in Reading : w = Read(s)[i - 1]
    BY <2>1, <2>2, AllReadWell DEF ReadWell
  <2>4. PICK c \in Nat : c = At(s, i)
    BY CharFacts
  <2>5. Read(s)[i] = ReadOn(w, c)
    BY <2>3, <2>4, ReadSteps
  <2>6. Starts(a, w.done) /\ w.done \in Seq(Seq(Nat)) /\ w.word \in Seq(Nat)
    BY <1>5, <2>1, <2>2, <2>3 DEF Reading
  <2>7. Read(s)[i].done = w.done \/ Read(s)[i].done = Append(w.done, w.word)
    <3>1. PICK x : x = ReadOn(w, c)
      OBVIOUS
    <3>2. PICK d : d = Append(w.done, w.word)
      OBVIOUS
    <3>3. x.done = w.done \/ x.done = d
      <4>1. CASE IsAlnum(c)
        BY <3>1, <4>1, ReadOnForm
      <4>2. CASE ~IsAlnum(c)
        BY <3>1, <3>2, <4>2, ReadOnForm
      <4> QED BY <4>1, <4>2
    <3> QED BY <2>5, <3>1, <3>2, <3>3
  <2>8. Starts(a, Append(w.done, w.word))
    <3>1. PICK d \in Seq(Seq(Nat)) : d = w.done
      BY <2>6
    <3>2. PICK v \in Seq(Nat) : v = w.word
      BY <2>6
    <3>3. Starts(a, Append(d, v))
      BY <2>6, <3>1 DEF Starts
    <3> QED BY <3>1, <3>2, <3>3
  <2>9. PICK x : x = Read(s)[k + m].done
    OBVIOUS
  <2>10. Starts(a, x)
    BY <2>2, <2>6, <2>7, <2>8, <2>9
  <2> QED BY <2>9, <2>10
<1>6. n \in S
  <2> HIDE DEF S
  <2>1. 0..n \subseteq S
    BY <1>4, <1>5, UpTo
  <2> QED BY <2>1
<1>7. k + n = Len(s) + 1
  BY <1>1, <1>2
<1> QED BY <1>3, <1>6, <1>7, ReadSteps

-----------------------------------------------------------------------------
(* The hash of a word: of as much of it as its length, a char, counts.      *)

Seen(w) == Len(w) % CharMod
Counted(w) == Seen(w) > 0
HashOf(w) == HashUnigram(SubSeq(w, (Len(w) - Seen(w)) + 1, Len(w)))

LEMMA NextRemainder ==
  ASSUME NEW m \in Nat, NEW n \in Nat \ {0}
  PROVE  (m + 1) % n = ((m % n) + 1) % n
<1> DEFINE d == m \div n
           r == m % n
<1>1. d \in Nat /\ r \in 0..(n - 1) /\ m = n * d + r
  BY DivMod
<1> HIDE DEF d, r
<1>2. CASE r = n - 1
  <2>1. m + 1 = n * (d + 1) + 0 /\ d + 1 \in Nat /\ 0 \in 0..(n - 1)
    BY <1>1, <1>2
  <2>2. (n * (d + 1) + 0) % n = 0
    BY <2>1, Remainder
  <2>3. r + 1 = n * 1 + 0
    BY <1>1, <1>2
  <2>4. (n * 1 + 0) % n = 0
    BY <2>1, Remainder
  <2> QED BY <2>1, <2>2, <2>3, <2>4 DEF r
<1>3. CASE r # n - 1
  <2>1. m + 1 = n * d + (r + 1) /\ r + 1 \in 0..(n - 1)
    BY <1>1, <1>3
  <2>2. (n * d + (r + 1)) % n = r + 1
    BY <1>1, <2>1, Remainder
  <2>3. (n * 0 + (r + 1)) % n = r + 1
    BY <1>1, <2>1, Remainder
  <2>4. n * 0 + (r + 1) = r + 1
    BY <1>1
  <2> QED BY <2>1, <2>2, <2>3, <2>4 DEF r
<1> QED BY <1>2, <1>3

LEMMA SeenFacts ==
  ASSUME NEW w \in Seq(Nat)
  PROVE  /\ Seen(w) \in Nat /\ Seen(w) < CharMod /\ Seen(w) <= Len(w)
         /\ \A c \in Nat : Seen(Append(w, c)) = (Seen(w) + 1) % CharMod
<1>1. PICK n \in Nat : n = Len(w)
  OBVIOUS
<1>2. PICK m \in Nat \ {0} : m = CharMod
  BY IndexAssumption DEF IndexAssumption
<1>3. n \div m \in Nat /\ n % m \in 0..(m - 1) /\ n = m * (n \div m) + (n % m)
  BY DivMod
<1>4. PICK q \in Nat : q = m * (n \div m)
  BY <1>3
<1>5. n % m \in Nat /\ n % m < m /\ n % m <= n
  BY <1>3, <1>4
<1>6. \A c \in Nat : Len(Append(w, c)) = n + 1
  BY <1>1
<1>7. (n + 1) % m = ((n % m) + 1) % m
  BY NextRemainder
<1> QED BY <1>1, <1>2, <1>5, <1>6, <1>7 DEF Seen

LEMMA NothingSeen == Seen(<<>>) = 0
<1>1. PICK m \in Nat \ {0} : m = CharMod
  BY IndexAssumption DEF IndexAssumption
<1>2. (m * 0 + 0) % m = 0
  BY Remainder
<1>3. Len(<<>>) = m * 0 + 0
  OBVIOUS
<1> QED BY <1>1, <1>2, <1>3 DEF Seen

LEMMA HashOfIsHash == \A w \in Seq(Nat) : HashOf(w) \in Hashes
<1> SUFFICES ASSUME NEW w \in Seq(Nat) PROVE HashOf(w) \in Hashes
  OBVIOUS
<1>1. PICK i \in Nat : i = Len(w) - Seen(w)
  BY SeenFacts
<1>2. SubSeq(w, i + 1, Len(w)) \in Seq(Nat)
  OBVIOUS
<1> QED BY <1>1, <1>2, UnigramIsHash DEF HashOf

LEMMA HashesNat == Hashes \subseteq Nat
BY DEF Hashes

LEMMA PartFacts ==
  ASSUME NEW q \in Seq(Nat), NEW i \in Nat, NEW l \in Nat, NEW j \in Nat, j = i + l, j <= Len(q)
  PROVE  /\ SubSeq(q, i + 1, j) \in Seq(Nat) /\ Len(SubSeq(q, i + 1, j)) = l
         /\ \A k \in 1..l : SubSeq(q, i + 1, j)[k] = q[i + k]
<1>1. PICK n \in Nat : n = Len(q)
  OBVIOUS
<1>2. \A k \in (i + 1)..j : k \in 1..n /\ q[k] \in Nat
  BY <1>1
<1>3. SubSeq(q, i + 1, j) = [k \in 1..l |-> q[i + k]]
  <2>1. 1..((j - (i + 1)) + 1) = 1..l
    OBVIOUS
  <2>2. \A k \in 1..l : ((i + 1) + k) - 1 = i + k
    OBVIOUS
  <2> QED BY <2>1, <2>2
<1>4. \A k \in 1..l : q[i + k] \in Nat
  BY <1>2
<1> QED BY <1>3, <1>4

\* A word has the same hash wherever it stands.
LEMMA HashOfSpelt ==
  ASSUME NEW s \in Strings, NEW e \in Nat, NEW w \in Seq(Nat), Spelt(s, e, w), Counted(w)
  PROVE  /\ HashUnigram(SubSeq(s, (e - Seen(w)) + 1, e)) = HashOf(w)
         /\ e - Seen(w) \in Nat /\ e <= Len(s)
<1>1. PICK n \in Nat : n = Len(w)
  OBVIOUS
<1>2. PICK l \in Nat : l = Seen(w) /\ l > 0 /\ l <= n
  BY <1>1, SeenFacts DEF Counted
<1>3. PICK m \in Nat : m = Len(s)
  BY CharFacts
<1>4. \A t \in 1..n : /\ (e + t) - n \in 1..m /\ w[t] = ToLower(s[(e + t) - n])
  BY <1>1, <1>3 DEF Spelt
<1>5. e <= m /\ e - n \in Nat
  <2>1. n \in 1..n /\ 1 \in 1..n
    BY <1>2
  <2>2. (e + n) - n \in 1..m /\ (e + 1) - n \in 1..m
    BY <1>4, <2>1
  <2> QED BY <2>2
<1> DEFINE a == SubSeq(s, (e - l) + 1, e)
           b == SubSeq(w, (n - l) + 1, n)
<1>6. e - l \in Nat /\ n - l \in Nat /\ (e - l) + 1 \in 1..(m + 1) /\ (n - l) + 1 \in 1..(n + 1)
  BY <1>2, <1>5
<1>7. a \in Seq(Nat) /\ Len(a) = l /\ \A k \in 1..l : a[k] = s[(e - l) + k]
  <2>1. PICK q \in Seq(Nat) : q = s
    BY StringsAreCodes
  <2>2. PICK i \in Nat : i = e - l
    BY <1>6
  <2>3. e = i + l /\ e <= Len(q)
    BY <1>3, <1>5, <2>1, <2>2
  <2> QED BY <2>1, <2>2, <2>3, PartFacts
<1>8. b \in Seq(Nat) /\ Len(b) = l /\ \A k \in 1..l : b[k] = w[(n - l) + k]
  <2>1. PICK i \in Nat : i = n - l
    BY <1>6
  <2>2. n = i + l /\ n <= Len(w)
    BY <1>1, <2>1
  <2>3. /\ SubSeq(w, i + 1, n) \in Seq(Nat) /\ Len(SubSeq(w, i + 1, n)) = l
        /\ \A k \in 1..l : SubSeq(w, i + 1, n)[k] = w[i + k]
    BY ONLY <2>2, PartFacts
  <2> QED BY <2>1, <2>3
<1> HIDE DEF a, b
<1>9. ASSUME NEW k \in 1..l PROVE ToLower(a[k]) = ToLower(b[k])
  <2>1. PICK t \in 1..n : t = (n - l) + k
    BY <1>2, <1>6
  <2>2. (e + t) - n = (e - l) + k
    BY <1>2, <2>1
  <2>3. b[k] = ToLower(a[k])
    BY <1>4, <1>7, <1>8, <2>1, <2>2
  <2>4. a[k] \in Nat
    BY <1>7
  <2> QED BY <2>3, <2>4, LowerNat
<1>10. HashUnigram(a) = HashUnigram(b)
  BY <1>7, <1>8, <1>9, SameUnigram
<1> QED BY <1>1, <1>2, <1>3, <1>5, <1>6, <1>10 DEF HashOf, a, b

\* And so has a fragment of it.
LEMMA FragmentOfSpelt ==
  ASSUME NEW w \in Seq(Nat),
         NEW s \in Strings, NEW e \in Nat, Spelt(s, e, w),
         NEW v \in Strings, NEW d \in Nat, Spelt(v, d, w),
         NEW t \in Nat, 1 <= t, t + 2 <= Len(w)
  PROVE  /\ Fragment(s, (e + t) - Len(w)) = Fragment(v, (d + t) - Len(w))
         /\ (d + t) - Len(w) \in 1..Len(v)
<1>1. PICK n \in Nat : n = Len(w)
  OBVIOUS
<1>2. PICK i \in Int : i = (e + t) - n
  <2>1. (e + t) - n \in Int
    OBVIOUS
  <2> QED BY ONLY <2>1, Zenon
<1>3. PICK j \in Int : j = (d + t) - n
  <2>1. (d + t) - n \in Int
    OBVIOUS
  <2> QED BY ONLY <2>1, Zenon
<1>4. t \in 1..n /\ t + 1 \in 1..n /\ t + 2 \in 1..n
  BY <1>1
<1>5. (e + (t + 1)) - n = i + 1 /\ (e + (t + 2)) - n = i + 2
  BY ONLY <1>2, n \in Nat, e \in Nat, t \in Nat
<1>6. (d + (t + 1)) - n = j + 1 /\ (d + (t + 2)) - n = j + 2
  BY ONLY <1>3, n \in Nat, d \in Nat, t \in Nat
<1>7. /\ i \in 1..Len(s) /\ IsAlnum(s[i]) /\ w[t] = ToLower(s[i])
      /\ i + 1 \in 1..Len(s) /\ IsAlnum(s[i + 1]) /\ w[t + 1] = ToLower(s[i + 1])
      /\ i + 2 \in 1..Len(s) /\ IsAlnum(s[i + 2]) /\ w[t + 2] = ToLower(s[i + 2])
  BY <1>1, <1>2, <1>4, <1>5 DEF Spelt
<1>8. /\ j \in 1..Len(v) /\ IsAlnum(v[j]) /\ w[t] = ToLower(v[j])
      /\ j + 1 \in 1..Len(v) /\ IsAlnum(v[j + 1]) /\ w[t + 1] = ToLower(v[j + 1])
      /\ j + 2 \in 1..Len(v) /\ IsAlnum(v[j + 2]) /\ w[t + 2] = ToLower(v[j + 2])
  BY <1>1, <1>3, <1>4, <1>6 DEF Spelt
<1>9. /\ At(s, i) = s[i] /\ At(s, i + 1) = s[i + 1] /\ At(s, i + 2) = s[i + 2]
      /\ s[i] \in Nat /\ s[i + 1] \in Nat /\ s[i + 2] \in Nat
  BY <1>7, CharFacts
<1>10. /\ At(v, j) = v[j] /\ At(v, j + 1) = v[j + 1] /\ At(v, j + 2) = v[j + 2]
       /\ v[j] \in Nat /\ v[j + 1] \in Nat /\ v[j + 2] \in Nat
  BY <1>8, CharFacts
<1>11. HashTrigram(s[i], s[i + 1], s[i + 2]) = HashTrigram(v[j], v[j + 1], v[j + 2])
  <2>1. PICK a1 \in Nat, a2 \in Nat, a3 \in Nat : a1 = s[i] /\ a2 = s[i + 1] /\ a3 = s[i + 2]
    BY <1>9
  <2>2. PICK b1 \in Nat, b2 \in Nat, b3 \in Nat : b1 = v[j] /\ b2 = v[j + 1] /\ b3 = v[j + 2]
    BY <1>10
  <2>3. /\ IsAlnum(a1) /\ IsAlnum(a2) /\ IsAlnum(a3) /\ IsAlnum(b1) /\ IsAlnum(b2) /\ IsAlnum(b3)
        /\ ToLower(a1) = ToLower(b1) /\ ToLower(a2) = ToLower(b2) /\ ToLower(a3) = ToLower(b3)
    BY <1>7, <1>8, <2>1, <2>2
  <2>4. HashTrigram(a1, a2, a3) = HashTrigram(b1, b2, b3)
    BY ONLY <2>3, SameTrigram
  <2> QED BY <2>1, <2>2, <2>4
<1> QED BY <1>1, <1>2, <1>3, <1>8, <1>9, <1>10, <1>11 DEF Fragment

LEMMA FragmentIsHash == ASSUME NEW s \in Strings, NEW i \in Int PROVE Fragment(s, i) \in Hashes
<1>1. At(s, i) \in Nat /\ At(s, i + 1) \in Nat /\ At(s, i + 2) \in Nat
  BY CharFacts
<1> QED BY <1>1, TrigramIsHash DEF Fragment

-----------------------------------------------------------------------------
(* What is marked for words that follow each other.                         *)

\* h is the hash of the last word that counts, 0 if there is none.
Latest(ws, h) ==
  \/ h = 0 /\ \A m \in 1..Len(ws) : ~Counted(ws[m])
  \/ \E j \in 1..Len(ws) : /\ Counted(ws[j]) /\ h = HashOf(ws[j])
                           /\ \A m \in 1..Len(ws) : m > j => ~Counted(ws[m])
Follows(ws, i, j) ==
  /\ i < j /\ Counted(ws[i]) /\ Counted(ws[j])
  /\ \A m \in 1..Len(ws) : i < m /\ m < j => ~Counted(ws[m])

WordsIn(ws, M) == \A i \in 1..Len(ws) : Counted(ws[i]) => HashOf(ws[i]) \in M
PairsIn(ws, M) ==
  \A i, j \in 1..Len(ws) :
    Follows(ws, i, j) /\ HashOf(ws[i]) # 0 => HashBigram(HashOf(ws[i]), HashOf(ws[j])) \in M
FragmentsIn(s, n, M) == \A i \in 1..n : Fragment(s, i) = 0 \/ Fragment(s, i) \in M

SeqWords == Seq(Seq(Nat))

LEMMA LatestIsHash ==
  ASSUME NEW ws \in SeqWords, NEW h, Latest(ws, h)
  PROVE  h \in Nat
<1>1. \A j \in 1..Len(ws) : ws[j] \in Seq(Nat)
  BY DEF SeqWords
<1>2. \A w \in Seq(Nat) : HashOf(w) \in Nat
  BY HashOfIsHash, HashesNat
<1>3. CASE h = 0
  BY <1>3
<1>4. CASE \E j \in 1..Len(ws) : h = HashOf(ws[j])
  BY <1>1, <1>2, <1>4
<1> QED BY <1>3, <1>4 DEF Latest

LEMMA OneWordMore ==
  ASSUME NEW ws \in SeqWords, NEW w \in Seq(Nat)
  PROVE  /\ Append(ws, w) \in SeqWords /\ Len(ws) \in Nat /\ Len(Append(ws, w)) = Len(ws) + 1
         /\ Append(ws, w)[Len(ws) + 1] = w
         /\ \A i \in 1..Len(ws) : Append(ws, w)[i] = ws[i]
BY DEF SeqWords

LEMMA LatestMore ==
  ASSUME NEW ws \in SeqWords, NEW w \in Seq(Nat), NEW h, Latest(ws, h)
  PROVE  Latest(Append(ws, w), IF Counted(w) THEN HashOf(w) ELSE h)
<1>1. PICK n \in Nat : n = Len(ws)
  BY OneWordMore
<1>2. PICK v \in SeqWords : v = Append(ws, w)
  BY OneWordMore
<1>3. Len(v) = n + 1 /\ v[n + 1] = w /\ \A i \in 1..n : v[i] = ws[i]
  BY <1>1, <1>2, OneWordMore
<1>4. \A m \in 1..(n + 1) : m = n + 1 \/ m \in 1..n
  OBVIOUS
<1>5. CASE Counted(w)
  <2>1. n + 1 \in 1..(n + 1) /\ \A m \in 1..(n + 1) : ~(m > n + 1)
    OBVIOUS
  <2> QED BY <1>2, <1>3, <1>5, <2>1 DEF Latest
<1>6. CASE ~Counted(w)
  <2>1. CASE h = 0 /\ \A m \in 1..n : ~Counted(ws[m])
    BY <1>2, <1>3, <1>4, <1>6, <2>1 DEF Latest
  <2>2. CASE \E j \in 1..n : /\ Counted(ws[j]) /\ h = HashOf(ws[j])
                             /\ \A m \in 1..n : m > j => ~Counted(ws[m])
    <3>1. PICK j \in 1..n : /\ Counted(ws[j]) /\ h = HashOf(ws[j])
                            /\ \A m \in 1..n : m > j => ~Counted(ws[m])
      BY <2>2
    <3>2. j \in 1..(n + 1) /\ v[j] = ws[j]
      BY <1>3
    <3>3. ASSUME NEW m \in 1..(n + 1), m > j PROVE ~Counted(v[m])
      BY <1>3, <1>4, <1>6, <3>1, <3>3
    <3> QED BY <1>2, <1>3, <1>6, <3>1, <3>2, <3>3 DEF Latest
  <2> QED BY <1>1, <2>1, <2>2 DEF Latest
<1> QED BY <1>5, <1>6

\* The next word needs its own mark, and that of the pair it makes.
LEMMA MarksMore ==
  ASSUME NEW ws \in SeqWords, NEW w \in Seq(Nat), NEW h, Latest(ws, h), NEW M, NEW N,
         WordsIn(ws, M), PairsIn(ws, M), M \subseteq N,
         Counted(w) => HashOf(w) \in N /\ (h # 0 => HashBigram(h, HashOf(w)) \in N)
  PROVE  WordsIn(Append(ws, w), N) /\ PairsIn(Append(ws, w), N)
<1>1. PICK n \in Nat : n = Len(ws)
  BY OneWordMore
<1>2. PICK v \in SeqWords : v = Append(ws, w)
  BY OneWordMore
<1>3. Len(v) = n + 1 /\ v[n + 1] = w /\ \A i \in 1..n : v[i] = ws[i]
  BY <1>1, <1>2, OneWordMore
<1>4. \A m \in 1..(n + 1) : m = n + 1 \/ m \in 1..n
  OBVIOUS
<1>5. WordsIn(v, N)
  BY <1>1, <1>3, <1>4 DEF WordsIn
<1>6. ASSUME NEW i \in 1..(n + 1), NEW j \in 1..(n + 1), Follows(v, i, j), HashOf(v[i]) # 0
      PROVE  HashBigram(HashOf(v[i]), HashOf(v[j])) \in N
  <2>1. i < j /\ i \in 1..n
    BY <1>6 DEF Follows
  <2>2. CASE j \in 1..n
    <3>1. Follows(ws, i, j)
      BY <1>1, <1>3, <1>4, <1>6, <2>1, <2>2 DEF Follows
    <3> QED BY <1>1, <1>3, <1>6, <2>1, <2>2, <3>1 DEF PairsIn
  <2>3. CASE j = n + 1
    <3>1. Counted(w) /\ Counted(ws[i])
      BY <1>3, <1>6, <2>1, <2>3 DEF Follows
    <3>2. PICK k \in 1..n : /\ Counted(ws[k]) /\ h = HashOf(ws[k])
                            /\ \A m \in 1..n : m > k => ~Counted(ws[m])
      BY <1>1, <2>1, <3>1 DEF Latest
    <3>3. ~(i > k)
      BY <2>1, <3>1, <3>2
    <3>4. ~(k > i)
      <4>1. k \in 1..(n + 1) /\ v[k] = ws[k] /\ k < j
        BY <1>3, <2>3
      <4> QED BY <1>3, <1>6, <3>2, <4>1 DEF Follows
    <3>5. k = i
      BY <3>3, <3>4
    <3> QED BY <1>3, <1>6, <2>1, <2>3, <3>1, <3>2, <3>5
  <2> QED BY <1>4, <2>2, <2>3
<1> QED BY <1>2, <1>3, <1>5, <1>6 DEF PairsIn

-----------------------------------------------------------------------------
(* The invariant.                                                           *)

\* The cursor in s when k of its characters have been read.
Cursor(s, k) ==
  wlen = Seen(Read(s)[k].word) /\ (wlen > 0 => wstart = p - wlen)

\* While the text is indexed: what was read is marked.  Only at the end of the text
\* its NUL may count as read, when the last word has been dealt with.
TextRead(k) ==
  /\ Cursor(text, k) /\ Latest(Read(text)[k].done, last_whash)
  /\ WordsIn(Read(text)[k].done, marked) /\ PairsIn(Read(text)[k].done, marked)
Marking ==
  /\ p \in 1..(Len(text) + 1) /\ marked \subseteq bits
  /\ FragmentsIn(text, p - 1, marked)
  /\ TextRead(p - 1) \/ (p = Len(text) + 1 /\ TextRead(p))

AllMarked ==
  FragmentsIn(text, Len(text), marked) /\ WordsIn(Words(text), marked) /\ PairsIn(Words(text), marked)

Asking ==
  /\ p \in 1..(Len(query) + 2) /\ Cursor(query, p - 1)
  /\ Quotes => hits = total /\ Latest(Read(query)[p - 1].done, last_whash)

IndexInv ==
  /\ IInv
  /\ text \in Strings /\ query \in Strings /\ total \in Nat /\ hits \in Nat /\ last_whash \in Nat
  /\ IF phase = "mark" THEN query = <<>> /\ Marking ELSE AllMarked
  /\ IF query = <<>> THEN hits = total ELSE phase = "folded" /\ Asking

LEMMA TextsAreStrings == Texts \subseteq Strings /\ Queries \subseteq Strings
BY IndexAssumption DEF IndexAssumption, Strings, Code

LEMMA InitIndex == Init => IndexInv
<1> SUFFICES ASSUME Init PROVE IndexInv
  OBVIOUS
<1>1. IInv /\ phase = "mark" /\ bits = {} /\ marked = {}
  BY BitsetAssumption, InitInvariant DEF Init, BitInit
<1>2. text \in Strings /\ query = <<>> /\ query \in Strings /\ p = 1 /\ wlen = 0 /\ last_whash = 0
      /\ total = 0 /\ hits = 0
  BY TextsAreStrings DEF Init, Strings
<1>3. PICK s \in Strings : s = text
  BY <1>2
<1>4. Read(s)[0].word = <<>> /\ Read(s)[0].done = <<>> /\ Len(s) \in Nat
  BY ReadSteps, CharFacts DEF NoWords
<1>5. Latest(<<>>, 0) /\ WordsIn(<<>>, {}) /\ PairsIn(<<>>, {}) /\ FragmentsIn(s, 0, {})
  BY DEF Latest, WordsIn, PairsIn, FragmentsIn
<1>6. TextRead(p - 1)
  BY <1>1, <1>2, <1>3, <1>4, <1>5, NothingSeen DEF TextRead, Cursor
<1> QED BY <1>1, <1>2, <1>3, <1>4, <1>5, <1>6 DEF IndexInv, Marking

\* One character more: the word goes on, or ends, or there is none.
LEMMA OneChar ==
  ASSUME NEW s \in Strings, NEW k \in 1..(Len(s) + 1),
         NEW w, w = Read(s)[k - 1].word, NEW ws, ws = Read(s)[k - 1].done
  PROVE  /\ w \in Seq(Nat) /\ ws \in SeqWords /\ Spelt(s, k - 1, w)
         /\ IsAlnum(At(s, k)) => /\ Read(s)[k].done = ws
                                 /\ Seen(Read(s)[k].word) = (Seen(w) + 1) % CharMod
         /\ ~IsAlnum(At(s, k)) => /\ Seen(Read(s)[k].word) = 0
                                  /\ Counted(w) => Read(s)[k].done = Append(ws, w)
                                  /\ Read(s)[k].done = ws \/ Read(s)[k].done = Append(ws, w)
<1>1. k - 1 \in 0..(Len(s) + 1)
  BY CharFacts
<1>2. ReadWell(s, k - 1)
  BY <1>1, AllReadWell
<1>3. PICK r \in Reading : r = Read(s)[k - 1]
  BY <1>2 DEF ReadWell
<1>4. PICK c \in Nat : c = At(s, k)
  BY CharFacts
<1>5. Read(s)[k] = ReadOn(r, c)
  BY <1>3, <1>4, ReadSteps
<1>6. w = r.word /\ ws = r.done /\ w \in Seq(Nat) /\ ws \in SeqWords
  BY <1>3 DEF Reading, SeqWords
<1>7. IsAlnum(c) => Read(s)[k].done = ws /\ Read(s)[k].word = Append(w, ToLower(c))
  BY <1>5, <1>6, ReadOnForm
<1>8. ~IsAlnum(c) => /\ Read(s)[k].word = <<>>
                     /\ Read(s)[k].done = IF w = <<>> THEN ws ELSE Append(ws, w)
  BY <1>5, <1>6, ReadOnForm
<1>9. Counted(w) => w # <<>>
  BY NothingSeen DEF Counted
<1>10. Seen(Append(w, ToLower(c))) = (Seen(w) + 1) % CharMod
  BY <1>6, SeenFacts, LowerNat
<1>11. Spelt(s, k - 1, w)
  BY <1>2, <1>3, <1>6 DEF ReadWell
<1> QED BY <1>4, <1>6, <1>7, <1>8, <1>9, <1>10, <1>11, NothingSeen

UnderWay(s, k) == Read(s)[k].word
Done(s, k) == Read(s)[k].done
LEMMA NextDone ==
  ASSUME NEW s \in Strings, NEW k \in 1..(Len(s) + 1)
  PROVE  /\ IsAlnum(At(s, k)) => Done(s, k) = Done(s, k - 1)
         /\ ~IsAlnum(At(s, k)) =>
              \/ Done(s, k) = Append(Done(s, k - 1), UnderWay(s, k - 1))
              \/ Done(s, k) = Done(s, k - 1) /\ ~Counted(UnderWay(s, k - 1))
<1>1. k - 1 \in 0..(Len(s) + 1)
  BY CharFacts
<1>2. PICK r \in Reading : r = Read(s)[k - 1]
  BY <1>1, AllReadWell DEF ReadWell
<1>3. PICK c \in Nat : c = At(s, k)
  BY CharFacts
<1>4. Read(s)[k] = ReadOn(r, c)
  BY <1>2, <1>3, ReadSteps
<1>5. PICK x : x = ReadOn(r, c)
  OBVIOUS
<1>6. PICK d : d = r.done
  OBVIOUS
<1>7. PICK w : w = r.word
  OBVIOUS
<1>8. PICK more : more = Append(d, w)
  OBVIOUS
<1>9. /\ IsAlnum(c) => x.done = d
      /\ ~IsAlnum(c) => x.done = more \/ (x.done = d /\ w = <<>>)
  <2>1. CASE IsAlnum(c)
    BY <1>5, <1>6, <2>1, ReadOnForm
  <2>2. CASE ~IsAlnum(c)
    BY <1>5, <1>6, <1>7, <1>8, <2>2, ReadOnForm
  <2> QED BY <2>1, <2>2
<1>10. w = <<>> => ~Counted(w)
  BY NothingSeen DEF Counted
<1>11. Done(s, k) = x.done /\ Done(s, k - 1) = d /\ UnderWay(s, k - 1) = w
  BY <1>2, <1>4, <1>5, <1>6, <1>7 DEF Done, UnderWay
<1> QED BY <1>3, <1>8, <1>9, <1>10, <1>11

\* What both loops do with the start and the length of a word.
LEMMA CursorOn ==
  ASSUME NEW s \in Strings, p \in 1..(Len(s) + 1), Cursor(s, p - 1), p' = p + 1,
         IF IsAlnum(At(s, p)) THEN ReadChar ELSE wlen' = 0
  PROVE  wlen' = Seen(Read(s)[p].word) /\ (wlen' > 0 => wstart' = p' - wlen')
<1>1. PICK k \in 1..(Len(s) + 1) : k = p
  OBVIOUS
<1>2. k \in Nat
  BY CharFacts
<1>3. PICK w \in Seq(Nat) : w = Read(s)[k - 1].word
  BY OneChar
<1>4. PICK l \in Nat : l = Seen(w) /\ l < CharMod
  BY SeenFacts
<1>5. PICK m \in Nat \ {0} : m = CharMod
  BY IndexAssumption DEF IndexAssumption
<1>6. wlen = l /\ (l > 0 => wstart = k - l)
  BY <1>1, <1>3, <1>4 DEF Cursor
<1>7. CASE IsAlnum(At(s, k))
  <2>1. Seen(Read(s)[k].word) = (l + 1) % m
    BY <1>3, <1>4, <1>5, <1>7, OneChar
  <2>2. wlen' = (l + 1) % m /\ wstart' = IF l = 0 THEN k ELSE k - l
    BY <1>1, <1>5, <1>6, <1>7 DEF ReadChar
  <2>3. (l + 1) % m = 0 \/ (l + 1) % m = l + 1
    <3>1. l + 1 = m \/ l + 1 < m
      BY <1>4, <1>5
    <3>2. (m * 1 + 0) % m = 0 /\ 0 \in 0..(m - 1) /\ m * 1 + 0 = m
      BY Remainder
    <3>3. l + 1 < m => (m * 0 + (l + 1)) % m = l + 1 /\ m * 0 + (l + 1) = l + 1
      <4> SUFFICES ASSUME l + 1 < m PROVE (m * 0 + (l + 1)) % m = l + 1 /\ m * 0 + (l + 1) = l + 1
        OBVIOUS
      <4>1. l + 1 \in 0..(m - 1)
        OBVIOUS
      <4> QED BY <4>1, Remainder
    <3> QED BY <3>1, <3>2, <3>3
  <2> QED BY <1>1, <1>2, <2>1, <2>2, <2>3
<1>8. CASE ~IsAlnum(At(s, k))
  BY <1>1, <1>8, OneChar
<1> QED BY <1>7, <1>8

\* The hash of the word at whose end the cursor stands.
LEMMA WordHash ==
  ASSUME NEW s \in Strings, s = Here, p \in 1..(Len(s) + 1), Cursor(s, p - 1), WordEnds,
         NEW w, w = Read(s)[p - 1].word
  PROVE  /\ w \in Seq(Nat) /\ Counted(w) /\ wlen = Seen(w) /\ wstart = p - wlen
         /\ Spelt(s, p - 1, w) /\ ~IsAlnum(At(s, p))
         /\ whash = HashOf(w) /\ whash \in Hashes
<1>1. PICK k \in 1..(Len(s) + 1) : k = p
  OBVIOUS
<1>2. w \in Seq(Nat) /\ Spelt(s, k - 1, w)
  BY <1>1, OneChar
<1>3. wlen = Seen(w) /\ wlen > 0 /\ wstart = p - wlen /\ ~IsAlnum(At(s, p))
  BY DEF Cursor, WordEnds, InWord, Char
<1>4. PICK e \in Nat : e = k - 1
  BY <1>1
<1>5. Counted(w)
  BY <1>3 DEF Counted
<1>6. HashUnigram(SubSeq(s, (e - Seen(w)) + 1, e)) = HashOf(w)
  BY <1>2, <1>4, <1>5, HashOfSpelt
<1>7. PICK l \in Nat : l = Seen(w)
  BY <1>2, SeenFacts
<1>8. wstart = (e - l) + 1 /\ (wstart + wlen) - 1 = e
  BY <1>1, <1>3, <1>4, <1>7
<1>9. whash = HashUnigram(SubSeq(s, wstart, (wstart + wlen) - 1))
  <2>1. (wstart + wlen) - 1 = wstart + (wlen - 1)
    BY <1>3, <1>7, <1>8
  <2> QED BY <2>1 DEF whash, Word
<1> QED BY <1>1, <1>2, <1>3, <1>5, <1>6, <1>7, <1>8, <1>9, HashOfIsHash

\* What came of one character more, of the hashes that were asked of the words.
LEMMA NextLatest ==
  ASSUME NEW s \in Strings, NEW k \in 1..(Len(s) + 1), NEW h,
         Latest(Read(s)[k - 1].done, h)
  PROVE  Latest(Read(s)[k].done,
                IF ~IsAlnum(At(s, k)) /\ Counted(Read(s)[k - 1].word)
                THEN HashOf(Read(s)[k - 1].word) ELSE h)
<1>1. PICK w : w = Read(s)[k - 1].word
  OBVIOUS
<1>2. PICK ws : ws = Read(s)[k - 1].done
  OBVIOUS
<1>3. w \in Seq(Nat) /\ ws \in SeqWords /\ Latest(ws, h)
  BY <1>1, <1>2, OneChar
<1>4. PICK on : on = Read(s)[k].done
  OBVIOUS
<1>5. PICK more : more = Append(ws, w)
  OBVIOUS
<1>6. Latest(more, IF Counted(w) THEN HashOf(w) ELSE h)
  BY <1>3, <1>5, LatestMore
<1>7. CASE IsAlnum(At(s, k))
  <2>1. on = ws
    BY <1>1, <1>2, <1>4, <1>7, OneChar
  <2> QED BY <1>3, <1>4, <1>7, <2>1
<1>8. CASE ~IsAlnum(At(s, k))
  <2>1. (Counted(w) => on = more) /\ (on = ws \/ on = more)
    <3>1. w = UnderWay(s, k - 1) /\ ws = Done(s, k - 1) /\ on = Done(s, k)
      BY <1>1, <1>2, <1>4 DEF UnderWay, Done
    <3> QED BY <1>5, <1>8, <3>1, NextDone
  <2>2. Latest(on, IF Counted(w) THEN HashOf(w) ELSE h)
    <3>1. CASE Counted(w)
      BY <1>6, <2>1, <3>1
    <3>2. CASE ~Counted(w)
      <4>1. Latest(more, h)
        BY <1>6, <3>2
      <4>2. Latest(on, h)
        BY <1>3, <2>1, <4>1
      <4> QED BY <3>2, <4>2
    <3> QED BY <3>1, <3>2
  <2> QED BY <1>1, <1>4, <1>8, <2>2
<1> QED BY <1>7, <1>8

LEMMA MarksKept ==
  ASSUME NEW M, NEW N, M \subseteq N
  PROVE  /\ \A ws : WordsIn(ws, M) => WordsIn(ws, N)
         /\ \A ws : PairsIn(ws, M) => PairsIn(ws, N)
         /\ \A s, n : FragmentsIn(s, n, M) => FragmentsIn(s, n, N)
BY DEF WordsIn, PairsIn, FragmentsIn

LEMMA NextMarks ==
  ASSUME NEW s \in Strings, NEW k \in 1..(Len(s) + 1), NEW h, NEW M, NEW N, M \subseteq N,
         Latest(Read(s)[k - 1].done, h),
         WordsIn(Read(s)[k - 1].done, M), PairsIn(Read(s)[k - 1].done, M),
         ~IsAlnum(At(s, k)) /\ Counted(Read(s)[k - 1].word) =>
           /\ HashOf(Read(s)[k - 1].word) \in N
           /\ h # 0 => HashBigram(h, HashOf(Read(s)[k - 1].word)) \in N
  PROVE  WordsIn(Read(s)[k].done, N) /\ PairsIn(Read(s)[k].done, N)
<1>1. PICK w : w = Read(s)[k - 1].word
  OBVIOUS
<1>2. PICK ws : ws = Read(s)[k - 1].done
  OBVIOUS
<1>3. w \in Seq(Nat) /\ ws \in SeqWords /\ Latest(ws, h) /\ WordsIn(ws, M) /\ PairsIn(ws, M)
  BY <1>1, <1>2, OneChar
<1>4. PICK on : on = Read(s)[k].done
  OBVIOUS
<1>5. PICK more : more = Append(ws, w)
  OBVIOUS
<1>6. WordsIn(ws, N) /\ PairsIn(ws, N)
  BY <1>3, MarksKept
<1>7. on = ws \/ (on = more /\ ~IsAlnum(At(s, k)))
  <2>1. w = UnderWay(s, k - 1) /\ ws = Done(s, k - 1) /\ on = Done(s, k)
    BY <1>1, <1>2, <1>4 DEF UnderWay, Done
  <2> QED BY <1>5, <2>1, NextDone
<1>8. CASE on = ws
  BY <1>4, <1>6, <1>8
<1>9. CASE on = more /\ ~IsAlnum(At(s, k))
  <2>1. Counted(w) => HashOf(w) \in N /\ (h # 0 => HashBigram(h, HashOf(w)) \in N)
    BY <1>1, <1>9
  <2>2. WordsIn(more, N) /\ PairsIn(more, N)
    BY <1>3, <1>5, <2>1, MarksMore
  <2> QED BY <1>4, <1>9, <2>2
<1> QED BY <1>7, <1>8, <1>9

-----------------------------------------------------------------------------
(* The steps of the indexer.                                                *)

LEMMA MarkAllIsMark ==
  ASSUME IInv, marked \subseteq bits, NEW H \in SUBSET Hashes, MarkAll(H)
  PROVE  /\ MarkSome /\ IInv' /\ phase = "mark" /\ phase' = "mark"
         /\ marked' = marked \cup H /\ marked' \subseteq bits'
<1>1. /\ phase = "mark" /\ phase' = phase /\ z' = z
      /\ bits' = bits \cup H /\ marked' = marked \cup H
  BY DEF MarkAll
<1>2. marked \subseteq Hashes
  BY DEF IInv, BitTypeOK
<1>3. marked' \in SUBSET Hashes /\ bits' = bits \cup marked'
  BY <1>1, <1>2
<1>4. MarkSome
  BY <1>1, <1>3 DEF MarkSome
<1>5. IInv'
  BY <1>4, MarkInvariant, BitsetAssumption
<1> QED BY <1>1, <1>4, <1>5

\* What IndexInv says while the text is indexed.
LEMMA MarkingFacts ==
  ASSUME IndexInv, phase = "mark", NEW s, s = text
  PROVE  /\ IInv /\ s \in Strings /\ query = <<>> /\ Here = s /\ Char = At(s, p)
         /\ Marking /\ hits = total
BY DEF IndexInv, Here, Char

LEMMA BackInMark ==
  ASSUME NEW s \in Strings, s = text, text' = text, query = <<>>, query' = query,
         total' = total, hits' = hits, hits = total, total \in Nat,
         last_whash' \in Nat, IInv', phase' = "mark", Marking'
  PROVE  IndexInv'
<1>1. query \in Strings
  BY DEF Strings
<1> QED BY <1>1 DEF IndexInv

LEMMA IndexCharStep ==
  ASSUME IndexInv, IndexChar
  PROVE  IndexInv' /\ [BitNext]_bitVars
<1>1. PICK s : s = text
  OBVIOUS
<1>2. /\ phase = "mark" /\ IInv /\ s \in Strings /\ query = <<>> /\ Here = s /\ Char = At(s, p)
      /\ Marking /\ hits = total
  BY <1>1, MarkingFacts DEF IndexChar
<1>3. PICK k : k = p /\ k \in 1..(Len(s) + 1)
  BY <1>1, <1>2 DEF Marking
<1>4. k \in 1..Len(s) /\ k \in Nat /\ k # Len(s) + 1 /\ Len(s) \in Nat
  <2>1. At(s, k) # 0
    BY <1>2, <1>3 DEF IndexChar
  <2>2. Len(s) \in Nat /\ k \in Int
    BY <1>2, <1>3, CharFacts
  <2>3. 1 <= k /\ k <= Len(s)
    BY <1>2, <2>1, <2>2, CharFacts
  <2>4. PICK l \in Nat : l = Len(s)
    BY <2>2
  <2> QED BY <2>2, <2>3, <2>4
<1>5. TextRead(k - 1) /\ marked \subseteq bits /\ FragmentsIn(s, k - 1, marked)
  BY <1>1, <1>2, <1>3, <1>4 DEF Marking
<1>6. PICK w : w = Read(s)[k - 1].word
  OBVIOUS
<1>7. PICK ws : ws = Read(s)[k - 1].done
  OBVIOUS
<1>8. /\ Cursor(s, k - 1) /\ w \in Seq(Nat) /\ wlen = Seen(w) /\ Seen(w) \in Nat
      /\ Latest(ws, last_whash) /\ WordsIn(ws, marked) /\ PairsIn(ws, marked)
  <2>1. Cursor(s, k - 1) /\ Latest(ws, last_whash) /\ WordsIn(ws, marked) /\ PairsIn(ws, marked)
    BY <1>1, <1>5, <1>7 DEF TextRead
  <2>2. w \in Seq(Nat)
    BY <1>2, <1>3, <1>6, OneChar
  <2>3. wlen = Seen(w)
    BY <1>6, <2>1 DEF Cursor
  <2> QED BY <2>1, <2>2, <2>3, SeenFacts
<1>9. WordEnds => whash = HashOf(w) /\ whash \in Hashes
  BY <1>2, <1>3, <1>6, <1>8, WordHash
<1>10. WordEnds <=> ~IsAlnum(At(s, k)) /\ Counted(w)
  BY <1>2, <1>3, <1>8 DEF WordEnds, InWord, Counted
<1>11. PICK F : F = Fragments
  OBVIOUS
<1>12. F \subseteq Hashes /\ (Fragment(s, k) = 0 \/ Fragment(s, k) \in F)
  <2>1. Fragment(s, k) \in Hashes
    BY <1>2, <1>4, FragmentIsHash
  <2> QED BY <1>1, <1>3, <1>11, <2>1 DEF Fragments
<1>13. last_whash \in Nat
  BY DEF IndexInv
<1>14. PICK B : B = Bigrams
  OBVIOUS
<1>15. WordEnds => /\ B \subseteq Hashes
                   /\ last_whash # 0 => HashBigram(last_whash, HashOf(w)) \in B
  <2> SUFFICES ASSUME WordEnds PROVE /\ B \subseteq Hashes
                                     /\ last_whash # 0 => HashBigram(last_whash, HashOf(w)) \in B
    OBVIOUS
  <2>1. PICK g \in Nat : g = whash
    BY <1>9, HashesNat
  <2>2. HashBigram(last_whash, g) \in Hashes
    BY <1>13, BigramIsHash
  <2> QED BY <1>9, <1>14, <2>1, <2>2 DEF Bigrams
<1>16. PICK H : H = (IF WordEnds THEN {whash} \cup B ELSE {}) \cup F
  OBVIOUS
<1>17. H \in SUBSET Hashes /\ MarkAll(H)
  <2>1. H \in SUBSET Hashes
    BY <1>9, <1>12, <1>15, <1>16
  <2> QED BY <2>1, <1>11, <1>14, <1>16 DEF IndexChar
<1>18. /\ MarkSome /\ IInv' /\ phase' = "mark" /\ marked' = marked \cup H /\ marked' \subseteq bits'
  BY <1>2, <1>5, <1>17, MarkAllIsMark
<1>19. /\ p' = k + 1 /\ text' = text /\ query' = query /\ total' = total /\ hits' = hits
  BY <1>3 DEF IndexChar
<1>20. wlen' = Seen(Read(s)[k].word) /\ (wlen' > 0 => wstart' = p' - wlen')
  <2>1. IF IsAlnum(At(s, p)) THEN ReadChar ELSE wlen' = 0
    <3>1. CASE IsAlnum(At(s, p))
      BY <1>2, <3>1 DEF IndexChar, InWord
    <3>2. CASE ~IsAlnum(At(s, p))
      <4>1. ~InWord
        BY <1>2, <3>2 DEF InWord
      <4>2. CASE WordEnds
        BY <3>2, <4>1, <4>2 DEF IndexChar
      <4>3. CASE ~WordEnds
        <5>1. wlen' = wlen
          BY <4>1, <4>3 DEF IndexChar
        <5>2. ~(wlen > 0) /\ wlen \in Nat
          BY <1>8, <4>1, <4>3 DEF WordEnds
        <5> QED BY <3>2, <5>1, <5>2
      <4> QED BY <4>2, <4>3
    <3> QED BY <3>1, <3>2
  <2> QED BY <1>2, <1>3, <1>8, <1>19, <2>1, CursorOn
<1>21. last_whash' = IF ~IsAlnum(At(s, k)) /\ Counted(w) THEN HashOf(w) ELSE last_whash
  <2>1. CASE InWord
    BY <1>2, <1>3, <2>1 DEF IndexChar, InWord, ReadChar
  <2>2. CASE ~InWord
    BY <1>9, <1>10, <2>2 DEF IndexChar, WordEnds
  <2> QED BY <2>1, <2>2
<1>22. last_whash' \in Nat
  BY <1>8, <1>13, <1>21, HashOfIsHash, HashesNat
<1>23. Latest(Read(s)[k].done, last_whash')
  BY <1>2, <1>3, <1>6, <1>7, <1>8, <1>21, NextLatest
<1>24. WordsIn(Read(s)[k].done, marked') /\ PairsIn(Read(s)[k].done, marked')
  <2>1. PICK h : h = last_whash
    OBVIOUS
  <2>2. PICK M : M = marked
    OBVIOUS
  <2>3. PICK N : N = marked'
    OBVIOUS
  <2>4. M \subseteq N
    BY <1>18, <2>2, <2>3
  <2>5. ~IsAlnum(At(s, k)) /\ Counted(w) => HashOf(w) \in N /\ (h # 0 => HashBigram(h, HashOf(w)) \in N)
    BY <1>9, <1>10, <1>15, <1>16, <1>18, <2>1, <2>3
  <2>6. Latest(ws, h) /\ WordsIn(ws, M) /\ PairsIn(ws, M)
    BY <1>8, <2>1, <2>2
  <2> QED BY <1>2, <1>3, <1>6, <1>7, <2>3, <2>4, <2>5, <2>6, NextMarks
<1>25. FragmentsIn(s, k, marked')
  <2>1. ASSUME NEW i \in 1..k PROVE Fragment(s, i) = 0 \/ Fragment(s, i) \in marked'
    <3>1. CASE i = k
      BY <1>12, <1>16, <1>18, <3>1
    <3>2. CASE i # k
      <4>1. i \in 1..(k - 1)
        BY <1>4, <3>2
      <4> QED BY <1>5, <1>18, <4>1 DEF FragmentsIn
    <3> QED BY <3>1, <3>2
  <2> QED BY <2>1 DEF FragmentsIn
<1>26. Marking'
  <2>1. TextRead(k)'
    BY <1>1, <1>19, <1>20, <1>23, <1>24 DEF TextRead, Cursor
  <2>2. p' - 1 = k /\ p' \in 1..(Len(s) + 1)
    BY <1>4, <1>19
  <2> QED BY <1>1, <1>18, <1>19, <1>25, <2>1, <2>2 DEF Marking
<1>27. IndexInv'
  <2>1. total \in Nat
    BY DEF IndexInv
  <2> QED BY <1>1, <1>2, <1>18, <1>19, <1>22, <1>26, <2>1, BackInMark
<1> QED BY <1>18, <1>27 DEF BitNext

\* At the NUL, unless the last word has been dealt with, nothing but that word is left.
LEMMA AtTheEnd ==
  ASSUME IndexInv, phase = "mark", Char = 0
  PROVE  /\ p = Len(text) + 1 /\ Len(text) \in Nat /\ text \in Strings /\ At(text, p) = 0
         /\ ~IsAlnum(At(text, p)) /\ (WordEnds <=> wlen > 0) /\ wlen \in Nat
         /\ wlen > 0 => TextRead(p - 1)
<1>1. PICK s : s = text
  OBVIOUS
<1>2. /\ IInv /\ s \in Strings /\ query = <<>> /\ Here = s /\ Char = At(s, p) /\ Marking
  BY <1>1, MarkingFacts
<1>3. PICK l \in Nat : l = Len(s)
  BY <1>2, CharFacts
<1>4. p \in 1..(l + 1)
  BY <1>1, <1>2, <1>3 DEF Marking
<1>5. At(s, p) = 0 /\ ~IsAlnum(At(s, p))
  BY <1>2, CharFacts
<1>6. p = l + 1
  <2>1. p \in Int /\ ~(1 <= p /\ p <= l)
    BY <1>2, <1>3, <1>4, <1>5, CharFacts
  <2> QED BY <1>4, <2>1
<1>7. PICK k \in 1..(Len(s) + 1) : k = p
  BY <1>3, <1>4
<1>8. TextRead(p - 1) \/ TextRead(p)
  BY <1>2 DEF Marking
<1>9. ASSUME TextRead(p - 1) PROVE wlen \in Nat
  <2>1. wlen = Seen(Read(s)[k - 1].word)
    BY <1>1, <1>7, <1>9 DEF TextRead, Cursor
  <2>2. PICK w \in Seq(Nat) : w = Read(s)[k - 1].word
    BY <1>2, OneChar
  <2> QED BY <2>1, <2>2, SeenFacts
<1>10. ASSUME TextRead(p) PROVE wlen = 0
  <2>1. wlen = Seen(Read(s)[k].word)
    BY <1>1, <1>7, <1>10 DEF TextRead, Cursor
  <2> QED BY <1>2, <1>5, <1>7, <2>1, OneChar
<1>11. WordEnds <=> wlen > 0
  BY <1>2, <1>5 DEF WordEnds, InWord
<1> QED BY <1>1, <1>2, <1>3, <1>5, <1>6, <1>8, <1>9, <1>10, <1>11

LEMMA IndexLastStep ==
  ASSUME IndexInv, IndexLast
  PROVE  IndexInv' /\ [BitNext]_bitVars
<1>1. PICK s : s = text
  OBVIOUS
<1>2. /\ phase = "mark" /\ IInv /\ s \in Strings /\ query = <<>> /\ Here = s /\ Char = At(s, p)
      /\ Marking /\ hits = total /\ WordEnds /\ Char = 0
  BY <1>1, MarkingFacts DEF IndexLast
<1>3. /\ p = Len(s) + 1 /\ Len(s) \in Nat /\ ~IsAlnum(At(s, p)) /\ TextRead(p - 1)
  BY <1>1, <1>2, AtTheEnd
<1>4. PICK k : k = p /\ k \in 1..(Len(s) + 1) /\ k \in Nat
  BY <1>3
<1>5. TextRead(k - 1) /\ marked \subseteq bits /\ FragmentsIn(s, k - 1, marked)
  BY <1>1, <1>2, <1>3, <1>4 DEF Marking
<1>6. PICK w : w = Read(s)[k - 1].word
  OBVIOUS
<1>7. PICK ws : ws = Read(s)[k - 1].done
  OBVIOUS
<1>8. /\ Cursor(s, k - 1) /\ w \in Seq(Nat)
      /\ Latest(ws, last_whash) /\ WordsIn(ws, marked) /\ PairsIn(ws, marked)
  <2>1. Cursor(s, k - 1) /\ Latest(ws, last_whash) /\ WordsIn(ws, marked) /\ PairsIn(ws, marked)
    BY <1>1, <1>5, <1>7 DEF TextRead
  <2>2. w \in Seq(Nat)
    BY <1>2, <1>4, <1>6, OneChar
  <2> QED BY <2>1, <2>2
<1>9. whash = HashOf(w) /\ whash \in Hashes /\ Counted(w) /\ ~IsAlnum(At(s, k))
  BY <1>2, <1>4, <1>6, <1>8, WordHash
<1>13. last_whash \in Nat
  BY DEF IndexInv
<1>14. PICK B : B = Bigrams
  OBVIOUS
<1>15. B \subseteq Hashes /\ (last_whash # 0 => HashBigram(last_whash, HashOf(w)) \in B)
  <2>1. PICK g \in Nat : g = whash
    BY <1>9, HashesNat
  <2>2. HashBigram(last_whash, g) \in Hashes
    BY <1>13, BigramIsHash
  <2> QED BY <1>9, <1>14, <2>1, <2>2 DEF Bigrams
<1>16. PICK H : H = {whash} \cup B
  OBVIOUS
<1>17. H \in SUBSET Hashes /\ MarkAll(H)
  <2>1. H \in SUBSET Hashes
    BY <1>9, <1>15, <1>16
  <2> QED BY <2>1, <1>14, <1>16 DEF IndexLast
<1>18. /\ MarkSome /\ IInv' /\ phase' = "mark" /\ marked' = marked \cup H /\ marked' \subseteq bits'
  BY <1>2, <1>5, <1>17, MarkAllIsMark
<1>19. /\ p' = p /\ text' = text /\ query' = query /\ total' = total /\ hits' = hits
       /\ wlen' = 0 /\ last_whash' = whash
  BY DEF IndexLast
<1>20. wlen' = Seen(Read(s)[k].word)
  BY <1>2, <1>4, <1>9, <1>19, OneChar
<1>22. last_whash' \in Nat /\ last_whash' = HashOf(w)
  BY <1>9, <1>19, HashesNat
<1>23. Latest(Read(s)[k].done, last_whash')
  BY <1>2, <1>4, <1>6, <1>7, <1>8, <1>9, <1>22, NextLatest
<1>24. WordsIn(Read(s)[k].done, marked') /\ PairsIn(Read(s)[k].done, marked')
  <2>1. PICK h : h = last_whash
    OBVIOUS
  <2>2. PICK M : M = marked
    OBVIOUS
  <2>3. PICK N : N = marked'
    OBVIOUS
  <2>4. M \subseteq N
    BY <1>18, <2>2, <2>3
  <2>5. HashOf(w) \in N /\ (h # 0 => HashBigram(h, HashOf(w)) \in N)
    BY <1>9, <1>15, <1>16, <1>18, <2>1, <2>3
  <2>6. Latest(ws, h) /\ WordsIn(ws, M) /\ PairsIn(ws, M)
    BY <1>8, <2>1, <2>2
  <2> QED BY <1>2, <1>4, <1>6, <1>7, <2>3, <2>4, <2>5, <2>6, NextMarks
<1>25. FragmentsIn(s, k - 1, marked')
  BY <1>5, <1>18, MarksKept
<1>26. Marking'
  <2>1. TextRead(k)'
    BY <1>1, <1>19, <1>20, <1>23, <1>24 DEF TextRead, Cursor
  <2> QED BY <1>1, <1>3, <1>4, <1>18, <1>19, <1>25, <2>1 DEF Marking
<1>27. IndexInv'
  <2>1. total \in Nat
    BY DEF IndexInv
  <2> QED BY <1>1, <1>2, <1>18, <1>19, <1>22, <1>26, <2>1, BackInMark
<1> QED BY <1>18, <1>27 DEF BitNext

LEMMA IndexedStep ==
  ASSUME IndexInv, Indexed
  PROVE  IndexInv' /\ [BitNext]_bitVars
<1>1. PICK s : s = text
  OBVIOUS
<1>2. /\ phase = "mark" /\ IInv /\ s \in Strings /\ query = <<>> /\ Marking /\ hits = total
      /\ ~WordEnds /\ Char = 0 /\ Marked
  BY <1>1, MarkingFacts DEF Indexed, Marked
<1>3. /\ p = Len(s) + 1 /\ Len(s) \in Nat /\ ~IsAlnum(At(s, p)) /\ wlen = 0
  BY <1>1, <1>2, AtTheEnd
<1>4. PICK k : k = p /\ k \in 1..(Len(s) + 1) /\ k = Len(s) + 1 /\ k - 1 = Len(s)
  BY <1>3
<1>5. WordsIn(Read(s)[k].done, marked) /\ PairsIn(Read(s)[k].done, marked)
  <2>1. CASE TextRead(p)
    BY <1>1, <1>4, <2>1 DEF TextRead
  <2>2. CASE TextRead(p - 1)
    <3>1. PICK w : w = Read(s)[k - 1].word
      OBVIOUS
    <3>2. PICK ws : ws = Read(s)[k - 1].done
      OBVIOUS
    <3>3. /\ wlen = Seen(w) /\ Latest(ws, last_whash) /\ WordsIn(ws, marked) /\ PairsIn(ws, marked)
      BY <1>1, <1>4, <2>2, <3>1, <3>2 DEF TextRead, Cursor
    <3>4. ~Counted(w)
      BY <1>3, <3>3 DEF Counted
    <3>5. PICK h : h = last_whash
      OBVIOUS
    <3>6. PICK M : M = marked
      OBVIOUS
    <3>7. Latest(ws, h) /\ WordsIn(ws, M) /\ PairsIn(ws, M)
      BY <3>3, <3>5, <3>6
    <3> QED BY <1>2, <1>4, <3>1, <3>2, <3>4, <3>6, <3>7, NextMarks
  <2> QED BY <1>2, <2>1, <2>2 DEF Marking
<1>6. AllMarked
  <2>1. Words(s) = Read(s)[k].done
    BY <1>2, <1>4, ReadSteps
  <2>2. FragmentsIn(s, Len(s), marked)
    BY <1>1, <1>2, <1>4 DEF Marking
  <2> QED BY <1>1, <1>5, <2>1, <2>2 DEF AllMarked
<1>7. /\ phase' = "fold" /\ marked' = marked /\ text' = text /\ query' = query /\ total' = total
      /\ hits' = hits /\ last_whash' = last_whash
  BY DEF Indexed, Marked
<1>8. [BitNext]_bitVars
  BY <1>2 DEF BitNext
<1>9. IInv'
  BY <1>2, <1>8, StepInvariant, BitsetAssumption
<1>10. AllMarked'
  BY <1>6, <1>7 DEF AllMarked
<1> QED BY <1>2, <1>7, <1>8, <1>9, <1>10 DEF IndexInv

LEMMA FoldStep ==
  ASSUME IndexInv, FoldIndex
  PROVE  IndexInv' /\ [BitNext]_bitVars
<1>1. /\ phase = "fold" /\ phase' # "mark" /\ marked' = marked /\ text' = text /\ query' = query
      /\ total' = total /\ hits' = hits /\ last_whash' = last_whash
  BY DEF FoldIndex, Fold, Folded
<1>2. [BitNext]_bitVars
  BY DEF FoldIndex, BitNext
<1>3. IInv'
  BY <1>2, StepInvariant, BitsetAssumption DEF IndexInv
<1>4. AllMarked'
  BY <1>1 DEF IndexInv, AllMarked
<1> QED BY <1>1, <1>2, <1>3, <1>4 DEF IndexInv

-----------------------------------------------------------------------------
(* The steps of the search.                                                 *)

LEMMA AskStep ==
  ASSUME IndexInv, NEW q \in Queries, Ask(q)
  PROVE  IndexInv' /\ [BitNext]_bitVars
<1>1. /\ phase = "folded" /\ query = <<>> /\ query' = q /\ p' = 1 /\ wlen' = 0 /\ last_whash' = 0
      /\ phase' = phase /\ bits' = bits /\ z' = z /\ marked' = marked /\ UNCHANGED bitVars
      /\ text' = text /\ total' = total /\ hits' = hits
  BY DEF Ask, bitVars
<1>2. q \in Strings
  BY TextsAreStrings
<1>3. IInv'
  BY <1>1, StepInvariant, BitsetAssumption DEF IndexInv
<1>4. AllMarked'
  BY <1>1 DEF IndexInv, AllMarked
<1>5. Read(q)[0].word = <<>> /\ Read(q)[0].done = <<>> /\ Len(q) \in Nat
  BY <1>2, ReadSteps, CharFacts DEF NoWords
<1>6. hits = total
  BY <1>1 DEF IndexInv
<1>7. Latest(<<>>, 0)
  BY DEF Latest
<1>8. Asking'
  <2>1. Cursor(query, 0)'
    BY <1>1, <1>5, NothingSeen DEF Cursor
  <2>2. 1 \in 1..(Len(q) + 2)
    BY <1>5
  <2>3. 1 - 1 = 0
    OBVIOUS
  <2> QED BY <1>1, <1>5, <1>6, <1>7, <2>1, <2>2, <2>3 DEF Asking
<1>9. /\ text \in Strings /\ total \in Nat /\ hits \in Nat
  BY DEF IndexInv
<1> QED BY <1>1, <1>2, <1>3, <1>4, <1>6, <1>8, <1>9 DEF IndexInv

\* The words of a text, and where each stands.
LEMMA AllWords ==
  ASSUME NEW s \in Strings
  PROVE  /\ Words(s) \in SeqWords
         /\ \A i \in 1..Len(Words(s)) : \E e \in Nat : Spelt(s, e, Words(s)[i])
<1>1. PICK k \in 0..(Len(s) + 1) : k = Len(s) + 1
  <2>1. Len(s) \in Nat
    BY CharFacts
  <2> QED BY <2>1
<1>2. ReadWell(s, k) /\ Words(s) = Read(s)[k].done
  BY <1>1, AllReadWell, ReadSteps
<1>3. PICK r \in Reading : r = Read(s)[k]
  BY <1>2 DEF ReadWell
<1>4. Words(s) = r.done /\ r.done \in SeqWords
  BY <1>2, <1>3 DEF Reading, SeqWords
<1> QED BY <1>2, <1>4 DEF ReadWell

\* In a quotation, the next word and its pair were marked, and the text spells it.
LEMMA QuotedWord ==
  ASSUME NEW s \in Strings, NEW v \in Strings, NEW M,
         WordsIn(Words(s), M), PairsIn(Words(s), M),
         NEW x \in DOMAIN Words(s), NEW y \in DOMAIN Words(s), Words(v) = SubSeq(Words(s), x, y),
         NEW k \in 1..(Len(v) + 1), ~IsAlnum(At(v, k)),
         NEW w, w = Read(v)[k - 1].word, Counted(w),
         NEW h, Latest(Read(v)[k - 1].done, h)
  PROVE  /\ HashOf(w) \in M /\ (h # 0 => HashBigram(h, HashOf(w)) \in M)
         /\ \E e \in Nat : Spelt(s, e, w)
<1>1. PICK ws : ws = Read(v)[k - 1].done
  OBVIOUS
<1>2. w \in Seq(Nat) /\ ws \in SeqWords /\ Latest(ws, h)
  BY <1>1, OneChar
<1>3. PICK more : more = Append(ws, w)
  OBVIOUS
<1>4. Read(v)[k].done = more
  <2>1. w = UnderWay(v, k - 1) /\ ws = Done(v, k - 1) /\ Read(v)[k].done = Done(v, k)
    BY <1>1 DEF UnderWay, Done
  <2> QED BY <1>3, <2>1, NextDone
<1>5. PICK all \in SeqWords : all = Words(s)
  BY AllWords
<1>6. PICK asked \in SeqWords : asked = Words(v)
  BY AllWords
<1>7. PICK n \in Nat : n = Len(ws)
  BY <1>2, OneWordMore
<1>8. Len(more) = n + 1 /\ more[n + 1] = w /\ \A i \in 1..n : more[i] = ws[i]
  BY <1>2, <1>3, <1>7, OneWordMore
<1>9. n + 1 <= Len(asked) /\ \A i \in 1..(n + 1) : asked[i] = more[i]
  <2>1. k \in 0..(Len(v) + 1)
    BY CharFacts
  <2>2. Starts(more, asked)
    BY <1>4, <1>6, <2>1, ReadStarts
  <2> QED BY <1>8, <2>2 DEF Starts
<1>10. PICK l \in Nat : l = Len(all)
  BY DEF SeqWords
<1>11. x \in 1..l /\ y \in 1..l /\ asked = SubSeq(all, x, y)
  BY <1>5, <1>6, <1>10 DEF SeqWords
<1>12. n + 1 <= (y - x) + 1 /\ \A i \in 1..(n + 1) : asked[i] = all[(x + i) - 1]
  <2>1. asked = [i \in 1..((y - x) + 1) |-> all[(x + i) - 1]]
    BY <1>11
  <2>2. PICK c \in Nat : c = Len(asked)
    BY DEF SeqWords
  <2>3. DOMAIN asked = 1..c
    BY <2>2 DEF SeqWords
  <2>4. n + 1 \in 1..c
    BY <1>9, <2>2
  <2>5. n + 1 \in 1..((y - x) + 1)
    BY <2>1, <2>3, <2>4
  <2>6. \A i \in 1..(n + 1) : i \in 1..((y - x) + 1)
    BY <1>11, <2>5
  <2> QED BY <1>11, <2>1, <2>5, <2>6
<1>13. PICK j : j = x + n
  OBVIOUS
<1>14. j \in 1..l /\ all[j] = w
  <2>1. j \in 1..l /\ (x + (n + 1)) - 1 = j /\ n + 1 \in 1..(n + 1)
    BY <1>11, <1>12, <1>13
  <2> QED BY <1>8, <1>9, <1>12, <2>1
<1>15. \A i \in 1..n : all[(x + i) - 1] = ws[i]
  BY <1>8, <1>9, <1>12
<1>16. HashOf(w) \in M
  BY <1>5, <1>10, <1>14 DEF WordsIn
<1>17. \E e \in Nat : Spelt(s, e, w)
  BY <1>5, <1>10, <1>14, AllWords
<1>18. ASSUME h # 0 PROVE HashBigram(h, HashOf(w)) \in M
  <2>1. PICK i \in 1..n : /\ Counted(ws[i]) /\ h = HashOf(ws[i])
                          /\ \A m \in 1..n : m > i => ~Counted(ws[m])
    BY <1>2, <1>7, <1>18 DEF Latest
  <2>2. PICK g : g = (x + i) - 1
    OBVIOUS
  <2>3. g \in 1..l /\ g < j /\ all[g] = ws[i]
    BY <1>11, <1>13, <1>14, <1>15, <2>2
  <2>4. ASSUME NEW m \in 1..l, g < m, m < j PROVE ~Counted(all[m])
    <3>1. PICK t : t = (m - x) + 1
      OBVIOUS
    <3>2. t \in 1..n /\ t > i /\ m = (x + t) - 1
      BY <1>11, <1>13, <2>2, <2>4, <3>1
    <3> QED BY <1>15, <2>1, <3>2
  <2>5. Follows(all, g, j)
    BY <1>10, <1>14, <2>1, <2>3, <2>4 DEF Follows
  <2>6. HashOf(all[g]) = h /\ HashOf(all[j]) = HashOf(w)
    BY <1>14, <2>1, <2>3
  <2> QED BY <1>5, <1>10, <1>14, <1>18, <2>3, <2>5, <2>6 DEF PairsIn
<1> QED BY <1>16, <1>17, <1>18

\* A word that the text spells is found, if its hash and the fragments were marked.
LEMMA WordFound ==
  ASSUME NEW s \in Strings, NEW v \in Strings, v = query,
         FragmentsIn(s, Len(s), marked), MarkedIsFound,
         NEW e \in Nat, NEW d \in Nat, NEW w \in Seq(Nat), Spelt(s, e, w), Spelt(v, d, w),
         whash \in marked, wlen = Seen(w), wstart = (d + 1) - wlen
  PROVE  Found
<1>1. TestBit(whash)
  BY DEF MarkedIsFound
<1>2. PICK l \in Nat : l = Seen(w) /\ l <= Len(w)
  BY SeenFacts
<1>3. PICK n \in Nat : n = Len(w)
  OBVIOUS
<1>4. ASSUME NEW i \in wstart..(wstart + wlen - 3)
      PROVE  Fragment(v, i) = 0 \/ TestBit(Fragment(v, i))
  <2>1. i \in Int /\ (d + 1) - l <= i /\ i <= d - 2
    BY <1>2, <1>4
  <2>2. PICK t : t = (i - d) + n
    OBVIOUS
  <2>3. t \in Nat /\ 1 <= t /\ t + 2 <= n /\ (d + t) - n = i
    <3>1. l <= n
      BY <1>2, <1>3
    <3> QED BY ONLY <2>1, <2>2, <3>1, d \in Nat, l \in Nat, n \in Nat
  <2>4. PICK g : g = (e + t) - n
    OBVIOUS
  <2>5. Fragment(v, i) = Fragment(s, g) /\ g \in 1..Len(s)
    <3>1. /\ Fragment(v, (d + t) - Len(w)) = Fragment(s, (e + t) - Len(w))
          /\ (e + t) - Len(w) \in 1..Len(s)
      BY <1>3, <2>3, FragmentOfSpelt
    <3> QED BY <1>3, <2>3, <2>4, <3>1
  <2> QED BY <2>5 DEF FragmentsIn, MarkedIsFound
<1> QED BY <1>1, <1>4 DEF Found

LEMMA SearchStep ==
  ASSUME IndexInv, SearchChar
  PROVE  IndexInv' /\ [BitNext]_bitVars
<1>1. PICK s : s = text
  OBVIOUS
<1>2. PICK v : v = query
  OBVIOUS
<1>3. /\ IInv /\ s \in Strings /\ v \in Strings /\ v # <<>> /\ phase = "folded" /\ Asking /\ AllMarked
      /\ total \in Nat /\ hits \in Nat /\ last_whash \in Nat
  BY <1>1, <1>2 DEF IndexInv, SearchChar
<1>4. Here = v /\ Char = At(v, p)
  BY <1>2, <1>3 DEF Here, Char
<1>5. PICK k : k = p /\ k \in 1..(Len(v) + 1) /\ k \in Nat /\ Len(v) \in Nat
  <2>1. Len(v) \in Nat
    BY <1>3, CharFacts
  <2> QED BY <1>2, <1>3, <2>1 DEF Asking, SearchChar
<1>6. PICK w : w = Read(v)[k - 1].word
  OBVIOUS
<1>7. PICK ws : ws = Read(v)[k - 1].done
  OBVIOUS
<1>8. /\ Cursor(v, k - 1) /\ w \in Seq(Nat) /\ wlen = Seen(w) /\ Seen(w) \in Nat
      /\ (Quotes => hits = total /\ Latest(ws, last_whash))
  <2>1. Cursor(v, k - 1) /\ (Quotes => hits = total /\ Latest(ws, last_whash))
    BY <1>2, <1>3, <1>5, <1>7 DEF Asking
  <2>2. w \in Seq(Nat)
    BY <1>3, <1>5, <1>6, OneChar
  <2>3. wlen = Seen(w)
    BY <1>6, <2>1 DEF Cursor
  <2> QED BY <2>1, <2>2, <2>3, SeenFacts
<1>9. WordEnds <=> ~IsAlnum(At(v, k)) /\ Counted(w)
  BY <1>4, <1>5, <1>8 DEF WordEnds, InWord, Counted
<1>10. WordEnds => /\ whash = HashOf(w) /\ whash \in Hashes /\ wstart = k - wlen /\ Spelt(v, k - 1, w)
  BY <1>3, <1>4, <1>5, <1>6, <1>8, WordHash
<1>11. /\ p' = k + 1 /\ text' = text /\ query' = query
       /\ phase' = phase /\ marked' = marked /\ UNCHANGED bitVars
  BY <1>5 DEF SearchChar, bitVars
<1>12. wlen' = Seen(Read(v)[k].word) /\ (wlen' > 0 => wstart' = p' - wlen')
  <2>1. IF IsAlnum(At(v, p)) THEN ReadChar ELSE wlen' = 0
    <3>1. CASE IsAlnum(At(v, p))
      BY <1>4, <3>1 DEF SearchChar, InWord
    <3>2. CASE ~IsAlnum(At(v, p))
      <4>1. ~InWord
        BY <1>4, <3>2 DEF InWord
      <4>2. CASE WordEnds
        BY <3>2, <4>1, <4>2 DEF SearchChar
      <4>3. CASE ~WordEnds
        <5>1. wlen' = wlen
          BY <4>1, <4>3 DEF SearchChar
        <5>2. ~(wlen > 0) /\ wlen \in Nat
          BY <1>8, <4>1, <4>3 DEF WordEnds
        <5> QED BY <3>2, <5>1, <5>2
      <4> QED BY <4>2, <4>3
    <3> QED BY <3>1, <3>2
  <2> QED BY <1>3, <1>5, <1>8, <1>11, <2>1, CursorOn
<1>13. ASSUME Quotes, WordEnds
       PROVE  Found /\ (last_whash # 0 => TestBit(HashBigram(last_whash, whash)))
  <2>1. MarkedIsFound
    BY <1>3, IInvFinds, BitsetAssumption
  <2>2. PICK h : h = last_whash
    OBVIOUS
  <2>3. PICK M : M = marked
    OBVIOUS
  <2>4. WordsIn(Words(s), M) /\ PairsIn(Words(s), M) /\ FragmentsIn(s, Len(s), M)
    BY <1>1, <1>3, <2>3 DEF AllMarked
  <2>5. PICK x \in DOMAIN Words(s), y \in DOMAIN Words(s) : Words(v) = SubSeq(Words(s), x, y)
    BY <1>1, <1>2, <1>13 DEF Quotes
  <2>6. Latest(Read(v)[k - 1].done, h)
    BY <1>7, <1>8, <1>13, <2>2
  <2>7. ~IsAlnum(At(v, k)) /\ Counted(w)
    BY <1>9, <1>13
  <2>8. /\ HashOf(w) \in M /\ (h # 0 => HashBigram(h, HashOf(w)) \in M)
        /\ \E e \in Nat : Spelt(s, e, w)
    BY <1>3, <1>5, <1>6, <2>4, <2>5, <2>6, <2>7, QuotedWord
  <2>9. PICK e \in Nat : Spelt(s, e, w)
    BY <2>8
  <2>10. PICK d \in Nat : d = k - 1
    BY <1>5
  <2>11. wstart = (d + 1) - wlen
    BY <1>5, <1>10, <1>13, <2>10
  <2>12. Found
    <3>1. whash \in marked /\ Spelt(v, d, w) /\ FragmentsIn(s, Len(s), marked)
      BY <1>10, <1>13, <2>3, <2>4, <2>8, <2>10
    <3> QED BY <1>2, <1>3, <1>8, <2>1, <2>9, <2>11, <3>1, WordFound
  <2>13. last_whash # 0 => TestBit(HashBigram(last_whash, whash))
    BY <1>10, <1>13, <2>1, <2>2, <2>3, <2>8 DEF MarkedIsFound
  <2> QED BY <2>12, <2>13
<1>14. total' \in Nat /\ hits' \in Nat /\ last_whash' \in Nat
  <2>1. CASE InWord
    BY <1>3, <2>1 DEF SearchChar, ReadChar
  <2>2. CASE ~InWord /\ ~WordEnds
    BY <1>3, <2>2 DEF SearchChar
  <2>3. CASE ~InWord /\ WordEnds
    <3>1. whash \in Nat
      BY <1>10, <2>3, HashesNat
    <3> QED BY <1>3, <2>3, <3>1 DEF SearchChar
  <2> QED BY <2>1, <2>2, <2>3
<1>15. ASSUME Quotes PROVE hits' = total' /\ Latest(Read(v)[k].done, last_whash')
  <2>1. Latest(Read(v)[k].done, IF ~IsAlnum(At(v, k)) /\ Counted(w) THEN HashOf(w) ELSE last_whash)
    BY <1>3, <1>5, <1>6, <1>7, <1>8, <1>15, NextLatest
  <2>2. CASE InWord
    <3>1. hits' = hits /\ total' = total /\ last_whash' = last_whash /\ ~WordEnds
      BY <2>2 DEF SearchChar, ReadChar, WordEnds
    <3> QED BY <1>8, <1>9, <1>15, <2>1, <3>1
  <2>3. CASE ~InWord /\ ~WordEnds
    <3>1. hits' = hits /\ total' = total /\ last_whash' = last_whash
      BY <2>3 DEF SearchChar
    <3> QED BY <1>8, <1>9, <1>15, <2>1, <2>3, <3>1
  <2>4. CASE ~InWord /\ WordEnds
    <3>1. Found /\ (last_whash # 0 => TestBit(HashBigram(last_whash, whash)))
      BY <1>13, <1>15, <2>4
    <3>2. PICK pairs \in {0, 1} : pairs = IF last_whash # 0 THEN 1 ELSE 0
      OBVIOUS
    <3>3. total' = total + 1 + pairs /\ hits' = hits + 1 + pairs /\ last_whash' = whash
      BY <2>4, <3>1, <3>2 DEF SearchChar
    <3> QED BY <1>3, <1>8, <1>9, <1>10, <1>15, <2>1, <2>4, <3>3
  <2> QED BY <2>2, <2>3, <2>4
<1>16. Asking'
  <2>1. Cursor(query, k)'
    BY <1>2, <1>11, <1>12 DEF Cursor
  <2>2. p' - 1 = k /\ p' \in 1..(Len(v) + 2)
    BY <1>5, <1>11
  <2>3. Quotes' => hits' = total' /\ Latest(Read(v)[k].done, last_whash')
    BY <1>11, <1>15 DEF Quotes
  <2> QED BY <1>2, <1>11, <2>1, <2>2, <2>3 DEF Asking
<1>17. IInv'
  BY <1>3, <1>11, StepInvariant, BitsetAssumption
<1>18. AllMarked'
  BY <1>3, <1>11 DEF AllMarked
<1> QED BY <1>1, <1>2, <1>3, <1>11, <1>14, <1>16, <1>17, <1>18 DEF IndexInv

-----------------------------------------------------------------------------
(* The theorems.                                                            *)

LEMMA IndexStep ==
  ASSUME IndexInv, [Next]_indexVars
  PROVE  IndexInv' /\ [BitNext]_bitVars
<1>1. CASE IndexChar
  BY <1>1, IndexCharStep
<1>2. CASE IndexLast
  BY <1>2, IndexLastStep
<1>3. CASE Indexed
  BY <1>3, IndexedStep
<1>4. CASE FoldIndex
  BY <1>4, FoldStep
<1>5. CASE \E q \in Queries : Ask(q)
  BY <1>5, AskStep
<1>6. CASE SearchChar
  BY <1>6, SearchStep
<1>7. CASE UNCHANGED indexVars
  <2>1. /\ UNCHANGED <<text, p, wstart, wlen, last_whash, query, total, hits>>
        /\ UNCHANGED <<phase, bits, z, marked>> /\ UNCHANGED bitVars
    BY <1>7 DEF indexVars, bitVars
  <2>2. IInv'
    BY <2>1, StepInvariant, BitsetAssumption DEF IndexInv
  <2>3. Marking => Marking'
    BY <2>1 DEF Marking, TextRead, Cursor
  <2>4. AllMarked => AllMarked'
    BY <2>1 DEF AllMarked
  <2>5. Asking => Asking'
    BY <2>1 DEF Asking, Cursor, Quotes
  <2> QED BY <2>1, <2>2, <2>3, <2>4, <2>5 DEF IndexInv
<1> QED BY <1>1, <1>2, <1>3, <1>4, <1>5, <1>6, <1>7 DEF Next

\* indexer.c does to the bit set what Bitset allows, whatever the text: its hashes
\* are places in the set, and it is folded when the text has been read.
THEOREM UsesTheorem == Spec => UsesBitset
<1>1. Init => BitInit /\ IndexInv
  BY InitIndex DEF Init
<1>2. IndexInv /\ [Next]_indexVars => IndexInv' /\ [BitNext]_bitVars
  BY IndexStep
<1> QED BY <1>1, <1>2, PTL DEF Spec, UsesBitset, BitSpec

\* So what the indexer has marked is found, however the set was folded.
THEOREM FoundInIndexTheorem == Spec => []MarkedIsFound
BY UsesTheorem, FoundTheorem, PTL DEF UsesBitset

\* A query that quotes the text, in any case and however long the words are, scores
\* full marks: every word, pair and fragment of it is found, for every text.
THEOREM NothingMissedTheorem == Spec => []NothingMissed
<1>1. Init => IndexInv
  BY InitIndex
<1>2. IndexInv /\ [Next]_indexVars => IndexInv'
  BY IndexStep
<1>3. IndexInv => NothingMissed
  BY DEF IndexInv, NothingMissed, Asking
<1> QED BY <1>1, <1>2, <1>3, PTL DEF Spec
=============================================================================
