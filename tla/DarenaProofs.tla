---------------------------- MODULE DarenaProofs ----------------------------
(***************************************************************************)
(* Every index has one place, for ever, in an arena of any size: provided  *)
(* that no caller goes further past the highest index than a block, the    *)
(* blocks are allocated in the order of their offsets, so that the table   *)
(* is a function of how many there are and of how often it was joined.     *)
(* From the same form follow what NULL means and what dafree() leaves.     *)
(***************************************************************************)
EXTENDS Darena, SequenceTheorems, FiniteSetTheorems, WellFoundedInduction, TLAPS

LEMMA Sides ==
  /\ Entries \in Nat \ {0} /\ Entries % 2 = 0 /\ Bn \in Nat \ {0} /\ Bn >= 2 /\ MemBlocks \in Nat
  /\ MaxIndex \in Nat /\ Ahead \in Nat /\ Index = 0..MaxIndex
BY DarenaAssumption DEF Index

LEMMA LeastOf ==
  ASSUME NEW S, S \subseteq Nat, S # {}
  PROVE  \E i \in S : \A k \in S : i <= k
<1>1. PICK i \in S : \A k \in S : ~ (<<k, i>> \in OpToRel(<, Nat))
  BY WFMin, NatLessThanWellFounded
<1>2. ASSUME NEW k \in S, k < i PROVE FALSE
  <2>1. <<k, i>> \in {ss \in Nat \X Nat : ss[1] < ss[2]}
    BY <1>2
  <2> QED BY <1>1, <2>1 DEF OpToRel
<1> QED BY <1>2

LEMMA UpTo ==
  ASSUME NEW m \in Nat, NEW S, 0 \in S, \A k \in 1..m : k - 1 \in S => k \in S
  PROVE  0..m \subseteq S
<1> DEFINE Bad == {k \in 0..m : k \notin S}
<1> SUFFICES ASSUME Bad # {} PROVE FALSE
  OBVIOUS
<1>1. PICK k \in Bad : \A i \in Bad : k <= i
  <2>1. Bad \subseteq Nat
    OBVIOUS
  <2> HIDE DEF Bad
  <2> QED BY <2>1, LeastOf
<1>2. k \in Nat /\ k # 0 /\ k <= m /\ k \notin S
  OBVIOUS
<1>3. k \in 1..m /\ k - 1 \in 0..m /\ ~(k <= k - 1)
  BY ONLY <1>2, m \in Nat
<1>4. k - 1 \in S
  BY <1>1, <1>3
<1> QED BY <1>2, <1>3, <1>4

-----------------------------------------------------------------------------
(* Blocks, chains and tables.                                               *)

Block(c) == [id |-> c, offset |-> c * Bn]
Blocks == [id : Nat, offset : Nat]

\* n blocks, from block s on.
Chained(s, n) == [k \in 1..n |-> Block(s + k - 1)]

\* How many of a blocks, if so many there are, fit in an entry of m.
Room(a, m) == IF a <= 0 THEN 0 ELSE IF a >= m THEN m ELSE a

\* The table when n blocks are there and an entry has room for m of them.
Table(m, n) == [j \in Slot |-> Chained(j * m, Room(n - j * m, m))]

LEMMA BlockFacts == \A c \in Nat : Block(c) \in Blocks /\ Block(c).id = c /\ Block(c).offset = c * Bn
BY Sides DEF Block, Blocks

LEMMA ChainedFacts ==
  ASSUME NEW s \in Nat, NEW n \in Nat
  PROVE  /\ Chained(s, n) \in Seq(Blocks) /\ Len(Chained(s, n)) = n
         /\ \A k \in 1..n : Chained(s, n)[k] = Block(s + k - 1)
<1>1. ASSUME NEW k \in 1..n PROVE Block(s + k - 1) \in Blocks
  <2>1. s + k - 1 \in Nat
    OBVIOUS
  <2> QED BY <2>1, BlockFacts
<1> QED BY <1>1 DEF Chained

LEMMA RoomFacts ==
  \A a \in Int, m \in Nat : /\ Room(a, m) \in 0..m /\ (a >= 0 => Room(a, m) <= a)
                            /\ (a >= m => Room(a, m) = m) /\ (a <= 0 => Room(a, m) = 0)
                            /\ (a >= 0 /\ a <= m => Room(a, m) = a)
BY DEF Room

\* The chains of neighbouring entries, one after the other: if the first is not full
\* the second is empty.
LEMMA ChainsJoin ==
  ASSUME NEW s \in Nat, NEW a \in Int, NEW m \in Nat
  PROVE  Chained(s, Room(a, m)) \o Chained(s + m, Room(a - m, m)) = Chained(s, Room(a, 2 * m))
<1>1. PICK r \in Nat, q \in Nat, t \in Nat : r = Room(a, m) /\ q = Room(a - m, m) /\ t = Room(a, 2 * m)
  <2>1. a - m \in Int /\ 2 * m \in Nat
    OBVIOUS
  <2>2. Room(a, m) \in Nat /\ Room(a - m, m) \in Nat /\ Room(a, 2 * m) \in Nat
    BY <2>1 DEF Room
  <2> QED BY <2>2
<1>2. t = r + q /\ (q # 0 => r = m)
  BY <1>1 DEF Room
<1>3. s + m \in Nat
  OBVIOUS
<1>4. PICK x \in Seq(Blocks), y \in Seq(Blocks), z \in Seq(Blocks) :
        /\ x = Chained(s, r) /\ y = Chained(s + m, q) /\ z = Chained(s, t)
        /\ Len(x) = r /\ Len(y) = q /\ Len(z) = t
        /\ \A k \in 1..r : x[k] = Block(s + k - 1)
        /\ \A k \in 1..q : y[k] = Block((s + m) + k - 1)
        /\ \A k \in 1..t : z[k] = Block(s + k - 1)
  BY <1>3, ChainedFacts
<1>5. x \o y \in Seq(Blocks) /\ Len(x \o y) = r + q
  BY ONLY <1>4, x \in Seq(Blocks), y \in Seq(Blocks), ConcatProperties
<1>6. ASSUME NEW k \in 1..(r + q) PROVE (x \o y)[k] = z[k]
  <2>1. CASE k <= r
    BY <1>2, <1>4, <2>1
  <2>2. CASE ~(k <= r)
    <3>1. k - r \in 1..q /\ r = m /\ (s + m) + (k - r) - 1 = s + k - 1
      BY <1>2, <2>2
    <3>2. (x \o y)[k] = y[k - r]
      BY <1>4, <2>2, <3>1
    <3> QED BY <1>2, <1>4, <3>1, <3>2
  <2> QED BY <2>1, <2>2
<1>7. x \o y = z
  BY <1>2, <1>4, <1>5, <1>6, SeqEqual
<1> QED BY <1>1, <1>4, <1>7

LEMMA Multiples ==
  ASSUME NEW j \in Nat, NEW m \in Nat
  PROVE  /\ (2 * j) * m = j * (2 * m) /\ (2 * j + 1) * m = j * (2 * m) + m
         /\ j * m \in Nat /\ j * (2 * m) \in Nat /\ (j + 1) * m = j * m + m
OBVIOUS

LEMMA Joined ==
  ASSUME NEW m \in Nat \ {0}, NEW n \in Nat, n <= Entries * m
  PROVE  Join(Table(m, n)) = Table(2 * m, n) /\ n <= Entries * (2 * m)
<1>1. PICK h \in Nat : h = Entries \div 2 /\ Entries = 2 * h
  BY Sides
<1>2. Entries * m = h * (2 * m) /\ Slot = 0..(2 * h - 1) /\ h * (2 * m) \in Nat /\ Entries * (2 * m) = 2 * (h * (2 * m))
  BY <1>1 DEF Slot
<1>3. ASSUME NEW j \in Slot
      PROVE  (IF j < h THEN Table(m, n)[2 * j] \o Table(m, n)[2 * j + 1] ELSE <<>>)
             = Chained(j * (2 * m), Room(n - j * (2 * m), 2 * m))
  <2>1. j \in Nat
    BY <1>2
  <2>2. PICK s \in Nat : s = j * (2 * m) /\ (2 * j) * m = s /\ (2 * j + 1) * m = s + m
    BY <2>1, Multiples
  <2>3. CASE j < h
    <3>1. 2 * j \in Slot /\ 2 * j + 1 \in Slot
      BY <1>2, <2>1, <2>3
    <3>2. Table(m, n)[2 * j] = Chained(s, Room(n - s, m))
      BY <2>2, <3>1 DEF Table
    <3>3. Table(m, n)[2 * j + 1] = Chained(s + m, Room(n - (s + m), m))
      BY <2>2, <3>1 DEF Table
    <3>4. n - s \in Int /\ n - (s + m) = (n - s) - m
      OBVIOUS
    <3>5. Chained(s, Room(n - s, m)) \o Chained(s + m, Room((n - s) - m, m)) = Chained(s, Room(n - s, 2 * m))
      BY <3>4, ChainsJoin
    <3> QED BY <2>2, <2>3, <3>2, <3>3, <3>4, <3>5
  <2>4. CASE ~(j < h)
    <3>1. s >= h * (2 * m)
      <4>1. PICK d \in Nat : j = h + d
        BY <2>1, <2>4
      <4>2. j * (2 * m) = h * (2 * m) + d * (2 * m) /\ d * (2 * m) \in Nat
        BY <4>1
      <4> QED BY <1>2, <2>2, <4>2
    <3>2. n - s <= 0 /\ n - s \in Int
      BY <1>2, <3>1
    <3>3. Room(n - s, 2 * m) = 0
      BY <3>2 DEF Room
    <3>4. Chained(s, 0) = <<>>
      BY ChainedFacts, EmptySeq
    <3> QED BY <2>2, <2>4, <3>3, <3>4
  <2> QED BY <2>3, <2>4
<1>4. Join(Table(m, n)) = Table(2 * m, n)
  BY <1>1, <1>3 DEF Join, Table
<1> QED BY <1>2, <1>4

-----------------------------------------------------------------------------
(* "goto again": the table after each joining.                              *)

Afters(d, b, n, f) ==
  f = [k \in 0..n |-> IF k = 0 THEN [div |-> d, blocks |-> b]
                      ELSE [div |-> 2 * f[k - 1].div, blocks |-> Join(f[k - 1].blocks)]]

LEMMA AftersExist ==
  ASSUME NEW d, NEW b, NEW n \in Nat
  PROVE  \E f : Afters(d, b, n, f)
<1> DEFINE Bad == {i \in Nat : ~\E f : Afters(d, b, i, f)}
<1>1. ASSUME NEW i \in Nat, NEW f, Afters(d, b, i, f)
      PROVE  \E h : Afters(d, b, i + 1, h)
  <2> DEFINE h == [k \in 0..(i + 1) |-> IF k = 0 THEN [div |-> d, blocks |-> b]
                                        ELSE [div |-> 2 * f[k - 1].div, blocks |-> Join(f[k - 1].blocks)]]
  <2>1. ASSUME NEW k \in 0..i PROVE h[k] = f[k]
    <3>1. k \in 0..(i + 1)
      OBVIOUS
    <3>2. h[k] = IF k = 0 THEN [div |-> d, blocks |-> b]
                 ELSE [div |-> 2 * f[k - 1].div, blocks |-> Join(f[k - 1].blocks)]
      BY <3>1
    <3> QED BY <1>1, <3>2 DEF Afters
  <2>2. \A k \in 0..(i + 1) : k # 0 => k - 1 \in 0..i
    OBVIOUS
  <2>3. \A k \in 0..(i + 1) : k # 0 => h[k - 1] = f[k - 1]
    BY <2>1, <2>2
  <2>4. h = [k \in 0..(i + 1) |-> IF k = 0 THEN [div |-> d, blocks |-> b]
                                  ELSE [div |-> 2 * h[k - 1].div, blocks |-> Join(h[k - 1].blocks)]]
    <3> DEFINE e == [k \in 0..(i + 1) |-> IF k = 0 THEN [div |-> d, blocks |-> b]
                                          ELSE [div |-> 2 * h[k - 1].div, blocks |-> Join(h[k - 1].blocks)]]
    <3>1. \A k \in 0..(i + 1) : e[k] = h[k]
      BY <2>3
    <3> QED BY <3>1
  <2> HIDE DEF h
  <2> QED BY <2>4 DEF Afters
<1>2. 0 \notin Bad
  <2> DEFINE h == [k \in 0..0 |-> [div |-> d, blocks |-> b]]
  <2>1. h = [k \in 0..0 |-> IF k = 0 THEN [div |-> d, blocks |-> b]
                            ELSE [div |-> 2 * h[k - 1].div, blocks |-> Join(h[k - 1].blocks)]]
    OBVIOUS
  <2> HIDE DEF h
  <2> QED BY <2>1 DEF Afters
<1>3. Bad = {}
  <2> SUFFICES ASSUME Bad # {} PROVE FALSE
    OBVIOUS
  <2>1. PICK i \in Bad : \A k \in Bad : i <= k
    <3>1. Bad \subseteq Nat
      OBVIOUS
    <3> HIDE DEF Bad
    <3> QED BY <3>1, LeastOf
  <2>2. PICK k \in Nat : i = k + 1
    <3>1. i \in Nat /\ i # 0
      BY <1>2
    <3>2. i - 1 \in Nat /\ i = (i - 1) + 1
      BY ONLY <3>1
    <3> QED BY ONLY <3>2
  <2>3. k \notin Bad
    BY <2>1, <2>2
  <2> QED BY <1>1, <2>2, <2>3
<1> QED BY <1>3

\* The arena when an entry has room for m blocks.
Holds(t, m, n) == t.div = Bn * m /\ t.blocks = Table(m, n) /\ n <= Entries * m

LEMMA HoldsJoined ==
  ASSUME NEW t, NEW m \in Nat \ {0}, NEW n \in Nat, Holds(t, m, n)
  PROVE  Holds([div |-> 2 * t.div, blocks |-> Join(t.blocks)], 2 * m, n)
<1>1. 2 * (Bn * m) = Bn * (2 * m)
  BY Sides
<1> QED BY <1>1, Joined DEF Holds

\* Joining goes on until the table reaches the index, and the arena is in order then.
LEMMA ReachFacts ==
  ASSUME NEW m0 \in Nat \ {0}, div = Bn * m0, blocks = Table(m0, made), made <= Entries * m0,
         made \in Nat, NEW i \in Index
  PROVE  \E m \in Nat \ {0} : Holds(Reaching(i), m, made) /\ i \div (Bn * m) < Entries
<1>1. PICK f : /\ f = (CHOOSE h : Afters(div, blocks, MaxIndex, h))
               /\ Afters(div, blocks, MaxIndex, f)
  <2>1. \E h : Afters(div, blocks, MaxIndex, h)
    BY Sides, AftersExist
  <2> QED BY <2>1
<1>11. \A k \in 0..MaxIndex : f[k] = IF k = 0 THEN [div |-> div, blocks |-> blocks]
                                     ELSE [div |-> 2 * f[k - 1].div, blocks |-> Join(f[k - 1].blocks)]
  BY <1>1 DEF Afters
<1> DEFINE Reaches(k) == i \div f[k].div < Entries
           Good == {k \in 0..MaxIndex : \E m \in Nat \ {0} : m >= k + 1 /\ Holds(f[k], m, made)}
<1>2. Reaching(i) = f[CHOOSE k \in Index : Reaches(k) /\ \A m \in 0..k - 1 : ~Reaches(m)]
  BY <1>1, Sides DEF Reaching, Afters
<1>3. 0 \in Good
  <2>1. f[0] = [div |-> div, blocks |-> blocks]
    <3>1. 0 \in 0..MaxIndex
      BY Sides
    <3> QED BY ONLY <1>11, <3>1
  <2>2. Holds(f[0], m0, made) /\ m0 >= 0 + 1
    BY <2>1 DEF Holds
  <2> QED BY <2>2, Sides
<1>4. ASSUME NEW k \in 1..MaxIndex, k - 1 \in Good PROVE k \in Good
  <2>1. PICK m \in Nat \ {0} : m >= k /\ Holds(f[k - 1], m, made)
    BY <1>4
  <2>2. f[k] = [div |-> 2 * f[k - 1].div, blocks |-> Join(f[k - 1].blocks)] /\ k \in 0..MaxIndex
    BY <1>11, Sides
  <2>3. Holds(f[k], 2 * m, made)
    BY <2>1, <2>2, HoldsJoined
  <2>4. 2 * m \in Nat \ {0} /\ 2 * m >= k + 1
    BY <2>1
  <2> QED BY <2>2, <2>3, <2>4
<1>5. 0..MaxIndex \subseteq Good
  <2> HIDE DEF Good
  <2> QED BY <1>3, <1>4, Sides, UpTo
<1>6. Reaches(i) /\ i \in Nat /\ i \in 0..MaxIndex
  <2>1. PICK m \in Nat \ {0} : m >= i + 1 /\ Holds(f[i], m, made)
    BY <1>5, Sides
  <2>2. PICK d \in Nat \ {0} : d = Bn * m /\ d > i /\ f[i].div = d
    <3>1. Bn * m >= m /\ Bn * m \in Nat /\ i \in Nat
      BY Sides
    <3> QED BY <2>1, <3>1 DEF Holds
  <2>3. i \div d = 0
    BY <2>2, Sides
  <2> QED BY <2>2, <2>3, Sides
<1>7. PICK q \in {k \in 0..MaxIndex : Reaches(k)} : \A k \in {l \in 0..MaxIndex : Reaches(l)} : q <= k
  <2> DEFINE W == {k \in 0..MaxIndex : Reaches(k)}
  <2>1. W \subseteq Nat /\ W # {}
    BY <1>6
  <2> HIDE DEF W
  <2>2. \E q \in W : \A k \in W : q <= k
    BY <2>1, LeastOf
  <2> QED BY <2>2 DEF W
<1>8. q \in Index /\ Reaches(q) /\ \A m \in 0..q - 1 : ~Reaches(m)
  <2>1. q \in 0..MaxIndex /\ Reaches(q)
    OBVIOUS
  <2>2. ASSUME NEW m \in 0..q - 1, Reaches(m) PROVE FALSE
    <3>1. m \in 0..MaxIndex /\ ~(q <= m)
      BY <2>1, Sides
    <3> QED BY <1>7, <2>2, <3>1
  <2> QED BY <2>1, <2>2, Sides
<1>9. PICK k \in 0..MaxIndex : Reaching(i) = f[k] /\ Reaches(k)
  <2>1. \E k \in Index : Reaches(k) /\ \A m \in 0..k - 1 : ~Reaches(m)
    BY <1>8
  <2> HIDE DEF Reaches
  <2> QED BY <1>2, <2>1, Sides
<1>10. PICK m \in Nat \ {0} : Holds(f[k], m, made)
  BY <1>5
<1> QED BY <1>9, <1>10 DEF Holds

-----------------------------------------------------------------------------
(* The block of an index.                                                   *)

LEMMA DivFacts ==
  \A i \in Nat : i \div Bn \in Nat /\ (i \div Bn) * Bn <= i /\ i < (i \div Bn) * Bn + Bn /\ (i \div Bn) * Bn \in Nat
BY Sides

LEMMA Between ==
  ASSUME NEW i \in Nat, NEW c \in Nat, c * Bn <= i, i < c * Bn + Bn
  PROVE  c = i \div Bn
<1> DEFINE q == i \div Bn
<1>1. q \in Nat /\ q * Bn <= i /\ i < q * Bn + Bn /\ q * Bn \in Nat
  BY DivFacts
<1> HIDE DEF q
<1>2. ASSUME NEW x \in Nat, NEW y \in Nat, x < y PROVE x * Bn + Bn <= y * Bn
  <2>1. PICK d \in Nat : y = x + 1 + d
    BY <1>2
  <2>2. y * Bn = x * Bn + Bn + d * Bn /\ d * Bn \in Nat /\ x * Bn \in Nat
    BY <2>1, Sides
  <2> QED BY <2>2, Sides
<1>3. ~(c < q)
  <2> SUFFICES ASSUME c < q PROVE FALSE
    OBVIOUS
  <2>1. c * Bn + Bn <= q * Bn
    BY <1>1, <1>2
  <2>2. c * Bn \in Nat
    BY Sides
  <2> QED BY <1>1, <2>1, <2>2, Sides
<1>4. ~(q < c)
  <2> SUFFICES ASSUME q < c PROVE FALSE
    OBVIOUS
  <2>1. q * Bn + Bn <= c * Bn
    BY <1>1, <1>2
  <2>2. c * Bn \in Nat
    BY Sides
  <2> QED BY <1>1, <2>1, <2>2, Sides
<1>5. c = q
  BY <1>1, <1>3, <1>4
<1> QED BY <1>5 DEF q

\* Block c owns the indexes whose quotient is c, and no others.
LEMMA OwnerIs ==
  ASSUME NEW i \in Nat, NEW c \in Nat
  PROVE  Owns(Block(c), i) <=> c = i \div Bn
<1>1. Owns(Block(c), i) <=> c * Bn <= i /\ i < c * Bn + Bn
  BY DEF Owns, Block
<1> QED BY <1>1, Between, DivFacts

\* The entry of an index and the entry of its block: what div tells of the one holds
\* of the other.
LEMMA EntryOf ==
  ASSUME NEW i \in Nat, NEW m \in Nat \ {0}
  PROVE  /\ i \div (Bn * m) \in Nat
         /\ (i \div (Bn * m)) * m <= i \div Bn /\ i \div Bn < (i \div (Bn * m)) * m + m
<1>1. PICK D \in Nat \ {0} : D = Bn * m
  <2>1. Bn * m \in Nat \ {0}
    BY Sides
  <2> QED BY <2>1
<1>2. PICK e \in Nat : e = i \div D /\ e * D <= i /\ i < e * D + D
  OBVIOUS
<1>3. PICK c \in Nat : c = i \div Bn /\ c * Bn <= i /\ i < c * Bn + Bn
  BY DivFacts
<1>4. e * D = (e * m) * Bn /\ e * D + D = (e * m + m) * Bn /\ e * m \in Nat /\ e * m + m \in Nat
  BY <1>1, Sides
<1>5. ASSUME NEW x \in Nat, NEW y \in Nat, x < y PROVE x * Bn + Bn <= y * Bn
  <2>1. PICK d \in Nat : y = x + 1 + d
    BY <1>5
  <2>2. y * Bn = x * Bn + Bn + d * Bn /\ d * Bn \in Nat /\ x * Bn \in Nat
    BY <2>1, Sides
  <2> QED BY <2>2, Sides
<1>6. PICK s \in Nat : s = e * m
  BY <1>4
<1>7. s * Bn <= i /\ i < (s + m) * Bn /\ s * Bn \in Nat /\ (s + m) * Bn \in Nat /\ c * Bn \in Nat
  BY <1>2, <1>4, <1>6, Sides
<1>8. ~(c < s)
  <2> SUFFICES ASSUME c < s PROVE FALSE
    OBVIOUS
  <2>1. c * Bn + Bn <= s * Bn
    BY <1>5
  <2> QED BY <1>3, <1>7, <2>1, Sides
<1>9. ~(s + m <= c)
  <2> SUFFICES ASSUME s + m <= c PROVE FALSE
    OBVIOUS
  <2>1. s + m = c \/ (s + m) * Bn + Bn <= c * Bn
    <3>1. s + m = c \/ s + m < c
      OBVIOUS
    <3>2. s + m \in Nat
      OBVIOUS
    <3> QED BY <1>5, <3>1, <3>2
  <2> QED BY <1>3, <1>7, <2>1, Sides
<1> QED BY <1>1, <1>2, <1>3, <1>6, <1>8, <1>9

-----------------------------------------------------------------------------
(* The walk along a chain.                                                  *)

HasOwner(chain, i) == \E k \in 1..Len(chain) : Owns(chain[k], i)

LEMMA OwnerInChain ==
  ASSUME NEW s \in Nat, NEW n \in Nat, NEW i \in Nat, NEW c \in Nat, c = i \div Bn
  PROVE  /\ HasOwner(Chained(s, n), i) <=> s <= c /\ c < s + n
         /\ s <= c /\ c < s + n => Chained(s, n)[First(Chained(s, n), i)] = Block(c)
<1>1. PICK x : x = Chained(s, n) /\ Len(x) = n /\ \A k \in 1..n : x[k] = Block(s + k - 1)
  <2>1. Len(Chained(s, n)) = n /\ \A k \in 1..n : Chained(s, n)[k] = Block(s + k - 1)
    BY ChainedFacts
  <2> QED BY ONLY <2>1
<1>2. ASSUME NEW k \in 1..n PROVE Owns(x[k], i) <=> k = c - s + 1
  <2>1. s + k - 1 \in Nat
    OBVIOUS
  <2>2. Owns(Block(s + k - 1), i) <=> s + k - 1 = c
    BY <2>1, OwnerIs
  <2>3. (s + k - 1 = c) <=> (k = c - s + 1)
    OBVIOUS
  <2> QED BY <1>1, <2>2, <2>3
<1>3. HasOwner(x, i) <=> c - s + 1 \in 1..n
  BY <1>1, <1>2 DEF HasOwner
<1>4. c - s + 1 \in 1..n <=> s <= c /\ c < s + n
  OBVIOUS
<1>5. ASSUME s <= c, c < s + n PROVE x[First(x, i)] = Block(c)
  <2>1. PICK q \in 1..n : q = c - s + 1
    BY <1>4, <1>5
  <2>2. Owns(x[q], i) /\ \A m \in 1..q - 1 : ~Owns(x[m], i)
    <3>1. Owns(x[q], i)
      BY <1>2, <2>1
    <3>2. ASSUME NEW m \in 1..q - 1 PROVE ~Owns(x[m], i)
      <4>1. m \in 1..n /\ m # q
        OBVIOUS
      <4> QED BY <1>2, <2>1, <4>1
    <3> QED BY <3>1, <3>2
  <2>3. First(x, i) \in 1..n /\ Owns(x[First(x, i)], i)
    BY <1>1, <2>2 DEF First
  <2>4. First(x, i) = q
    BY <1>2, <2>1, <2>3
  <2>5. s + q - 1 = c
    BY <2>1
  <2> QED BY <1>1, <2>4, <2>5
<1> QED BY <1>1, <1>3, <1>4, <1>5

LEMMA ChainEnds == ASSUME NEW s \in Nat PROVE Chained(s, 0) = <<>> /\ Chained(s, 1) = <<Block(s)>>
<1>1. Chained(s, 0) = <<>>
  BY ChainedFacts, EmptySeq
<1>2. PICK x \in Seq(Blocks) : x = Chained(s, 1) /\ Len(x) = 1 /\ x[1] = Block(s + 1 - 1)
  <2>1. 1 \in Nat /\ 1 \in 1..1
    OBVIOUS
  <2> QED BY <2>1, ChainedFacts
<1>3. <<Block(s)>> \in Seq(Blocks) /\ Len(<<Block(s)>>) = 1 /\ <<Block(s)>>[1] = Block(s)
  BY BlockFacts
<1>4. x[1] = Block(s) /\ \A k \in 1..Len(x) : k = 1
  BY <1>2
<1>5. x = <<Block(s)>>
  BY <1>2, <1>3, <1>4, SeqEqual
<1> QED BY <1>1, <1>2, <1>5

LEMMA ChainGrows ==
  ASSUME NEW s \in Nat, NEW r \in Nat
  PROVE  Chained(s, r) \o <<Block(s + r)>> = Chained(s, r + 1)
<1>1. PICK x \in Seq(Blocks), z \in Seq(Blocks) :
        /\ x = Chained(s, r) /\ z = Chained(s, r + 1) /\ Len(x) = r /\ Len(z) = r + 1
        /\ \A k \in 1..r : x[k] = Block(s + k - 1)
        /\ \A k \in 1..(r + 1) : z[k] = Block(s + k - 1)
  <2>1. r + 1 \in Nat
    OBVIOUS
  <2> QED BY <2>1, ChainedFacts
<1>2. PICK y \in Seq(Blocks) : y = <<Block(s + r)>> /\ Len(y) = 1 /\ y[1] = Block(s + r)
  <2>1. s + r \in Nat
    OBVIOUS
  <2>2. PICK b \in Blocks : b = Block(s + r)
    BY <2>1, BlockFacts
  <2>3. <<b>> \in Seq(Blocks) /\ Len(<<b>>) = 1 /\ <<b>>[1] = b
    OBVIOUS
  <2> QED BY <2>2, <2>3
<1>3. /\ x \o y \in Seq(Blocks) /\ Len(x \o y) = r + 1
      /\ \A k \in 1..(r + 1) : (x \o y)[k] = IF k <= r THEN x[k] ELSE y[k - r]
  BY ONLY <1>1, <1>2, x \in Seq(Blocks), y \in Seq(Blocks), ConcatProperties
<1>4. ASSUME NEW k \in 1..(r + 1) PROVE (x \o y)[k] = z[k]
  <2>1. CASE k <= r
    BY <1>1, <1>3, <2>1
  <2>2. CASE ~(k <= r)
    <3>1. k = r + 1 /\ k - r = 1 /\ s + k - 1 = s + r
      BY <2>2
    <3> QED BY <1>1, <1>2, <1>3, <2>2, <3>1
  <2> QED BY <2>1, <2>2
<1>5. x \o y = z
  BY <1>1, <1>3, <1>4, SeqEqual
<1> QED BY <1>1, <1>2, <1>5

\* The walk finds the block of an index, or makes it when it is the next one; only
\* when memory is short does it do neither.
LEMMA WalkFacts ==
  ASSUME NEW s \in Nat, NEW r \in Nat, made \in 0..MemBlocks, NEW i \in Nat, NEW c \in Nat, c = i \div Bn,
         s <= c, NEW bi, NEW d, bi * d = s * Bn,
         c < s + r \/ (c = s + r /\ made = s + r),
         NEW start, start = Starter(Chained(s, r), bi, d),
         NEW grown, grown = Walk(start, i, made + Len(start) - r)
  PROVE  \E q \in {r, r + 1} :
           /\ grown = Chained(s, q)
           /\ q = r + 1 => c = s + r /\ made = s + r /\ made < MemBlocks
           /\ c < s + q \/ (made = MemBlocks /\ c = made)
<1>1. PICK x \in Seq(Blocks) : x = Chained(s, r) /\ Len(x) = r /\ \A k \in 1..r : x[k] = Block(s + k - 1)
  BY ChainedFacts
<1>2. HasOwner(x, i) <=> c < s + r
  BY <1>1, OwnerInChain
<1>3. made \in Nat /\ MemBlocks \in Nat /\ made <= MemBlocks
  BY Sides
<1>4. x = <<>> <=> r = 0
  BY <1>1, EmptySeq
<1>5. CASE c < s + r
  <2>1. start = x
    BY <1>1, <1>4, <1>5 DEF Starter
  <2>2. grown = x
    BY <1>2, <1>5, <2>1 DEF Walk, HasOwner
  <2> QED BY <1>1, <1>5, <2>2
<1>6. CASE c = s + r /\ made = s + r /\ r = 0
  <2>1. CASE made = MemBlocks
    <3>1. start = x /\ x = <<>>
      BY <1>1, <1>4, <1>6, <2>1 DEF Starter
    <3>2. grown = x
      BY <3>1 DEF Walk
    <3> QED BY <1>1, <1>6, <2>1, <3>2
  <2>2. CASE made # MemBlocks
    <3>1. start = <<Block(s)>> /\ Len(start) = 1
      <4>1. s = made /\ x = <<>>
        BY <1>4, <1>6
      <4> QED BY <1>1, <2>2, <4>1 DEF Starter, Block
    <3>2. start = Chained(s, 1) /\ 1 \in Nat
      BY <3>1, ChainEnds
    <3>3. HasOwner(start, i)
      <4>1. s <= c /\ c < s + 1
        BY <1>6
      <4> QED BY <3>2, <4>1, OwnerInChain
    <3>4. grown = start
      BY <3>3 DEF Walk, HasOwner
    <3>5. 1 = r + 1 /\ made < MemBlocks /\ c < s + 1
      BY <1>3, <1>6, <2>2
    <3> QED BY <1>6, <3>2, <3>4, <3>5
  <2> QED BY <2>1, <2>2
<1>7. CASE c = s + r /\ made = s + r /\ r # 0
  <2>1. start = x /\ ~HasOwner(start, i) /\ x # <<>>
    BY <1>1, <1>2, <1>4, <1>7 DEF Starter
  <2>2. PICK last \in Nat : last = start[Len(start)].offset /\ last = (s + r - 1) * Bn /\ last + Bn = c * Bn
    <3>1. s + r - 1 \in Nat /\ r \in 1..r
      BY <1>7
    <3>2. start[Len(start)] = Block(s + r - 1)
      BY <1>1, <2>1, <3>1
    <3>3. Block(s + r - 1).offset = (s + r - 1) * Bn
      BY <3>1, BlockFacts
    <3>4. (s + r - 1) * Bn + Bn = (s + r) * Bn /\ (s + r - 1) * Bn \in Nat
      BY <3>1, Sides
    <3> QED BY <1>7, <3>2, <3>3, <3>4
  <2>3. i > last /\ (i - last) \div Bn = 1
    <3>1. PICK e \in Nat : e = c * Bn /\ e <= i /\ i < e + Bn
      BY DivFacts
    <3>2. i - last \in Nat /\ i > last /\ 1 * Bn <= i - last /\ i - last < 1 * Bn + Bn
      BY <2>2, <3>1, Sides
    <3>3. 1 \in Nat
      OBVIOUS
    <3>4. 1 = (i - last) \div Bn
      BY <3>2, <3>3, Between
    <3> QED BY <3>2, <3>4
  <2>4. made + Len(start) - r = made
    BY <1>1, <1>3, <2>1
  <2>5. grown = start \o [b \in 1..(IF 1 <= MemBlocks - made THEN 1 ELSE MemBlocks - made) |->
                            [id |-> made + b - 1, offset |-> last + b * Bn]]
    BY <2>1, <2>2, <2>3, <2>4 DEF Walk, HasOwner
  <2>6. CASE made = MemBlocks
    <3>1. (IF 1 <= MemBlocks - made THEN 1 ELSE MemBlocks - made) = 0
      BY <1>3, <2>6
    <3>2. [b \in 1..0 |-> [id |-> made + b - 1, offset |-> last + b * Bn]] = <<>>
      OBVIOUS
    <3>3. grown = x \o <<>>
      BY <2>1, <2>5, <3>1, <3>2
    <3>4. grown = x
      BY <3>3, ConcatEmptySeq
    <3> QED BY <1>1, <1>7, <2>6, <3>4
  <2>7. CASE made # MemBlocks
    <3>1. (IF 1 <= MemBlocks - made THEN 1 ELSE MemBlocks - made) = 1
      BY <1>3, <2>7
    <3>2. [b \in 1..1 |-> [id |-> made + b - 1, offset |-> last + b * Bn]] = <<Block(s + r)>>
      <4>1. \A b \in 1..1 : b = 1
        OBVIOUS
      <4>2. made + 1 - 1 = s + r /\ last + 1 * Bn = (s + r) * Bn
        BY <1>3, <1>7, <2>2, Sides
      <4>3. \A b \in 1..1 : [id |-> made + b - 1, offset |-> last + b * Bn] = Block(s + r)
        BY <4>1, <4>2 DEF Block
      <4>4. [b \in 1..1 |-> [id |-> made + b - 1, offset |-> last + b * Bn]] = [b \in 1..1 |-> Block(s + r)]
        BY <4>3
      <4>5. [b \in 1..1 |-> Block(s + r)] = <<Block(s + r)>>
        OBVIOUS
      <4> QED BY <4>4, <4>5
    <3>3. grown = x \o <<Block(s + r)>>
      BY <2>1, <2>5, <3>1, <3>2
    <3>4. grown = Chained(s, r + 1)
      BY <1>1, <3>3, ChainGrows
    <3>5. made < MemBlocks /\ c < s + (r + 1)
      BY <1>3, <1>7, <2>7
    <3> QED BY <1>7, <3>4, <3>5
  <2> QED BY <2>6, <2>7
<1> QED BY <1>5, <1>6, <1>7

\* One block more: only the last entry that has any changes.
LEMMA TableGrows ==
  ASSUME NEW m \in Nat \ {0}, NEW bi \in Slot, NEW r \in 0..(m - 1), NEW n \in Nat, n = bi * m + r
  PROVE  /\ [Table(m, n) EXCEPT ![bi] = Chained(bi * m, r + 1)] = Table(m, n + 1)
         /\ n + 1 <= Entries * m
<1>1. bi \in Nat /\ bi + 1 <= Entries /\ bi * m \in Nat /\ (bi + 1) * m = bi * m + m /\ Slot \subseteq Nat
  BY Sides DEF Slot
<1>2. ASSUME NEW j \in Nat, NEW k \in Nat, j < k PROVE j * m + m <= k * m /\ j * m \in Nat /\ k * m \in Nat
  <2>1. PICK e \in Nat : k = j + 1 + e
    BY <1>2
  <2>2. k * m = j * m + m + e * m /\ e * m \in Nat /\ j * m \in Nat
    BY <2>1
  <2> QED BY <2>2
<1>3. ASSUME NEW j \in Slot
      PROVE  Chained(j * m, Room((n + 1) - j * m, m)) =
             IF j = bi THEN Chained(bi * m, r + 1) ELSE Chained(j * m, Room(n - j * m, m))
  <2>1. CASE j = bi
    <3>1. (n + 1) - j * m = r + 1 /\ r + 1 \in 0..m
      BY <1>1, <2>1
    <3>2. Room(r + 1, m) = r + 1
      BY <3>1 DEF Room
    <3> QED BY <2>1, <3>1, <3>2
  <2>2. CASE j < bi
    <3>1. j * m + m <= bi * m /\ j * m \in Nat /\ j # bi
      BY <1>1, <1>2, <2>2
    <3>2. n - j * m >= m /\ (n + 1) - j * m >= m
      BY <1>1, <3>1
    <3>3. Room(n - j * m, m) = m /\ Room((n + 1) - j * m, m) = m
      BY <1>1, <3>1, <3>2 DEF Room
    <3> QED BY <3>1, <3>3
  <2>3. CASE bi < j
    <3>1. bi * m + m <= j * m /\ j * m \in Nat /\ j # bi
      BY <1>1, <1>2, <2>3
    <3>2. n - j * m <= 0 /\ (n + 1) - j * m <= 0
      BY <1>1, <3>1
    <3>3. Room(n - j * m, m) = 0 /\ Room((n + 1) - j * m, m) = 0
      BY <1>1, <3>1, <3>2 DEF Room
    <3> QED BY <3>1, <3>3
  <2>4. j < bi \/ j = bi \/ bi < j
    BY <1>1
  <2> QED BY <2>1, <2>2, <2>3, <2>4
<1>4. n + 1 <= Entries * m
  <2>1. bi + 1 = Entries \/ bi + 1 < Entries
    BY <1>1, Sides
  <2>2. bi + 1 = Entries \/ (bi + 1) * m + m <= Entries * m
    BY <1>1, <1>2, <2>1, Sides
  <2>3. Entries * m \in Nat
    BY Sides
  <2> QED BY <1>1, <2>2, <2>3
<1>5. [Table(m, n) EXCEPT ![bi] = Chained(bi * m, r + 1)] =
      [j \in Slot |-> IF j = bi THEN Chained(bi * m, r + 1) ELSE Chained(j * m, Room(n - j * m, m))]
  BY DEF Table
<1>6. Table(m, n + 1) = [j \in Slot |-> Chained(j * m, Room((n + 1) - j * m, m))]
  BY DEF Table
<1>7. [j \in Slot |-> IF j = bi THEN Chained(bi * m, r + 1) ELSE Chained(j * m, Room(n - j * m, m))] =
      [j \in Slot |-> Chained(j * m, Room((n + 1) - j * m, m))]
  BY <1>3
<1> QED BY <1>4, <1>5, <1>6, <1>7

-----------------------------------------------------------------------------
(* The invariant.                                                           *)

PlaceOf(i) == [block |-> i \div Bn, local |-> i - (i \div Bn) * Bn]

Ordered == \E m \in Nat \ {0} : div = Bn * m /\ blocks = Table(m, made) /\ made <= Entries * m
MaxHeld == max \in Nat /\ (max < made * Bn \/ (max = 0 /\ made = 0))
CurrentHeld == current = <<>> \/ \E c \in Nat : c < made /\ current = <<Block(c)>>
GivenHeld ==
  /\ given \in [Index -> Place \cup {NoPlace}]
  /\ \A i \in Index : given[i] # NoPlace => i \div Bn < made /\ given[i] = PlaceOf(i)
RefusedHeld == refused \subseteq Index /\ \A i \in refused : i \div Bn >= MemBlocks

ArenaInv == made \in 0..MemBlocks /\ Ordered /\ MaxHeld /\ CurrentHeld /\ GivenHeld /\ RefusedHeld

LEMMA PlaceFacts ==
  ASSUME NEW i \in Index, i \div Bn < MemBlocks
  PROVE  PlaceOf(i) \in Place /\ PlaceOf(i) # NoPlace
<1>1. i \in Nat /\ MemBlocks \in Nat
  BY Sides
<1>2. i \div Bn \in Nat /\ i - (i \div Bn) * Bn \in 0..Bn - 1
  BY <1>1, DivFacts, Sides
<1>3. i \div Bn \in 0..MemBlocks - 1
  BY <1>1, <1>2
<1>4. PlaceOf(i).block \in Nat /\ NoPlace.block = -1
  BY <1>2 DEF PlaceOf, NoPlace
<1> QED BY <1>2, <1>3, <1>4 DEF PlaceOf, Place

LEMMA PlacesDiffer ==
  ASSUME NEW i \in Index, NEW k \in Index, PlaceOf(i) = PlaceOf(k)
  PROVE  i = k
<1>1. i \in Nat /\ k \in Nat
  BY Sides
<1>2. i \div Bn = k \div Bn /\ i - (i \div Bn) * Bn = k - (k \div Bn) * Bn
  BY DEF PlaceOf
<1>3. PICK q \in Nat : q = (i \div Bn) * Bn /\ q = (k \div Bn) * Bn
  BY <1>1, <1>2, DivFacts
<1> QED BY <1>1, <1>2, <1>3

LEMMA FirstArena == Init => ArenaInv
<1> SUFFICES ASSUME Init PROVE ArenaInv
  OBVIOUS
<1>1. made = 0 /\ 0 \in 0..MemBlocks
  BY Sides DEF Init
<1>2. Ordered
  <2>1. div = Bn * 1 /\ 0 <= Entries * 1 /\ 1 \in Nat \ {0}
    BY Sides DEF Init
  <2>2. ASSUME NEW j \in Slot PROVE Chained(j * 1, Room(0 - j * 1, 1)) = <<>>
    <3>1. j \in Nat
      BY Sides DEF Slot
    <3>2. Room(0 - j * 1, 1) = 0 /\ j * 1 \in Nat
      BY <3>1 DEF Room
    <3> QED BY <3>2, ChainEnds
  <2>3. blocks = Table(1, 0)
    BY <2>2 DEF Init, Table
  <2> QED BY <1>1, <2>1, <2>3 DEF Ordered
<1>3. MaxHeld /\ CurrentHeld /\ RefusedHeld
  BY <1>1 DEF Init, MaxHeld, CurrentHeld, RefusedHeld
<1>4. GivenHeld
  BY DEF Init, GivenHeld
<1> QED BY <1>1, <1>2, <1>3, <1>4 DEF ArenaInv

\* What daptr answers.
Answered(i) ==
  /\ i \div Bn < made' /\ given' = [given EXCEPT ![i] = PlaceOf(i)]
  /\ current' = <<Block(i \div Bn)>> /\ max' = (IF i > max THEN i ELSE max) /\ refused' = refused
NotAnswered(i) ==
  /\ i \div Bn >= MemBlocks /\ refused' = refused \cup {i} /\ UNCHANGED <<given, current, max>>

LEMMA AnswerFacts ==
  ASSUME NEW i \in Index, NEW b, b = Block(i \div Bn), Answer(i, b), i \div Bn < made'
  PROVE  Answered(i)
BY DEF Answer, Answered, Block, PlaceOf

\* The table stays in order, and the answer is the place of the index.
LEMMA DaptrFacts ==
  ASSUME ArenaInv, NEW i \in Index, i \div Bn <= made, Daptr(i)
  PROVE  /\ made' \in 0..MemBlocks /\ made <= made' /\ Ordered'
         /\ Answered(i) \/ NotAnswered(i)
<1>1. i \in Nat /\ i \div Bn \in Nat /\ made \in Nat /\ MemBlocks \in Nat /\ made <= MemBlocks
  BY Sides, DivFacts DEF ArenaInv
<1>2. PICK c \in Nat : c = i \div Bn /\ c <= made
  BY <1>1
<1>3. CASE InCurrent(i)
  <2>1. PICK k \in Nat : k < made /\ current = <<Block(k)>>
    BY <1>3 DEF InCurrent, ArenaInv, CurrentHeld
  <2>2. current[1] = Block(k) /\ k = c
    <3>1. current[1] = Block(k)
      BY <2>1
    <3>2. Owns(Block(k), i)
      BY <1>3, <3>1 DEF InCurrent
    <3> QED BY <1>1, <1>2, <3>1, <3>2, OwnerIs
  <2>3. Answer(i, current[1]) /\ div' = div /\ blocks' = blocks /\ made' = made
    BY <1>3 DEF Daptr
  <2>4. Answered(i)
    BY <1>2, <2>1, <2>2, <2>3, AnswerFacts
  <2>5. Ordered'
    BY <2>3 DEF ArenaInv, Ordered
  <2> QED BY <1>1, <2>3, <2>4, <2>5 DEF ArenaInv
<1>4. CASE ~InCurrent(i)
  <2>1. PICK table : table = Reaching(i)
    OBVIOUS
  <2>2. PICK m \in Nat \ {0} : Holds(table, m, made) /\ i \div (Bn * m) < Entries
    BY <1>1, <2>1, ReachFacts DEF ArenaInv, Ordered
  <2>3. PICK D \in Nat : D = Bn * m /\ D = table.div
    <3>1. Bn * m \in Nat
      BY Sides
    <3> QED BY <2>2, <3>1 DEF Holds
  <2>4. PICK bi \in Slot : bi = i \div D /\ bi \in Nat /\ bi * m <= c /\ c < bi * m + m
    <3>1. i \div (Bn * m) \in Nat /\ (i \div (Bn * m)) * m <= c /\ c < (i \div (Bn * m)) * m + m
      BY <1>1, <1>2, EntryOf
    <3>2. i \div (Bn * m) \in Slot
      BY <2>2, <3>1, Sides DEF Slot
    <3> QED BY <2>3, <3>1, <3>2
  <2>5. PICK s \in Nat : s = bi * m
    BY <2>4
  <2>6. PICK r \in Nat : r = Room(made - s, m) /\ r <= m
    <3>1. made - s \in Int
      BY <1>1
    <3>2. Room(made - s, m) \in 0..m
      BY <3>1, RoomFacts
    <3> QED BY <3>2
  <2>7. PICK chain \in Seq(Blocks) : chain = table.blocks[bi] /\ chain = Chained(s, r) /\ Len(chain) = r
    <3>1. table.blocks = Table(m, made)
      BY <2>2 DEF Holds
    <3>2. table.blocks[bi] = Chained(s, r)
      BY <2>5, <2>6, <3>1 DEF Table
    <3> QED BY <3>2, ChainedFacts
  <2>8. PICK start : start = Starter(chain, bi, D)
    OBVIOUS
  <2>9. PICK grown : grown = Walk(start, i, made + Len(start) - Len(chain))
    OBVIOUS
  <2>10. /\ div' = table.div /\ blocks' = [table.blocks EXCEPT ![bi] = grown]
         /\ made' = made + Len(grown) - Len(chain)
         /\ IF HasOwner(grown, i) THEN Answer(i, grown[First(grown, i)]) ELSE Null(i)
    BY <1>4, <2>1, <2>3, <2>4, <2>7, <2>8, <2>9 DEF Daptr, HasOwner
  <2>11. c < s + r \/ (c = s + r /\ made = s + r)
    <3>1. CASE c < made
      <4>1. made - s > 0 /\ made - s \in Int /\ c < s + m
        BY <1>1, <2>4, <2>5, <3>1
      <4>2. r = m \/ r = made - s
        BY <2>6, <4>1 DEF Room
      <4> QED BY <1>1, <3>1, <4>1, <4>2
    <3>2. CASE c = made
      <4>1. made - s \in Nat /\ made - s < m
        BY <1>1, <2>4, <2>5, <3>2
      <4>2. r = made - s
        BY <2>6, <4>1 DEF Room
      <4> QED BY <1>1, <3>2, <4>2
    <3> QED BY <1>1, <1>2, <3>1, <3>2
  <2>12. bi * D = s * Bn
    BY <2>3, <2>4, <2>5, Sides
  <2>13. PICK q \in {r, r + 1} :
           /\ grown = Chained(s, q)
           /\ q = r + 1 => c = s + r /\ made = s + r /\ made < MemBlocks
           /\ c < s + q \/ (made = MemBlocks /\ c = made)
    <3>1. made \in 0..MemBlocks /\ start = Starter(Chained(s, r), bi, D) /\ grown = Walk(start, i, made + Len(start) - r)
      BY <2>7, <2>8, <2>9 DEF ArenaInv
    <3>2. s <= c
      BY <2>4, <2>5
    <3> QED BY <1>1, <1>2, <2>11, <2>12, <3>1, <3>2, WalkFacts
  <2>14. q \in Nat /\ Len(grown) = q /\ made' = made + (q - r)
    <3>1. q \in Nat
      OBVIOUS
    <3>2. Len(grown) = q
      BY <2>13, <3>1, ChainedFacts
    <3> QED BY <2>7, <2>10, <3>1, <3>2
  <2>15. made' \in 0..MemBlocks /\ made <= made'
    BY <1>1, <2>13, <2>14
  <2>16. blocks' = Table(m, made') /\ made' <= Entries * m
    <3>1. table.blocks = Table(m, made) /\ made <= Entries * m
      BY <2>2 DEF Holds
    <3>2. CASE q = r
      <4>1. made' = made
        BY <1>1, <2>14, <3>2
      <4>2. blocks' = table.blocks
        <5>1. table.blocks[bi] = grown
          BY <2>7, <2>13, <3>2
        <5>2. blocks' = [j \in Slot |-> table.blocks[j]]
          BY <2>10, <3>1, <5>1 DEF Table
        <5> QED BY <3>1, <5>2 DEF Table
      <4> QED BY <3>1, <4>1, <4>2
    <3>3. CASE q = r + 1
      <4>1. made = s + r /\ made' = made + 1
        BY <1>1, <2>13, <2>14, <3>3
      <4>2. r \in 0..(m - 1)
        <5>1. c = s + r /\ c < s + m
          BY <2>4, <2>5, <2>13, <3>3
        <5> QED BY <5>1
      <4>3. [Table(m, made) EXCEPT ![bi] = Chained(s, r + 1)] = Table(m, made + 1) /\ made + 1 <= Entries * m
        BY <1>1, <2>5, <4>1, <4>2, TableGrows
      <4> QED BY <2>10, <2>13, <3>1, <3>3, <4>1, <4>3
    <3> QED BY <3>2, <3>3
  <2>17. Ordered'
    <3>1. div' = Bn * m
      BY <2>3, <2>10
    <3> QED BY <2>16, <3>1 DEF Ordered
  <2>18. Answered(i) \/ NotAnswered(i)
    <3>1. s <= c
      BY <2>4, <2>5
    <3>2. CASE c < s + q
      <4>1. HasOwner(grown, i) /\ grown[First(grown, i)] = Block(c)
        BY <1>1, <1>2, <2>13, <2>14, <3>1, <3>2, OwnerInChain
      <4>2. Answer(i, grown[First(grown, i)])
        BY <2>10, <4>1
      <4>3. c < made'
        <5>1. CASE q = r + 1
          BY <1>1, <2>13, <2>14, <3>2, <5>1
        <5>2. CASE q = r
          <6>1. r <= made - s
            <7>1. r > 0
              BY <3>1, <3>2, <5>2
            <7>2. made - s \in Int
              BY <1>1
            <7> QED BY <2>6, <7>1, <7>2 DEF Room
          <6> QED BY <1>1, <2>14, <3>2, <5>2, <6>1
        <5> QED BY <5>1, <5>2
      <4> QED BY <1>2, <4>1, <4>2, <4>3, AnswerFacts
    <3>3. CASE ~(c < s + q)
      <4>1. ~HasOwner(grown, i)
        BY <1>1, <1>2, <2>13, <2>14, <3>3, OwnerInChain
      <4>2. Null(i) /\ c >= MemBlocks
        BY <1>1, <2>10, <2>13, <3>3, <4>1
      <4> QED BY <1>2, <4>2 DEF Null, NotAnswered
    <3> QED BY <3>2, <3>3
  <2> QED BY <2>15, <2>17, <2>18
<1> QED BY <1>3, <1>4

\* A place is given once, and to one index only.
LEMMA DaptrStep ==
  ASSUME ArenaInv, NEW i \in Index, i \div Bn <= made, Daptr(i)
  PROVE  ArenaInv' /\ (given' = given \/ Array!Give(i))
<1>1. made' \in 0..MemBlocks /\ made <= made' /\ Ordered' /\ (Answered(i) \/ NotAnswered(i))
  BY DaptrFacts
<1>2. i \in Nat /\ i \div Bn \in Nat /\ made \in Nat /\ MemBlocks \in Nat /\ made \in 0..MemBlocks /\ made' \in Nat
  BY <1>1, Sides, DivFacts DEF ArenaInv
<1>3. made * Bn \in Nat /\ made' * Bn \in Nat /\ made * Bn <= made' * Bn
  <2>1. PICK d \in Nat : made' = made + d
    BY <1>1, <1>2
  <2>2. made' * Bn = made * Bn + d * Bn /\ made * Bn \in Nat /\ d * Bn \in Nat
    BY <1>2, <2>1, Sides
  <2> QED BY <2>2
<1>4. ASSUME NEW k \in Index, k \div Bn < made PROVE k \div Bn < made'
  <2>1. k \div Bn \in Nat
    BY Sides, DivFacts
  <2> QED BY <1>1, <1>2, <1>4, <2>1
<1>5. CASE Answered(i)
  <2>1. PICK c \in Nat : c = i \div Bn /\ c < made' /\ given' = [given EXCEPT ![i] = PlaceOf(i)]
                         /\ current' = <<Block(c)>> /\ max' = (IF i > max THEN i ELSE max) /\ refused' = refused
    BY <1>2, <1>5 DEF Answered
  <2>2. PlaceOf(i) \in Place /\ PlaceOf(i) # NoPlace
    BY <1>1, <1>2, <2>1, PlaceFacts
  <2>3. MaxHeld'
    <3>1. i < made' * Bn
      <4>1. PICK n \in Nat : n = made' /\ c < n
        BY <1>2, <2>1
      <4>2. PICK e \in Nat : n = c + 1 + e
        BY <4>1
      <4>3. PICK x \in Nat, y \in Nat : x = c * Bn /\ y = e * Bn /\ n * Bn = x + Bn + y
        BY <4>2, Sides
      <4>4. i < x + Bn
        BY <1>2, <2>1, <4>3, DivFacts
      <4>5. i < n * Bn
        BY <1>2, <4>3, <4>4, Sides
      <4> QED BY <4>1, <4>5
    <3>2. max \in Nat /\ (max < made * Bn \/ max = 0)
      BY DEF ArenaInv, MaxHeld
    <3>3. max' \in Nat /\ max' < made' * Bn
      BY <1>2, <1>3, <2>1, <3>1, <3>2
    <3> QED BY <3>3 DEF MaxHeld
  <2>4. CurrentHeld' /\ RefusedHeld'
    BY <2>1 DEF CurrentHeld, RefusedHeld, ArenaInv
  <2>5. GivenHeld'
    <3>1. given' \in [Index -> Place \cup {NoPlace}]
      BY <2>1, <2>2 DEF ArenaInv, GivenHeld
    <3>2. ASSUME NEW k \in Index, given'[k] # NoPlace
          PROVE  k \div Bn < made' /\ given'[k] = PlaceOf(k)
      <4>1. CASE k = i
        BY <2>1, <4>1 DEF ArenaInv, GivenHeld
      <4>2. CASE k # i
        BY <1>4, <2>1, <3>2, <4>2 DEF ArenaInv, GivenHeld
      <4> QED BY <4>1, <4>2
    <3> QED BY <3>1, <3>2 DEF GivenHeld
  <2>6. given' = given \/ Array!Give(i)
    <3>1. CASE given[i] = NoPlace
      <4>1. ASSUME NEW k \in Index, given[k] = PlaceOf(i) PROVE FALSE
        <5>1. given[k] = PlaceOf(k)
          BY <2>2, <4>1 DEF ArenaInv, GivenHeld
        <5>2. k = i
          BY <4>1, <5>1, PlacesDiffer
        <5> QED BY <2>2, <3>1, <4>1, <5>2
      <4> QED BY <2>1, <2>2, <3>1, <4>1 DEF Array!Give
    <3>2. CASE given[i] # NoPlace
      <4>1. given[i] = PlaceOf(i) /\ given \in [Index -> Place \cup {NoPlace}]
        BY <3>2 DEF ArenaInv, GivenHeld
      <4> QED BY <2>1, <4>1
    <3> QED BY <3>1, <3>2
  <2> QED BY <1>1, <2>3, <2>4, <2>5, <2>6 DEF ArenaInv
<1>6. CASE NotAnswered(i)
  <2>1. i \div Bn >= MemBlocks /\ refused' = refused \cup {i} /\ given' = given /\ current' = current /\ max' = max
    BY <1>6 DEF NotAnswered
  <2>2. MaxHeld'
    <3>1. max \in Nat /\ (max < made * Bn \/ (max = 0 /\ made = 0))
      BY DEF ArenaInv, MaxHeld
    <3>2. max < made' * Bn \/ (max = 0 /\ made' = 0)
      <4>1. PICK n \in Nat : n = made'
        BY <1>2
      <4>2. n = 0 \/ n * Bn > 0
        BY Sides
      <4> QED BY <1>3, <3>1, <4>1, <4>2
    <3> QED BY <2>1, <3>1, <3>2 DEF MaxHeld
  <2>3. CurrentHeld'
    <3>1. current = <<>> \/ \E c \in Nat : c < made /\ current = <<Block(c)>>
      BY DEF ArenaInv, CurrentHeld
    <3>2. \A c \in Nat : c < made => c < made'
      BY <1>1, <1>2
    <3> QED BY <2>1, <3>1, <3>2 DEF CurrentHeld
  <2>4. GivenHeld'
    BY <1>4, <2>1 DEF ArenaInv, GivenHeld
  <2>5. RefusedHeld'
    BY <2>1 DEF ArenaInv, RefusedHeld
  <2> QED BY <1>1, <2>1, <2>2, <2>3, <2>4, <2>5 DEF ArenaInv
<1> QED BY <1>1, <1>5, <1>6

\* No caller goes further past the highest index than the block after it.
StepsWithinBlock == Ahead < Bn

LEMMA NextBlockAtMost ==
  ASSUME ArenaInv, NEW i \in Index, NEW a \in Nat, a < Bn, i <= max + a
  PROVE  i \div Bn <= made
<1>1. i \in Nat /\ made \in Nat /\ max \in Nat /\ (max < made * Bn \/ (max = 0 /\ made = 0))
  BY Sides DEF ArenaInv, MaxHeld
<1>2. PICK c \in Nat : c = i \div Bn /\ c * Bn <= i /\ c * Bn \in Nat
  BY <1>1, DivFacts
<1>3. ~(made < c)
  <2> SUFFICES ASSUME made < c PROVE FALSE
    OBVIOUS
  <2>1. PICK e \in Nat : c = made + 1 + e
    BY <1>1
  <2>2. c * Bn = made * Bn + Bn + e * Bn /\ e * Bn \in Nat /\ made * Bn \in Nat
    BY <1>1, <2>1, Sides
  <2> QED BY <1>1, <1>2, <2>2, Sides
<1> QED BY <1>1, <1>2, <1>3

LEMMA ArenaStep ==
  ASSUME StepsWithinBlock, ArenaInv, [Next]_vars
  PROVE  ArenaInv' /\ [Array!Next]_given
<1>1. ASSUME UNCHANGED <<div, blocks, current, max, made, given, refused>>
      PROVE  ArenaInv' /\ [Array!Next]_given
  BY <1>1 DEF ArenaInv, Ordered, MaxHeld, CurrentHeld, GivenHeld, RefusedHeld
<1>2. ASSUME NEW i \in Index, NEW a \in Nat, a < Bn, i <= max + a, Daptr(i)
      PROVE  ArenaInv' /\ [Array!Next]_given
  <2>1. i \div Bn <= made
    BY <1>2, NextBlockAtMost
  <2>2. ArenaInv' /\ (given' = given \/ Array!Give(i))
    BY <1>2, <2>1, DaptrStep
  <2> QED BY <2>2 DEF Array!Next
<1>3. CASE Get
  <2>1. PICK i \in Index : i <= max + Ahead /\ Daptr(i)
    BY <1>3 DEF Get
  <2>2. Ahead \in Nat /\ Ahead < Bn
    BY Sides DEF StepsWithinBlock
  <2> QED BY <1>2, <2>1, <2>2
<1>4. CASE Dapush
  <2>1. max + 1 \in Index /\ Daptr(max + 1) /\ 1 \in Nat /\ 1 < Bn
    BY <1>4, Sides DEF Dapush
  <2>2. max + 1 <= max + 1
    BY DEF ArenaInv, MaxHeld
  <2> QED BY <1>2, <2>1, <2>2
<1>5. CASE Dafree
  BY <1>1, <1>5 DEF Dafree
<1>6. CASE UNCHANGED vars
  BY <1>1, <1>6 DEF vars
<1> QED BY <1>3, <1>4, <1>5, <1>6 DEF Next

\* Pointers into an arena stay good: whatever its size, however often its table is
\* joined, and when memory runs out, darena.c does what StableArray promises.
THEOREM PlacesTheorem == ASSUME StepsWithinBlock PROVE Spec => PermanentPlaces
<1>1. Init => ArenaInv
  BY FirstArena
<1>2. ArenaInv /\ [Next]_vars => ArenaInv' /\ [Array!Next]_given
  BY ArenaStep
<1>3. Init => Array!Init
  BY DEF Init, Array!Init
<1> QED BY <1>1, <1>2, <1>3, PTL DEF Spec, PermanentPlaces, Array!Spec

\* NULL is answered to those only whose index is past all that memory could hold.
THEOREM NullTheorem == ASSUME StepsWithinBlock PROVE Spec => []NullMeansFull
<1>1. Init => ArenaInv
  BY FirstArena
<1>2. ArenaInv /\ [Next]_vars => ArenaInv'
  BY ArenaStep
<1>3. ArenaInv => NullMeansFull
  BY DEF ArenaInv, RefusedHeld, NullMeansFull
<1> QED BY <1>1, <1>2, <1>3, PTL DEF Spec

-----------------------------------------------------------------------------
(* The end of an arena.                                                     *)

FreedHeld ==
  \A b \in 0..MemBlocks - 1 :
    freed[b] \in {0, 1} /\ (live => freed[b] = 0) /\ (~live /\ div = Bn /\ b < made => freed[b] = 1)

LEMMA FirstBlocks ==
  ASSUME ArenaInv, NEW b \in 0..MemBlocks - 1
  PROVE  /\ \A j, k \in FirstIn(b) : j = k
         /\ div = Bn /\ b < made => b \in FirstIn(b)
<1>1. PICK m \in Nat \ {0} : div = Bn * m /\ blocks = Table(m, made) /\ made <= Entries * m
  BY DEF ArenaInv, Ordered
<1>2. made \in Nat /\ b \in Nat
  BY Sides DEF ArenaInv
<1>3. ASSUME NEW j \in Slot
      PROVE  /\ j \in Nat /\ j * m \in Nat
             /\ blocks[j] # <<>> => blocks[j][1].id = j * m
             /\ j * m < made => blocks[j] # <<>>
  <2>1. j \in Nat /\ j * m \in Nat
    BY Sides DEF Slot
  <2>2. PICK r \in Nat : r = Room(made - j * m, m)
    <3>1. made - j * m \in Int
      BY <1>2, <2>1
    <3>2. Room(made - j * m, m) \in 0..m
      BY <3>1, RoomFacts
    <3> QED BY <3>2
  <2>3. PICK x \in Seq(Blocks) : /\ x = blocks[j] /\ Len(x) = r
                                 /\ \A k \in 1..r : x[k] = Block(j * m + k - 1)
    <3>1. blocks[j] = Chained(j * m, r)
      BY <1>1, <2>2 DEF Table
    <3> QED BY <2>1, <3>1, ChainedFacts
  <2>4. x # <<>> => x[1].id = j * m
    <3>1. x # <<>> => 1 \in 1..r
      BY <2>3, EmptySeq
    <3>2. j * m + 1 - 1 = j * m
      BY <2>1
    <3> QED BY <2>1, <2>3, <3>1, <3>2, BlockFacts
  <2>5. j * m < made => r # 0
    <3>1. PICK a \in Int : a = made - j * m /\ (j * m < made => a > 0)
      BY <1>2, <2>1
    <3>2. a > 0 => Room(a, m) # 0
      BY DEF Room
    <3> QED BY <2>2, <3>1, <3>2
  <2>6. r # 0 => x # <<>>
    BY <2>3
  <2> QED BY <2>1, <2>3, <2>4, <2>5, <2>6
<1>4. ASSUME NEW j \in FirstIn(b), NEW k \in FirstIn(b) PROVE j = k
  <2>1. j \in Slot /\ k \in Slot /\ j * m = b /\ k * m = b /\ j \in Nat /\ k \in Nat
    BY <1>3 DEF FirstIn
  <2>2. (j - k) * m = 0
    BY <2>1
  <2>3. j - k \in Int /\ (j - k >= 1 => (j - k) * m >= m) /\ (j - k <= -1 => (j - k) * m <= -m)
    BY <2>1
  <2> QED BY <2>1, <2>2, <2>3
<1>5. ASSUME div = Bn, b < made PROVE b \in FirstIn(b)
  <2>1. m = 1
    <3>1. Bn * m = Bn
      BY <1>1, <1>5
    <3>2. m >= 2 => Bn * m >= 2 * Bn
      BY Sides
    <3> QED BY <3>1, <3>2, Sides
  <2>2. b \in Slot /\ b * m = b
    BY <1>1, <1>2, <1>5, <2>1, Sides DEF Slot
  <2> QED BY <1>3, <1>5, <2>2 DEF FirstIn
<1> QED BY <1>4, <1>5

LEMMA FreedStep ==
  ASSUME ArenaInv, FreedHeld, [Next]_vars
  PROVE  FreedHeld'
<1>1. CASE Get \/ Dapush
  BY <1>1 DEF Get, Dapush, FreedHeld
<1>2. CASE Dafree
  <2>1. ASSUME NEW b \in 0..MemBlocks - 1
        PROVE  freed'[b] \in {0, 1} /\ (~live' /\ div' = Bn /\ b < made' => freed'[b] = 1)
    <3>1. freed'[b] = Cardinality(FirstIn(b)) /\ div' = div /\ made' = made
      BY <1>2 DEF Dafree
    <3>2. CASE FirstIn(b) = {}
      <4>1. ~(div = Bn /\ b < made)
        BY <3>2, FirstBlocks
      <4> QED BY <3>1, <3>2, <4>1, FS_EmptySet
    <3>3. CASE FirstIn(b) # {}
      <4>1. PICK j : FirstIn(b) = {j}
        BY <3>3, FirstBlocks
      <4>2. Cardinality(FirstIn(b)) = 1
        BY <4>1, FS_Singleton
      <4> QED BY <3>1, <4>2
    <3> QED BY <3>2, <3>3
  <2>2. ~live'
    BY <1>2 DEF Dafree
  <2> QED BY <2>1, <2>2 DEF FreedHeld
<1>3. CASE UNCHANGED vars
  BY <1>3 DEF vars, FreedHeld
<1> QED BY <1>1, <1>2, <1>3 DEF Next

\* dafree never frees a block twice, and an arena that never outgrew its table loses
\* none.
THEOREM FreedTheorem == ASSUME StepsWithinBlock PROVE Spec => []FreedOnce
<1>1. Init => ArenaInv /\ FreedHeld
  BY FirstArena DEF Init, FreedHeld
<1>2. ArenaInv /\ FreedHeld /\ [Next]_vars => (ArenaInv /\ FreedHeld)'
  BY ArenaStep, FreedStep
<1>3. FreedHeld => FreedOnce
  BY DEF FreedHeld, FreedOnce
<1> QED BY <1>1, <1>2, <1>3, PTL DEF Spec

-----------------------------------------------------------------------------
(* What an array that keeps its places is good for.                         *)

\* However the elements were first used, no two of them lie in the same place: this
\* is all of Array, so it goes for darr.c as well.
THEOREM PlacesApart == Array!Spec => [](Array!TypeOK /\ Array!NoOverlap)
<1>1. Array!Init => Array!TypeOK /\ Array!NoOverlap
  BY DEF Array!Init, Array!TypeOK, Array!NoOverlap
<1>2. Array!TypeOK /\ Array!NoOverlap /\ [Array!Next]_given => (Array!TypeOK /\ Array!NoOverlap)'
  <2> SUFFICES ASSUME Array!TypeOK, Array!NoOverlap, [Array!Next]_given
               PROVE  (Array!TypeOK /\ Array!NoOverlap)'
    OBVIOUS
  <2>1. CASE Array!Next
    <3>1. PICK i \in Index, p \in Place : (\A k \in Index : given[k] # p) /\ given' = [given EXCEPT ![i] = p]
      BY <2>1 DEF Array!Next, Array!Give
    <3> QED BY <3>1 DEF Array!TypeOK, Array!NoOverlap
  <2>2. CASE given' = given
    BY <2>2 DEF Array!TypeOK, Array!NoOverlap
  <2> QED BY <2>1, <2>2
<1> QED BY <1>1, <1>2, PTL DEF Array!Spec
=============================================================================
