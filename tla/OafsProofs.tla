----------------------------- MODULE OafsProofs -----------------------------
(***************************************************************************)
(* The write buffer of the object file system, for pages of any size, any  *)
(* lines and any number of them: no key is given to free() twice or while  *)
(* packpage still compares with it, and none is lost if lines fit a page.  *)
(* Then the codes of the numbers in those pages: keys of any numbers, and  *)
(* any number of them, can be read back and compare as their numbers do.   *)
(* Then the order of the buffer and of a flush's pages, and last what is   *)
(* on each page: the entries packed into it, for both ways of reading it.  *)
(***************************************************************************)
EXTENDS Oafs, OaqKeys, SequenceTheorems, WellFoundedInduction, TLAPS

USE OafsAssumption

Key == Seq(1..255)
BufferEntry == [key : Key, data : Key, id : Nat]

\* packpage's page has room for any line, were it alone: what the loop of
\* insertlines() needs to pack the whole buffer.
LinesFit == \A l \in Lines : 8 + Len(l.key) + Len(l.data) <= PageSize

\* The keys that are still to be packed, those that packpage compares with or
\* keeps for the page's name, and those that should all be freed in the end.
From == CASE pc = "flush" -> next [] pc = "entry" -> j [] OTHER -> 0
Waiting == {buffer[k].id : k \in (From + 1)..n}
Held == IF pc = "entry" THEN {first, pkey} \ {0} ELSE {}
Given == {i \in DOMAIN file : KeyOf(i) # <<>>}

BufferTypeOK ==
  /\ pc \in {"read", "flush", "entry", "end"}
  /\ file \in Seq(Lines) /\ buffer \in Seq(BufferEntry) /\ freed \in Seq(Nat)
  /\ next \in 0..n /\ j \in Nat /\ (pc = "entry" => j \in 0..n)
  /\ first \in Nat /\ pkey \in Nat
OwnedOnce ==
  /\ \A k \in 1..n : /\ buffer[k].id \in DOMAIN file
                     /\ buffer[k].key = KeyOf(buffer[k].id)
                     /\ buffer[k].data = file[buffer[k].id].data
  /\ \A k, m \in 1..n : buffer[k].id = buffer[m].id => k = m
  /\ IsInjective(freed)
  /\ ToSet(freed) \cap (Held \cup Waiting) = {} /\ Held \cap Waiting = {}
  /\ ToSet(freed) \cup Held \subseteq Given
  /\ pc = "entry" => (first = 0 <=> pkey = 0)
KeysInv == BufferTypeOK /\ OwnedOnce

\* Where lines fit, a page ends with at least one key on it.
NoneLost ==
  /\ pc = "entry" => IF pkey = 0 THEN z = 4 ELSE j > 0
  /\ pc = "end" => buffer = <<>>
  /\ Given \subseteq ToSet(freed) \cup Held \cup Waiting

-----------------------------------------------------------------------------
(* Numbers and sequences.                                                   *)

LEMMA SmallRemainder ==
  ASSUME NEW m \in Nat \ {0}, NEW k \in 0..(m - 1)
  PROVE  k % m = k
<1> DEFINE d == k \div m
           r == k % m
<1>1. d \in Nat /\ r \in 0..(m - 1) /\ k = m * d + r
  OBVIOUS
<1> HIDE DEF d, r
<1>2. ~(d >= 1)
  <2>1. ASSUME d >= 1 PROVE m * d >= m
    BY <1>1, <2>1
  <2> QED BY <1>1, <2>1
<1>3. d = 0
  BY <1>1, <1>2
<1> QED BY <1>1, <1>3 DEF r

LEMMA InsertAtFacts ==
  ASSUME NEW s \in Seq(BufferEntry), NEW i \in 1..(Len(s) + 1), NEW e \in BufferEntry
  PROVE  /\ InsertAt(s, i, e) \in Seq(BufferEntry)
         /\ Len(InsertAt(s, i, e)) = Len(s) + 1
         /\ \A k \in 1..(Len(s) + 1) :
              InsertAt(s, i, e)[k] = IF k < i THEN s[k] ELSE IF k = i THEN e ELSE s[k - 1]
<1> DEFINE a == SubSeq(s, 1, i - 1)
           b == SubSeq(s, i, Len(s))
<1>1. /\ a \in Seq(BufferEntry) /\ Len(a) = i - 1
      /\ \A k \in 1..(i - 1) : a[k] = s[k]
  OBVIOUS
<1>2. /\ b \in Seq(BufferEntry) /\ Len(b) = Len(s) - i + 1
      /\ \A k \in 1..(Len(s) - i + 1) : b[k] = s[i + k - 1]
  OBVIOUS
<1>3. InsertAt(s, i, e) = a \o <<e>> \o b
  BY DEF InsertAt
<1> HIDE DEF a, b
<1>4. /\ a \o <<e>> \in Seq(BufferEntry) /\ Len(a \o <<e>>) = i
      /\ \A k \in 1..i : (a \o <<e>>)[k] = IF k < i THEN s[k] ELSE e
  BY <1>1
<1> DEFINE c == a \o <<e>>
<1> HIDE DEF c
<1>5. c \in Seq(BufferEntry) /\ Len(c) = i /\ \A k \in 1..i : c[k] = IF k < i THEN s[k] ELSE e
  BY <1>4 DEF c
<1>6. /\ c \o b \in Seq(BufferEntry) /\ Len(c \o b) = Len(s) + 1
      /\ \A k \in 1..(Len(s) + 1) : (c \o b)[k] = IF k <= i THEN c[k] ELSE b[k - i]
  <2>0. c \in Seq(BufferEntry) /\ b \in Seq(BufferEntry)
    BY <1>2, <1>5
  <2>1. c \o b \in Seq(BufferEntry) /\ Len(c \o b) = Len(c) + Len(b)
    BY ONLY <2>0
  <2>2. Len(c) + Len(b) = Len(s) + 1 /\ Len(s) \in Nat
    BY <1>2, <1>5
  <2>3. \A k \in 1..(Len(c) + Len(b)) : (c \o b)[k] = IF k <= Len(c) THEN c[k] ELSE b[k - Len(c)]
    BY <1>2, <1>5
  <2> QED BY <1>5, <2>1, <2>2, <2>3
<1>7. \A k \in (i + 1)..(Len(s) + 1) : b[k - i] = s[k - 1]
  BY <1>2
<1> QED
  BY <1>3, <1>5, <1>6, <1>7 DEF c

LEMMA AppendFacts ==
  ASSUME NEW s \in Seq(Nat), NEW x \in Nat
  PROVE  /\ s \o <<x>> \in Seq(Nat)
         /\ ToSet(s \o <<x>>) = ToSet(s) \cup {x}
         /\ IsInjective(s) /\ x \notin ToSet(s) => IsInjective(s \o <<x>>)
<1> DEFINE t == s \o <<x>>
<1>1. /\ t \in Seq(Nat) /\ Len(t) = Len(s) + 1 /\ t[Len(s) + 1] = x
      /\ \A k \in 1..Len(s) : t[k] = s[k]
  OBVIOUS
<1>2. DOMAIN t = 1..(Len(s) + 1) /\ DOMAIN s = 1..Len(s)
  BY <1>1
<1> HIDE DEF t
<1>3. ToSet(t) = ToSet(s) \cup {x}
  <2>1. ASSUME NEW v \in ToSet(t) PROVE v \in ToSet(s) \cup {x}
    <3>1. PICK k \in 1..(Len(s) + 1) : v = t[k]
      BY <1>2 DEF ToSet
    <3>2. k \in 1..Len(s) \/ k = Len(s) + 1
      OBVIOUS
    <3> QED BY <1>1, <1>2, <3>1, <3>2 DEF ToSet
  <2>2. ASSUME NEW v \in ToSet(s) PROVE v \in ToSet(t)
    <3>1. PICK k \in 1..Len(s) : v = s[k]
      BY <1>2 DEF ToSet
    <3> QED BY <1>1, <1>2, <3>1 DEF ToSet
  <2>3. x \in ToSet(t)
    BY <1>1, <1>2 DEF ToSet
  <2> QED BY <2>1, <2>2, <2>3
<1>4. ASSUME IsInjective(s), x \notin ToSet(s) PROVE IsInjective(t)
  <2> SUFFICES ASSUME NEW k \in 1..(Len(s) + 1), NEW m \in 1..(Len(s) + 1), t[k] = t[m]
               PROVE  k = m
    BY <1>2 DEF IsInjective
  <2>1. \A l \in 1..Len(s) : s[l] # x
    BY <1>2, <1>4 DEF ToSet
  <2>2. (k \in 1..Len(s) \/ k = Len(s) + 1) /\ (m \in 1..Len(s) \/ m = Len(s) + 1)
    OBVIOUS
  <2>3. \A l \in 1..Len(s) : t[l] # x
    BY <1>1, <2>1
  <2>4. ASSUME k \in 1..Len(s), m \in 1..Len(s) PROVE k = m
    BY <1>1, <1>2, <1>4, <2>4 DEF IsInjective
  <2> QED BY <1>1, <2>2, <2>3, <2>4
<1> QED
  BY <1>1, <1>3, <1>4 DEF t

-----------------------------------------------------------------------------
(* Who owns a key.                                                          *)

\* The entry at hand is waiting, and no other is the same line.
LEMMA EntryFacts ==
  ASSUME KeysInv, pc = "entry", j < n
  PROVE  /\ j \in Nat /\ j + 1 \in 1..n
         /\ Entry \in BufferEntry /\ Entry.id \in DOMAIN file /\ Entry.id \in Nat \ {0}
         /\ Entry.key = KeyOf(Entry.id) /\ Entry.data = file[Entry.id].data
         /\ Entry.id \notin ToSet(freed) /\ Entry.id \notin Held
         /\ Waiting = {Entry.id} \cup {buffer[k].id : k \in (j + 1 + 1)..n}
         /\ Entry.id \notin {buffer[k].id : k \in (j + 1 + 1)..n}
<1>1. j \in Nat /\ n \in Nat /\ j + 1 \in 1..n /\ buffer \in Seq(BufferEntry) /\ From = j
  BY DEF KeysInv, BufferTypeOK, From, n
<1>2. Entry \in BufferEntry
  BY <1>1 DEF Entry, n
<1>3. DOMAIN file \subseteq Nat \ {0}
  BY DEF KeysInv, BufferTypeOK
<1>4. /\ Entry.id \in DOMAIN file
      /\ Entry.key = KeyOf(Entry.id) /\ Entry.data = file[Entry.id].data
  BY <1>1 DEF KeysInv, OwnedOnce, Entry
<1>5. Waiting = {Entry.id} \cup {buffer[k].id : k \in (j + 1 + 1)..n}
  <2>1. (j + 1)..n = {j + 1} \cup ((j + 1 + 1)..n)
    BY <1>1
  <2> QED BY <1>1, <2>1 DEF Waiting, Entry
<1>6. ASSUME NEW k \in (j + 1 + 1)..n PROVE buffer[k].id # Entry.id
  <2>1. k \in 1..n /\ k # j + 1
    BY <1>1
  <2> QED BY <1>1, <2>1 DEF KeysInv, OwnedOnce, Entry
<1>7. Entry.id \notin ToSet(freed) /\ Entry.id \notin Held
  BY <1>5 DEF KeysInv, OwnedOnce
<1> QED
  BY <1>1, <1>2, <1>3, <1>4, <1>5, <1>6, <1>7

LEMMA InitKeys == Init => KeysInv /\ NoneLost
<1> SUFFICES ASSUME Init PROVE KeysInv /\ NoneLost
  OBVIOUS
<1>1. n = 0 /\ Len(file) = 0 /\ DOMAIN file = {} /\ DOMAIN freed = {}
  BY DEF Init, n
<1>2. BufferTypeOK
  BY <1>1 DEF Init, BufferTypeOK
<1>3. ToSet(freed) = {} /\ Held = {} /\ Given = {} /\ Waiting = {}
  BY <1>1 DEF Init, ToSet, Held, Given, Waiting, From
<1>4. OwnedOnce
  BY <1>1, <1>3 DEF Init, OwnedOnce, IsInjective
<1> QED
  BY <1>2, <1>3, <1>4 DEF Init, KeysInv, NoneLost

LEMMA LeastOf ==
  ASSUME NEW S, S \subseteq Nat, S # {}
  PROVE  \E s \in S : \A t \in S : s <= t
<1>1. PICK s \in S : \A t \in S : ~ (<<t, s>> \in OpToRel(<, Nat))
  BY WFMin, NatLessThanWellFounded
<1>2. ASSUME NEW t \in S, t < s PROVE FALSE
  <2>1. <<t, s>> \in {ss \in Nat \X Nat : ss[1] < ss[2]}
    BY <1>2
  <2> QED BY <1>1, <2>1 DEF OpToRel
<1>3. \A t \in S : s <= t
  BY <1>2
<1> QED BY <1>3

LEMMA PlaceInRange ==
  ASSUME BufferTypeOK, NEW name
  PROVE  Place(name) \in 1..(n + 1)
<1> DEFINE I == {i \in 1..Len(buffer) : GoesBefore(name, buffer[i].key)}
<1>1. n = Len(buffer) /\ n \in Nat
  BY DEF BufferTypeOK, n
<1>2. Place(name) = IF I = {} THEN n + 1 ELSE IF Min(I) = 0 THEN n + 1 ELSE Min(I)
  BY <1>1 DEF Place, SelectInSeq
<1>3. ASSUME I # {} PROVE Min(I) \in I
  <2>1. I \subseteq Nat
    BY <1>1
  <2>2. PICK i \in I : \A k \in I : i <= k
    <3> HIDE DEF I
    <3> QED BY <1>3, <2>1, LeastOf
  <2> HIDE DEF I
  <2> QED BY <2>2 DEF Min
<1> QED
  BY <1>1, <1>2, <1>3

\* insertlines() gives the buffer one more key, of a new line.
LEMMA InsertKeys ==
  ASSUME KeysInv, NEW l \in Lines, Insert(l)
  PROVE  KeysInv' /\ (NoneLost => NoneLost')
<1> DEFINE new == Len(file) + 1
           e == [key |-> l.key, data |-> l.data, id |-> new]
           i == Place(l.key)
<1>1. /\ pc = "read" /\ pc' = "read" /\ n = Len(buffer) /\ n \in Nat
      /\ file \in Seq(Lines) /\ file' = Append(file, l)
      /\ freed' = freed /\ next' = next /\ j' = j /\ first' = first /\ pkey' = pkey /\ z' = z
  BY DEF Insert, KeysInv, BufferTypeOK, n
<1>2. /\ file' \in Seq(Lines) /\ Len(file') = new /\ new \in Nat \ {0}
      /\ DOMAIN file = 1..Len(file) /\ DOMAIN file' = 1..new
      /\ \A k \in DOMAIN file : file'[k] = file[k]
      /\ file'[new] = l
  BY <1>1
<1>3. i \in 1..(n + 1) /\ i \in 1..(Len(buffer) + 1)
  BY <1>1, PlaceInRange DEF KeysInv
<1>4. e \in BufferEntry /\ buffer \in Seq(BufferEntry)
  <2>1. l.key \in Key /\ l.data \in Key
    BY DEF OafsAssumption, Key
  <2>2. buffer \in Seq(BufferEntry)
    BY DEF KeysInv, BufferTypeOK
  <2> QED BY <1>2, <2>1, <2>2 DEF BufferEntry
<1>5. buffer' = InsertAt(buffer, i, e)
  BY <1>2 DEF Insert
<1> HIDE DEF e, i, new
<1>6. /\ buffer' \in Seq(BufferEntry) /\ Len(buffer') = n + 1
      /\ \A k \in 1..(n + 1) :
           buffer'[k] = IF k < i THEN buffer[k] ELSE IF k = i THEN e ELSE buffer[k - 1]
  <2> DEFINE t == InsertAt(buffer, i, e)
  <2>1. /\ t \in Seq(BufferEntry) /\ Len(t) = Len(buffer) + 1
        /\ \A k \in 1..(Len(buffer) + 1) :
             t[k] = IF k < i THEN buffer[k] ELSE IF k = i THEN e ELSE buffer[k - 1]
    BY ONLY <1>3, <1>4, InsertAtFacts, ZenonT(60)
  <2>2. buffer' = t
    BY <1>5
  <2> HIDE DEF t
  <2> QED BY <1>1, <2>1, <2>2
<1>7. n' = n + 1
  BY <1>6 DEF n
<1>8. BufferTypeOK'
  BY <1>1, <1>2, <1>6, <1>7 DEF BufferTypeOK, KeysInv
<1>9. e.id = new /\ e.key = file'[new].key /\ e.data = file'[new].data /\ new \notin DOMAIN file
  BY <1>2 DEF e, new
<1>10. \A k \in 1..n : /\ buffer[k].id \in DOMAIN file
                      /\ buffer[k].key = file[buffer[k].id].key
                      /\ buffer[k].data = file[buffer[k].id].data
  BY DEF KeysInv, OwnedOnce, KeyOf
<1>11. \A k \in 1..(n + 1) :
         /\ k < i => k \in 1..n /\ buffer'[k] = buffer[k]
         /\ k > i => k - 1 \in 1..n /\ buffer'[k] = buffer[k - 1]
         /\ k = i => buffer'[k] = e
  BY <1>1, <1>3, <1>6, SMTT(30)
<1>12. \A k \in 1..n' : /\ buffer'[k].id \in DOMAIN file'
                       /\ buffer'[k].key = file'[buffer'[k].id].key
                       /\ buffer'[k].data = file'[buffer'[k].id].data
  <2> DEFINE FromFile(x) == /\ x.id \in DOMAIN file'
                        /\ x.key = file'[x.id].key /\ x.data = file'[x.id].data
  <2> SUFFICES ASSUME NEW k \in 1..(n + 1) PROVE FromFile(buffer'[k])
    BY <1>7
  <2>0. \A h \in 1..n : FromFile(buffer[h])
    <3> SUFFICES ASSUME NEW h \in 1..n PROVE FromFile(buffer[h])
      OBVIOUS
    <3>1. /\ buffer[h].id \in DOMAIN file
          /\ buffer[h].key = file[buffer[h].id].key /\ buffer[h].data = file[buffer[h].id].data
      BY <1>10
    <3>2. DOMAIN file \subseteq DOMAIN file'
      BY <1>2 DEF new
    <3> QED BY <1>2, <3>1, <3>2
  <2>1. CASE k = i
    BY <1>2, <1>9, <1>11, <2>1
  <2>2. CASE k < i
    BY <1>11, <2>0, <2>2
  <2>3. CASE k > i
    BY <1>11, <2>0, <2>3
  <2> QED BY <1>3, <2>1, <2>2, <2>3
<1>13. \A k, m \in 1..n' : buffer'[k].id = buffer'[m].id => k = m
  <2> SUFFICES ASSUME NEW k \in 1..(n + 1), NEW m \in 1..(n + 1),
                      buffer'[k].id = buffer'[m].id
               PROVE  k = m
    BY <1>7
  <2>1. \A h \in 1..n : buffer[h].id # new
    BY <1>9, <1>10
  <2>2. \A g, h \in 1..n : buffer[g].id = buffer[h].id => g = h
    BY DEF KeysInv, OwnedOnce
  <2>3. CASE k = i
    BY <1>3, <1>9, <1>11, <2>1, <2>3
  <2>4. CASE k < i
    BY <1>3, <1>9, <1>11, <2>1, <2>2, <2>4
  <2>5. CASE k > i
    BY <1>3, <1>9, <1>11, <2>1, <2>2, <2>5
  <2> QED BY <1>3, <2>3, <2>4, <2>5
<1>14. From = 0 /\ From' = 0 /\ Held = {} /\ Held' = {}
  BY <1>1 DEF From, Held
<1>15. Waiting' = Waiting \cup {new}
  <2>0. Waiting = {buffer[k].id : k \in 1..n} /\ Waiting' = {buffer'[k].id : k \in 1..(n + 1)}
    BY <1>7, <1>14 DEF Waiting
  <2>1. ASSUME NEW k \in 1..(n + 1) PROVE buffer'[k].id \in Waiting \cup {new}
    <3>1. k < i \/ k = i \/ k > i
      BY <1>3
    <3> QED BY <1>9, <1>11, <2>0, <3>1
  <2>2. ASSUME NEW k \in 1..n PROVE buffer[k].id \in Waiting'
    <3>1. CASE k < i
      BY <1>1, <1>11, <2>0, <3>1
    <3>2. CASE k >= i
      <4>1. k + 1 \in 1..(n + 1) /\ k + 1 > i /\ (k + 1) - 1 = k
        BY <1>1, <1>3, <3>2
      <4>2. buffer'[k + 1] = buffer[k]
        BY <1>11, <4>1
      <4> QED BY <2>0, <4>1, <4>2
    <3> QED BY <1>3, <3>1, <3>2
  <2>3. new \in Waiting'
    BY <1>3, <1>9, <1>11, <2>0
  <2> QED BY <2>0, <2>1, <2>2, <2>3
<1>16. Given \subseteq DOMAIN file /\ Given \subseteq Given' /\ Given' \subseteq Given \cup {new}
  BY <1>2 DEF Given, KeyOf, new
<1>17. new \notin ToSet(freed)
  BY <1>9, <1>16 DEF KeysInv, OwnedOnce
<1>18. OwnedOnce'
  BY <1>1, <1>12, <1>13, <1>14, <1>15, <1>16, <1>17 DEF OwnedOnce, KeysInv, KeyOf, ToSet, IsInjective
<1>19. NoneLost => NoneLost'
  BY <1>1, <1>14, <1>15, <1>16 DEF NoneLost, ToSet
<1> QED
  BY <1>8, <1>18, <1>19 DEF KeysInv

LEMMA FlushKeys ==
  ASSUME KeysInv, Flush
  PROVE  KeysInv' /\ (NoneLost => NoneLost')
<1>1. /\ pc = "read" /\ pc' = "flush" /\ next' = 0 /\ n' = n /\ n \in Nat
      /\ UNCHANGED <<file, buffer, j, z, first, pkey, freed>>
  BY DEF Flush, n, KeysInv, BufferTypeOK
<1>2. From = 0 /\ From' = 0 /\ Held = {} /\ Held' = {}
  BY <1>1 DEF From, Held
<1>3. Waiting' = Waiting /\ Given' = Given /\ ToSet(freed)' = ToSet(freed)
  BY <1>1, <1>2 DEF Waiting, Given, KeyOf, ToSet
<1>4. BufferTypeOK'
  BY <1>1 DEF BufferTypeOK, KeysInv
<1>5. OwnedOnce'
  BY <1>1, <1>2, <1>3 DEF OwnedOnce, KeysInv, KeyOf, IsInjective
<1>6. NoneLost => NoneLost'
  BY <1>1, <1>2, <1>3 DEF NoneLost
<1> QED
  BY <1>4, <1>5, <1>6 DEF KeysInv

LEMMA HeaderKeys ==
  ASSUME KeysInv, Header
  PROVE  KeysInv' /\ (NoneLost => NoneLost')
<1>1. /\ pc = "flush" /\ pc' = "entry" /\ z' = 4 /\ j' = next /\ first' = 0 /\ pkey' = 0
      /\ n' = n /\ n \in Nat /\ UNCHANGED <<file, buffer, next, freed>>
  BY DEF Header, n, KeysInv, BufferTypeOK
<1>2. From = next /\ From' = next /\ Held = {} /\ Held' = {}
  BY <1>1 DEF From, Held
<1>3. Waiting' = Waiting /\ Given' = Given /\ ToSet(freed)' = ToSet(freed)
  BY <1>1, <1>2 DEF Waiting, Given, KeyOf, ToSet
<1>4. BufferTypeOK'
  BY <1>1 DEF BufferTypeOK, KeysInv
<1>5. OwnedOnce'
  BY <1>1, <1>2, <1>3 DEF OwnedOnce, KeysInv, KeyOf, IsInjective
<1>6. NoneLost => NoneLost'
  BY <1>1, <1>2, <1>3 DEF NoneLost
<1> QED
  BY <1>4, <1>5, <1>6 DEF KeysInv

LEMMA NoKeyKeys ==
  ASSUME KeysInv, NoKey
  PROVE  KeysInv' /\ (NoneLost => NoneLost')
<1>1. /\ pc = "entry" /\ pc' = "entry" /\ j < n /\ Entry.key = <<>> /\ j' = j + 1
      /\ n' = n /\ n \in Nat /\ UNCHANGED <<file, buffer, next, z, first, pkey, freed>>
  BY DEF NoKey, n, KeysInv, BufferTypeOK
<1>2. /\ j \in Nat /\ j + 1 \in 1..n /\ Entry.key = KeyOf(Entry.id)
      /\ Waiting = {Entry.id} \cup {buffer[k].id : k \in (j + 1 + 1)..n}
  BY <1>1, EntryFacts
<1>3. From' = j + 1 /\ Held' = Held
  BY <1>1 DEF From, Held
<1>4. Waiting' = {buffer[k].id : k \in (j + 1 + 1)..n}
  BY <1>1, <1>3 DEF Waiting
<1>5. Given' = Given /\ ToSet(freed)' = ToSet(freed) /\ Entry.id \notin Given
  BY <1>1, <1>2 DEF Given, KeyOf, ToSet
<1>6. BufferTypeOK'
  BY <1>1, <1>2 DEF BufferTypeOK, KeysInv
<1>7. OwnedOnce'
  BY <1>1, <1>2, <1>3, <1>4, <1>5 DEF OwnedOnce, KeysInv, KeyOf, IsInjective
<1>8. NoneLost => NoneLost'
  BY <1>1, <1>2, <1>3, <1>4, <1>5 DEF NoneLost
<1> QED
  BY <1>6, <1>7, <1>8 DEF KeysInv

\* The entry takes the place of the key before, which is freed but for the first.
LEMMA PackEntryKeys ==
  ASSUME KeysInv, PackEntry
  PROVE  KeysInv' /\ (NoneLost => NoneLost')
<1>1. /\ pc = "entry" /\ pc' = "entry" /\ j < n /\ Entry.key # <<>> /\ j' = j + 1
      /\ n' = n /\ n \in Nat /\ UNCHANGED <<file, buffer, next>>
      /\ freed' = freed \o Dispose /\ pkey' = Entry.id
      /\ first' = IF first = 0 THEN Entry.id ELSE first
  BY DEF PackEntry, n, KeysInv, BufferTypeOK
<1>2. /\ j \in Nat /\ j + 1 \in 1..n /\ Entry.key = KeyOf(Entry.id)
      /\ Entry.id \in DOMAIN file /\ Entry.id \in Nat \ {0}
      /\ Entry.id \notin ToSet(freed) /\ Entry.id \notin Held
      /\ Waiting = {Entry.id} \cup {buffer[k].id : k \in (j + 1 + 1)..n}
      /\ Entry.id \notin {buffer[k].id : k \in (j + 1 + 1)..n}
  BY <1>1, EntryFacts
<1>3. Held = {first, pkey} \ {0} /\ (first = 0 <=> pkey = 0) /\ first \in Nat /\ pkey \in Nat
  BY <1>1 DEF Held, KeysInv, OwnedOnce, BufferTypeOK
<1>4. Held' = {first', Entry.id}
  BY <1>1, <1>2 DEF Held
<1>5. Waiting' = {buffer[k].id : k \in (j + 1 + 1)..n}
  BY <1>1 DEF Waiting, From
<1>6. Given' = Given /\ Entry.id \in Given
  BY <1>1, <1>2 DEF Given, KeyOf
<1>7. /\ freed' \in Seq(Nat) /\ IsInjective(freed')
      /\ ToSet(freed') = ToSet(freed) \cup (IF pkey # first THEN {pkey} ELSE {})
  <2>1. freed \in Seq(Nat) /\ IsInjective(freed)
    BY DEF KeysInv, BufferTypeOK, OwnedOnce
  <2>2. CASE pkey # first
    <3>1. freed' = freed \o <<pkey>> /\ pkey \notin ToSet(freed)
      BY <1>1, <1>3, <2>2 DEF Dispose, KeysInv, OwnedOnce
    <3> QED BY <1>3, <2>1, <2>2, <3>1, AppendFacts
  <2>3. CASE pkey = first
    <3>1. freed' = freed
      BY <1>1, <2>1, <2>3 DEF Dispose
    <3> QED BY <2>1, <2>3, <3>1
  <2> QED BY <2>2, <2>3
<1>8. BufferTypeOK'
  BY <1>1, <1>2, <1>3, <1>7 DEF BufferTypeOK, KeysInv
<1>9. /\ ToSet(freed) \cap (Held \cup Waiting) = {} /\ Held \cap Waiting = {}
      /\ ToSet(freed) \cup Held \subseteq Given
  BY DEF KeysInv, OwnedOnce
<1>10. /\ ToSet(freed') \cap (Held' \cup Waiting') = {} /\ Held' \cap Waiting' = {}
       /\ ToSet(freed') \cup Held' \subseteq Given
       /\ first' # 0 /\ pkey' # 0
  <2> DEFINE F == ToSet(freed)
             FF == ToSet(freed')
             W == Waiting
             WW == Waiting'
             e == Entry.id
  <2>1. /\ F \cap (Held \cup W) = {} /\ Held \cap W = {} /\ F \cup Held \subseteq Given
        /\ W = {e} \cup WW /\ e \notin WW /\ e \notin F /\ e \notin Held /\ e \in Given /\ e # 0
    BY <1>2, <1>5, <1>6, <1>9
  <2>2. FF = F \cup (IF pkey # first THEN {pkey} ELSE {}) /\ Held' = {first', e} /\ pkey' = e
    BY <1>1, <1>4, <1>7
  <2>3. CASE first = 0
    <3>1. FF = F /\ Held' = {e} /\ first' = e
      BY <1>1, <1>3, <2>2, <2>3
    <3> HIDE DEF F, FF, W, WW, e
    <3>2. FF \cap (Held' \cup WW) = {} /\ Held' \cap WW = {} /\ FF \cup Held' \subseteq Given
      BY <2>1, <3>1
    <3> QED BY <2>1, <2>2, <3>1, <3>2 DEF FF, WW
  <2>4. CASE first # 0
    <3>1. Held = {first, pkey} /\ first' = first
      BY <1>1, <1>3, <2>4
    <3> HIDE DEF F, FF, W, WW, e
    <3>2. FF \subseteq F \cup Held /\ first \notin FF
      BY <2>1, <2>2, <3>1
    <3>3. FF \cap (Held' \cup WW) = {}
      BY <2>1, <2>2, <3>1, <3>2
    <3>4. Held' \cap WW = {} /\ FF \cup Held' \subseteq Given
      BY <2>1, <2>2, <3>1, <3>2
    <3> QED BY <2>1, <2>2, <2>4, <3>1, <3>3, <3>4 DEF FF, WW
  <2> QED BY <2>3, <2>4
<1>11. OwnedOnce'
  BY <1>1, <1>6, <1>7, <1>10 DEF OwnedOnce, KeysInv, KeyOf, ToSet
<1>12. NoneLost => NoneLost'
  <2> SUFFICES ASSUME NoneLost PROVE NoneLost'
    OBVIOUS
  <2>1. Given \subseteq ToSet(freed) \cup Held \cup Waiting
    BY DEF NoneLost
  <2>2. Given \subseteq ToSet(freed') \cup Held' \cup Waiting'
    BY <1>1, <1>2, <1>3, <1>4, <1>5, <1>7, <2>1
  <2> QED BY <1>1, <1>2, <1>6, <1>10, <2>2 DEF NoneLost, ToSet
<1> QED
  BY <1>8, <1>11, <1>12 DEF KeysInv

\* The page's two keys are freed; either the rest of the buffer goes to another
\* page, or there is none.
LEMMA EndPageKeys ==
  ASSUME KeysInv, EndPage
  PROVE  KeysInv' /\ (LinesFit /\ NoneLost => NoneLost')
<1>1. /\ pc = "entry" /\ UNCHANGED <<file, first, pkey, j, z>> /\ next' = Inext
      /\ freed' = freed \o (IF first # 0 THEN <<first>> ELSE <<>>) \o Dispose
      /\ j < n => Entry.key # <<>> /\ ~Fits
      /\ IF Inext # 0 THEN pc' = "flush" /\ UNCHANGED buffer
         ELSE pc' = (IF eof THEN "end" ELSE "read") /\ buffer' = <<>>
  BY DEF EndPage
<1>2. /\ j \in 0..n /\ n \in Nat /\ Inext \in 0..n /\ Inext = (IF j >= n THEN 0 ELSE j)
      /\ buffer \in Seq(BufferEntry)
  BY <1>1 DEF KeysInv, BufferTypeOK, Inext, n
<1>3. Held = {first, pkey} \ {0} /\ (first = 0 <=> pkey = 0) /\ first \in Nat /\ pkey \in Nat
  BY <1>1 DEF Held, KeysInv, OwnedOnce, BufferTypeOK
<1>4. Held' = {}
  BY <1>1 DEF Held
<1>5. freed \in Seq(Nat) /\ IsInjective(freed) /\ ToSet(freed) \cap Held = {}
  BY DEF KeysInv, BufferTypeOK, OwnedOnce
<1>6. freed' \in Seq(Nat) /\ IsInjective(freed') /\ ToSet(freed') = ToSet(freed) \cup Held
  <2>1. CASE first = 0
    <3>1. freed' = freed /\ Held = {}
      BY <1>1, <1>3, <1>5, <2>1 DEF Dispose
    <3> QED BY <1>5, <3>1
  <2>2. CASE first # 0
    <3> DEFINE s == freed \o <<first>>
    <3>1. s \in Seq(Nat) /\ IsInjective(s) /\ ToSet(s) = ToSet(freed) \cup {first}
      <4>1. first \notin ToSet(freed)
        BY <1>3, <1>5, <2>2
      <4> QED BY <1>3, <1>5, <4>1, AppendFacts
    <3>2. Held = {first, pkey}
      BY <1>3, <2>2
    <3>3. freed' = s \o Dispose
      BY <1>1, <2>2
    <3> HIDE DEF s
    <3>4. CASE pkey = first
      <4>1. freed' = s
        BY <3>1, <3>3, <3>4 DEF Dispose
      <4> QED BY <3>1, <3>2, <3>4, <4>1
    <3>5. CASE pkey # first
      <4>1. freed' = s \o <<pkey>>
        BY <3>3, <3>5 DEF Dispose
      <4>2. pkey \notin ToSet(s)
        BY <1>5, <3>1, <3>2, <3>5
      <4>3. freed' \in Seq(Nat) /\ IsInjective(freed') /\ ToSet(freed') = ToSet(s) \cup {pkey}
        BY <1>3, <3>1, <4>1, <4>2, AppendFacts
      <4> QED BY <3>1, <3>2, <4>3
    <3> QED BY <3>4, <3>5
  <2> QED BY <2>1, <2>2
<1>7. Given' = Given
  BY <1>1 DEF Given, KeyOf
<1>8. CASE Inext # 0
  <2>1. pc' = "flush" /\ next' = j /\ buffer' = buffer /\ n' = n
    BY <1>1, <1>2, <1>8 DEF n
  <2>2. Waiting' = Waiting
    BY <1>1, <2>1 DEF Waiting, From
  <2>3. BufferTypeOK'
    BY <1>1, <1>2, <1>3, <1>6, <2>1 DEF BufferTypeOK, KeysInv
  <2>4. OwnedOnce'
    BY <1>1, <1>4, <1>6, <1>7, <2>1, <2>2 DEF OwnedOnce, KeysInv, KeyOf, ToSet
  <2>5. NoneLost => NoneLost'
    BY <1>1, <1>4, <1>6, <1>7, <2>1, <2>2 DEF NoneLost, ToSet
  <2> QED BY <2>3, <2>4, <2>5 DEF KeysInv
<1>9. CASE Inext = 0
  <2>1. pc' \in {"end", "read"} /\ next' = 0 /\ buffer' = <<>> /\ n' = 0
    BY <1>1, <1>9 DEF n
  <2>2. Waiting' = {}
    BY <2>1 DEF Waiting, From
  <2>3. BufferTypeOK'
    BY <1>1, <1>2, <1>3, <1>6, <2>1 DEF BufferTypeOK, KeysInv
  <2>4. OwnedOnce'
    <3>1. 1..n' = {}
      BY <2>1
    <3>2. ToSet(freed)' = ToSet(freed') /\ IsInjective(freed)' <=> IsInjective(freed')
      BY DEF ToSet, IsInjective
    <3>3. ToSet(freed') \subseteq Given
      BY <1>6 DEF KeysInv, OwnedOnce
    <3> QED BY <1>4, <1>6, <1>7, <2>1, <2>2, <3>1, <3>2, <3>3 DEF OwnedOnce
  <2>5. ASSUME LinesFit, NoneLost PROVE NoneLost'
    <3>1. j >= n
      <4> SUFFICES ASSUME j < n PROVE FALSE
        BY <1>2
      <4>1. j = 0 /\ pkey = 0 /\ z = 4 /\ ~Fits
        BY <1>1, <1>2, <1>9, <2>5 DEF NoneLost
      <4>2. Prefix = 0
        <5>1. SharedLength = 0
          BY <4>1 DEF SharedLength
        <5> DEFINE same == {m \in 0..SharedLength : \A i \in 1..m : KeyOf(pkey)[i] = Entry.key[i]}
        <5>2. same = {0}
          BY <5>1
        <5>3. Prefix = CHOOSE m \in same : \A k \in same : k <= m
          BY DEF Prefix
        <5> HIDE DEF same
        <5> QED BY <5>2, <5>3
      <4> DEFINE l == file[Entry.id]
      <4>3. l \in Lines /\ Entry.key = l.key /\ Entry.data = l.data
        <5>1. Entry.id \in DOMAIN file /\ Entry.key = KeyOf(Entry.id) /\ Entry.data = l.data
          BY <1>1, EntryFacts
        <5>2. file \in Seq(Lines)
          BY DEF KeysInv, BufferTypeOK
        <5> QED BY <5>1, <5>2 DEF KeyOf
      <4> HIDE DEF l
      <4> DEFINE K == Len(l.key)
                 D == Len(l.data)
      <4>4. K \in Nat /\ D \in Nat
        <5>1. l.key \in Seq(1..255) /\ l.data \in Seq(1..255)
          BY <4>3 DEF OafsAssumption
        <5> QED BY ONLY <5>1
      <4>5. 8 + K + D <= PageSize /\ PageSize \in Nat \ {0}
        <5>1. PageSize \in Nat \ {0}
          BY DEF OafsAssumption
        <5>2. 8 + K + D <= PageSize
          BY <2>5, <4>3 DEF LinesFit
        <5> QED BY <5>1, <5>2
      <4>6. Need = (3 + 1 + K + D - 0) % PageSize
        BY <4>2, <4>3 DEF Need
      <4> HIDE DEF K, D
      <4>7. 3 + 1 + K + D - 0 = 4 + K + D /\ 4 + K + D \in 0..(PageSize - 1)
        BY <4>4, <4>5
      <4>8. Need = 4 + K + D
        BY <4>5, <4>6, <4>7, SmallRemainder
      <4> QED BY <4>1, <4>4, <4>5, <4>8 DEF Fits
    <3>2. Waiting = {}
      BY <1>1, <1>2, <3>1 DEF Waiting, From
    <3> QED BY <1>4, <1>6, <1>7, <2>1, <2>2, <2>5, <3>2 DEF NoneLost, ToSet
  <2> QED BY <2>3, <2>4, <2>5 DEF KeysInv
<1> QED
  BY <1>8, <1>9

LEMMA NextKeys ==
  ASSUME KeysInv, [Next]_vars
  PROVE  KeysInv' /\ (LinesFit /\ NoneLost => NoneLost')
<1>1. CASE UNCHANGED vars
  <2>1. /\ UNCHANGED <<pc, file, buffer, next, j, z, first, pkey, freed>>
        /\ n' = n /\ ToSet(freed)' = ToSet(freed)
    BY <1>1 DEF vars, n, ToSet
  <2>2. From' = From /\ Held' = Held /\ Given' = Given
    BY <2>1 DEF From, Held, Given, KeyOf
  <2>3. Waiting' = Waiting
    BY <2>1, <2>2 DEF Waiting
  <2>4. BufferTypeOK' /\ OwnedOnce'
    BY <2>1, <2>2, <2>3 DEF KeysInv, BufferTypeOK, OwnedOnce, KeyOf, IsInjective
  <2> QED BY <2>1, <2>2, <2>3, <2>4 DEF KeysInv, NoneLost
<1>2. CASE Next
  BY <1>2, InsertKeys, FlushKeys, HeaderKeys, NoKeyKeys, PackEntryKeys, EndPageKeys DEF Next
<1> QED
  BY <1>1, <1>2

\* free() gets no key twice, and none that packpage still needs: neither the key
\* it compares the next with, nor the one that names the page.
THEOREM FreedOnceTheorem ==
  Spec => [](IsInjective(freed) /\ (pc = "entry" => {first, pkey} \cap ToSet(freed) = {}))
<1>1. Init => KeysInv
  BY InitKeys
<1>2. KeysInv /\ [Next]_vars => KeysInv'
  BY NextKeys
<1>3. KeysInv => IsInjective(freed) /\ (pc = "entry" => {first, pkey} \cap ToSet(freed) = {})
  <2> SUFFICES ASSUME KeysInv, pc = "entry", NEW i \in {first, pkey}, i \in ToSet(freed)
               PROVE  FALSE
    BY DEF KeysInv, OwnedOnce
  <2>1. i \in DOMAIN file /\ i \notin Held
    BY DEF KeysInv, OwnedOnce, Given
  <2>2. i # 0
    BY <2>1 DEF KeysInv, BufferTypeOK
  <2> QED BY <2>1, <2>2 DEF Held
<1> QED
  BY <1>1, <1>2, <1>3, PTL DEF Spec

\* Where every line fits a page, all of it: at the end every key has been freed
\* but the empty ones, each once, and never too early.
THEOREM KeysFreedTheorem ==
  ASSUME LinesFit PROVE Spec => []KeysFreed
<1> DEFINE I == KeysInv /\ NoneLost
<1>1. Init => I
  BY InitKeys
<1>2. I /\ [Next]_vars => I'
  BY NextKeys
<1>3. I => KeysFreed
  <2> SUFFICES ASSUME I PROVE KeysFreed
    OBVIOUS
  <2>1. pc = "entry" => {first, pkey} \cap ToSet(freed) = {}
    <3> SUFFICES ASSUME pc = "entry", NEW i \in {first, pkey}, i \in ToSet(freed)
                 PROVE  FALSE
      OBVIOUS
    <3>1. i \in DOMAIN file /\ i \notin Held
      BY DEF KeysInv, OwnedOnce, Given
    <3>2. i # 0
      BY <3>1 DEF KeysInv, BufferTypeOK
    <3> QED BY <3>1, <3>2 DEF Held
  <2>2. ASSUME pc = "end" PROVE ToSet(freed) = Given
    <3>1. n = 0 /\ From = 0
      BY <2>2 DEF NoneLost, n, From
    <3>2. Held = {} /\ Waiting = {}
      BY <2>2, <3>1 DEF Held, Waiting
    <3> QED BY <3>2 DEF NoneLost, KeysInv, OwnedOnce
  <2>3. Given = {i \in DOMAIN file : file[i].key # <<>>}
    BY DEF Given, KeyOf
  <2> QED BY <2>1, <2>2, <2>3 DEF KeysFreed, KeysInv, OwnedOnce
<1> QED
  BY <1>1, <1>2, <1>3, PTL DEF Spec

-----------------------------------------------------------------------------
(* The codes of numbers.                                                    *)

Byte == 0..255

LEMMA WordDef == \A v : v \in Word <=> v \in Nat /\ v <= 65535
<1>1. PICK m \in Nat : m = 65535
  OBVIOUS
<1>2. Word = 0..m
  BY <1>1 DEF Word
<1>3. \A v : v \in 0..m <=> v \in Nat /\ v <= m
  OBVIOUS
<1>4. \A v : v \in Word <=> v \in Nat /\ v <= m
  BY ONLY <1>2, <1>3
<1>5. ASSUME NEW v, v \in Word PROVE v \in Nat /\ v <= 65535
  BY ONLY <1>1, <1>4, <1>5, SMT
<1>6. ASSUME NEW v \in Nat, v <= 65535 PROVE v \in Word
  BY ONLY <1>1, <1>4, <1>6, SMT
<1> QED BY ONLY <1>5, <1>6

LEMMA ByteDef == \A v : v \in Byte <=> v \in Nat /\ v <= 255
<1>1. PICK m \in Nat : m = 255
  OBVIOUS
<1>2. Byte = 0..m
  BY <1>1 DEF Byte
<1>3. \A v : v \in 0..m <=> v \in Nat /\ v <= m
  OBVIOUS
<1> QED BY ONLY <1>1, <1>2, <1>3

\* What a word is written as, for every word.
LEMMA OAQForm ==
  ASSUME NEW w \in Word
  PROVE  \E hi \in Byte, lo \in Byte :
           /\ w = 256 * hi + lo
           /\ \/ hi = 0 /\ lo <= 127 /\ OAQ(w) = <<lo>>
              \/ hi = 255 /\ lo = 255 /\ OAQ(w) = <<255>>
              \/ hi = 255 /\ lo < 255 /\ OAQ(w) = <<254, lo>>
              \/ hi <= 111 /\ (hi > 0 \/ lo > 127) /\ OAQ(w) = <<128 + hi, lo>>
              \/ hi > 111 /\ hi < 255 /\ OAQ(w) = <<240, hi, lo>>
<1> DEFINE hi == w \div 256
           lo == w % 256
<1>1. w \in Nat /\ w <= 65535
  BY DEF Word
<1>2. hi \in Nat /\ lo \in 0..255 /\ w = 256 * hi + lo
  BY ONLY <1>1
<1>3. OAQ(w) = IF w <= 127 \/ w = 65535 THEN <<lo>>
               ELSE IF hi = 255 THEN <<254, lo>>
               ELSE IF hi <= 111 THEN <<128 + hi, lo>> ELSE <<240, hi, lo>>
  BY DEF OAQ
<1> HIDE DEF hi, lo
<1>4. hi <= 255
  BY ONLY <1>1, <1>2
<1>5. w <= 127 <=> hi = 0 /\ lo <= 127
  BY ONLY <1>1, <1>2
<1>6. w = 65535 <=> hi = 255 /\ lo = 255
  BY ONLY <1>1, <1>2, <1>4
<1>7. hi \in Byte /\ lo \in Byte
  BY <1>2, <1>4 DEF Byte
<1>8. \/ hi = 0 /\ lo <= 127 /\ OAQ(w) = <<lo>>
      \/ hi = 255 /\ lo = 255 /\ OAQ(w) = <<255>>
      \/ hi = 255 /\ lo < 255 /\ OAQ(w) = <<254, lo>>
      \/ hi <= 111 /\ (hi > 0 \/ lo > 127) /\ OAQ(w) = <<128 + hi, lo>>
      \/ hi > 111 /\ hi < 255 /\ OAQ(w) = <<240, hi, lo>>
  <2>1. CASE w <= 127
    BY <1>3, <1>5, <2>1
  <2>2. CASE w = 65535
    BY <1>3, <1>6, <2>2
  <2>3. CASE ~(w <= 127 \/ w = 65535)
    <3>1. OAQ(w) = IF hi = 255 THEN <<254, lo>>
                   ELSE IF hi <= 111 THEN <<128 + hi, lo>> ELSE <<240, hi, lo>>
      BY <1>3, <2>3
    <3>2. CASE hi = 255
      <4>1. lo < 255
        BY ONLY <1>2, <1>6, <2>3, <3>2
      <4> QED BY <3>1, <3>2, <4>1
    <3>3. CASE hi <= 111
      <4>1. hi > 0 \/ lo > 127
        BY ONLY <1>2, <1>5, <2>3, <3>3
      <4>2. hi # 255
        BY ONLY <1>2, <3>3
      <4> QED BY <3>1, <3>3, <4>1, <4>2
    <3>4. CASE hi > 111 /\ hi < 255
      <4>1. hi # 255 /\ ~(hi <= 111)
        BY ONLY <1>2, <3>4
      <4> QED BY <3>1, <3>4, <4>1
    <3>5. hi = 255 \/ hi <= 111 \/ (hi > 111 /\ hi < 255)
      BY ONLY <1>2, <1>4
    <3> QED BY <3>2, <3>3, <3>4, <3>5
  <2> QED BY <2>1, <2>2, <2>3
<1> QED BY <1>2, <1>7, <1>8, SMTT(30)

LEMMA OAQIsBytes ==
  ASSUME NEW w \in Word
  PROVE  OAQ(w) \in Seq(Byte) /\ Len(OAQ(w)) \in 1..3
<1>1. PICK hi \in Byte, lo \in Byte :
        \/ hi = 0 /\ lo <= 127 /\ OAQ(w) = <<lo>>
        \/ hi = 255 /\ lo = 255 /\ OAQ(w) = <<255>>
        \/ hi = 255 /\ lo < 255 /\ OAQ(w) = <<254, lo>>
        \/ hi <= 111 /\ (hi > 0 \/ lo > 127) /\ OAQ(w) = <<128 + hi, lo>>
        \/ hi > 111 /\ hi < 255 /\ OAQ(w) = <<240, hi, lo>>
  BY OAQForm
<1>2. 240 \in Byte /\ 254 \in Byte /\ 255 \in Byte /\ (hi <= 111 => 128 + hi \in Byte)
  BY DEF Byte
<1>3. ASSUME NEW a \in Byte PROVE <<a>> \in Seq(Byte) /\ Len(<<a>>) = 1
  OBVIOUS
<1>4. ASSUME NEW a \in Byte, NEW b \in Byte PROVE <<a, b>> \in Seq(Byte) /\ Len(<<a, b>>) = 2
  OBVIOUS
<1>5. ASSUME NEW a \in Byte, NEW b \in Byte, NEW c \in Byte
      PROVE  <<a, b, c>> \in Seq(Byte) /\ Len(<<a, b, c>>) = 3
  OBVIOUS
<1>6. CASE OAQ(w) = <<lo>>
  BY <1>3, <1>6
<1>7. CASE OAQ(w) = <<255>>
  BY <1>2, <1>3, <1>7
<1>8. CASE OAQ(w) = <<254, lo>>
  BY <1>2, <1>4, <1>8
<1>9. CASE hi <= 111 /\ OAQ(w) = <<128 + hi, lo>>
  BY <1>2, <1>4, <1>9
<1>10. CASE OAQ(w) = <<240, hi, lo>>
  BY <1>2, <1>5, <1>10
<1> QED BY <1>1, <1>6, <1>7, <1>8, <1>9, <1>10

\* QAO takes exactly the bytes OAQ wrote, whatever follows them.
LEMMA QAOReads ==
  ASSUME NEW w \in Word, NEW s,
         \A i \in 1..Len(OAQ(w)) : s[i] = OAQ(w)[i]
  PROVE  QAO(s) = [word |-> w, used |-> Len(OAQ(w))]
<1>1. PICK hi \in Byte, lo \in Byte :
        /\ w = 256 * hi + lo
        /\ \/ hi = 0 /\ lo <= 127 /\ OAQ(w) = <<lo>>
           \/ hi = 255 /\ lo = 255 /\ OAQ(w) = <<255>>
           \/ hi = 255 /\ lo < 255 /\ OAQ(w) = <<254, lo>>
           \/ hi <= 111 /\ (hi > 0 \/ lo > 127) /\ OAQ(w) = <<128 + hi, lo>>
           \/ hi > 111 /\ hi < 255 /\ OAQ(w) = <<240, hi, lo>>
  BY OAQForm
<1>2. CASE hi = 0 /\ lo <= 127 /\ OAQ(w) = <<lo>>
  <2>1. s[1] = lo /\ Len(OAQ(w)) = 1
    BY <1>2
  <2>2. w = lo
    BY ONLY <1>1, <1>2, lo \in Byte DEF Byte
  <2> QED BY <1>2, <2>1, <2>2 DEF QAO
<1>3. CASE hi = 255 /\ lo = 255 /\ OAQ(w) = <<255>>
  <2>1. s[1] = 255 /\ Len(OAQ(w)) = 1
    BY <1>3
  <2>2. w = 65535
    BY ONLY <1>1, <1>3
  <2> QED BY <2>1, <2>2 DEF QAO
<1>4. CASE hi = 255 /\ lo < 255 /\ OAQ(w) = <<254, lo>>
  <2>1. s[1] = 254 /\ s[2] = lo /\ Len(OAQ(w)) = 2
    BY <1>4
  <2>2. w = 65280 + lo
    BY ONLY <1>1, <1>4
  <2> QED BY <2>1, <2>2 DEF QAO
<1>5. CASE hi <= 111 /\ (hi > 0 \/ lo > 127) /\ OAQ(w) = <<128 + hi, lo>>
  <2>1. s[1] = 128 + hi /\ s[2] = lo /\ Len(OAQ(w)) = 2
    BY <1>5
  <2>2. hi \in Nat /\ ~(s[1] <= 127) /\ s[1] # 255 /\ s[1] # 254 /\ s[1] <= 239 /\ s[1] - 128 = hi
    BY ONLY <1>5, <2>1, hi \in Byte DEF Byte
  <2>3. w = 256 * hi + lo
    BY <1>1
  <2> HIDE <1>1
  <2> QED BY <2>1, <2>2, <2>3 DEF QAO
<1>6. CASE hi > 111 /\ hi < 255 /\ OAQ(w) = <<240, hi, lo>>
  <2>1. s[1] = 240 /\ s[2] = hi /\ s[3] = lo /\ Len(OAQ(w)) = 3
    BY <1>6
  <2>2. w = 256 * hi + lo
    BY <1>1
  <2> QED BY <2>1, <2>2 DEF QAO
<1> QED BY <1>1, <1>2, <1>3, <1>4, <1>5, <1>6

-----------------------------------------------------------------------------
LEMMA FourBytes ==
  ASSUME NEW l \in [1..4 -> Byte]
  PROVE  /\ l \in Seq(Byte) /\ Len(l) = 4
         /\ SubSeq(l, 1, 4) = <<l[1], l[2], l[3], l[4]>>
         /\ SubSeq(l, 2, 4) = <<l[2], l[3], l[4]>>
         /\ SubSeq(l, 3, 4) = <<l[3], l[4]>>
         /\ SubSeq(l, 1, 3) = <<l[1], l[2], l[3]>>
         /\ SubSeq(l, 1, 2) = <<l[1], l[2]>>
         /\ l = <<l[1], l[2], l[3], l[4]>>
<1>1. l \in Seq(Byte)
  BY SeqDef, Zenon
<1>2. DOMAIN l = 1..Len(l) /\ Len(l) \in Nat
  BY <1>1, LenProperties, Zenon
<1>3. DOMAIN l = 1..4
  OBVIOUS
<1>4. Len(l) = 4
  BY ONLY <1>2, <1>3
<1>5a. ASSUME NEW t \in Seq(Byte), Len(t) = 2, NEW e1 \in Byte, NEW e2 \in Byte,
             t[1] = e1, t[2] = e2
      PROVE  t = <<e1, e2>>
  <2> DEFINE u == <<e1, e2>>
  <2>1. u \in Seq(Byte) /\ Len(u) = 2 /\ u[1] = e1 /\ u[2] = e2
    OBVIOUS
  <2> HIDE DEF u
  <2>2. \A i \in 1..2 : i = 1 \/ i = 2
    OBVIOUS
  <2>3. \A i \in 1..Len(t) : t[i] = u[i]
    BY <1>5a, <2>1, <2>2
  <2>4. t = u
    BY <1>5a, <2>1, <2>3, SeqEqual
  <2> QED BY <2>4 DEF u
<1>5b. ASSUME NEW t \in Seq(Byte), Len(t) = 3, NEW e1 \in Byte, NEW e2 \in Byte, NEW e3 \in Byte,
             t[1] = e1, t[2] = e2, t[3] = e3
      PROVE  t = <<e1, e2, e3>>
  <2> DEFINE u == <<e1, e2, e3>>
  <2>1. u \in Seq(Byte) /\ Len(u) = 3 /\ u[1] = e1 /\ u[2] = e2 /\ u[3] = e3
    OBVIOUS
  <2> HIDE DEF u
  <2>2. \A i \in 1..3 : i = 1 \/ i = 2 \/ i = 3
    OBVIOUS
  <2>3. \A i \in 1..Len(t) : t[i] = u[i]
    BY <1>5b, <2>1, <2>2
  <2>4. t = u
    BY <1>5b, <2>1, <2>3, SeqEqual
  <2> QED BY <2>4 DEF u
<1>5c. ASSUME NEW t \in Seq(Byte), Len(t) = 4, NEW e1 \in Byte, NEW e2 \in Byte, NEW e3 \in Byte, NEW e4 \in Byte,
             t[1] = e1, t[2] = e2, t[3] = e3, t[4] = e4
      PROVE  t = <<e1, e2, e3, e4>>
  <2> DEFINE u == <<e1, e2, e3, e4>>
  <2>1. u \in Seq(Byte) /\ Len(u) = 4 /\ u[1] = e1 /\ u[2] = e2 /\ u[3] = e3 /\ u[4] = e4
    OBVIOUS
  <2> HIDE DEF u
  <2>2. \A i \in 1..4 : i = 1 \/ i = 2 \/ i = 3 \/ i = 4
    OBVIOUS
  <2>3. \A i \in 1..Len(t) : t[i] = u[i]
    BY <1>5c, <2>1, <2>2
  <2>4. t = u
    BY <1>5c, <2>1, <2>3, SeqEqual
  <2> QED BY <2>4 DEF u
<1>6. ASSUME NEW a \in 1..3, NEW e \in 2..4, a < e
      PROVE  /\ SubSeq(l, a, e) \in Seq(Byte) /\ Len(SubSeq(l, a, e)) = e - a + 1
             /\ \A i \in 1..(e - a + 1) : SubSeq(l, a, e)[i] = l[a + i - 1]
  BY <1>1, <1>4, <1>6
<1>7. l[1] \in Byte /\ l[2] \in Byte /\ l[3] \in Byte /\ l[4] \in Byte
  OBVIOUS
<1>8. SubSeq(l, 1, 4) = <<l[1], l[2], l[3], l[4]>>
  <2> DEFINE t == SubSeq(l, 1, 4)
  <2>1. t \in Seq(Byte) /\ Len(t) = 4
        /\ t[1] = l[1] /\ t[2] = l[2]
        /\ t[3] = l[3] /\ t[4] = l[4]
    BY <1>6
  <2> HIDE DEF t
  <2>2. t = <<l[1], l[2], l[3], l[4]>>
    BY ONLY <1>5c, <1>7, <2>1
  <2> QED BY <2>2 DEF t
<1>9. SubSeq(l, 2, 4) = <<l[2], l[3], l[4]>>
  <2> DEFINE t == SubSeq(l, 2, 4)
  <2>1. t \in Seq(Byte) /\ Len(t) = 3
        /\ t[1] = l[2] /\ t[2] = l[3] /\ t[3] = l[4]
    BY <1>6
  <2> HIDE DEF t
  <2>2. t = <<l[2], l[3], l[4]>>
    BY ONLY <1>5b, <1>7, <2>1
  <2> QED BY <2>2 DEF t
<1>10. SubSeq(l, 3, 4) = <<l[3], l[4]>>
  <2>1. SubSeq(l, 3, 4) \in Seq(Byte) /\ Len(SubSeq(l, 3, 4)) = 2
        /\ SubSeq(l, 3, 4)[1] = l[3] /\ SubSeq(l, 3, 4)[2] = l[4]
    BY <1>6
  <2> QED BY ONLY <1>5a, <1>7, <2>1
<1>11. SubSeq(l, 1, 3) = <<l[1], l[2], l[3]>>
  <2> DEFINE t == SubSeq(l, 1, 3)
  <2>1. t \in Seq(Byte) /\ Len(t) = 3
        /\ t[1] = l[1] /\ t[2] = l[2] /\ t[3] = l[3]
    BY <1>6
  <2> HIDE DEF t
  <2>2. t = <<l[1], l[2], l[3]>>
    BY ONLY <1>5b, <1>7, <2>1
  <2> QED BY <2>2 DEF t
<1>12. SubSeq(l, 1, 2) = <<l[1], l[2]>>
  <2>1. SubSeq(l, 1, 2) \in Seq(Byte) /\ Len(SubSeq(l, 1, 2)) = 2
        /\ SubSeq(l, 1, 2)[1] = l[1] /\ SubSeq(l, 1, 2)[2] = l[2]
    BY <1>6
  <2> QED BY ONLY <1>5a, <1>7, <2>1, ZenonT(60)
<1>13. l = <<l[1], l[2], l[3], l[4]>>
  BY ONLY <1>1, <1>4, <1>5c, <1>7
<1> QED BY <1>1, <1>4, <1>8, <1>9, <1>10, <1>11, <1>12, <1>13

\* What stays of a long without its leading zeros, or its leading 255s.
LEMMA WithoutForm ==
  ASSUME NEW l \in [1..4 -> Byte], NEW b \in Byte
  PROVE  /\ l[1] # b => Without(l, b) = <<l[1], l[2], l[3], l[4]>>
         /\ l[1] = b /\ l[2] # b => Without(l, b) = <<l[2], l[3], l[4]>>
         /\ l[1] = b /\ l[2] = b /\ l[3] # b => Without(l, b) = <<l[3], l[4]>>
<1> DEFINE P(k) == /\ k = 4 \/ l[k] # b
                   /\ \A i \in 1..k - 1 : l[i] = b
           c == CHOOSE k \in 1..4 : P(k)
<1>1. Without(l, b) = SubSeq(l, c, 4)
  BY DEF Without
<1>2. ASSUME NEW k \in 1..3, P(k) PROVE c = k
  <2>1. c \in 1..4 /\ P(c)
    BY <1>2
  <2>2. ~(c < k)
    BY <1>2, <2>1
  <2>3. ~(k < c)
    BY <1>2, <2>1
  <2> HIDE DEF c
  <2> QED BY ONLY <2>1, <2>2, <2>3, k \in 1..3
<1> HIDE DEF c
<1>3. CASE l[1] # b
  <2>1. c = 1
    <3>1. P(1)
      BY <1>3
    <3> HIDE DEF P
    <3> QED BY <1>2, <3>1
  <2> QED BY <1>1, <1>3, <2>1, FourBytes
<1>4. CASE l[1] = b /\ l[2] # b
  <2>1. c = 2
    <3>1. P(2)
      BY <1>4
    <3> HIDE DEF P
    <3> QED BY <1>2, <3>1
  <2> QED BY <1>1, <1>4, <2>1, FourBytes
<1>5. CASE l[1] = b /\ l[2] = b /\ l[3] # b
  <2>1. c = 3
    <3>1. P(3)
      BY <1>5
    <3> HIDE DEF P
    <3> QED BY <1>2, <3>1
  <2> QED BY <1>1, <1>5, <2>1, FourBytes
<1> HIDE DEF P
<1> QED BY <1>3, <1>4, <1>5

LEMMA PrefixBy ==
  ASSUME NEW f \in Nat, NEW s \in Seq(Nat)
  PROVE  /\ <<f>> \o s \in Seq(Nat) /\ Len(<<f>> \o s) = Len(s) + 1
         /\ (<<f>> \o s)[1] = f
         /\ \A i \in 1..Len(s) : (<<f>> \o s)[i + 1] = s[i]
<1>1. <<f>> \in Seq(Nat) /\ Len(<<f>>) = 1 /\ <<f>>[1] = f /\ Len(s) \in Nat
  OBVIOUS
<1>2. PICK a : a = <<f>>
  OBVIOUS
<1>3. a \in Seq(Nat) /\ Len(a) = 1 /\ a[1] = f
  BY <1>1, <1>2
<1>4. /\ a \o s \in Seq(Nat) /\ Len(a \o s) = Len(a) + Len(s)
      /\ \A i \in 1..(Len(a) + Len(s)) : (a \o s)[i] = IF i <= Len(a) THEN a[i] ELSE s[i - Len(a)]
  BY ONLY <1>3, s \in Seq(Nat), ConcatProperties
<1>5. (a \o s)[1] = f /\ Len(a \o s) = Len(s) + 1
  BY ONLY <1>1, <1>3, <1>4
<1>6. ASSUME NEW i \in 1..Len(s) PROVE (a \o s)[i + 1] = s[i]
  <2>1. i + 1 \in 1..(Len(a) + Len(s)) /\ ~(i + 1 <= Len(a)) /\ i + 1 - Len(a) = i
    BY ONLY <1>1, <1>3, i \in 1..Len(s)
  <2> QED BY ONLY <1>4, <2>1
<1> QED BY <1>2, <1>4, <1>5, <1>6

LEMMA PrefixOf2 ==
  ASSUME NEW f \in Nat, NEW e1 \in Byte, NEW e2 \in Byte
  PROVE  <<f>> \o <<e1, e2>> = <<f, e1, e2>>
<1> DEFINE a == <<e1, e2>>
           c == <<f, e1, e2>>
<1>0. Byte \subseteq Nat
  BY DEF Byte
<1>1. a \in Seq(Nat) /\ Len(a) = 2 /\ a[1] = e1 /\ a[2] = e2
  BY <1>0
<1> HIDE DEF a
<1>2. PICK b : b = <<f>> \o a
  OBVIOUS
<1>3. b \in Seq(Nat) /\ Len(b) = 2 + 1 /\ b[1] = f /\ \A i \in 1..2 : b[i + 1] = a[i]
  <2>1. /\ <<f>> \o a \in Seq(Nat) /\ Len(<<f>> \o a) = Len(a) + 1
        /\ (<<f>> \o a)[1] = f
        /\ \A i \in 1..Len(a) : (<<f>> \o a)[i + 1] = a[i]
    BY <1>1, PrefixBy, Zenon
  <2>2. Len(a) = 2
    BY <1>1
  <2> QED BY ONLY <1>2, <2>1, <2>2, Zenon
<1>4. b[1 + 1] = a[1] /\ b[2 + 1] = a[2]
  BY ONLY <1>3
<1>5. c \in Seq(Nat) /\ Len(c) = 3 /\ c[1] = f /\ c[2] = e1 /\ c[3] = e2
  BY <1>0
<1> HIDE DEF c
<1>6. \A i \in 1..3 : i = 1 \/ i = 2 \/ i = 3
  OBVIOUS
<1>7. \A i \in 1..Len(b) : b[i] = c[i]
  BY ONLY <1>1, <1>3, <1>4, <1>5, <1>6
<1>8. b = c
  <2>1. Len(b) = Len(c)
    BY ONLY <1>3, <1>5
  <2> QED BY ONLY <1>3, <1>5, <1>7, <2>1, SeqEqual, Zenon
<1> QED BY <1>2, <1>8 DEF a, c

LEMMA PrefixOf3 ==
  ASSUME NEW f \in Nat, NEW e1 \in Byte, NEW e2 \in Byte, NEW e3 \in Byte
  PROVE  <<f>> \o <<e1, e2, e3>> = <<f, e1, e2, e3>>
<1> DEFINE a == <<e1, e2, e3>>
           c == <<f, e1, e2, e3>>
<1>0. Byte \subseteq Nat
  BY DEF Byte
<1>1. a \in Seq(Nat) /\ Len(a) = 3 /\ a[1] = e1 /\ a[2] = e2 /\ a[3] = e3
  BY <1>0
<1> HIDE DEF a
<1>2. PICK b : b = <<f>> \o a
  OBVIOUS
<1>3. b \in Seq(Nat) /\ Len(b) = 3 + 1 /\ b[1] = f /\ \A i \in 1..3 : b[i + 1] = a[i]
  <2>1. /\ <<f>> \o a \in Seq(Nat) /\ Len(<<f>> \o a) = Len(a) + 1
        /\ (<<f>> \o a)[1] = f
        /\ \A i \in 1..Len(a) : (<<f>> \o a)[i + 1] = a[i]
    BY <1>1, PrefixBy, Zenon
  <2>2. Len(a) = 3
    BY <1>1
  <2> QED BY ONLY <1>2, <2>1, <2>2, Zenon
<1>4. b[1 + 1] = a[1] /\ b[2 + 1] = a[2] /\ b[3 + 1] = a[3]
  BY ONLY <1>3
<1>5. c \in Seq(Nat) /\ Len(c) = 4 /\ c[1] = f /\ c[2] = e1 /\ c[3] = e2 /\ c[4] = e3
  BY <1>0
<1> HIDE DEF c
<1>6. \A i \in 1..4 : i = 1 \/ i = 2 \/ i = 3 \/ i = 4
  OBVIOUS
<1>7. \A i \in 1..Len(b) : b[i] = c[i]
  BY ONLY <1>1, <1>3, <1>4, <1>5, <1>6
<1>8. b = c
  <2>1. Len(b) = Len(c)
    BY ONLY <1>3, <1>5
  <2> QED BY ONLY <1>3, <1>5, <1>7, <2>1, SeqEqual, Zenon
<1> QED BY <1>2, <1>8 DEF a, c

LEMMA PrefixOf4 ==
  ASSUME NEW f \in Nat, NEW e1 \in Byte, NEW e2 \in Byte, NEW e3 \in Byte, NEW e4 \in Byte
  PROVE  <<f>> \o <<e1, e2, e3, e4>> = <<f, e1, e2, e3, e4>>
<1> DEFINE a == <<e1, e2, e3, e4>>
           c == <<f, e1, e2, e3, e4>>
<1>0. Byte \subseteq Nat
  BY DEF Byte
<1>1. a \in Seq(Nat) /\ Len(a) = 4 /\ a[1] = e1 /\ a[2] = e2 /\ a[3] = e3 /\ a[4] = e4
  BY <1>0
<1> HIDE DEF a
<1>2. PICK b : b = <<f>> \o a
  OBVIOUS
<1>3. b \in Seq(Nat) /\ Len(b) = 4 + 1 /\ b[1] = f /\ \A i \in 1..4 : b[i + 1] = a[i]
  <2>1. /\ <<f>> \o a \in Seq(Nat) /\ Len(<<f>> \o a) = Len(a) + 1
        /\ (<<f>> \o a)[1] = f
        /\ \A i \in 1..Len(a) : (<<f>> \o a)[i + 1] = a[i]
    BY <1>1, PrefixBy, Zenon
  <2>2. Len(a) = 4
    BY <1>1
  <2> QED BY ONLY <1>2, <2>1, <2>2, Zenon
<1>4. b[1 + 1] = a[1] /\ b[2 + 1] = a[2] /\ b[3 + 1] = a[3] /\ b[4 + 1] = a[4]
  BY ONLY <1>3
<1>5. c \in Seq(Nat) /\ Len(c) = 5 /\ c[1] = f /\ c[2] = e1 /\ c[3] = e2 /\ c[4] = e3 /\ c[5] = e4
  BY <1>0
<1> HIDE DEF c
<1>6. \A i \in 1..5 : i = 1 \/ i = 2 \/ i = 3 \/ i = 4 \/ i = 5
  OBVIOUS
<1>7. \A i \in 1..Len(b) : b[i] = c[i]
  BY ONLY <1>1, <1>3, <1>4, <1>5, <1>6
<1>8. b = c
  <2>1. Len(b) = Len(c)
    BY ONLY <1>3, <1>5
  <2> QED BY ONLY <1>3, <1>5, <1>7, <2>1, SeqEqual, Zenon
<1> QED BY <1>2, <1>8 DEF a, c

LEMMA LongForm ==
  ASSUME NEW l \in [1..4 -> Byte]
  PROVE  /\ l[1] = 0 /\ l[2] = 0 => LongCode(l) = OAQ(LowWord(l))
         /\ l[1] = 255 /\ l[2] = 255 /\ l[3] = 255 => LongCode(l) = OAQ(LowWord(l))
         /\ l[1] = 0 /\ l[2] # 0 => LongCode(l) = <<241, l[2], l[3], l[4]>>
         /\ l[1] # 0 /\ l[1] # 255 => LongCode(l) = <<242, l[1], l[2], l[3], l[4]>>
         /\ l[1] = 255 /\ l[2] # 255 => LongCode(l) = <<252, l[2], l[3], l[4]>>
         /\ l[1] = 255 /\ l[2] = 255 /\ l[3] # 255 => LongCode(l) = <<253, l[3], l[4]>>
<1>1. SubSeq(l, 1, 2) = <<0, 0>> <=> l[1] = 0 /\ l[2] = 0
  BY FourBytes
<1>2. SmallNegative(l) <=> l[1] = 255 /\ l[2] = 255 /\ l[3] = 255
  BY FourBytes DEF SmallNegative
<1>3. CASE l[1] = 0 /\ l[2] = 0
  BY <1>1, <1>3 DEF LongCode
<1>4. CASE l[1] = 255 /\ l[2] = 255 /\ l[3] = 255
  BY <1>2, <1>4 DEF LongCode
<1>5. ASSUME ~(l[1] = 0 /\ l[2] = 0), ~(l[1] = 255 /\ l[2] = 255 /\ l[3] = 255)
      PROVE  /\ l[1] = 255 => LongCode(l) = <<255 - Len(Without(l, 255))>> \o Without(l, 255)
             /\ l[1] # 255 => LongCode(l) = <<238 + Len(Without(l, 0))>> \o Without(l, 0)
  BY <1>1, <1>2, <1>5 DEF LongCode
<1>6. 0 \in Byte /\ 255 \in Byte
  BY DEF Byte
<1>7. l[1] \in Byte /\ l[2] \in Byte /\ l[3] \in Byte /\ l[4] \in Byte
  OBVIOUS
<1>8. CASE l[1] = 0 /\ l[2] # 0
  <2>1. Without(l, 0) = <<l[2], l[3], l[4]>>
    BY <1>6, <1>8, WithoutForm
  <2>2. LongCode(l) = <<241, l[2], l[3], l[4]>>
    <3>1. PICK m : m = Len(Without(l, 0))
      OBVIOUS
    <3>0. LongCode(l) = <<238 + m>> \o Without(l, 0)
      BY <1>5, <1>8, <3>1
    <3>2. m = 3
      <4>1. Len(<<l[2], l[3], l[4]>>) = 3
        OBVIOUS
      <4> QED BY ONLY <2>1, <3>1, <4>1, Zenon
    <3>3. 238 + m = 241
      BY ONLY <3>2
    <3>4. LongCode(l) = <<241>> \o <<l[2], l[3], l[4]>>
      BY ONLY <2>1, <3>0, <3>3, Zenon
    <3> QED BY ONLY <1>7, <3>4, PrefixOf3
  <2> QED BY <1>8, <2>2
<1>9. CASE l[1] # 0 /\ l[1] # 255
  <2>1. Without(l, 0) = <<l[1], l[2], l[3], l[4]>>
    BY <1>6, <1>9, WithoutForm
  <2>2. LongCode(l) = <<242, l[1], l[2], l[3], l[4]>>
    <3>1. PICK m : m = Len(Without(l, 0))
      OBVIOUS
    <3>0. LongCode(l) = <<238 + m>> \o Without(l, 0)
      BY <1>5, <1>9, <3>1
    <3>2. m = 4
      <4>1. Len(<<l[1], l[2], l[3], l[4]>>) = 4
        OBVIOUS
      <4> QED BY ONLY <2>1, <3>1, <4>1, Zenon
    <3>3. 238 + m = 242
      BY ONLY <3>2
    <3>4. LongCode(l) = <<242>> \o <<l[1], l[2], l[3], l[4]>>
      BY ONLY <2>1, <3>0, <3>3, Zenon
    <3> QED BY ONLY <1>7, <3>4, PrefixOf4
  <2> QED BY <1>9, <2>2
<1>10. CASE l[1] = 255 /\ l[2] # 255
  <2>1. Without(l, 255) = <<l[2], l[3], l[4]>>
    BY <1>6, <1>10, WithoutForm
  <2>2. LongCode(l) = <<252, l[2], l[3], l[4]>>
    <3>1. PICK m : m = Len(Without(l, 255))
      OBVIOUS
    <3>0. LongCode(l) = <<255 - m>> \o Without(l, 255)
      BY <1>5, <1>10, <3>1
    <3>2. m = 3
      <4>1. Len(<<l[2], l[3], l[4]>>) = 3
        OBVIOUS
      <4> QED BY ONLY <2>1, <3>1, <4>1, Zenon
    <3>3. 255 - m = 252
      BY ONLY <3>2
    <3>4. LongCode(l) = <<252>> \o <<l[2], l[3], l[4]>>
      BY ONLY <2>1, <3>0, <3>3, Zenon
    <3> QED BY ONLY <1>7, <3>4, PrefixOf3
  <2> QED BY <1>10, <2>2
<1>11. CASE l[1] = 255 /\ l[2] = 255 /\ l[3] # 255
  <2>1. Without(l, 255) = <<l[3], l[4]>>
    BY <1>6, <1>11, WithoutForm
  <2>2. LongCode(l) = <<253, l[3], l[4]>>
    <3>1. PICK m : m = Len(Without(l, 255))
      OBVIOUS
    <3>0. LongCode(l) = <<255 - m>> \o Without(l, 255)
      BY <1>5, <1>11, <3>1
    <3>2. m = 2
      <4>1. Len(<<l[3], l[4]>>) = 2
        OBVIOUS
      <4> QED BY ONLY <2>1, <3>1, <4>1, Zenon
    <3>3. 255 - m = 253
      BY ONLY <3>2
    <3>4. LongCode(l) = <<253>> \o <<l[3], l[4]>>
      BY ONLY <2>1, <3>0, <3>3, Zenon
    <3> QED BY ONLY <1>7, <3>4, PrefixOf2
  <2> QED BY <1>11, <2>2
<1>12. \/ l[1] = 0 /\ l[2] = 0
       \/ l[1] = 255 /\ l[2] = 255 /\ l[3] = 255
       \/ l[1] = 0 /\ l[2] # 0
       \/ l[1] # 0 /\ l[1] # 255
       \/ l[1] = 255 /\ l[2] # 255
       \/ l[1] = 255 /\ l[2] = 255 /\ l[3] # 255
  OBVIOUS
<1> QED BY <1>3, <1>4, <1>8, <1>9, <1>10, <1>11, <1>12

\* a and b differ, a first, and neither is the beginning of the other.
Sooner(a, b) ==
  \E p \in 1..Len(a) : p <= Len(b) /\ a[p] < b[p] /\ \A i \in 1..(p - 1) : a[i] = b[i]

LEMMA WordOrder ==
  ASSUME NEW w \in Word, NEW v \in Word, w < v
  PROVE  Sooner(OAQ(w), OAQ(v))
<1> DEFINE Form(hi, lo, c) ==
             \/ hi = 0 /\ lo <= 127 /\ c = <<lo>>
             \/ hi = 255 /\ lo = 255 /\ c = <<255>>
             \/ hi = 255 /\ lo < 255 /\ c = <<254, lo>>
             \/ hi <= 111 /\ (hi > 0 \/ lo > 127) /\ c = <<128 + hi, lo>>
             \/ hi > 111 /\ hi < 255 /\ c = <<240, hi, lo>>
           Spelt(hi, lo, c) ==
             \/ hi = 0 /\ lo <= 127 /\ Len(c) = 1 /\ c[1] = lo
             \/ hi = 255 /\ lo = 255 /\ Len(c) = 1 /\ c[1] = 255
             \/ hi = 255 /\ lo < 255 /\ Len(c) = 2 /\ c[1] = 254 /\ c[2] = lo
             \/ hi <= 111 /\ (hi > 0 \/ lo > 127) /\ Len(c) = 2 /\ c[1] = 128 + hi /\ c[2] = lo
             \/ hi > 111 /\ hi < 255 /\ Len(c) = 3 /\ c[1] = 240 /\ c[2] = hi /\ c[3] = lo
<1>1. ASSUME NEW hi \in Byte, NEW lo \in Byte, NEW c, Form(hi, lo, c) PROVE Spelt(hi, lo, c)
  BY <1>1
<1>2. PICK wh \in Byte, wl \in Byte : w = 256 * wh + wl /\ Form(wh, wl, OAQ(w))
  BY OAQForm
<1>3. PICK vh \in Byte, vl \in Byte : v = 256 * vh + vl /\ Form(vh, vl, OAQ(v))
  BY OAQForm
<1>4. Spelt(wh, wl, OAQ(w)) /\ Spelt(vh, vl, OAQ(v))
  BY <1>1, <1>2, <1>3
<1>5. wh < vh \/ (wh = vh /\ wl < vl)
  <2>1. w = 256 * wh + wl /\ v = 256 * vh + vl /\ w < v
    BY <1>2, <1>3
  <2> QED BY ONLY <2>1, wh \in Byte, wl \in Byte, vh \in Byte, vl \in Byte DEF Byte
<1> HIDE DEF Form
<1>6. PICK a : a = OAQ(w)
  OBVIOUS
<1>7. PICK b : b = OAQ(v)
  OBVIOUS
<1>8. Spelt(wh, wl, a) /\ Spelt(vh, vl, b)
  BY <1>4, <1>6, <1>7
<1>9. \/ 1 <= Len(a) /\ 1 <= Len(b) /\ a[1] < b[1]
      \/ 2 <= Len(a) /\ 2 <= Len(b) /\ a[1] = b[1] /\ a[2] < b[2]
      \/ 3 <= Len(a) /\ 3 <= Len(b) /\ a[1] = b[1] /\ a[2] = b[2] /\ a[3] < b[3]
  BY ONLY <1>5, <1>8, wh \in Byte, wl \in Byte, vh \in Byte, vl \in Byte DEF Byte
<1>10. Len(a) \in Nat /\ Len(b) \in Nat
  BY ONLY <1>8
<1>11. Sooner(a, b)
  <2>1. CASE 1 <= Len(a) /\ 1 <= Len(b) /\ a[1] < b[1]
    BY ONLY <1>10, <2>1 DEF Sooner
  <2>2. CASE 2 <= Len(a) /\ 2 <= Len(b) /\ a[1] = b[1] /\ a[2] < b[2]
    BY ONLY <1>10, <2>2 DEF Sooner
  <2>3. CASE 3 <= Len(a) /\ 3 <= Len(b) /\ a[1] = b[1] /\ a[2] = b[2] /\ a[3] < b[3]
    <3>1. \A i \in 1..(3 - 1) : i = 1 \/ i = 2
      OBVIOUS
    <3> QED BY ONLY <1>10, <2>3, <3>1 DEF Sooner
  <2> QED BY ONLY <1>9, <2>1, <2>2, <2>3
<1> QED BY <1>6, <1>7, <1>11

-----------------------------------------------------------------------------
(* The order of sequences: where they first differ, or which ends.          *)

LEMMA SameStart ==
  ASSUME NEW S, NEW a \in Seq(S), NEW b \in Seq(S), NEW k \in Nat, k <= Len(a), k <= Len(b)
  PROVE  SubSeq(a, 1, k) = SubSeq(b, 1, k) <=> \A i \in 1..k : a[i] = b[i]
<1>1. /\ SubSeq(a, 1, k) \in Seq(S) /\ Len(SubSeq(a, 1, k)) = k
      /\ \A i \in 1..k : SubSeq(a, 1, k)[i] = a[i]
  OBVIOUS
<1>2. /\ SubSeq(b, 1, k) \in Seq(S) /\ Len(SubSeq(b, 1, k)) = k
      /\ \A i \in 1..k : SubSeq(b, 1, k)[i] = b[i]
  OBVIOUS
<1> DEFINE c == SubSeq(a, 1, k)
           d == SubSeq(b, 1, k)
<1>3. /\ c \in Seq(S) /\ d \in Seq(S) /\ Len(c) = k /\ Len(d) = k
      /\ \A i \in 1..k : c[i] = a[i] /\ d[i] = b[i]
  BY <1>1, <1>2
<1> HIDE DEF c, d
<1>4. ASSUME c = d PROVE \A i \in 1..k : a[i] = b[i]
  BY <1>3, <1>4
<1>5. ASSUME \A i \in 1..k : a[i] = b[i] PROVE c = d
  BY <1>3, <1>5, SeqEqual
<1> QED BY <1>4, <1>5 DEF c, d

LEMMA StrictPrefix ==
  ASSUME NEW S, NEW a \in Seq(S), NEW b \in Seq(S)
  PROVE  IsStrictPrefix(a, b) <=> Len(a) < Len(b) /\ \A i \in 1..Len(a) : a[i] = b[i]
<1>1. Len(a) \in Nat /\ Len(b) \in Nat
  OBVIOUS
<1>2. CASE ~(Len(a) <= Len(b))
  BY <1>1, <1>2 DEF IsStrictPrefix, IsPrefix
<1>3. CASE Len(a) <= Len(b)
  <2>1. IsPrefix(a, b) <=> \A i \in 1..Len(a) : a[i] = b[i]
    <3>1. SubSeq(a, 1, Len(a)) = SubSeq(b, 1, Len(a)) <=> \A i \in 1..Len(a) : a[i] = b[i]
      BY <1>1, <1>3, SameStart
    <3> QED BY <1>3, <3>1 DEF IsPrefix
  <2>2. Len(a) = Len(b) /\ (\A i \in 1..Len(a) : a[i] = b[i]) => a = b
    BY SeqEqual
  <2>3. Len(a) # Len(b) => a # b
    OBVIOUS
  <2>4. Len(a) < Len(b) \/ Len(a) = Len(b)
    BY ONLY <1>1, <1>3
  <2>5. Len(a) < Len(b) => Len(a) # Len(b)
    BY ONLY <1>1
  <2> QED BY <2>1, <2>2, <2>3, <2>4, <2>5 DEF IsStrictPrefix
<1> QED BY <1>2, <1>3

\* Nothing but the first place where they differ counts.
LEMMA FirstDifference ==
  ASSUME NEW S, NEW a \in Seq(S), NEW b \in Seq(S), NEW p \in 1..Len(a), p <= Len(b),
         a[p] # b[p], \A i \in 1..(p - 1) : a[i] = b[i]
  PROVE  /\ ~IsStrictPrefix(a, b)
         /\ p \in DOMAIN a \cap DOMAIN b /\ SubSeq(a, 1, p - 1) = SubSeq(b, 1, p - 1)
         /\ \A i \in DOMAIN a \cap DOMAIN b :
              SubSeq(a, 1, i - 1) = SubSeq(b, 1, i - 1) => i = p \/ a[i] = b[i]
<1>1. DOMAIN a = 1..Len(a) /\ DOMAIN b = 1..Len(b) /\ Len(a) \in Nat /\ Len(b) \in Nat
  OBVIOUS
<1>2. p - 1 \in Nat /\ p - 1 <= Len(a) /\ p - 1 <= Len(b) /\ p \in 1..Len(b)
  BY <1>1
<1>3. SubSeq(a, 1, p - 1) = SubSeq(b, 1, p - 1)
  BY <1>2, SameStart
<1>4. ASSUME NEW i \in 1..Len(a), i \in 1..Len(b), SubSeq(a, 1, i - 1) = SubSeq(b, 1, i - 1), i # p
      PROVE  a[i] = b[i]
  <2>1. i - 1 \in Nat /\ i - 1 <= Len(a) /\ i - 1 <= Len(b)
    BY <1>1, <1>4
  <2>2. \A k \in 1..(i - 1) : a[k] = b[k]
    BY <1>4, <2>1, SameStart
  <2>3. p < i => p \in 1..(i - 1)
    BY ONLY <1>1, p \in 1..Len(a), i \in 1..Len(a)
  <2>4. i < p => i \in 1..(p - 1)
    BY ONLY <1>1, p \in 1..Len(a), i \in 1..Len(a)
  <2>5. i < p \/ p < i
    BY ONLY <1>1, <1>4, p \in 1..Len(a), i \in 1..Len(a)
  <2> QED BY <2>2, <2>3, <2>4, <2>5
<1>5. ~IsStrictPrefix(a, b)
  BY StrictPrefix
<1> QED BY <1>1, <1>2, <1>3, <1>4, <1>5

\* What Below says of two sequences, by what they have in common.
LEMMA BelowNumbers ==
  ASSUME NEW a \in Seq(Nat), NEW b \in Seq(Nat)
  PROVE  /\ \A p \in 1..Len(a) : p <= Len(b) /\ a[p] # b[p] /\ (\A i \in 1..(p - 1) : a[i] = b[i])
              => (Below(a, b, LessNumber) <=> a[p] < b[p])
         /\ (\A i \in 1..Len(a) : i <= Len(b) => a[i] = b[i])
              => (Below(a, b, LessNumber) <=> Len(a) < Len(b))
<1>1. DOMAIN a = 1..Len(a) /\ DOMAIN b = 1..Len(b) /\ Len(a) \in Nat /\ Len(b) \in Nat
  OBVIOUS
<1>2. Below(a, b, LessNumber) <=>
        \/ IsStrictPrefix(a, b)
        \/ \E i \in DOMAIN a \cap DOMAIN b :
             a[i] < b[i] /\ SubSeq(a, 1, i - 1) = SubSeq(b, 1, i - 1)
  BY DEF Below, LessNumber
<1>3. \A i \in DOMAIN a \cap DOMAIN b : a[i] \in Nat /\ b[i] \in Nat
  OBVIOUS
<1>4. ASSUME NEW p \in 1..Len(a), p <= Len(b), a[p] # b[p], \A i \in 1..(p - 1) : a[i] = b[i]
      PROVE  Below(a, b, LessNumber) <=> a[p] < b[p]
  <2>1. /\ ~IsStrictPrefix(a, b)
        /\ p \in DOMAIN a \cap DOMAIN b /\ SubSeq(a, 1, p - 1) = SubSeq(b, 1, p - 1)
        /\ \A i \in DOMAIN a \cap DOMAIN b :
             SubSeq(a, 1, i - 1) = SubSeq(b, 1, i - 1) => i = p \/ a[i] = b[i]
    BY <1>4, FirstDifference
  <2>2. \A i \in DOMAIN a \cap DOMAIN b : a[i] < b[i] => a[i] # b[i]
    BY <1>3
  <2> QED BY <1>2, <2>1, <2>2
<1>5. ASSUME \A i \in 1..Len(a) : i <= Len(b) => a[i] = b[i]
      PROVE  Below(a, b, LessNumber) <=> Len(a) < Len(b)
  <2>1. \A i \in DOMAIN a \cap DOMAIN b : ~(a[i] < b[i])
    BY <1>1, <1>3, <1>5
  <2>2. Len(a) < Len(b) => \A i \in 1..Len(a) : a[i] = b[i]
    BY <1>1, <1>5
  <2>3. IsStrictPrefix(a, b) <=> Len(a) < Len(b)
    BY <2>2, StrictPrefix
  <2> QED BY <1>2, <2>1, <2>3
<1> QED BY <1>4, <1>5

LEMMA LessLongForm ==
  ASSUME NEW x \in [1..4 -> Byte], NEW y \in [1..4 -> Byte]
  PROVE  LessLong(x, y) <=> \/ x[1] < y[1]
                            \/ x[1] = y[1] /\ x[2] < y[2]
                            \/ x[1] = y[1] /\ x[2] = y[2] /\ x[3] < y[3]
                            \/ x[1] = y[1] /\ x[2] = y[2] /\ x[3] = y[3] /\ x[4] < y[4]
<1>1. x \in Seq(Byte) /\ y \in Seq(Byte) /\ Len(x) = 4 /\ Len(y) = 4
  BY FourBytes
<1>2. x \in Seq(Nat) /\ y \in Seq(Nat)
  <2>1. Byte \subseteq Nat
    BY DEF Byte
  <2> QED BY <1>1, <2>1, SeqMonotonic
<1>3. \A i \in 1..4 : x[i] \in Nat /\ y[i] \in Nat
  BY SMTT(30) DEF Byte
<1>4. LessLong(x, y) <=> Below(x, y, LessNumber)
  BY DEF LessLong
<1>5. \A p \in 1..4 : x[p] # y[p] /\ (\A i \in 1..(p - 1) : x[i] = y[i])
              => (LessLong(x, y) <=> x[p] < y[p])
  <2>1. \A p \in 1..Len(x) : p <= Len(y) /\ x[p] # y[p] /\ (\A i \in 1..(p - 1) : x[i] = y[i])
              => (Below(x, y, LessNumber) <=> x[p] < y[p])
    BY ONLY <1>2, BelowNumbers
  <2>2. \A p \in 1..4 : p \in 1..Len(x) /\ p <= Len(y)
    BY <1>1
  <2> QED BY <1>4, <2>1, <2>2
<1>6. (\A i \in 1..4 : x[i] = y[i]) => ~LessLong(x, y)
  <2>1. (\A i \in 1..Len(x) : i <= Len(y) => x[i] = y[i]) => (Below(x, y, LessNumber) <=> Len(x) < Len(y))
    BY <1>2, BelowNumbers
  <2> QED BY <1>1, <1>4, <2>1
<1>7. CASE x[1] # y[1]
  <2>1. LessLong(x, y) <=> x[1] < y[1]
    BY <1>5, <1>7
  <2> QED BY <1>7, <2>1
<1>8. CASE x[1] = y[1] /\ x[2] # y[2]
  <2>1. LessLong(x, y) <=> x[2] < y[2]
    <3>1. \A i \in 1..(2 - 1) : i = 1
      OBVIOUS
    <3> QED BY <1>5, <1>8, <3>1
  <2> QED BY <1>3, <1>8, <2>1
<1>9. CASE x[1] = y[1] /\ x[2] = y[2] /\ x[3] # y[3]
  <2>1. LessLong(x, y) <=> x[3] < y[3]
    <3>1. \A i \in 1..(3 - 1) : i = 1 \/ i = 2
      OBVIOUS
    <3> QED BY <1>5, <1>9, <3>1
  <2> QED BY <1>3, <1>9, <2>1
<1>10. CASE x[1] = y[1] /\ x[2] = y[2] /\ x[3] = y[3] /\ x[4] # y[4]
  <2>1. LessLong(x, y) <=> x[4] < y[4]
    <3>1. \A i \in 1..(4 - 1) : i = 1 \/ i = 2 \/ i = 3
      OBVIOUS
    <3> QED BY <1>5, <1>10, <3>1
  <2> QED BY <1>3, <1>10, <2>1
<1>11. CASE x[1] = y[1] /\ x[2] = y[2] /\ x[3] = y[3] /\ x[4] = y[4]
  <2>1. \A i \in 1..4 : i = 1 \/ i = 2 \/ i = 3 \/ i = 4
    OBVIOUS
  <2>2. ~LessLong(x, y)
    BY <1>6, <1>11, <2>1
  <2> QED BY <1>3, <1>11, <2>2
<1> QED BY <1>7, <1>8, <1>9, <1>10, <1>11

LEMMA SameDigits ==
  ASSUME NEW a \in Byte, NEW b \in Byte, NEW c \in Byte, NEW d \in Byte, 256 * a + b = 256 * c + d
  PROVE  a = c
BY ByteDef

LEMMA LessDigits ==
  ASSUME NEW a \in Byte, NEW b \in Byte, NEW c \in Byte, NEW d \in Byte, a < c \/ (a = c /\ b < d)
  PROVE  256 * a + b < 256 * c + d
<1>1. /\ a \in Nat /\ b \in Nat /\ c \in Nat /\ d \in Nat
      /\ a <= 255 /\ b <= 255 /\ c <= 255 /\ d <= 255
  BY ByteDef
<1>2. CASE a < c
  BY ONLY <1>1, <1>2
<1>3. CASE a = c /\ b < d
  BY ONLY <1>1, <1>3
<1> QED BY <1>2, <1>3

LEMMA TwoDigits ==
  ASSUME NEW a \in Byte, NEW b \in Byte
  PROVE  256 * a + b \in Word
<1>1. a \in Nat /\ b \in Nat /\ a <= 255 /\ b <= 255
  BY ByteDef
<1>2. 256 * a + b \in Nat /\ 256 * a + b <= 65535
  BY ONLY <1>1
<1> QED BY ONLY <1>1, <1>2, WordDef

\* How a long and its code go together.
Spelt(l, c) ==
             \/ l[1] = 0 /\ l[2] = 0 /\ Len(c) \in Nat \ {0} /\ c[1] \in Nat /\ c[1] <= 240
             \/ l[1] = 0 /\ l[2] # 0 /\ Len(c) = 4 /\ c[1] = 241 /\ c[2] = l[2] /\ c[3] = l[3] /\ c[4] = l[4]
             \/ /\ l[1] # 0 /\ l[1] # 255 /\ Len(c) = 5
                /\ c[1] = 242 /\ c[2] = l[1] /\ c[3] = l[2] /\ c[4] = l[3] /\ c[5] = l[4]
             \/ l[1] = 255 /\ l[2] # 255 /\ Len(c) = 4 /\ c[1] = 252 /\ c[2] = l[2] /\ c[3] = l[3] /\ c[4] = l[4]
             \/ l[1] = 255 /\ l[2] = 255 /\ l[3] # 255 /\ Len(c) = 3 /\ c[1] = 253 /\ c[2] = l[3] /\ c[3] = l[4]
             \/ l[1] = 255 /\ l[2] = 255 /\ l[3] = 255 /\ Len(c) \in Nat \ {0} /\ c[1] \in Nat /\ c[1] >= 254

LEMMA SpeltInOrder ==
  ASSUME NEW a, NEW b, NEW x, NEW y, Spelt(x, a), Spelt(y, b),
         /\ x[1] \in Nat /\ x[2] \in Nat /\ x[3] \in Nat /\ x[4] \in Nat
         /\ y[1] \in Nat /\ y[2] \in Nat /\ y[3] \in Nat /\ y[4] \in Nat
         /\ x[1] <= 255 /\ y[1] <= 255 /\ x[2] <= 255 /\ y[2] <= 255 /\ x[3] <= 255 /\ y[3] <= 255,
         \/ x[1] < y[1]
         \/ x[1] = y[1] /\ x[2] < y[2]
         \/ x[1] = y[1] /\ x[2] = y[2] /\ x[3] < y[3]
         \/ x[1] = y[1] /\ x[2] = y[2] /\ x[3] = y[3] /\ x[4] < y[4],
         ~(x[1] = y[1] /\ x[2] = y[2] /\ x[1] = 0 /\ x[2] = 0),
         ~(x[1] = 255 /\ y[1] = 255 /\ x[2] = 255 /\ y[2] = 255 /\ x[3] = 255 /\ y[3] = 255)
  PROVE  \/ Len(a) >= 1 /\ Len(b) >= 1 /\ a[1] < b[1]
         \/ Len(a) >= 2 /\ Len(b) >= 2 /\ a[1] = b[1] /\ a[2] < b[2]
         \/ Len(a) >= 3 /\ Len(b) >= 3 /\ a[1] = b[1] /\ a[2] = b[2] /\ a[3] < b[3]
         \/ Len(a) >= 4 /\ Len(b) >= 4 /\ a[1] = b[1] /\ a[2] = b[2] /\ a[3] = b[3] /\ a[4] < b[4]
         \/ Len(a) >= 5 /\ Len(b) >= 5 /\ a[1] = b[1] /\ a[2] = b[2] /\ a[3] = b[3] /\ a[4] = b[4] /\ a[5] < b[5]
<1>1. CASE x[1] = 0 /\ x[2] = 0
  <2>1. CASE y[1] = 0 /\ y[2] = 0
    BY <1>1, <2>1, SMTT(40) DEF Spelt
  <2>2. CASE y[1] = 0 /\ y[2] # 0
    BY <1>1, <2>2, SMTT(40) DEF Spelt
  <2>3. CASE y[1] # 0 /\ y[1] # 255
    BY <1>1, <2>3, SMTT(40) DEF Spelt
  <2>4. CASE y[1] = 255 /\ y[2] # 255
    BY <1>1, <2>4, SMTT(40) DEF Spelt
  <2>5. CASE y[1] = 255 /\ y[2] = 255
    BY <1>1, <2>5, SMTT(40) DEF Spelt
  <2> QED BY <2>1, <2>2, <2>3, <2>4, <2>5
<1>2. CASE x[1] = 0 /\ x[2] # 0
  <2>1. CASE y[1] = 0 /\ y[2] = 0
    BY <1>2, <2>1, SMTT(40) DEF Spelt
  <2>2. CASE y[1] = 0 /\ y[2] # 0
    BY <1>2, <2>2, SMTT(40) DEF Spelt
  <2>3. CASE y[1] # 0 /\ y[1] # 255
    BY <1>2, <2>3, SMTT(40) DEF Spelt
  <2>4. CASE y[1] = 255 /\ y[2] # 255
    BY <1>2, <2>4, SMTT(40) DEF Spelt
  <2>5. CASE y[1] = 255 /\ y[2] = 255
    BY <1>2, <2>5, SMTT(40) DEF Spelt
  <2> QED BY <2>1, <2>2, <2>3, <2>4, <2>5
<1>3. CASE x[1] # 0 /\ x[1] # 255
  <2>1. CASE y[1] = 0 /\ y[2] = 0
    BY <1>3, <2>1, SMTT(40) DEF Spelt
  <2>2. CASE y[1] = 0 /\ y[2] # 0
    BY <1>3, <2>2, SMTT(40) DEF Spelt
  <2>3. CASE y[1] # 0 /\ y[1] # 255
    BY <1>3, <2>3, SMTT(40) DEF Spelt
  <2>4. CASE y[1] = 255 /\ y[2] # 255
    BY <1>3, <2>4, SMTT(40) DEF Spelt
  <2>5. CASE y[1] = 255 /\ y[2] = 255
    BY <1>3, <2>5, SMTT(40) DEF Spelt
  <2> QED BY <2>1, <2>2, <2>3, <2>4, <2>5
<1>4. CASE x[1] = 255 /\ x[2] # 255
  <2>1. CASE y[1] = 0 /\ y[2] = 0
    BY <1>4, <2>1, SMTT(40) DEF Spelt
  <2>2. CASE y[1] = 0 /\ y[2] # 0
    BY <1>4, <2>2, SMTT(40) DEF Spelt
  <2>3. CASE y[1] # 0 /\ y[1] # 255
    BY <1>4, <2>3, SMTT(40) DEF Spelt
  <2>4. CASE y[1] = 255 /\ y[2] # 255
    BY <1>4, <2>4, SMTT(40) DEF Spelt
  <2>5. CASE y[1] = 255 /\ y[2] = 255
    BY <1>4, <2>5, SMTT(40) DEF Spelt
  <2> QED BY <2>1, <2>2, <2>3, <2>4, <2>5
<1>5. CASE x[1] = 255 /\ x[2] = 255
  <2>1. CASE y[1] = 0 /\ y[2] = 0
    BY <1>5, <2>1, SMTT(40) DEF Spelt
  <2>2. CASE y[1] = 0 /\ y[2] # 0
    BY <1>5, <2>2, SMTT(40) DEF Spelt
  <2>3. CASE y[1] # 0 /\ y[1] # 255
    BY <1>5, <2>3, SMTT(40) DEF Spelt
  <2>4. CASE y[1] = 255 /\ y[2] # 255
    BY <1>5, <2>4, SMTT(40) DEF Spelt
  <2>5. CASE y[1] = 255 /\ y[2] = 255
    <3>1. CASE x[3] = 255
      BY <1>5, <2>5, <3>1, SMTT(40) DEF Spelt
    <3>2. CASE y[3] = 255
      BY <1>5, <2>5, <3>2, SMTT(40) DEF Spelt
    <3>3. CASE x[3] # 255 /\ y[3] # 255
      BY <1>5, <2>5, <3>3, SMTT(40) DEF Spelt
    <3> QED BY <3>1, <3>2, <3>3
  <2> QED BY <2>1, <2>2, <2>3, <2>4, <2>5
<1> QED BY <1>1, <1>2, <1>3, <1>4, <1>5

\* Longs that share no code are written in their order.
LEMMA LongOrder ==
  ASSUME NEW x \in [1..4 -> Byte], NEW y \in [1..4 -> Byte], LessLong(x, y),
         ~Ambiguous(x), ~Ambiguous(y)
  PROVE  Sooner(LongCode(x), LongCode(y))
<1> DEFINE Long(l, c) ==
             \/ l[1] = 0 /\ l[2] = 0 /\ l[3] # 255 /\ c = OAQ(LowWord(l))
             \/ l[1] = 0 /\ l[2] # 0 /\ c = <<241, l[2], l[3], l[4]>>
             \/ l[1] # 0 /\ l[1] # 255 /\ c = <<242, l[1], l[2], l[3], l[4]>>
             \/ l[1] = 255 /\ l[2] # 255 /\ c = <<252, l[2], l[3], l[4]>>
             \/ l[1] = 255 /\ l[2] = 255 /\ l[3] # 255 /\ c = <<253, l[3], l[4]>>
             \/ l[1] = 255 /\ l[2] = 255 /\ l[3] = 255 /\ c = OAQ(LowWord(l))
<1>1. ASSUME NEW l \in [1..4 -> Byte], ~Ambiguous(l)
      PROVE  Long(l, LongCode(l)) /\ LowWord(l) \in Word /\ LowWord(l) = 256 * l[3] + l[4]
  <2>1. ~(l[1] = 0 /\ l[2] = 0 /\ l[3] = 255)
    BY <1>1, FourBytes DEF Ambiguous
  <2>2. l[3] \in Byte /\ l[4] \in Byte
    OBVIOUS
  <2>3. LowWord(l) \in Word /\ LowWord(l) = 256 * l[3] + l[4]
    <3>1. 256 * l[3] + l[4] \in Word
      BY <2>2, TwoDigits, Zenon
    <3> QED BY <3>1, Zenon DEF LowWord
  <2> QED BY <2>1, <2>3, LongForm
<1>2. ASSUME NEW l \in [1..4 -> Byte], ~Ambiguous(l) PROVE Spelt(l, LongCode(l))
  <2>1. Long(l, LongCode(l)) /\ LowWord(l) \in Word /\ LowWord(l) = 256 * l[3] + l[4]
    BY <1>1, <1>2
  <2>2. l[3] \in Byte /\ l[4] \in Byte
    OBVIOUS
  <2>3. ASSUME l[1] = 0, l[2] = 0, l[3] # 255, LongCode(l) = OAQ(LowWord(l)) PROVE Spelt(l, LongCode(l))
    <3>1. PICK hi \in Byte, lo \in Byte :
            /\ LowWord(l) = 256 * hi + lo
            /\ \/ hi = 0 /\ lo <= 127 /\ OAQ(LowWord(l)) = <<lo>>
               \/ hi = 255 /\ lo = 255 /\ OAQ(LowWord(l)) = <<255>>
               \/ hi = 255 /\ lo < 255 /\ OAQ(LowWord(l)) = <<254, lo>>
               \/ hi <= 111 /\ (hi > 0 \/ lo > 127) /\ OAQ(LowWord(l)) = <<128 + hi, lo>>
               \/ hi > 111 /\ hi < 255 /\ OAQ(LowWord(l)) = <<240, hi, lo>>
      BY <2>1, OAQForm
    <3>2. hi = l[3]
      <4>1. 256 * hi + lo = 256 * l[3] + l[4]
        BY <2>1, <3>1
      <4> QED BY ONLY <2>2, <4>1, hi \in Byte, lo \in Byte, SameDigits
    <3>3. hi \in Nat /\ lo \in Nat /\ hi # 255
      BY <2>3, <3>2, ByteDef
    <3>4. Len(OAQ(LowWord(l))) \in Nat \ {0} /\ OAQ(LowWord(l))[1] \in Nat /\ OAQ(LowWord(l))[1] <= 240
      <4>1. \/ lo <= 127 /\ OAQ(LowWord(l)) = <<lo>>
            \/ hi <= 111 /\ OAQ(LowWord(l)) = <<128 + hi, lo>>
            \/ OAQ(LowWord(l)) = <<240, hi, lo>>
        BY <3>1, <3>3
      <4>2. CASE lo <= 127 /\ OAQ(LowWord(l)) = <<lo>>
        <5>1. Len(<<lo>>) = 1 /\ <<lo>>[1] = lo
          OBVIOUS
        <5> QED BY <3>3, <4>2, <5>1
      <4>3. CASE hi <= 111 /\ OAQ(LowWord(l)) = <<128 + hi, lo>>
        <5>1. Len(<<128 + hi, lo>>) = 2 /\ <<128 + hi, lo>>[1] = 128 + hi
          OBVIOUS
        <5>2. 128 + hi \in Nat /\ 128 + hi <= 240
          BY ONLY <3>3, <4>3
        <5> QED BY <4>3, <5>1, <5>2
      <4>4. CASE OAQ(LowWord(l)) = <<240, hi, lo>>
        BY <4>4
      <4> QED BY <4>1, <4>2, <4>3, <4>4
    <3> QED BY <2>3, <3>4 DEF Spelt
  <2>4. ASSUME l[1] = 255, l[2] = 255, l[3] = 255, LongCode(l) = OAQ(LowWord(l)) PROVE Spelt(l, LongCode(l))
    <3>1. PICK hi \in Byte, lo \in Byte :
            /\ LowWord(l) = 256 * hi + lo
            /\ \/ hi = 0 /\ lo <= 127 /\ OAQ(LowWord(l)) = <<lo>>
               \/ hi = 255 /\ lo = 255 /\ OAQ(LowWord(l)) = <<255>>
               \/ hi = 255 /\ lo < 255 /\ OAQ(LowWord(l)) = <<254, lo>>
               \/ hi <= 111 /\ (hi > 0 \/ lo > 127) /\ OAQ(LowWord(l)) = <<128 + hi, lo>>
               \/ hi > 111 /\ hi < 255 /\ OAQ(LowWord(l)) = <<240, hi, lo>>
      BY <2>1, OAQForm
    <3>2. hi = 255
      <4>1. 256 * hi + lo = 256 * 255 + l[4]
        BY <2>1, <2>4, <3>1
      <4> QED BY ONLY <2>2, <4>1, hi \in Byte, lo \in Byte DEF Byte
    <3>3. OAQ(LowWord(l)) = <<255>> \/ OAQ(LowWord(l)) = <<254, lo>>
      BY <3>1, <3>2
    <3>4. Len(<<255>>) = 1 /\ <<255>>[1] = 255 /\ Len(<<254, lo>>) = 2 /\ <<254, lo>>[1] = 254
      OBVIOUS
    <3>5. PICK c : c = OAQ(LowWord(l))
      OBVIOUS
    <3>6. c = <<255>> \/ c = <<254, lo>>
      BY <3>3, <3>5
    <3>7. Len(c) \in Nat \ {0} /\ c[1] \in Nat /\ c[1] >= 254
      <4>1. CASE c = <<255>>
        BY <4>1
      <4>2. CASE c = <<254, lo>>
        BY <4>2
      <4> QED BY <3>6, <4>1, <4>2
    <3> QED BY <2>4, <3>5, <3>7 DEF Spelt
  <2>5. CASE l[1] = 0 /\ l[2] # 0 /\ LongCode(l) = <<241, l[2], l[3], l[4]>>
    BY <2>5 DEF Spelt
  <2>6. CASE l[1] # 0 /\ l[1] # 255 /\ LongCode(l) = <<242, l[1], l[2], l[3], l[4]>>
    BY <2>6 DEF Spelt
  <2>7. CASE l[1] = 255 /\ l[2] # 255 /\ LongCode(l) = <<252, l[2], l[3], l[4]>>
    BY <2>7 DEF Spelt
  <2>8. CASE l[1] = 255 /\ l[2] = 255 /\ l[3] # 255 /\ LongCode(l) = <<253, l[3], l[4]>>
    BY <2>8 DEF Spelt
  <2> QED BY <2>1, <2>3, <2>4, <2>5, <2>6, <2>7, <2>8
<1>3. PICK a : a = LongCode(x)
  OBVIOUS
<1>4. PICK b : b = LongCode(y)
  OBVIOUS
<1>5. Spelt(x, a) /\ Spelt(y, b)
  BY <1>2, <1>3, <1>4
<1>6. Long(x, a) /\ Long(y, b)
  BY <1>1, <1>3, <1>4
<1>7. \/ x[1] < y[1]
      \/ x[1] = y[1] /\ x[2] < y[2]
      \/ x[1] = y[1] /\ x[2] = y[2] /\ x[3] < y[3]
      \/ x[1] = y[1] /\ x[2] = y[2] /\ x[3] = y[3] /\ x[4] < y[4]
  BY LessLongForm
<1>8. \A i \in 1..4 : x[i] \in Nat /\ x[i] <= 255 /\ y[i] \in Nat /\ y[i] <= 255
  BY ByteDef
<1>9. CASE x[1] = y[1] /\ x[2] = y[2] /\ x[1] = 0 /\ x[2] = 0
  <2>1. LowWord(x) < LowWord(y)
    <3>1. x[3] < y[3] \/ (x[3] = y[3] /\ x[4] < y[4])
      BY <1>7, <1>8, <1>9
    <3>2. x[3] \in Byte /\ x[4] \in Byte /\ y[3] \in Byte /\ y[4] \in Byte
      OBVIOUS
    <3>3. 256 * x[3] + x[4] < 256 * y[3] + y[4]
      BY ONLY <3>1, <3>2, LessDigits
    <3> QED BY <1>1, <3>3
  <2>2. LowWord(x) \in Word /\ LowWord(y) \in Word
    BY <1>1
  <2>3. LongCode(x) = OAQ(LowWord(x)) /\ LongCode(y) = OAQ(LowWord(y))
    BY <1>9, LongForm
  <2> QED BY <2>1, <2>2, <2>3, WordOrder
<1>10. CASE x[1] = 255 /\ y[1] = 255 /\ x[2] = 255 /\ y[2] = 255 /\ x[3] = 255 /\ y[3] = 255
  <2>1. LowWord(x) < LowWord(y)
    <3>1. x[4] < y[4]
      BY <1>7, <1>8, <1>10
    <3>2. x[3] \in Byte /\ x[4] \in Byte /\ y[3] \in Byte /\ y[4] \in Byte /\ x[3] = y[3]
      BY <1>10
    <3>3. 256 * x[3] + x[4] < 256 * y[3] + y[4]
      BY ONLY <3>1, <3>2, LessDigits
    <3> QED BY <1>1, <3>3
  <2>2. LowWord(x) \in Word /\ LowWord(y) \in Word
    BY <1>1
  <2>3. LongCode(x) = OAQ(LowWord(x)) /\ LongCode(y) = OAQ(LowWord(y))
    BY <1>10, LongForm
  <2> QED BY <2>1, <2>2, <2>3, WordOrder
<1>11. CASE /\ ~(x[1] = y[1] /\ x[2] = y[2] /\ x[1] = 0 /\ x[2] = 0)
            /\ ~(x[1] = 255 /\ y[1] = 255 /\ x[2] = 255 /\ y[2] = 255 /\ x[3] = 255 /\ y[3] = 255)
  <2>1. \/ Len(a) >= 1 /\ Len(b) >= 1 /\ a[1] < b[1]
        \/ Len(a) >= 2 /\ Len(b) >= 2 /\ a[1] = b[1] /\ a[2] < b[2]
        \/ Len(a) >= 3 /\ Len(b) >= 3 /\ a[1] = b[1] /\ a[2] = b[2] /\ a[3] < b[3]
        \/ Len(a) >= 4 /\ Len(b) >= 4 /\ a[1] = b[1] /\ a[2] = b[2] /\ a[3] = b[3] /\ a[4] < b[4]
        \/ Len(a) >= 5 /\ Len(b) >= 5 /\ a[1] = b[1] /\ a[2] = b[2] /\ a[3] = b[3] /\ a[4] = b[4] /\ a[5] < b[5]
    <3>1. /\ x[1] \in Nat /\ x[2] \in Nat /\ x[3] \in Nat /\ x[4] \in Nat
          /\ y[1] \in Nat /\ y[2] \in Nat /\ y[3] \in Nat /\ y[4] \in Nat
          /\ x[1] <= 255 /\ y[1] <= 255 /\ x[2] <= 255 /\ y[2] <= 255 /\ x[3] <= 255 /\ y[3] <= 255
      BY <1>8
    <3> QED BY ONLY <1>5, <1>7, <1>11, <3>1, SpeltInOrder, SMTT(30)
  <2>2. Len(a) \in Nat /\ Len(b) \in Nat
    BY <1>1, <1>3, <1>4, OAQIsBytes, LongForm
  <2>3. Sooner(a, b)
    <3>1. CASE Len(a) >= 1 /\ Len(b) >= 1 /\ a[1] < b[1]
      BY ONLY <2>2, <3>1 DEF Sooner
    <3>2. CASE Len(a) >= 2 /\ Len(b) >= 2 /\ a[1] = b[1] /\ a[2] < b[2]
      <4>1. \A i \in 1..(2 - 1) : i = 1
        OBVIOUS
      <4> QED BY ONLY <2>2, <3>2, <4>1 DEF Sooner
    <3>3. CASE Len(a) >= 3 /\ Len(b) >= 3 /\ a[1] = b[1] /\ a[2] = b[2] /\ a[3] < b[3]
      <4>1. \A i \in 1..(3 - 1) : i = 1 \/ i = 2
        OBVIOUS
      <4> QED BY ONLY <2>2, <3>3, <4>1 DEF Sooner
    <3>4. CASE Len(a) >= 4 /\ Len(b) >= 4 /\ a[1] = b[1] /\ a[2] = b[2] /\ a[3] = b[3] /\ a[4] < b[4]
      <4>1. \A i \in 1..(4 - 1) : i = 1 \/ i = 2 \/ i = 3
        OBVIOUS
      <4> QED BY ONLY <2>2, <3>4, <4>1 DEF Sooner
    <3>5. CASE Len(a) >= 5 /\ Len(b) >= 5 /\ a[1] = b[1] /\ a[2] = b[2] /\ a[3] = b[3] /\ a[4] = b[4] /\ a[5] < b[5]
      <4>1. \A i \in 1..(5 - 1) : i = 1 \/ i = 2 \/ i = 3 \/ i = 4
        OBVIOUS
      <4> QED BY ONLY <2>2, <3>5, <4>1 DEF Sooner
    <3> QED BY ONLY <2>1, <3>1, <3>2, <3>3, <3>4, <3>5
  <2> QED BY <1>3, <1>4, <2>3
<1> HIDE DEF Long
<1> QED BY <1>9, <1>10, <1>11

-----------------------------------------------------------------------------
(* Keys: codes one behind the other.                                        *)

NumberOf(k) == IF k = "long" THEN Longs ELSE Word
CodesOf(k, x) == IF k = "long" THEN LOAQ(x) ELSE {OAQ(x)}
LessOf(k, x, y) == IF k = "long" THEN LessLong(x, y) ELSE x < y
Plain(k, x) == k = "long" => ~Ambiguous(x)

\* The code of the i-th number stands in the bytes between o[i] and o[i + 1].
Chunked(k, numbers, bytes, o) ==
  /\ o[1] = 0 /\ o[Len(numbers) + 1] = Len(bytes)
  /\ \A i \in 1..Len(numbers) : \E c \in CodesOf(k, numbers[i]) :
       /\ o[i + 1] = o[i] + Len(c)
       /\ \A r \in 1..Len(c) : bytes[o[i] + r] = c[r]
  /\ \A i, m \in 1..(Len(numbers) + 1) : i < m => o[i] < o[m]

\* Where the codes stand, and how far they have been read: between two of them.
Places(k) == [1..(Len(key[k].numbers) + 1) -> 0..Len(key[k].bytes)]
OaqInv ==
  /\ kind \in {"word", "long", "neighbours"}
  /\ key \in [1..2 -> [numbers : Seq(NumberOf(kind)), bytes : Seq(Byte)]]
  /\ got \in Seq(Word)
  /\ \A k \in 1..2 : \E o \in Places(k) :
       /\ Chunked(kind, key[k].numbers, key[k].bytes, o)
       /\ k = 1 /\ kind # "long" =>
            /\ Len(got) <= Len(key[1].numbers) /\ at = o[Len(got) + 1]
            /\ \A i \in 1..Len(got) : got[i] = key[1].numbers[i]

LEMMA LongsAreBytes == Longs \subseteq [1..4 -> Byte] /\ Words \subseteq Word
BY OaqKeysAssumption, Zenon DEF OaqKeysAssumption, Byte

LEMMA CodeIsBytes ==
  ASSUME NEW k, NEW x \in NumberOf(k), NEW c \in CodesOf(k, x)
  PROVE  c \in Seq(Byte) /\ Len(c) \in Nat /\ 1 <= Len(c)
<1>1. ASSUME NEW w \in Word PROVE OAQ(w) \in Seq(Byte) /\ Len(OAQ(w)) \in Nat /\ 1 <= Len(OAQ(w))
  BY OAQIsBytes
<1>2. CASE k # "long"
  BY <1>1, <1>2 DEF NumberOf, CodesOf
<1>3. CASE k = "long"
  <2>1. x \in [1..4 -> Byte]
    BY <1>3, LongsAreBytes DEF NumberOf
  <2>2. x[1] \in Byte /\ x[2] \in Byte /\ x[3] \in Byte /\ x[4] \in Byte
    BY <2>1
  <2>3. LowWord(x) \in Word
    BY <2>2, TwoDigits DEF LowWord
  <2>4. c = LongCode(x) \/ c = OAQ(LowWord(x))
    BY <1>3 DEF CodesOf, LOAQ
  <2>5. 241 \in Byte /\ 242 \in Byte /\ 252 \in Byte /\ 253 \in Byte
    BY ByteDef
  <2>6. \/ LongCode(x) = OAQ(LowWord(x))
        \/ LongCode(x) = <<241, x[2], x[3], x[4]>>
        \/ LongCode(x) = <<242, x[1], x[2], x[3], x[4]>>
        \/ LongCode(x) = <<252, x[2], x[3], x[4]>>
        \/ LongCode(x) = <<253, x[3], x[4]>>
    BY <2>1, LongForm
  <2>7. CASE LongCode(x) = OAQ(LowWord(x))
    BY <1>1, <2>3, <2>4, <2>7
  <2>8. CASE c = OAQ(LowWord(x))
    BY <1>1, <2>3, <2>8
  <2>9. CASE c = <<241, x[2], x[3], x[4]>>
    BY <2>2, <2>5, <2>9
  <2>10. CASE c = <<242, x[1], x[2], x[3], x[4]>>
    BY <2>2, <2>5, <2>10
  <2>11. CASE c = <<252, x[2], x[3], x[4]>>
    BY <2>2, <2>5, <2>11
  <2>12. CASE c = <<253, x[3], x[4]>>
    BY <2>2, <2>5, <2>12
  <2> QED BY <2>4, <2>6, <2>7, <2>8, <2>9, <2>10, <2>11, <2>12
<1> QED BY <1>2, <1>3

\* Different numbers differ in their codes, before either ends.
LEMMA CodeOrder ==
  ASSUME NEW k, NEW x \in NumberOf(k), NEW y \in NumberOf(k), Plain(k, x), Plain(k, y),
         NEW c \in CodesOf(k, x), NEW d \in CodesOf(k, y)
  PROVE  /\ x = y => c = d /\ ~LessOf(k, x, y)
         /\ x # y => \/ LessOf(k, x, y) /\ Sooner(c, d)
                     \/ ~LessOf(k, x, y) /\ Sooner(d, c)
<1>1. CASE k # "long"
  <2>1. x \in Word /\ y \in Word /\ c = OAQ(x) /\ d = OAQ(y)
    BY <1>1 DEF NumberOf, CodesOf
  <2>2. x \in Nat /\ y \in Nat
    BY <2>1, WordDef
  <2>3. LessOf(k, x, y) <=> x < y
    BY <1>1 DEF LessOf
  <2>4. (x = y => ~(x < y)) /\ (x # y => x < y \/ (y < x /\ ~(x < y)))
    BY <2>2
  <2> QED BY <2>1, <2>3, <2>4, WordOrder
<1>2. CASE k = "long"
  <2>1. x \in [1..4 -> Byte] /\ y \in [1..4 -> Byte]
    BY <1>2, LongsAreBytes DEF NumberOf
  <2>2. ~Ambiguous(x) /\ ~Ambiguous(y)
    BY <1>2 DEF Plain
  <2>3. c = LongCode(x) /\ d = LongCode(y)
    BY <1>2, <2>2 DEF CodesOf, LOAQ, Ambiguous
  <2>4. LessOf(k, x, y) <=> LessLong(x, y)
    BY <1>2 DEF LessOf
  <2>5. /\ x[1] \in Nat /\ x[2] \in Nat /\ x[3] \in Nat /\ x[4] \in Nat
        /\ y[1] \in Nat /\ y[2] \in Nat /\ y[3] \in Nat /\ y[4] \in Nat
    BY <2>1, ByteDef
  <2>6. x = y => ~LessLong(x, y)
    BY <2>1, <2>5, LessLongForm
  <2>7. x # y => LessLong(x, y) \/ (LessLong(y, x) /\ ~LessLong(x, y))
    <3>1. ASSUME x[1] = y[1], x[2] = y[2], x[3] = y[3], x[4] = y[4] PROVE x = y
      <4>1. x = <<x[1], x[2], x[3], x[4]>>
        BY <2>1, FourBytes
      <4>2. y = <<y[1], y[2], y[3], y[4]>>
        BY <2>1, FourBytes
      <4> QED BY ONLY <3>1, <4>1, <4>2
    <3>2. LessLong(x, y) <=> \/ x[1] < y[1]
                             \/ x[1] = y[1] /\ x[2] < y[2]
                             \/ x[1] = y[1] /\ x[2] = y[2] /\ x[3] < y[3]
                             \/ x[1] = y[1] /\ x[2] = y[2] /\ x[3] = y[3] /\ x[4] < y[4]
      BY <2>1, LessLongForm
    <3>3. LessLong(y, x) <=> \/ y[1] < x[1]
                             \/ y[1] = x[1] /\ y[2] < x[2]
                             \/ y[1] = x[1] /\ y[2] = x[2] /\ y[3] < x[3]
                             \/ y[1] = x[1] /\ y[2] = x[2] /\ y[3] = x[3] /\ y[4] < x[4]
      BY <2>1, LessLongForm
    <3>4. CASE x[1] # y[1]
      BY ONLY <2>5, <3>2, <3>3, <3>4
    <3>5. CASE x[1] = y[1] /\ x[2] # y[2]
      BY ONLY <2>5, <3>2, <3>3, <3>5
    <3>6. CASE x[1] = y[1] /\ x[2] = y[2] /\ x[3] # y[3]
      BY ONLY <2>5, <3>2, <3>3, <3>6
    <3>7. CASE x[1] = y[1] /\ x[2] = y[2] /\ x[3] = y[3] /\ x[4] # y[4]
      BY ONLY <2>5, <3>2, <3>3, <3>7
    <3> QED BY <3>1, <3>4, <3>5, <3>6, <3>7
  <2>8. ASSUME LessLong(x, y) PROVE Sooner(c, d)
    BY <2>1, <2>2, <2>3, <2>8, LongOrder
  <2>9. ASSUME LessLong(y, x) PROVE Sooner(d, c)
    BY <2>1, <2>2, <2>3, <2>9, LongOrder
  <2> QED BY <2>3, <2>4, <2>6, <2>7, <2>8, <2>9
<1> QED BY <1>1, <1>2

\* A code of x fills the bytes from one place to another.
Filled(k, x, s, from, to) ==
  \E c \in CodesOf(k, x) :
     /\ c \in Seq(Byte) /\ Len(c) \in Nat /\ 1 <= Len(c)
     /\ from \in Nat /\ to = from + Len(c) /\ to <= Len(s)
     /\ \A r \in 1..Len(c) : s[from + r] = c[r]

LEMMA ChunkFacts ==
  ASSUME NEW k, NEW a \in Seq(NumberOf(k)), NEW s \in Seq(Byte),
         NEW o \in [1..(Len(a) + 1) -> 0..Len(s)], Chunked(k, a, s, o), NEW i \in 1..Len(a)
  PROVE  Filled(k, a[i], s, o[i], o[i + 1])
<1>1. Len(a) \in Nat /\ Len(s) \in Nat /\ i \in 1..(Len(a) + 1) /\ i + 1 \in 1..(Len(a) + 1)
  OBVIOUS
<1>2. o[i] \in Nat /\ o[i + 1] <= Len(s)
  BY <1>1
<1>3. a[i] \in NumberOf(k)
  OBVIOUS
<1>4. PICK c \in CodesOf(k, a[i]) :
        o[i + 1] = o[i] + Len(c) /\ \A r \in 1..Len(c) : s[o[i] + r] = c[r]
  BY DEF Chunked
<1>5. c \in Seq(Byte) /\ Len(c) \in Nat /\ 1 <= Len(c)
  BY <1>3, CodeIsBytes
<1> QED BY <1>2, <1>4, <1>5 DEF Filled

LEMMA PlaceFacts ==
  ASSUME NEW b \in Nat, NEW m \in Nat, NEW o \in [1..m -> 0..b], NEW i \in 1..m
  PROVE  o[i] \in Nat /\ o[i] <= b
OBVIOUS

\* The bytes of s and t are the same up to the end of their q-th codes.
SameUpTo(s, t, o, u, q) ==
  /\ o[q + 1] = u[q + 1] /\ o[q + 1] \in Nat /\ o[q + 1] <= Len(s) /\ o[q + 1] <= Len(t)
  /\ \A i \in 1..o[q + 1] : s[i] = t[i]

\* Two keys whose first q numbers are the same have the same bytes up to there.
LEMMA SameBytes ==
  ASSUME NEW k, NEW a \in Seq(NumberOf(k)), NEW b \in Seq(NumberOf(k)),
         NEW s \in Seq(Byte), NEW t \in Seq(Byte),
         NEW o \in [1..(Len(a) + 1) -> 0..Len(s)], NEW u \in [1..(Len(b) + 1) -> 0..Len(t)],
         Chunked(k, a, s, o), Chunked(k, b, t, u),
         \A i \in 1..Len(a) : Plain(k, a[i]),
         NEW q \in Nat, q <= Len(a), q <= Len(b), \A i \in 1..q : a[i] = b[i]
  PROVE  SameUpTo(s, t, o, u, q)
<1> DEFINE Agree(m) == o[m + 1] = u[m + 1] /\ \A i \in 1..o[m + 1] : s[i] = t[i]
           bad == {m \in 0..q : ~Agree(m)}
<1>1. /\ Len(a) \in Nat /\ Len(b) \in Nat /\ Len(s) \in Nat /\ Len(t) \in Nat
      /\ Len(a) + 1 \in Nat /\ Len(b) + 1 \in Nat
  OBVIOUS
<1>2. \A m \in 0..q : /\ o[m + 1] \in Nat /\ o[m + 1] <= Len(s)
                      /\ u[m + 1] \in Nat /\ u[m + 1] <= Len(t)
  <2>1. \A m \in 0..q : m + 1 \in 1..(Len(a) + 1) /\ m + 1 \in 1..(Len(b) + 1)
    BY <1>1
  <2> HIDE DEF Agree, bad
  <2>2. \A i \in 1..(Len(a) + 1) : o[i] \in Nat /\ o[i] <= Len(s)
    BY <1>1, PlaceFacts, Zenon
  <2>3. \A i \in 1..(Len(b) + 1) : u[i] \in Nat /\ u[i] <= Len(t)
    BY <1>1, PlaceFacts, Zenon
  <2> QED BY ONLY <2>1, <2>2, <2>3
<1>3. Agree(0)
  <2>1. o[1] = 0 /\ u[1] = 0
    BY DEF Chunked
  <2> QED BY <2>1
<1>4. ASSUME NEW m \in 0..(q - 1), Agree(m) PROVE Agree(m + 1)
  <2>1. m + 1 \in 1..Len(a) /\ m + 1 \in 1..Len(b) /\ m + 1 \in 1..q /\ m \in 0..q
    BY <1>1
  <2>5. o[m + 1] = u[m + 1] /\ \A i \in 1..o[m + 1] : s[i] = t[i]
    BY <1>4
  <2> HIDE DEF Agree, bad
  <2>a. Filled(k, a[m + 1], s, o[m + 1], o[m + 1 + 1])
    BY <2>1, ChunkFacts
  <2>b. Filled(k, b[m + 1], t, u[m + 1], u[m + 1 + 1])
    BY <2>1, ChunkFacts
  <2>2. PICK c \in CodesOf(k, a[m + 1]) :
          /\ c \in Seq(Byte) /\ Len(c) \in Nat /\ 1 <= Len(c)
          /\ o[m + 1] \in Nat /\ o[m + 1 + 1] = o[m + 1] + Len(c) /\ o[m + 1 + 1] <= Len(s)
          /\ \A r \in 1..Len(c) : s[o[m + 1] + r] = c[r]
    BY <2>a, Zenon DEF Filled
  <2>3. PICK d \in CodesOf(k, b[m + 1]) :
          /\ d \in Seq(Byte) /\ Len(d) \in Nat /\ 1 <= Len(d)
          /\ u[m + 1] \in Nat /\ u[m + 1 + 1] = u[m + 1] + Len(d) /\ u[m + 1 + 1] <= Len(t)
          /\ \A r \in 1..Len(d) : t[u[m + 1] + r] = d[r]
    BY <2>b, Zenon DEF Filled
  <2>4. c = d
    <3>1. a[m + 1] = b[m + 1] /\ Plain(k, a[m + 1]) /\ a[m + 1] \in NumberOf(k)
      BY <2>1
    <3> QED BY <3>1, CodeOrder
  <2>6. o[m + 1 + 1] = u[m + 1 + 1]
    BY <2>2, <2>3, <2>4, <2>5
  <2>7. ASSUME NEW i \in 1..o[m + 1 + 1] PROVE s[i] = t[i]
    <3>1. CASE i <= o[m + 1]
      <4>1. i \in 1..o[m + 1]
        BY <2>2, <2>7, <3>1
      <4> QED BY <2>5, <4>1
    <3>2. CASE ~(i <= o[m + 1])
      <4>1. PICK r \in 1..Len(c) : i = o[m + 1] + r
        <5>1. PICK v \in Nat : v = o[m + 1]
          BY <2>2
        <5>2. i \in 1..(v + Len(c)) /\ ~(i <= v)
          BY <2>2, <3>2, <5>1
        <5>3. i - v \in 1..Len(c) /\ i = v + (i - v)
          BY ONLY <2>2, <5>2, v \in Nat
        <5> QED BY <5>1, <5>3
      <4> QED BY <2>2, <2>3, <2>4, <2>5, <4>1
    <3> QED BY <3>1, <3>2
  <2> QED BY <2>6, <2>7 DEF Agree
<1> HIDE DEF Agree
<1>5. bad = {}
  <2> SUFFICES ASSUME bad # {} PROVE FALSE
    OBVIOUS
  <2>1. PICK m \in bad : \A i \in bad : m <= i
    <3>1. bad \subseteq Nat
      OBVIOUS
    <3> HIDE DEF bad
    <3> QED BY <3>1, LeastOf
  <2>2. m \in 0..q /\ ~Agree(m) /\ m # 0
    BY <1>3
  <2>3. m - 1 \in 0..(q - 1) /\ m - 1 \in 0..q /\ (m - 1) + 1 = m /\ ~(m <= m - 1)
    BY <2>2
  <2>4. Agree(m - 1)
    BY <2>1, <2>3
  <2>5. Agree((m - 1) + 1)
    BY <1>4, <2>3, <2>4
  <2> QED BY <2>2, <2>3, <2>5
<1>6. Agree(q)
  BY <1>5
<1> QED BY <1>2, <1>6 DEF Agree, SameUpTo

\* Below, with the order that goes with the kind of numbers.
BelowOf(k, a, b) ==
  \/ IsStrictPrefix(a, b)
  \/ \E i \in DOMAIN a \cap DOMAIN b :
       LessOf(k, a[i], b[i]) /\ SubSeq(a, 1, i - 1) = SubSeq(b, 1, i - 1)

\* memcmp of two keys is the comparison of their numbers.
LEMMA KeysOrder ==
  ASSUME NEW k, NEW a \in Seq(NumberOf(k)), NEW b \in Seq(NumberOf(k)),
         NEW s \in Seq(Byte), NEW t \in Seq(Byte),
         NEW o \in [1..(Len(a) + 1) -> 0..Len(s)], NEW u \in [1..(Len(b) + 1) -> 0..Len(t)],
         Chunked(k, a, s, o), Chunked(k, b, t, u),
         \A i \in 1..Len(a) : Plain(k, a[i]), \A i \in 1..Len(b) : Plain(k, b[i])
  PROVE  Below(s, t, LessNumber) <=> BelowOf(k, a, b)
<1>1. /\ Len(a) \in Nat /\ Len(b) \in Nat /\ Len(s) \in Nat /\ Len(t) \in Nat
      /\ DOMAIN a = 1..Len(a) /\ DOMAIN b = 1..Len(b)
  OBVIOUS
<1>2. s \in Seq(Nat) /\ t \in Seq(Nat)
  <2>1. Byte \subseteq Nat
    BY ByteDef
  <2> QED BY <2>1, SeqMonotonic
<1>3. o[Len(a) + 1] = Len(s) /\ u[Len(b) + 1] = Len(t)
  BY DEF Chunked
<1>4. CASE \A i \in 1..Len(a) : i <= Len(b) => a[i] = b[i]
  <2>1. \A i \in DOMAIN a \cap DOMAIN b : ~LessOf(k, a[i], b[i])
    <3> SUFFICES ASSUME NEW i \in 1..Len(a), i \in 1..Len(b) PROVE ~LessOf(k, a[i], b[i])
      BY <1>1
    <3>1. a[i] = b[i] /\ a[i] \in NumberOf(k) /\ Plain(k, a[i])
      BY <1>4
    <3>2. Filled(k, a[i], s, o[i], o[i + 1])
      BY ChunkFacts
    <3>3. PICK c : c \in CodesOf(k, a[i])
      BY <3>2 DEF Filled
    <3> QED BY <3>1, <3>3, CodeOrder
  <2>2. CASE Len(a) < Len(b)
    <3>1. BelowOf(k, a, b)
      <4>1. \A i \in 1..Len(a) : a[i] = b[i]
        BY <1>1, <1>4, <2>2
      <4> QED BY <2>2, <4>1, StrictPrefix DEF BelowOf
    <3>2. /\ Len(s) = u[Len(a) + 1] /\ \A i \in 1..Len(s) : s[i] = t[i]
      <4>1. Len(a) <= Len(a) /\ Len(a) <= Len(b) /\ \A i \in 1..Len(a) : a[i] = b[i]
        BY <1>1, <1>4, <2>2
      <4>2. SameUpTo(s, t, o, u, Len(a))
        BY <1>1, <4>1, SameBytes
      <4> QED BY <1>3, <4>2 DEF SameUpTo
    <3>3. u[Len(a) + 1] < Len(t)
      <4>1. Len(a) + 1 \in 1..(Len(b) + 1) /\ Len(b) + 1 \in 1..(Len(b) + 1) /\ Len(a) + 1 < Len(b) + 1
        BY <1>1, <2>2
      <4>2. u[Len(a) + 1] < u[Len(b) + 1]
        BY <4>1 DEF Chunked
      <4> QED BY <1>3, <4>2
    <3>4. Below(s, t, LessNumber)
      <4>1. (\A i \in 1..Len(s) : i <= Len(t) => s[i] = t[i]) => (Below(s, t, LessNumber) <=> Len(s) < Len(t))
        BY <1>2, BelowNumbers
      <4> QED BY <3>2, <3>3, <4>1
    <3> QED BY <3>1, <3>4
  <2>3. CASE ~(Len(a) < Len(b))
    <3>1. ~BelowOf(k, a, b)
      BY <2>1, <2>3, StrictPrefix DEF BelowOf
    <3>2. Len(t) = o[Len(b) + 1] /\ Len(t) <= Len(s) /\ \A i \in 1..Len(t) : s[i] = t[i]
      <4>1. Len(b) <= Len(b) /\ Len(b) <= Len(a) /\ \A i \in 1..Len(b) : a[i] = b[i]
        BY <1>1, <1>4, <2>3
      <4>2. SameUpTo(s, t, o, u, Len(b))
        BY <1>1, <4>1, SameBytes
      <4> QED BY <1>3, <4>2 DEF SameUpTo
    <3>3. ~Below(s, t, LessNumber)
      <4>1. (\A i \in 1..Len(s) : i <= Len(t) => s[i] = t[i]) => (Below(s, t, LessNumber) <=> Len(s) < Len(t))
        BY <1>2, BelowNumbers
      <4>2. \A i \in 1..Len(s) : i <= Len(t) => i \in 1..Len(t)
        BY <1>1
      <4>3. ~(Len(s) < Len(t))
        BY <1>1, <3>2
      <4> QED BY <3>2, <4>1, <4>2, <4>3
    <3> QED BY <3>1, <3>3
  <2> QED BY <2>2, <2>3
<1>5. CASE ~ \A i \in 1..Len(a) : i <= Len(b) => a[i] = b[i]
  <2> DEFINE differ == {i \in 1..Len(a) : i <= Len(b) /\ a[i] # b[i]}
  <2>1. PICK p \in differ : \A i \in differ : p <= i
    <3>1. PICK i \in 1..Len(a) : ~(i <= Len(b) => a[i] = b[i])
      BY <1>5
    <3>2. differ \subseteq Nat /\ i \in differ
      BY <3>1
    <3> HIDE DEF differ
    <3> QED BY <3>2, LeastOf
  <2>2. p \in 1..Len(a) /\ p \in 1..Len(b) /\ p <= Len(b) /\ a[p] # b[p]
    BY <1>1
  <2>3. \A i \in 1..(p - 1) : a[i] = b[i]
    <3> SUFFICES ASSUME NEW i \in 1..(p - 1), a[i] # b[i] PROVE FALSE
      OBVIOUS
    <3>1. i \in 1..Len(a) /\ i <= Len(b) /\ ~(p <= i)
      BY <1>1, <2>2
    <3>2. i \in differ
      BY <3>1
    <3> QED BY <2>1, <3>1, <3>2
  <2> HIDE DEF differ
  <2>4. p - 1 \in Nat /\ p - 1 <= Len(a) /\ p - 1 <= Len(b) /\ p - 1 + 1 = p
    BY <1>1, <2>2
  <2>5. /\ o[p] = u[p] /\ o[p] \in Nat
        /\ \A i \in 1..o[p] : s[i] = t[i]
    <3>1. PICK q \in Nat : q = p - 1 /\ q <= Len(a) /\ q <= Len(b) /\ q + 1 = p
      BY <2>4
    <3>2. \A i \in 1..q : a[i] = b[i]
      BY <2>3, <3>1
    <3>3. SameUpTo(s, t, o, u, q)
      BY <3>1, <3>2, SameBytes
    <3> QED BY <3>1, <3>3 DEF SameUpTo
  <2>6. a[p] \in NumberOf(k) /\ b[p] \in NumberOf(k) /\ Plain(k, a[p]) /\ Plain(k, b[p])
    BY <2>2
  <2>7. Filled(k, a[p], s, o[p], o[p + 1]) /\ Filled(k, b[p], t, u[p], u[p + 1])
    BY <2>2, ChunkFacts
  <2>8. PICK c \in CodesOf(k, a[p]) :
          /\ c \in Seq(Byte) /\ Len(c) \in Nat
          /\ o[p] + Len(c) <= Len(s) /\ \A r \in 1..Len(c) : s[o[p] + r] = c[r]
    BY <2>7 DEF Filled
  <2>9. PICK d \in CodesOf(k, b[p]) :
          /\ d \in Seq(Byte) /\ Len(d) \in Nat
          /\ o[p] + Len(d) <= Len(t) /\ \A r \in 1..Len(d) : t[o[p] + r] = d[r]
    BY <2>5, <2>7 DEF Filled
  <2>10. \/ LessOf(k, a[p], b[p]) /\ Sooner(c, d)
         \/ ~LessOf(k, a[p], b[p]) /\ Sooner(d, c)
    BY <2>2, <2>6, CodeOrder
  <2>11. BelowOf(k, a, b) <=> LessOf(k, a[p], b[p])
    <3>1. /\ ~IsStrictPrefix(a, b)
          /\ p \in DOMAIN a \cap DOMAIN b /\ SubSeq(a, 1, p - 1) = SubSeq(b, 1, p - 1)
          /\ \A i \in DOMAIN a \cap DOMAIN b :
               SubSeq(a, 1, i - 1) = SubSeq(b, 1, i - 1) => i = p \/ a[i] = b[i]
      BY <2>2, <2>3, FirstDifference
    <3>2. ASSUME NEW i \in DOMAIN a \cap DOMAIN b, a[i] = b[i] PROVE ~LessOf(k, a[i], b[i])
      <4>1. i \in 1..Len(a) /\ a[i] \in NumberOf(k) /\ Plain(k, a[i])
        BY <1>1
      <4>2. Filled(k, a[i], s, o[i], o[i + 1])
        BY <4>1, ChunkFacts
      <4>3. PICK e : e \in CodesOf(k, a[i])
        BY <4>2 DEF Filled
      <4> QED BY <3>2, <4>1, <4>3, CodeOrder
    <3> QED BY <3>1, <3>2 DEF BelowOf
  <2>12. ASSUME NEW r \in 1..Len(c), r \in 1..Len(d), c[r] # d[r], \A i \in 1..(r - 1) : c[i] = d[i]
         PROVE  Below(s, t, LessNumber) <=> c[r] < d[r]
    <3>1. PICK m \in Nat : m = o[p]
      BY <2>5
    <3>2. m + r \in 1..Len(s) /\ m + r <= Len(t)
      <4>1. m + Len(c) <= Len(s) /\ m + Len(d) <= Len(t) /\ Len(c) \in Nat /\ Len(d) \in Nat
        BY <2>8, <2>9, <3>1
      <4>2. r \in 1..Len(c) /\ r \in 1..Len(d)
        BY <2>12
      <4> QED BY ONLY <1>1, <4>1, <4>2, m \in Nat
    <3>3. s[m + r] = c[r] /\ t[m + r] = d[r]
      BY <2>8, <2>9, <2>12, <3>1
    <3>4. ASSUME NEW i \in 1..(m + r - 1) PROVE s[i] = t[i]
      <4>1. CASE i <= m
        <5>1. i \in 1..m
          BY <4>1
        <5> QED BY <2>5, <3>1, <5>1
      <4>2. CASE ~(i <= m)
        <5>1. i - m \in 1..(r - 1) /\ i - m \in 1..Len(c) /\ i - m \in 1..Len(d) /\ i = m + (i - m)
          BY <2>8, <2>9, <2>12, <4>2
        <5>2. s[m + (i - m)] = c[i - m] /\ t[m + (i - m)] = d[i - m]
          BY <2>8, <2>9, <3>1, <5>1
        <5> QED BY <2>12, <5>1, <5>2
      <4> QED BY <4>1, <4>2
    <3>5. PICK v \in 1..Len(s) : v = m + r /\ v <= Len(t)
      BY <3>2
    <3>6. s[v] = c[r] /\ t[v] = d[r] /\ s[v] # t[v] /\ \A i \in 1..(v - 1) : s[i] = t[i]
      BY <2>12, <3>3, <3>4, <3>5
    <3>7. \A i \in 1..Len(s) : i <= Len(t) /\ s[i] # t[i] /\ (\A e \in 1..(i - 1) : s[e] = t[e])
              => (Below(s, t, LessNumber) <=> s[i] < t[i])
      BY <1>2, BelowNumbers
    <3>8. Below(s, t, LessNumber) <=> s[v] < t[v]
      BY <3>5, <3>6, <3>7
    <3> QED BY <3>6, <3>8
  <2>13. \A r \in 1..Len(c) : c[r] \in Nat
    BY <2>8, ByteDef
  <2>14. \A r \in 1..Len(d) : d[r] \in Nat
    BY <2>9, ByteDef
  <2>15. ASSUME Sooner(c, d) PROVE Below(s, t, LessNumber)
    <3>1. PICK r \in 1..Len(c) : r <= Len(d) /\ c[r] < d[r] /\ \A i \in 1..(r - 1) : c[i] = d[i]
      BY <2>15 DEF Sooner
    <3>2. r \in 1..Len(d) /\ c[r] # d[r]
      BY <2>9, <2>13, <2>14, <3>1
    <3> QED BY <2>12, <3>1, <3>2
  <2>16. ASSUME Sooner(d, c) PROVE ~Below(s, t, LessNumber)
    <3>1. PICK r \in 1..Len(d) : r <= Len(c) /\ d[r] < c[r] /\ \A i \in 1..(r - 1) : d[i] = c[i]
      BY <2>16 DEF Sooner
    <3>2. r \in 1..Len(c)
      BY <2>8, <3>1
    <3>3. c[r] # d[r] /\ ~(c[r] < d[r])
      BY <2>13, <2>14, <3>1, <3>2
    <3> QED BY <2>12, <3>1, <3>2, <3>3
  <2> QED BY <2>10, <2>11, <2>15, <2>16
<1> QED BY <1>4, <1>5

-----------------------------------------------------------------------------
(* The keys of a behaviour.                                                 *)

LEMMA FirstKeys == OaqInit => OaqInv
<1> SUFFICES ASSUME OaqInit PROVE OaqInv
  OBVIOUS
<1>1. /\ kind \in {"word", "long"} /\ got = <<>> /\ at = 0
      /\ key = [k \in 1..2 |-> [numbers |-> <<>>, bytes |-> <<>>]]
  BY DEF OaqInit
<1>2. key \in [1..2 -> [numbers : Seq(NumberOf(kind)), bytes : Seq(Byte)]]
  BY <1>1
<1>3. ASSUME NEW k \in 1..2 PROVE key[k].numbers = <<>> /\ key[k].bytes = <<>>
  BY <1>1
<1>4. ASSUME NEW k \in 1..2
      PROVE  \E o \in Places(k) : Chunked(kind, key[k].numbers, key[k].bytes, o) /\ o[1] = 0
  <2> DEFINE o == [i \in 1..(Len(key[k].numbers) + 1) |-> 0]
  <2>1. Len(key[k].numbers) = 0 /\ Len(key[k].bytes) = 0
    BY <1>3
  <2>2. o \in Places(k) /\ o[1] = 0
    BY <2>1 DEF Places
  <2>3. Chunked(kind, key[k].numbers, key[k].bytes, o)
    BY <2>1 DEF Chunked
  <2> QED BY <2>2, <2>3
<1>5. ASSUME NEW k \in 1..2
      PROVE  \E o \in Places(k) :
               /\ Chunked(kind, key[k].numbers, key[k].bytes, o)
               /\ k = 1 /\ kind # "long" =>
                    /\ Len(got) <= Len(key[1].numbers) /\ at = o[Len(got) + 1]
                    /\ \A i \in 1..Len(got) : got[i] = key[1].numbers[i]
  <2>1. Len(got) = 0 /\ Len(key[1].numbers) = 0
    BY <1>1, <1>3
  <2> QED BY <1>1, <1>4, <2>1
<1> QED BY <1>1, <1>2, <1>5 DEF OaqInv

\* One more code behind the others.
Longer(k, a, o, b, t) ==
  /\ b \in Seq(NumberOf(k)) /\ t \in Seq(Byte) /\ Len(b) = Len(a) + 1
  /\ \A i \in 1..Len(a) : b[i] = a[i]
  /\ \E u \in [1..(Len(b) + 1) -> 0..Len(t)] :
       Chunked(k, b, t, u) /\ \A i \in 1..(Len(a) + 1) : u[i] = o[i]

LEMMA OneMore ==
  ASSUME NEW k, NEW a \in Seq(NumberOf(k)), NEW s \in Seq(Byte),
         NEW o \in [1..(Len(a) + 1) -> 0..Len(s)], Chunked(k, a, s, o),
         NEW x \in NumberOf(k), NEW c \in CodesOf(k, x)
  PROVE  Longer(k, a, o, Append(a, x), s \o c)
<1>1. Len(a) \in Nat /\ Len(s) \in Nat /\ c \in Seq(Byte) /\ Len(c) \in Nat /\ 1 <= Len(c)
  BY CodeIsBytes
<1>2. PICK b : b = Append(a, x)
  OBVIOUS
<1>3. PICK t : t = s \o c
  OBVIOUS
<1>4. /\ b \in Seq(NumberOf(k)) /\ Len(b) = Len(a) + 1 /\ b[Len(a) + 1] = x
      /\ \A i \in 1..Len(a) : b[i] = a[i]
  BY <1>2
<1>5. /\ t \in Seq(Byte) /\ Len(t) = Len(s) + Len(c)
      /\ \A i \in 1..(Len(s) + Len(c)) : t[i] = IF i <= Len(s) THEN s[i] ELSE c[i - Len(s)]
  BY <1>1, <1>3, ConcatProperties
<1> DEFINE u == [i \in 1..(Len(b) + 1) |-> IF i <= Len(a) + 1 THEN o[i] ELSE Len(t)]
<1>6. \A i \in 1..(Len(a) + 1) : o[i] \in Nat /\ o[i] <= Len(s)
  <2>1. Len(a) + 1 \in Nat
    BY <1>1
  <2> QED BY <1>1, <2>1, PlaceFacts, Zenon
<1>7. u \in [1..(Len(b) + 1) -> 0..Len(t)]
  BY <1>1, <1>4, <1>5, <1>6
<1>8. /\ \A i \in 1..(Len(a) + 1) : u[i] = o[i]
      /\ u[Len(a) + 2] = Len(t)
  BY <1>1, <1>4
<1> HIDE DEF u
<1>9. o[1] = 0 /\ o[Len(a) + 1] = Len(s) /\ \A i, m \in 1..(Len(a) + 1) : i < m => o[i] < o[m]
  BY DEF Chunked
<1>10. u[1] = 0 /\ u[Len(b) + 1] = Len(t)
  <2>1. 1 \in 1..(Len(a) + 1) /\ Len(b) + 1 = Len(a) + 2
    BY <1>1, <1>4
  <2> QED BY <1>8, <1>9, <2>1
<1>11. ASSUME NEW i \in 1..Len(b)
       PROVE  \E d \in CodesOf(k, b[i]) :
                u[i + 1] = u[i] + Len(d) /\ \A r \in 1..Len(d) : t[u[i] + r] = d[r]
  <2>1. CASE i \in 1..Len(a)
    <3>1. Filled(k, a[i], s, o[i], o[i + 1])
      BY <2>1, ChunkFacts
    <3>2. PICK d \in CodesOf(k, a[i]) :
            /\ Len(d) \in Nat /\ o[i] \in Nat /\ o[i + 1] = o[i] + Len(d) /\ o[i + 1] <= Len(s)
            /\ \A r \in 1..Len(d) : s[o[i] + r] = d[r]
      BY <3>1 DEF Filled
    <3>3. i \in 1..(Len(a) + 1) /\ i + 1 \in 1..(Len(a) + 1)
      BY <1>1, <2>1
    <3>4. u[i] = o[i] /\ u[i + 1] = o[i + 1] /\ b[i] = a[i]
      BY <1>4, <1>8, <2>1, <3>3
    <3>5. ASSUME NEW r \in 1..Len(d) PROVE t[o[i] + r] = d[r]
      <4>1. PICK m \in Nat : m = o[i]
        BY <3>2
      <4>2. m + Len(d) <= Len(s)
        BY <3>2, <4>1
      <4>3. m + r \in 1..(Len(s) + Len(c)) /\ m + r <= Len(s)
        BY ONLY <1>1, <3>2, <4>2, m \in Nat, r \in 1..Len(d)
      <4> QED BY <1>5, <3>2, <4>1, <4>3
    <3> QED BY <3>2, <3>4, <3>5
  <2>2. CASE i = Len(a) + 1
    <3>1. u[i] = Len(s) /\ u[i + 1] = Len(t) /\ b[i] = x
      <4>1. i \in 1..(Len(a) + 1) /\ i + 1 = Len(a) + 2
        BY <1>1, <2>2
      <4> QED BY <1>4, <1>8, <1>9, <2>2, <4>1
    <3>2. ASSUME NEW r \in 1..Len(c) PROVE t[Len(s) + r] = c[r]
      <4>1. /\ Len(s) + r \in 1..(Len(s) + Len(c)) /\ ~(Len(s) + r <= Len(s))
            /\ Len(s) + r - Len(s) = r
        BY ONLY <1>1, r \in 1..Len(c)
      <4> QED BY <1>5, <4>1
    <3> QED BY <1>5, <3>1, <3>2
  <2>3. i \in 1..Len(a) \/ i = Len(a) + 1
    BY <1>1, <1>4
  <2> QED BY <2>1, <2>2, <2>3
<1>12. ASSUME NEW i \in 1..(Len(b) + 1), NEW m \in 1..(Len(b) + 1), i < m PROVE u[i] < u[m]
  <2>1. i \in 1..(Len(a) + 1) /\ (m \in 1..(Len(a) + 1) \/ m = Len(a) + 2)
    <3>1. i \in Nat /\ m \in Nat /\ 1 <= i /\ i < m /\ m <= Len(a) + 2
      BY ONLY <1>1, <1>4, <1>12, i \in 1..(Len(b) + 1), m \in 1..(Len(b) + 1)
    <3> QED BY ONLY <1>1, <3>1
  <2>2. CASE m \in 1..(Len(a) + 1)
    BY <1>8, <1>9, <1>12, <2>1, <2>2
  <2>3. CASE m = Len(a) + 2
    <3>1. u[m] = Len(s) + Len(c) /\ u[i] = o[i] /\ o[i] \in Nat /\ o[i] <= Len(s)
      BY <1>5, <1>6, <1>8, <2>1, <2>3
    <3> QED BY ONLY <1>1, <3>1
  <2> QED BY <2>1, <2>2, <2>3
<1>13. Chunked(k, b, t, u)
  BY <1>10, <1>11, <1>12 DEF Chunked
<1>14. Longer(k, a, o, b, t)
  BY <1>4, <1>5, <1>7, <1>8, <1>13 DEF Longer
<1> QED BY <1>2, <1>3, <1>14

\* What has been read of the first key are its first numbers, up to one of its codes.
ReadUpTo(o) ==
  /\ Len(got) <= Len(key[1].numbers) /\ at = o[Len(got) + 1]
  /\ \A i \in 1..Len(got) : got[i] = key[1].numbers[i]

LEMMA PlacesOf ==
  ASSUME OaqInv, NEW k \in 1..2
  PROVE  /\ key[k].numbers \in Seq(NumberOf(kind)) /\ key[k].bytes \in Seq(Byte)
         /\ \E o \in [1..(Len(key[k].numbers) + 1) -> 0..Len(key[k].bytes)] :
              /\ Chunked(kind, key[k].numbers, key[k].bytes, o)
              /\ k = 1 /\ kind # "long" => ReadUpTo(o)
<1>1. key[k] \in [numbers : Seq(NumberOf(kind)), bytes : Seq(Byte)]
  BY DEF OaqInv
<1> QED BY <1>1 DEF OaqInv, Places, ReadUpTo

LEMMA WriteKeys ==
  ASSUME OaqInv, NEW h \in 1..2, NEW x \in NumberOf(kind), NEW c \in CodesOf(kind, x), Write(h, x, c)
  PROVE  OaqInv'
<1>1. /\ kind' = kind /\ at' = at /\ got' = got
      /\ key' = [key EXCEPT ![h] = [numbers |-> Append(@.numbers, x), bytes |-> @.bytes \o c]]
  BY DEF Write
<1>2. /\ kind \in {"word", "long", "neighbours"} /\ got \in Seq(Word)
      /\ key \in [1..2 -> [numbers : Seq(NumberOf(kind)), bytes : Seq(Byte)]]
  BY DEF OaqInv
<1>3. /\ key'[h] = [numbers |-> Append(key[h].numbers, x), bytes |-> key[h].bytes \o c]
      /\ \A k \in 1..2 : k # h => key'[k] = key[k]
  BY <1>1, <1>2
<1>4. /\ key[h].numbers \in Seq(NumberOf(kind)) /\ key[h].bytes \in Seq(Byte)
      /\ \E o \in [1..(Len(key[h].numbers) + 1) -> 0..Len(key[h].bytes)] :
           /\ Chunked(kind, key[h].numbers, key[h].bytes, o)
           /\ h = 1 /\ kind # "long" => ReadUpTo(o)
  BY PlacesOf
<1>5. PICK o \in [1..(Len(key[h].numbers) + 1) -> 0..Len(key[h].bytes)] :
           /\ Chunked(kind, key[h].numbers, key[h].bytes, o)
           /\ h = 1 /\ kind # "long" => ReadUpTo(o)
  BY <1>4
<1>6. /\ key'[h].numbers \in Seq(NumberOf(kind)) /\ key'[h].bytes \in Seq(Byte)
      /\ Len(key'[h].numbers) = Len(key[h].numbers) + 1
      /\ \A i \in 1..Len(key[h].numbers) : key'[h].numbers[i] = key[h].numbers[i]
      /\ \E u \in [1..(Len(key'[h].numbers) + 1) -> 0..Len(key'[h].bytes)] :
           /\ Chunked(kind, key'[h].numbers, key'[h].bytes, u)
           /\ \A i \in 1..(Len(key[h].numbers) + 1) : u[i] = o[i]
  <2>1. key'[h].numbers = Append(key[h].numbers, x) /\ key'[h].bytes = key[h].bytes \o c
    BY <1>3
  <2>2. Longer(kind, key[h].numbers, o, Append(key[h].numbers, x), key[h].bytes \o c)
    BY <1>4, <1>5, OneMore
  <2> QED BY <2>1, <2>2 DEF Longer
<1>7. PICK u \in [1..(Len(key'[h].numbers) + 1) -> 0..Len(key'[h].bytes)] :
           /\ Chunked(kind, key'[h].numbers, key'[h].bytes, u)
           /\ \A i \in 1..(Len(key[h].numbers) + 1) : u[i] = o[i]
  BY <1>6
<1>8. ASSUME h = 1, kind # "long" PROVE ReadUpTo(u)'
  <2>1. ReadUpTo(o)
    BY <1>5, <1>8
  <2>2. Len(got) \in Nat /\ Len(key[1].numbers) \in Nat
    BY <1>2, <1>4, <1>8
  <2>3. Len(got) + 1 \in 1..(Len(key[1].numbers) + 1) /\ Len(got) <= Len(key'[1].numbers)
    BY <1>6, <1>8, <2>1, <2>2 DEF ReadUpTo
  <2>4. at' = u[Len(got') + 1]
    BY <1>1, <1>7, <1>8, <2>1, <2>3 DEF ReadUpTo
  <2>5. \A i \in 1..Len(got) : got[i] = key'[1].numbers[i]
    <3> SUFFICES ASSUME NEW i \in 1..Len(got) PROVE got[i] = key'[1].numbers[i]
      OBVIOUS
    <3>1. i \in 1..Len(key[1].numbers)
      BY <2>1, <2>2 DEF ReadUpTo
    <3> QED BY <1>6, <1>8, <2>1, <3>1 DEF ReadUpTo
  <2> QED BY <1>1, <2>3, <2>4, <2>5 DEF ReadUpTo
<1>9. key' \in [1..2 -> [numbers : Seq(NumberOf(kind)), bytes : Seq(Byte)]]
  <2>1. key'[h] \in [numbers : Seq(NumberOf(kind)), bytes : Seq(Byte)]
    BY <1>3, <1>6
  <2> QED BY <1>1, <1>2, <2>1
<1>10. ASSUME NEW k \in 1..2
       PROVE  \E v \in Places(k)' :
                /\ Chunked(kind', key'[k].numbers, key'[k].bytes, v)
                /\ k = 1 /\ kind' # "long" => ReadUpTo(v)'
  <2>1. CASE k = h
    <3>1. u \in Places(k)'
      BY <2>1 DEF Places
    <3>2. Chunked(kind', key'[k].numbers, key'[k].bytes, u)
      BY <1>1, <1>7, <2>1
    <3> QED BY <1>1, <1>8, <2>1, <3>1, <3>2
  <2>2. CASE k # h
    <3>1. key'[k] = key[k]
      BY <1>3, <2>2
    <3>2. PICK v \in [1..(Len(key[k].numbers) + 1) -> 0..Len(key[k].bytes)] :
            /\ Chunked(kind, key[k].numbers, key[k].bytes, v)
            /\ k = 1 /\ kind # "long" => ReadUpTo(v)
      BY PlacesOf
    <3>3. v \in Places(k)' /\ Chunked(kind', key'[k].numbers, key'[k].bytes, v)
      BY <1>1, <3>1, <3>2 DEF Places
    <3>4. ASSUME k = 1, kind' # "long" PROVE ReadUpTo(v)'
      <4>1. ReadUpTo(v) /\ key'[1] = key[1]
        BY <1>1, <3>1, <3>2, <3>4
      <4> QED BY <1>1, <4>1 DEF ReadUpTo
    <3> QED BY <3>3, <3>4
  <2> QED BY <2>1, <2>2
<1> QED BY <1>1, <1>2, <1>9, <1>10 DEF OaqInv, ReadUpTo

LEMMA NeighboursKeys ==
  ASSUME OaqInv, WriteNeighbours
  PROVE  OaqInv'
<1>1. PICK w \in Word \ {65535} : key' = Neighbours(w)
  BY DEF WriteNeighbours
<1>2. /\ kind = "word" /\ kind' = "neighbours" /\ at' = at /\ got' = got
      /\ \A k \in 1..2 : key[k].numbers = <<>>
  BY DEF WriteNeighbours
<1>3. got = <<>> /\ at = 0
  <2>1. PICK o \in [1..(Len(key[1].numbers) + 1) -> 0..Len(key[1].bytes)] :
          Chunked(kind, key[1].numbers, key[1].bytes, o) /\ ReadUpTo(o)
    <3>1. 1 \in 1..2
      OBVIOUS
    <3> QED BY <1>2, <3>1, PlacesOf
  <2>2. Len(key[1].numbers) = 0 /\ got \in Seq(Word)
    BY <1>2 DEF OaqInv
  <2>3. Len(got) \in Nat /\ Len(got) <= 0
    BY <2>1, <2>2 DEF ReadUpTo
  <2>4. got = <<>> /\ Len(got) = 0
    BY <2>2, <2>3
  <2> QED BY <2>1, <2>4 DEF ReadUpTo, Chunked
<1>4. ASSUME NEW k \in 1..2
      PROVE  \E x \in Word : key'[k].numbers = <<x>> /\ key'[k].bytes = OAQ(x)
  <2>1. w + k - 1 \in Word
    <3>1. w \in Nat /\ w <= 65535 /\ w # 65535
      BY WordDef
    <3>2. w + k - 1 \in Nat /\ w + k - 1 <= 65535
      BY ONLY <3>1, k \in 1..2
    <3> QED BY <3>2, WordDef
  <2>2. key'[k].numbers = <<w + k - 1>> /\ key'[k].bytes = OAQ(w + k - 1)
    BY <1>1 DEF Neighbours
  <2> QED BY <2>1, <2>2
<1>5. ASSUME NEW k \in 1..2
      PROVE  /\ key'[k].numbers \in Seq(NumberOf("neighbours")) /\ key'[k].bytes \in Seq(Byte)
             /\ \E v \in Places(k)' : Chunked("neighbours", key'[k].numbers, key'[k].bytes, v) /\ v[1] = 0
  <2>1. PICK x \in Word : key'[k].numbers = <<x>> /\ key'[k].bytes = OAQ(x)
    BY <1>4
  <2>2. PICK c : c = OAQ(x)
    OBVIOUS
  <2>3. x \in NumberOf("neighbours") /\ c \in CodesOf("neighbours", x)
    BY <2>2 DEF NumberOf, CodesOf
  <2>4. c \in Seq(Byte) /\ Len(c) \in Nat /\ 1 <= Len(c)
    BY <2>3, CodeIsBytes
  <2> DEFINE a == <<x>>
  <2>5. a \in Seq(NumberOf("neighbours")) /\ Len(a) = 1 /\ a[1] = x
    BY <2>3
  <2>10. key'[k].numbers = a
    BY <2>1
  <2> HIDE DEF a
  <2> DEFINE v == [i \in 1..2 |-> IF i = 1 THEN 0 ELSE Len(c)]
  <2>6. v \in [1..(Len(a) + 1) -> 0..Len(c)] /\ v[1] = 0 /\ v[2] = Len(c)
    BY <2>4, <2>5
  <2> HIDE DEF v
  <2>7. Chunked("neighbours", a, c, v)
    <3>1. \A i \in 1..Len(a) : i = 1
      BY <2>5
    <3>2. v[1 + 1] = v[1] + Len(c) /\ \A r \in 1..Len(c) : c[v[1] + r] = c[r]
      BY <2>4, <2>6
    <3>3. \A i, m \in 1..(Len(a) + 1) : i < m => i = 1 /\ m = 2
      BY <2>5
    <3>4. v[1] < v[2]
      BY <2>4, <2>6
    <3>5. \A i \in 1..Len(a) : \E d \in CodesOf("neighbours", a[i]) :
            v[i + 1] = v[i] + Len(d) /\ \A r \in 1..Len(d) : c[v[i] + r] = d[r]
      BY <2>3, <2>5, <3>1, <3>2
    <3> QED BY <2>5, <2>6, <3>3, <3>4, <3>5 DEF Chunked
  <2>8. key'[k].numbers = a /\ key'[k].bytes = c
    BY <2>1, <2>2, <2>10
  <2>9. v \in Places(k)'
    BY <2>6, <2>8 DEF Places
  <2> QED BY <2>4, <2>5, <2>6, <2>7, <2>8, <2>9
<1>6. ASSUME NEW v, v[1] = 0 PROVE ReadUpTo(v)'
  <2>1. PICK x \in Word : key'[1].numbers = <<x>>
    BY <1>4
  <2>2. Len(got') = 0 /\ Len(key'[1].numbers) = 1
    BY <1>2, <1>3, <2>1
  <2> QED BY <1>2, <1>3, <1>6, <2>2 DEF ReadUpTo
<1>7. key' \in [1..2 -> [numbers : Seq(NumberOf("neighbours")), bytes : Seq(Byte)]]
  <2>1. ASSUME NEW k \in 1..2 PROVE key'[k] \in [numbers : Seq(NumberOf("neighbours")), bytes : Seq(Byte)]
    <3>1. key'[k] = [numbers |-> <<w + k - 1>>, bytes |-> OAQ(w + k - 1)]
      BY <1>1 DEF Neighbours
    <3>2. key'[k] = [numbers |-> key'[k].numbers, bytes |-> key'[k].bytes]
      BY ONLY <3>1
    <3>3. key'[k].numbers \in Seq(NumberOf("neighbours")) /\ key'[k].bytes \in Seq(Byte)
      BY <1>5
    <3> QED BY ONLY <3>2, <3>3
  <2> QED BY <1>1, <2>1 DEF Neighbours
<1>8. ASSUME NEW k \in 1..2
      PROVE  \E v \in Places(k)' :
               /\ Chunked("neighbours", key'[k].numbers, key'[k].bytes, v)
               /\ ReadUpTo(v)'
  BY <1>5, <1>6
<1>9. got' \in Seq(Word)
  BY <1>2, <1>3
<1> QED BY <1>2, <1>7, <1>8, <1>9 DEF OaqInv, ReadUpTo

\* QAO stops where the code it reads does.
LEMMA ReadKeys ==
  ASSUME OaqInv, Read
  PROVE  OaqInv' /\ Len(got') = Len(got) + 1
<1> DEFINE a == key[1].numbers
           s == key[1].bytes
           q == Len(got) + 1
           rest == SubSeq(s, at + 1, Len(s))
<1>1. /\ kind # "long" /\ at < Len(s) /\ kind' = kind /\ key' = key
      /\ got' = Append(got, QAO(rest).word) /\ at' = at + QAO(rest).used
  BY DEF Read
<1>2. got \in Seq(Word) /\ Len(got) \in Nat /\ q \in Nat
  BY DEF OaqInv
<1>3. a \in Seq(Word) /\ s \in Seq(Byte)
  <2>1. 1 \in 1..2
    OBVIOUS
  <2>2. a \in Seq(NumberOf(kind)) /\ s \in Seq(Byte)
    BY <2>1, PlacesOf
  <2> QED BY <1>1, <2>2 DEF NumberOf
<1>4. PICK o \in [1..(Len(a) + 1) -> 0..Len(s)] : Chunked(kind, a, s, o) /\ ReadUpTo(o)
  <2>1. 1 \in 1..2
    OBVIOUS
  <2> QED BY <1>1, <2>1, PlacesOf
<1>5. at = o[q] /\ q <= Len(a) + 1 /\ \A i \in 1..Len(got) : got[i] = a[i]
  BY <1>2, <1>3, <1>4 DEF ReadUpTo
<1> HIDE DEF a, s, q, rest
<1>6. q \in 1..Len(a)
  <2>1. q # Len(a) + 1
    <3>1. o[Len(a) + 1] = Len(s)
      BY <1>4 DEF Chunked
    <3>2. Len(s) \in Nat
      BY <1>3
    <3> QED BY <1>1, <1>5, <3>1, <3>2
  <2>2. 1 <= q /\ Len(a) \in Nat
    BY <1>2, <1>3 DEF q
  <2> QED BY <1>2, <1>5, <2>1, <2>2
<1>7. Filled(kind, a[q], s, o[q], o[q + 1])
  <2>1. a \in Seq(NumberOf(kind))
    BY <1>1, <1>3 DEF NumberOf
  <2> QED BY <1>3, <1>4, <1>6, <2>1, ChunkFacts
<1>8. PICK w \in Word : w = a[q]
  BY <1>3, <1>6
<1>9. /\ OAQ(w) \in Seq(Byte) /\ Len(OAQ(w)) \in Nat /\ 1 <= Len(OAQ(w))
      /\ at \in Nat /\ o[q + 1] = at + Len(OAQ(w)) /\ o[q + 1] <= Len(s)
      /\ \A r \in 1..Len(OAQ(w)) : s[at + r] = OAQ(w)[r]
  BY <1>1, <1>5, <1>7, <1>8 DEF Filled, CodesOf
<1>10. \A r \in 1..Len(OAQ(w)) : rest[r] = OAQ(w)[r]
  <2> SUFFICES ASSUME NEW r \in 1..Len(OAQ(w)) PROVE rest[r] = OAQ(w)[r]
    OBVIOUS
  <2>1. PICK c : c = OAQ(w)
    OBVIOUS
  <2>2. PICK m \in Nat : m = Len(s)
    BY <1>3
  <2>3. r \in Nat /\ 1 <= r /\ at + r <= m
    BY ONLY <1>9, <2>1, <2>2, r \in 1..Len(OAQ(w))
  <2>4. /\ r \in 1..(m - (at + 1) + 1) /\ (at + 1) + r - 1 = at + r
    BY ONLY <1>9, <2>2, <2>3
  <2>5. rest[r] = s[(at + 1) + r - 1]
    BY <1>3, <1>9, <2>2, <2>3, <2>4 DEF rest
  <2> QED BY <1>9, <2>4, <2>5
<1>11. QAO(rest) = [word |-> w, used |-> Len(OAQ(w))]
  BY <1>10, QAOReads
<1>12. got' = Append(got, w) /\ at' = o[q + 1]
  BY <1>1, <1>9, <1>11
<1>13. /\ got' \in Seq(Word) /\ Len(got') = q
       /\ \A i \in 1..q : got'[i] = a[i]
  <2>1. got' \in Seq(Word) /\ Len(got') = q /\ got'[q] = w /\ \A i \in 1..Len(got) : got'[i] = got[i]
    BY <1>2, <1>12 DEF q
  <2>2. \A i \in 1..q : i = q \/ i \in 1..Len(got)
    BY <1>2 DEF q
  <2> QED BY <1>5, <1>8, <2>1, <2>2
<1>14. ReadUpTo(o)'
  <2>1. key'[1].numbers = a /\ q <= Len(a)
    BY <1>1, <1>3, <1>6 DEF a
  <2> QED BY <1>12, <1>13, <2>1 DEF ReadUpTo
<1>15. ASSUME NEW k \in 1..2
       PROVE  \E v \in Places(k)' :
                Chunked(kind', key'[k].numbers, key'[k].bytes, v) /\ (k = 1 => ReadUpTo(v)')
  <2>1. CASE k = 1
    <3>1. o \in Places(k)' /\ Chunked(kind', key'[k].numbers, key'[k].bytes, o)
      BY <1>1, <1>4, <2>1 DEF Places, a, s
    <3> QED BY <1>14, <3>1
  <2>2. CASE k # 1
    <3>1. PICK v \in [1..(Len(key[k].numbers) + 1) -> 0..Len(key[k].bytes)] :
            Chunked(kind, key[k].numbers, key[k].bytes, v)
      BY PlacesOf
    <3> QED BY <1>1, <2>2, <3>1 DEF Places
  <2> QED BY <2>1, <2>2
<1>16. /\ kind' \in {"word", "long", "neighbours"}
       /\ key' \in [1..2 -> [numbers : Seq(NumberOf(kind')), bytes : Seq(Byte)]]
  BY <1>1 DEF OaqInv
<1>17. Len(got') = Len(got) + 1
  BY <1>13 DEF q
<1> QED BY <1>13, <1>15, <1>16, <1>17 DEF OaqInv, ReadUpTo

LEMMA OaqStep == OaqInv /\ [OaqNext]_oaqVars => OaqInv'
<1> SUFFICES ASSUME OaqInv, [OaqNext]_oaqVars PROVE OaqInv'
  OBVIOUS
<1>1. CASE WriteWord
  <2>1. PICK k \in 1..2, w \in Words : Write(k, w, OAQ(w)) /\ kind = "word"
    BY <1>1 DEF WriteWord
  <2>2. w \in NumberOf(kind) /\ OAQ(w) \in CodesOf(kind, w)
    BY <2>1, LongsAreBytes DEF NumberOf, CodesOf
  <2> QED BY <2>1, <2>2, WriteKeys
<1>2. CASE WriteLong
  <2>1. PICK k \in 1..2, l \in Longs : kind = "long" /\ \E c \in LOAQ(l) : Write(k, l, c)
    BY <1>2 DEF WriteLong
  <2>2. PICK c \in LOAQ(l) : Write(k, l, c)
    BY <2>1
  <2>3. l \in NumberOf(kind) /\ c \in CodesOf(kind, l)
    BY <2>1, <2>2 DEF NumberOf, CodesOf
  <2> QED BY <2>2, <2>3, WriteKeys
<1>3. CASE WriteNeighbours
  BY <1>3, NeighboursKeys
<1>4. CASE Read
  BY <1>4, ReadKeys
<1>5. CASE UNCHANGED oaqVars
  BY <1>5 DEF OaqInv, oaqVars, Places
<1> QED BY <1>1, <1>2, <1>3, <1>4, <1>5 DEF OaqNext

\* No byte of a key is left exactly when no number of it is.
LEMMA OaqInvReads == OaqInv => WordsReadBack
<1> SUFFICES ASSUME OaqInv, kind # "long"
             PROVE  /\ IsPrefix(got, key[1].numbers)
                    /\ at >= Len(key[1].bytes) <=> got = key[1].numbers
  BY DEF WordsReadBack
<1> DEFINE a == key[1].numbers
           s == key[1].bytes
<1>1. got \in Seq(Word) /\ a \in Seq(Word) /\ s \in Seq(Byte)
  <2>1. 1 \in 1..2
    OBVIOUS
  <2>2. a \in Seq(NumberOf(kind)) /\ s \in Seq(Byte)
    BY <2>1, PlacesOf
  <2> QED BY <2>2 DEF OaqInv, NumberOf
<1>2. PICK o \in [1..(Len(a) + 1) -> 0..Len(s)] : Chunked(kind, a, s, o) /\ ReadUpTo(o)
  <2>1. 1 \in 1..2
    OBVIOUS
  <2> QED BY <2>1, PlacesOf
<1>3. Len(got) <= Len(a) /\ at = o[Len(got) + 1] /\ \A i \in 1..Len(got) : got[i] = a[i]
  BY <1>2 DEF ReadUpTo
<1>4. /\ Len(got) \in Nat /\ Len(a) \in Nat /\ Len(s) \in Nat
      /\ o[Len(a) + 1] = Len(s)
      /\ \A i, m \in 1..(Len(a) + 1) : i < m => o[i] < o[m]
  BY <1>1, <1>2 DEF Chunked
<1> HIDE DEF a, s
<1>5. IsPrefix(got, a)
  <2>1. SubSeq(a, 1, Len(got)) = got
    <3>1. Len(SubSeq(a, 1, Len(got))) = Len(got) /\ SubSeq(a, 1, Len(got)) \in Seq(Word)
      BY <1>1, <1>3, <1>4
    <3>2. \A i \in 1..Len(got) : SubSeq(a, 1, Len(got))[i] = got[i]
      BY <1>1, <1>3, <1>4
    <3> QED BY <1>1, <3>1, <3>2, SeqEqual
  <2>2. DOMAIN got = 1..Len(got) /\ DOMAIN a = 1..Len(a)
    BY <1>1
  <2> QED BY <1>3, <1>4, <2>1, <2>2 DEF IsPrefix
<1>6. ASSUME got = a PROVE at >= Len(s)
  BY <1>3, <1>4, <1>6
<1>7. ASSUME at >= Len(s) PROVE got = a
  <2>1. ~(Len(got) < Len(a))
    <3> SUFFICES ASSUME Len(got) < Len(a) PROVE FALSE
      OBVIOUS
    <3>1. Len(got) + 1 \in 1..(Len(a) + 1) /\ Len(a) + 1 \in 1..(Len(a) + 1) /\ Len(got) + 1 < Len(a) + 1
      BY <1>4
    <3>2. o[Len(got) + 1] < o[Len(a) + 1]
      BY <1>4, <3>1
    <3>3. o[Len(got) + 1] \in Nat
      BY <1>4, <3>1
    <3> QED BY <1>3, <1>4, <1>7, <3>2, <3>3
  <2>2. Len(got) = Len(a)
    BY <1>3, <1>4, <2>1
  <2> QED BY <1>1, <1>3, <2>2, SeqEqual
<1> QED BY <1>5, <1>6, <1>7 DEF a, s

LEMMA OaqInvSorts == OaqInv => KeysSortAsNumbers
<1> SUFFICES ASSUME OaqInv, ~(kind = "long" /\ \E k \in 1..2 : \E l \in ToSet(key[k].numbers) : Ambiguous(l))
             PROVE  Below(key[1].bytes, key[2].bytes, LessNumber)
                      <=> IF kind = "long" THEN Below(key[1].numbers, key[2].numbers, LessLong)
                                           ELSE Below(key[1].numbers, key[2].numbers, LessNumber)
  BY DEF KeysSortAsNumbers
<1>1. 1 \in 1..2 /\ 2 \in 1..2
  OBVIOUS
<1>2. ASSUME NEW k \in 1..2
      PROVE  /\ key[k].numbers \in Seq(NumberOf(kind)) /\ key[k].bytes \in Seq(Byte)
             /\ \E o \in [1..(Len(key[k].numbers) + 1) -> 0..Len(key[k].bytes)] :
                  Chunked(kind, key[k].numbers, key[k].bytes, o)
             /\ \A i \in 1..Len(key[k].numbers) : Plain(kind, key[k].numbers[i])
  <2>1. /\ key[k].numbers \in Seq(NumberOf(kind)) /\ key[k].bytes \in Seq(Byte)
        /\ \E o \in [1..(Len(key[k].numbers) + 1) -> 0..Len(key[k].bytes)] :
             Chunked(kind, key[k].numbers, key[k].bytes, o)
    BY PlacesOf
  <2>2. \A i \in 1..Len(key[k].numbers) : key[k].numbers[i] \in ToSet(key[k].numbers)
    BY <2>1 DEF ToSet
  <2> QED BY <2>1, <2>2 DEF Plain
<1>3. PICK a, b, s, t : a = key[1].numbers /\ b = key[2].numbers /\ s = key[1].bytes /\ t = key[2].bytes
  OBVIOUS
<1>4. /\ a \in Seq(NumberOf(kind)) /\ b \in Seq(NumberOf(kind)) /\ s \in Seq(Byte) /\ t \in Seq(Byte)
      /\ \A i \in 1..Len(a) : Plain(kind, a[i])
      /\ \A i \in 1..Len(b) : Plain(kind, b[i])
  BY <1>1, <1>2, <1>3
<1>5. PICK o \in [1..(Len(a) + 1) -> 0..Len(s)] : Chunked(kind, a, s, o)
  BY <1>1, <1>2, <1>3
<1>6. PICK u \in [1..(Len(b) + 1) -> 0..Len(t)] : Chunked(kind, b, t, u)
  BY <1>1, <1>2, <1>3
<1>7. Below(s, t, LessNumber) <=> BelowOf(kind, a, b)
  BY <1>4, <1>5, <1>6, KeysOrder
<1>8. CASE kind = "long"
  <2>1. BelowOf(kind, a, b) <=> Below(a, b, LessLong)
    BY <1>8 DEF BelowOf, Below, LessOf
  <2> QED BY <1>3, <1>7, <1>8, <2>1
<1>9. CASE kind # "long"
  <2>1. BelowOf(kind, a, b) <=> Below(a, b, LessNumber)
    BY <1>9 DEF BelowOf, Below, LessOf, LessNumber
  <2> QED BY <1>3, <1>7, <1>9, <2>1
<1> QED BY <1>8, <1>9

\* QAO gives back the words of a key, of any words and any number of them, in order
\* and with no byte over, whatever follows a code.
THEOREM WordsReadBackTheorem == OaqSpec => []WordsReadBack
<1>1. OaqInit => OaqInv
  BY FirstKeys
<1>2. OaqInv /\ [OaqNext]_oaqVars => OaqInv'
  BY OaqStep
<1>3. OaqInv => WordsReadBack
  BY OaqInvReads
<1> QED BY <1>1, <1>2, <1>3, PTL DEF OaqSpec

\* memcmp of two keys is the comparison of their numbers, for keys of any length:
\* what OAQ and LOAQ promise of an index.
THEOREM KeysSortTheorem == OaqSpec => []KeysSortAsNumbers
<1>1. OaqInit => OaqInv
  BY FirstKeys
<1>2. OaqInv /\ [OaqNext]_oaqVars => OaqInv'
  BY OaqStep
<1>3. OaqInv => KeysSortAsNumbers
  BY OaqInvSorts
<1> QED BY <1>1, <1>2, <1>3, PTL DEF OaqSpec

-----------------------------------------------------------------------------
(* The order of the buffer and of the pages.                                *)

\* The order of keys, by the first place where they differ.
Before(a, b) ==
  \E p \in 1..Len(b) : /\ p <= Len(a) + 1 /\ \A i \in 1..(p - 1) : a[i] = b[i]
                       /\ p = Len(a) + 1 \/ a[p] < b[p]

LEMMA SeqParts ==
  ASSUME NEW S, NEW a \in Seq(S)
  PROVE  Len(a) \in Nat /\ DOMAIN a = 1..Len(a) /\ \A i \in 1..Len(a) : a[i] \in S
OBVIOUS

LEMMA KeyBytes ==
  ASSUME NEW a \in Key
  PROVE  /\ Len(a) \in Nat /\ DOMAIN a = 1..Len(a)
         /\ \A i \in 1..Len(a) : a[i] \in 1..255 /\ a[i] \in Int
<1>1. a \in Seq(1..255)
  BY DEF Key
<1>2. Len(a) \in Nat /\ DOMAIN a = 1..Len(a) /\ \A i \in 1..Len(a) : a[i] \in 1..255
  BY <1>1, SeqParts, Zenon
<1>3. 1..255 \subseteq Int
  OBVIOUS
<1> QED BY ONLY <1>2, <1>3, Zenon

LEMMA SmallerIs ==
  ASSUME NEW a \in Key, NEW b \in Key
  PROVE  SmallerKey(a, b) <=> Before(a, b)
<1>1. /\ a \in Seq(1..255) /\ b \in Seq(1..255) /\ Len(a) \in Nat /\ Len(b) \in Nat
      /\ DOMAIN a = 1..Len(a) /\ DOMAIN b = 1..Len(b)
  BY DEF Key
<1>2. IsStrictPrefix(a, b) <=> Len(a) < Len(b) /\ \A i \in 1..Len(a) : a[i] = b[i]
  BY <1>1, StrictPrefix
<1>3. ASSUME NEW p \in Int, p \in 1..Len(a), p \in 1..Len(b)
      PROVE  SubSeq(a, 1, p - 1) = SubSeq(b, 1, p - 1) <=> \A i \in 1..(p - 1) : a[i] = b[i]
  <2>1. p - 1 \in Nat /\ p - 1 <= Len(a) /\ p - 1 <= Len(b)
    BY <1>1, <1>3
  <2> QED BY <1>1, <2>1, SameStart
<1>4. ASSUME IsStrictPrefix(a, b) PROVE Before(a, b)
  <2>1. PICK p \in Int : p = Len(a) + 1
    BY <1>1
  <2>2. p \in 1..Len(b) /\ p <= Len(a) + 1 /\ p - 1 = Len(a)
    BY <1>1, <1>2, <1>4, <2>1
  <2> QED BY <1>2, <1>4, <2>1, <2>2 DEF Before
<1>5. ASSUME NEW p \in DOMAIN a \cap DOMAIN b, a[p] < b[p], SubSeq(a, 1, p - 1) = SubSeq(b, 1, p - 1)
      PROVE  Before(a, b)
  <2>1. p \in Int /\ p \in 1..Len(a) /\ p \in 1..Len(b) /\ p <= Len(a) + 1
    BY <1>1, <1>5
  <2>2. \A i \in 1..(p - 1) : a[i] = b[i]
    BY <1>3, <1>5, <2>1
  <2> QED BY <1>5, <2>1, <2>2 DEF Before
<1>6. ASSUME Before(a, b) PROVE SmallerKey(a, b)
  <2>1. PICK p \in 1..Len(b) : /\ p <= Len(a) + 1 /\ \A i \in 1..(p - 1) : a[i] = b[i]
                               /\ p = Len(a) + 1 \/ a[p] < b[p]
    BY <1>6 DEF Before
  <2>2. CASE p = Len(a) + 1
    <3>1. Len(a) < Len(b) /\ p - 1 = Len(a)
      BY <1>1, <2>2
    <3> QED BY <1>2, <2>1, <3>1 DEF SmallerKey
  <2>3. CASE p # Len(a) + 1
    <3>1. p \in Int /\ p \in 1..Len(a) /\ a[p] < b[p]
      BY <1>1, <2>1, <2>3
    <3>2. SubSeq(a, 1, p - 1) = SubSeq(b, 1, p - 1)
      BY <1>3, <2>1, <3>1
    <3> QED BY <1>1, <3>1, <3>2 DEF SmallerKey
  <2> QED BY <2>2, <2>3
<1> QED BY <1>4, <1>5, <1>6, Zenon DEF SmallerKey

LEMMA BeforeTrans ==
  ASSUME NEW a \in Key, NEW b \in Key, NEW c \in Key, Before(a, b), Before(b, c)
  PROVE  Before(a, c)
<1>1. /\ Len(a) \in Nat /\ Len(b) \in Nat /\ Len(c) \in Nat
      /\ \A i \in 1..Len(a) : a[i] \in Int
      /\ \A i \in 1..Len(b) : b[i] \in Int
      /\ \A i \in 1..Len(c) : c[i] \in Int
  BY KeyBytes
<1>2. PICK p \in 1..Len(b) : /\ p <= Len(a) + 1 /\ \A i \in 1..(p - 1) : a[i] = b[i]
                             /\ p = Len(a) + 1 \/ a[p] < b[p]
  BY DEF Before
<1>3. PICK q \in 1..Len(c) : /\ q <= Len(b) + 1 /\ \A i \in 1..(q - 1) : b[i] = c[i]
                             /\ q = Len(b) + 1 \/ b[q] < c[q]
  BY DEF Before
<1>4. CASE p <= q
  <2>1. p \in 1..Len(c) /\ \A i \in 1..(p - 1) : a[i] = c[i]
    BY <1>1, <1>2, <1>3, <1>4
  <2>2. p = Len(a) + 1 \/ a[p] < c[p]
    <3>1. CASE p < q
      BY <1>1, <1>2, <1>3, <3>1
    <3>2. CASE p = q
      <4>1. q # Len(b) + 1
        BY <1>1, <3>2
      <4> QED BY <1>1, <1>2, <1>3, <3>2, <4>1, SMTT(30)
    <3> QED BY <1>4, <3>1, <3>2
  <2> QED BY <1>2, <2>1, <2>2 DEF Before
<1>5. CASE q < p
  <2>1. q <= Len(a) + 1 /\ q <= Len(a) /\ q <= Len(b) /\ \A i \in 1..(q - 1) : a[i] = c[i]
    BY <1>1, <1>2, <1>3, <1>5
  <2>2. a[q] = b[q] /\ b[q] < c[q]
    BY <1>1, <1>2, <1>3, <1>5, <2>1
  <2> QED BY <2>1, <2>2 DEF Before
<1> QED BY <1>4, <1>5

LEMMA BeforeTotal ==
  ASSUME NEW a \in Key, NEW b \in Key
  PROVE  a = b \/ Before(a, b) \/ Before(b, a)
<1>1. /\ Len(a) \in Nat /\ Len(b) \in Nat
      /\ \A i \in 1..Len(a) : a[i] \in Int
      /\ \A i \in 1..Len(b) : b[i] \in Int
  BY KeyBytes
<1>2. PICK m \in Nat : m <= Len(a) /\ m <= Len(b) /\ (m = Len(a) \/ m = Len(b))
  <2>1. CASE Len(a) <= Len(b)
    BY <1>1, <2>1
  <2>2. CASE Len(b) <= Len(a)
    BY <1>1, <2>2
  <2> QED BY <1>1, <2>1, <2>2
<1> DEFINE D == {i \in 1..m : a[i] # b[i]}
<1>3. CASE D = {}
  <2>1. \A i \in 1..m : a[i] = b[i]
    BY <1>3
  <2>2. CASE Len(a) = Len(b)
    <3>1. a = b
      <4>1. a \in Seq(1..255) /\ b \in Seq(1..255) /\ \A i \in 1..Len(a) : a[i] = b[i]
        BY <1>2, <2>1, <2>2 DEF Key
      <4> QED BY ONLY <2>2, <4>1, SeqEqual
    <3> QED BY <3>1
  <2>3. CASE Len(a) < Len(b)
    <3>1. PICK p \in Int : p = m + 1
      OBVIOUS
    <3>2. p \in 1..Len(b) /\ p = Len(a) + 1 /\ p <= Len(a) + 1 /\ p - 1 = m
      BY <1>1, <1>2, <2>3, <3>1
    <3> QED BY <2>1, <3>2 DEF Before
  <2>4. CASE Len(b) < Len(a)
    <3>1. PICK p \in Int : p = m + 1
      OBVIOUS
    <3>2. p \in 1..Len(a) /\ p = Len(b) + 1 /\ p <= Len(b) + 1 /\ p - 1 = m
      BY <1>1, <1>2, <2>4, <3>1
    <3> QED BY <2>1, <3>2 DEF Before
  <2> QED BY <1>1, <2>2, <2>3, <2>4
<1>4. CASE D # {}
  <2>1. PICK p \in D : \A i \in D : p <= i
    <3>1. D \subseteq Nat
      OBVIOUS
    <3> HIDE DEF D
    <3> QED BY <1>4, <3>1, LeastOf
  <2>2. p \in 1..m /\ a[p] # b[p] /\ \A i \in 1..(p - 1) : a[i] = b[i]
    BY <2>1
  <2>3. p \in 1..Len(a) /\ p \in 1..Len(b) /\ p <= Len(a) + 1 /\ p <= Len(b) + 1
    BY <1>1, <1>2, <2>2
  <2>4. a[p] < b[p] \/ b[p] < a[p]
    BY <1>1, <2>2, <2>3
  <2>5. ASSUME a[p] < b[p] PROVE Before(a, b)
    BY <2>2, <2>3, <2>5 DEF Before
  <2>6. ASSUME b[p] < a[p] PROVE Before(b, a)
    BY <2>2, <2>3, <2>6 DEF Before
  <2> QED BY <2>4, <2>5, <2>6
<1> QED BY <1>3, <1>4

\* memcmp's answer goes through a signed char unharmed where bytes are ASCII.
LEMMA SignKept ==
  ASSUME NEW x \in 1..127, NEW y \in 1..127
  PROVE  AsSignedChar(x - y) = x - y
<1>1. PICK k \in Int : k = (x - y) + 128
  OBVIOUS
<1>2. k \in 0..(256 - 1)
  BY <1>1
<1>3. k % 256 = k
  BY <1>2, SmallRemainder
<1> QED BY <1>1, <1>3 DEF AsSignedChar

LEMMA GoesBeforeIs ==
  ASSUME NEW a \in Seq(1..127), NEW b \in Seq(1..127)
  PROVE  GoesBefore(a, b) <=> Before(a, b)
<1>1. /\ Len(a) \in Nat /\ Len(b) \in Nat
      /\ \A i \in 1..Len(a) : a[i] \in Int
      /\ \A i \in 1..Len(a) : a[i] \in 1..127
      /\ \A i \in 1..Len(b) : b[i] \in 1..127
  <2>1. 1..127 \subseteq Int
    OBVIOUS
  <2> QED BY <2>1, SeqParts, Zenon
<1> DEFINE least == IF Len(a) < Len(b) THEN Len(a) ELSE Len(b)
           differ == {i \in 1..least : a[i] # b[i]}
           i == CHOOSE k \in differ : \A m \in differ : k <= m
<1>2. least \in Nat /\ least <= Len(a) /\ least <= Len(b) /\ (least = Len(a) \/ least = Len(b))
  BY <1>1
<1>3. Memcmp(a, b) = IF differ = {} THEN 0 ELSE AsSignedChar(a[i] - b[i])
  BY Zenon DEF Memcmp
<1> HIDE DEF least
<1>4. CASE differ = {}
  <2>1. \A k \in 1..least : a[k] = b[k]
    BY <1>4
  <2>2. GoesBefore(a, b) <=> Len(a) < Len(b)
    <3>1. Memcmp(a, b) = 0
      BY <1>3, <1>4, Zenon
    <3> QED BY ONLY <3>1 DEF GoesBefore
  <2>3. ASSUME Len(a) < Len(b) PROVE Before(a, b)
    <3>1. PICK p \in Int : p = least + 1
      BY <1>2
    <3>2. p \in 1..Len(b) /\ p = Len(a) + 1 /\ p <= Len(a) + 1 /\ p - 1 = least
      BY <1>1, <1>2, <2>3, <3>1 DEF least
    <3> QED BY <2>1, <3>2 DEF Before
  <2>4. ASSUME Before(a, b) PROVE Len(a) < Len(b)
    <3>1. PICK p \in 1..Len(b) : p <= Len(a) + 1 /\ (p = Len(a) + 1 \/ a[p] < b[p])
      BY <2>4 DEF Before
    <3>2. CASE p = Len(a) + 1
      BY <1>1, <3>1, <3>2
    <3>3. CASE p <= Len(a)
      <4>1. p \in 1..least /\ p \in 1..Len(a) /\ a[p] < b[p]
        BY <1>1, <1>2, <3>1, <3>3
      <4>2. a[p] \in Int /\ a[p] = b[p]
        BY <1>1, <2>1, <4>1, Zenon
      <4> QED BY ONLY <4>1, <4>2
    <3> QED BY <1>1, <3>1, <3>2, <3>3
  <2> QED BY <2>2, <2>3, <2>4
<1>5. CASE differ # {}
  <2>1. i \in differ /\ \A m \in differ : i <= m
    <3>1. differ \subseteq Nat
      BY <1>2
    <3> HIDE DEF differ
    <3>2. \E k \in differ : \A m \in differ : k <= m
      BY <1>5, <3>1, LeastOf
    <3> QED BY <3>2, Zenon
  <2>2. PICK p : p = i
    OBVIOUS
  <2>3. p \in 1..least /\ a[p] # b[p] /\ \A k \in 1..(p - 1) : a[k] = b[k]
    <3>1. p \in differ /\ \A m \in differ : p <= m
      BY <2>1, <2>2, Zenon
    <3>2. \A k \in 1..(p - 1) : k \in 1..least /\ ~(p <= k)
      BY <1>2, <3>1
    <3> QED BY <3>1, <3>2
  <2>4. Memcmp(a, b) = AsSignedChar(a[p] - b[p])
    BY <1>3, <1>5, <2>2, Zenon
  <2> HIDE DEF i, differ
  <2>5. PICK x, y \in 1..127 : x = a[p] /\ y = b[p]
    <3>1. p \in 1..Len(a) /\ p \in 1..Len(b)
      BY <1>1, <1>2, <2>3
    <3> QED BY <1>1, <3>1, Zenon
  <2>6. Memcmp(a, b) = x - y /\ x # y
    BY <2>3, <2>4, <2>5, SignKept
  <2>7. GoesBefore(a, b) <=> x < y
    BY ONLY <2>6, x \in 1..127, y \in 1..127 DEF GoesBefore
  <2>8. p \in 1..Len(b) /\ p \in 1..Len(a) /\ p <= Len(a) + 1
    BY <1>1, <1>2, <2>3
  <2>9. ASSUME x < y PROVE Before(a, b)
    BY <2>3, <2>5, <2>8, <2>9 DEF Before
  <2>10. ASSUME Before(a, b) PROVE x < y
    <3>1. PICK q \in 1..Len(b) : /\ q <= Len(a) + 1 /\ \A k \in 1..(q - 1) : a[k] = b[k]
                                 /\ q = Len(a) + 1 \/ a[q] < b[q]
      BY <2>10 DEF Before
    <3>2. ~(p < q)
      BY <2>3, <2>8, <3>1
    <3>3. ~(q < p)
      <4>1. ASSUME q < p PROVE FALSE
        <5>1. q \in 1..(p - 1) /\ q \in 1..Len(a) /\ q # Len(a) + 1
          BY <1>1, <2>8, <4>1
        <5>2. a[q] = b[q] /\ a[q] < b[q]
          BY <2>3, <3>1, <5>1
        <5>3. a[q] \in Int
          BY <1>1, <5>1, Zenon
        <5> QED BY ONLY <5>2, <5>3
      <4> QED BY <4>1
    <3>4. p = q /\ q # Len(a) + 1
      BY <1>1, <2>8, <3>2, <3>3
    <3> QED BY <2>5, <3>1, <3>4
  <2> QED BY <2>7, <2>9, <2>10
<1> QED BY <1>4, <1>5

-----------------------------------------------------------------------------
(* FSinsert keeps the buffer sorted.                                        *)

LinesAscii == \A l \in Lines : l.key \in Seq(1..127)
Follows(e, f) == \/ Before(e.key, f.key)
                 \/ e.key = f.key /\ e.id < f.id

LEMMA SortedIs ==
  ASSUME BufferTypeOK
  PROVE  BufferSorted <=> \A i, k \in 1..n : i < k => Follows(buffer[i], buffer[k])
<1>1. \A i \in 1..n : buffer[i].key \in Key
  <2>1. buffer \in Seq(BufferEntry) /\ n = Len(buffer)
    BY DEF BufferTypeOK, n
  <2>2. \A i \in 1..n : buffer[i] \in BufferEntry
    BY <2>1
  <2> QED BY <2>2 DEF BufferEntry
<1>2. \A i, k \in 1..n : SmallerKey(buffer[i].key, buffer[k].key) <=> Before(buffer[i].key, buffer[k].key)
  BY <1>1, SmallerIs
<1>3. \A i, k \in 1..n :
        (i < k => \/ SmallerKey(buffer[i].key, buffer[k].key)
                  \/ buffer[i].key = buffer[k].key /\ buffer[i].id < buffer[k].id)
        <=> (i < k => Follows(buffer[i], buffer[k]))
  <2> SUFFICES ASSUME NEW i \in 1..n, NEW k \in 1..n
               PROVE  (\/ SmallerKey(buffer[i].key, buffer[k].key)
                       \/ buffer[i].key = buffer[k].key /\ buffer[i].id < buffer[k].id)
                      <=> Follows(buffer[i], buffer[k])
    BY Zenon
  <2>1. SmallerKey(buffer[i].key, buffer[k].key) <=> Before(buffer[i].key, buffer[k].key)
    BY <1>2
  <2> QED BY ONLY <2>1, Zenon DEF Follows
<1> QED BY ONLY <1>3 DEF BufferSorted

\* A new line comes after all keys that are not greater, and before the others.
LEMMA PlaceBetween ==
  ASSUME LinesAscii, KeysInv, BufferSorted, NEW l \in Lines
  PROVE  /\ \A k \in 1..n : k < Place(l.key) => buffer[k].key = l.key \/ Before(buffer[k].key, l.key)
         /\ \A k \in 1..n : k >= Place(l.key) => Before(l.key, buffer[k].key)
<1>1. n = Len(buffer) /\ n \in Nat /\ buffer \in Seq(BufferEntry)
  BY DEF KeysInv, BufferTypeOK, n
<1>2. l.key \in Seq(1..127) /\ l.key \in Key
  BY DEF LinesAscii, OafsAssumption, Key
<1>3. \A k \in 1..n : buffer[k].key \in Seq(1..127) /\ buffer[k].key \in Key
  <2> SUFFICES ASSUME NEW k \in 1..n
               PROVE  buffer[k].key \in Seq(1..127) /\ buffer[k].key \in Key
    OBVIOUS
  <2>1. buffer[k].id \in DOMAIN file /\ buffer[k].key = file[buffer[k].id].key
    BY DEF KeysInv, OwnedOnce, KeyOf
  <2>2. file[buffer[k].id] \in Lines
    BY <2>1 DEF KeysInv, BufferTypeOK
  <2> QED BY <2>1, <2>2 DEF LinesAscii, OafsAssumption, Key
<1>4. \A k \in 1..n : GoesBefore(l.key, buffer[k].key) <=> Before(l.key, buffer[k].key)
  BY <1>2, <1>3, GoesBeforeIs
<1> DEFINE I == {k \in 1..n : GoesBefore(l.key, buffer[k].key)}
           i == Place(l.key)
<1>5. i = IF I = {} THEN n + 1 ELSE IF Min(I) = 0 THEN n + 1 ELSE Min(I)
  BY <1>1 DEF Place, SelectInSeq
<1>6. I # {} => i \in I /\ \A k \in I : i <= k
  <2>1. ASSUME I # {} PROVE Min(I) \in I /\ \A k \in I : Min(I) <= k
    <3>1. I \subseteq Nat
      BY <1>1
    <3>2. PICK m \in I : \A k \in I : m <= k
      <4> HIDE DEF I
      <4> QED BY <2>1, <3>1, LeastOf
    <3> HIDE DEF I
    <3> QED BY <3>2 DEF Min
  <2>2. ASSUME I # {} PROVE Min(I) # 0
    BY <2>1, <2>2
  <2> HIDE DEF I
  <2> QED BY <1>5, <2>1, <2>2
<1>7. i \in 1..(n + 1)
  BY PlaceInRange DEF KeysInv
<1>8. PICK p \in 1..(n + 1) : p = i
  BY <1>7
<1>9. \A k \in 1..n : k < p => ~GoesBefore(l.key, buffer[k].key)
  <2>1. ASSUME NEW k \in 1..n, k < p, GoesBefore(l.key, buffer[k].key) PROVE FALSE
    <3>1. k \in I
      BY <2>1
    <3>2. I # {}
      BY <3>1
    <3>3. p <= k
      BY <1>6, <1>8, <3>1, <3>2
    <3> QED BY <2>1, <3>3
  <2> QED BY <2>1
<1>10. p <= n => GoesBefore(l.key, buffer[p].key)
  <2>1. ASSUME p <= n PROVE I # {}
    <3>1. I = {} => p = n + 1
      BY <1>5, <1>8
    <3> QED BY <1>1, <2>1, <3>1
  <2> QED BY <1>6, <1>8, <2>1
<1> HIDE DEF I, i
<1>11. \A k \in 1..n : k < p => buffer[k].key = l.key \/ Before(buffer[k].key, l.key)
  BY <1>2, <1>3, <1>4, <1>9, BeforeTotal
<1>12. ASSUME NEW k \in 1..n, k >= p PROVE Before(l.key, buffer[k].key)
  <2>1. p \in 1..n /\ Before(l.key, buffer[p].key)
    BY <1>1, <1>4, <1>10, <1>12
  <2>2. CASE k = p
    BY <2>1, <2>2
  <2>3. CASE k # p
    <3>1. p < k
      BY <1>12, <2>3
    <3>2. Before(buffer[p].key, buffer[k].key) \/ buffer[p].key = buffer[k].key
      BY <2>1, <3>1, SortedIs DEF KeysInv, Follows
    <3> QED BY <1>2, <1>3, <2>1, <3>2, BeforeTrans
  <2> QED BY <2>2, <2>3
<1> QED BY <1>8, <1>11, <1>12 DEF i

LEMMA InsertSorted ==
  ASSUME LinesAscii, KeysInv, BufferSorted, NEW l \in Lines, Insert(l)
  PROVE  BufferSorted'
<1> DEFINE new == Len(file) + 1
           e == [key |-> l.key, data |-> l.data, id |-> new]
           p == Place(l.key)
<1>1. /\ n = Len(buffer) /\ n \in Nat /\ buffer \in Seq(BufferEntry)
      /\ file \in Seq(Lines) /\ file' = Append(file, l) /\ new \in Nat /\ Len(file') = new
  BY DEF Insert, KeysInv, BufferTypeOK, n
<1>2. p \in 1..(Len(buffer) + 1) /\ p \in 1..(n + 1)
  BY <1>1, PlaceInRange DEF KeysInv
<1>3. e \in BufferEntry /\ e.key = l.key /\ e.id = new
  <2>1. l.key \in Key /\ l.data \in Key
    BY DEF OafsAssumption, Key
  <2> QED BY <1>1, <2>1 DEF BufferEntry
<1>4. buffer' = InsertAt(buffer, p, e)
  BY <1>1 DEF Insert
<1>5. \A k \in 1..n : buffer[k].id < new
  <2>1. \A k \in 1..n : buffer[k].id \in 1..Len(file)
    BY <1>1 DEF KeysInv, OwnedOnce
  <2> QED BY <1>1, <2>1
<1>6. /\ \A k \in 1..n : k < p => Follows(buffer[k], e)
      /\ \A k \in 1..n : k >= p => Follows(e, buffer[k])
  <2>1. ASSUME NEW k \in 1..n, k < p PROVE Follows(buffer[k], e)
    <3>1. buffer[k].key = l.key \/ Before(buffer[k].key, l.key)
      BY <2>1, PlaceBetween
    <3> HIDE DEF e, p, new
    <3> QED BY <1>3, <1>5, <3>1 DEF Follows
  <2>2. ASSUME NEW k \in 1..n, k >= p PROVE Follows(e, buffer[k])
    <3>1. Before(l.key, buffer[k].key)
      BY <2>2, PlaceBetween
    <3> HIDE DEF e, p, new
    <3>2. Before(e.key, buffer[k].key)
      BY ONLY <1>3, <3>1, Zenon
    <3> QED BY ONLY <3>2, Zenon DEF Follows
  <2> QED BY <2>1, <2>2
<1>7. \A i, k \in 1..n : i < k => Follows(buffer[i], buffer[k])
  BY SortedIs DEF KeysInv
<1>8. KeysInv'
  BY InsertKeys
<1> HIDE DEF e, p, new
<1>9. /\ n' = n + 1
      /\ \A k \in 1..(n + 1) :
           buffer'[k] = IF k < p THEN buffer[k] ELSE IF k = p THEN e ELSE buffer[k - 1]
  <2>1. /\ Len(InsertAt(buffer, p, e)) = Len(buffer) + 1
        /\ \A k \in 1..(Len(buffer) + 1) :
             InsertAt(buffer, p, e)[k] = IF k < p THEN buffer[k] ELSE IF k = p THEN e ELSE buffer[k - 1]
    BY <1>1, <1>2, <1>3, InsertAtFacts, SMTT(30)
  <2> QED BY <1>1, <1>4, <2>1 DEF n
<1>10. ASSUME NEW i \in 1..(n + 1), NEW k \in 1..(n + 1), i < k
       PROVE  Follows(buffer'[i], buffer'[k])
  <2>1. CASE k < p
    <3>1. i \in 1..n /\ k \in 1..n /\ i < p
      BY <1>1, <1>2, <1>10, <2>1
    <3>2. buffer'[i] = buffer[i] /\ buffer'[k] = buffer[k]
      BY <1>9, <2>1, <3>1
    <3> QED BY <1>7, <1>10, <3>1, <3>2
  <2>2. CASE k = p
    <3>1. i \in 1..n /\ i < p
      BY <1>1, <1>2, <1>10, <2>2
    <3>2. buffer'[i] = buffer[i] /\ buffer'[k] = e
      BY <1>9, <2>2, <3>1
    <3> QED BY <1>6, <3>1, <3>2
  <2>3. CASE k > p
    <3>1. PICK m \in 1..n : m = k - 1 /\ m >= p
      BY <1>1, <1>2, <2>3
    <3>2. buffer'[k] = buffer[m]
      <4>1. ~(k < p) /\ k # p
        BY <1>2, <2>3
      <4> QED BY <1>9, <3>1, <4>1
    <3>3. CASE i < p
      <4>1. i \in 1..n /\ buffer'[i] = buffer[i] /\ i < m
        BY <1>1, <1>2, <1>9, <3>1, <3>3
      <4> QED BY <1>7, <3>2, <4>1
    <3>4. CASE i = p
      <4>1. buffer'[i] = e
        BY <1>9, <3>4
      <4> QED BY <1>6, <3>1, <3>2, <4>1
    <3>5. CASE i > p
      <4>1. PICK h \in 1..n : h = i - 1 /\ h < m
        BY <1>1, <1>2, <1>10, <3>1, <3>5
      <4>2. buffer'[i] = buffer[h]
        <5>1. ~(i < p) /\ i # p
          BY <1>2, <3>5
        <5> QED BY <1>9, <4>1, <5>1
      <4> QED BY <1>7, <3>2, <4>1, <4>2
    <3> QED BY <1>2, <3>3, <3>4, <3>5
  <2> QED BY <1>2, <2>1, <2>2, <2>3
<1>11. \A i, k \in 1..n' : i < k => Follows(buffer'[i], buffer'[k])
  BY <1>9, <1>10
<1>12. BufferTypeOK'
  BY <1>8 DEF KeysInv
<1>13. (BufferTypeOK => (BufferSorted <=> \A i, k \in 1..n : i < k => Follows(buffer[i], buffer[k])))'
  BY SortedIs, PTL
<1> QED BY <1>11, <1>12, <1>13
-----------------------------------------------------------------------------
(* Recursion over the places of a sequence.                                 *)

\* What holds of 0, and of each number up to m if of the one before, holds up to m.
LEMMA UpTo ==
  ASSUME NEW m \in Nat, NEW S, 0 \in S, \A k \in 1..m : k - 1 \in S => k \in S
  PROVE  0..m \subseteq S
<1> DEFINE Bad == {k \in 0..m : k \notin S}
<1> SUFFICES ASSUME Bad # {} PROVE FALSE
  OBVIOUS
<1>1. PICK k \in Bad : \A i \in Bad : k <= i
  <2>1. Bad \subseteq Nat
    OBVIOUS
  <2> HIDE DEF Bad
  <2> QED BY <2>1, LeastOf
<1>2. k \in Nat /\ k # 0 /\ k <= m /\ k \notin S
  OBVIOUS
<1>3. k \in 1..m /\ k - 1 \in 0..m /\ ~(k <= k - 1)
  BY ONLY <1>2, m \in Nat
<1>4. k - 1 \in S
  BY <1>1, <1>3
<1> QED BY <1>2, <1>3, <1>4

\* From one place to the next by a step that stays in V.
Grown(top, b, step, f) == f[0] = b /\ \A i \in 1..top : f[i] = step[<<i, f[i - 1]>>]

\* A recursive function over the places of a sequence is there.
LEMMA Recursion ==
  ASSUME NEW top \in Nat, NEW V, NEW b \in V, NEW step \in [(1..top) \X V -> V]
  PROVE  \E f \in [0..top -> V] : Grown(top, b, step, f)
<1> DEFINE S == {m \in 0..top : \E f \in [0..m -> V] : Grown(m, b, step, f)}
<1>1. 0 \in S
  <2> DEFINE f == [i \in 0..0 |-> b]
  <2>1. f \in [0..0 -> V] /\ f[0] = b
    OBVIOUS
  <2>2. Grown(0, b, step, f)
    BY <2>1 DEF Grown
  <2> HIDE DEF f
  <2> QED BY <2>1, <2>2
<1>2. ASSUME NEW m \in 1..top, m - 1 \in S PROVE m \in S
  <2>1. PICK f \in [0..m - 1 -> V] : Grown(m - 1, b, step, f)
    BY <1>2
  <2> DEFINE g == [i \in 0..m |-> IF i = m THEN step[<<m, f[m - 1]>>] ELSE f[i]]
  <2>2. m \in Nat /\ m \in 1..top /\ m - 1 \in 0..m - 1 /\ m \in 0..m /\ m \in 0..top
    OBVIOUS
  <2>3. f[m - 1] \in V /\ step[<<m, f[m - 1]>>] \in V
    BY <2>2
  <2>4. g \in [0..m -> V]
    BY <2>2, <2>3
  <2>5. g[m] = step[<<m, f[m - 1]>>] /\ \A i \in 0..m - 1 : g[i] = f[i]
    BY <2>2
  <2>6. Grown(m, b, step, g)
    <3>1. g[0] = b
      BY <2>1, <2>5, <2>2 DEF Grown
    <3>2. ASSUME NEW i \in 1..m PROVE g[i] = step[<<i, g[i - 1]>>]
      <4>1. CASE i = m
        BY <2>2, <2>5, <4>1
      <4>2. CASE i # m
        <5>1. i \in 1..m - 1 /\ i - 1 \in 0..m - 1 /\ i \in 0..m - 1
          BY ONLY <4>2, <2>2, i \in 1..m
        <5> QED BY <2>1, <2>5, <5>1 DEF Grown
      <4> QED BY <4>1, <4>2
    <3> HIDE DEF g
    <3> QED BY <3>1, <3>2 DEF Grown
  <2> HIDE DEF g
  <2> QED BY <2>2, <2>4, <2>6
<1>3. 0..top \subseteq S
  <2> HIDE DEF S
  <2> QED BY <1>1, <1>2, UpTo
<1> QED BY <1>3

\* A recursive function stays in the set that its step stays in.
LEMMA Typed ==
  ASSUME NEW top \in Nat, NEW V, NEW step \in [(1..top) \X V -> V], NEW f,
         f[0] \in V, \A i \in 1..top : f[i - 1] \in V => f[i] = step[<<i, f[i - 1]>>]
  PROVE  \A i \in 0..top : f[i] \in V
<1> DEFINE S == {i \in 0..top : f[i] \in V}
<1>1. 0 \in S
  OBVIOUS
<1>2. ASSUME NEW k \in 1..top, k - 1 \in S PROVE k \in S
  <2>1. k \in 0..top /\ f[k - 1] \in V
    BY <1>2
  <2>2. step[<<k, f[k - 1]>>] \in V
    BY <2>1
  <2> QED BY <2>1, <2>2
<1>3. 0..top \subseteq S
  <2> HIDE DEF S
  <2> QED BY <1>1, <1>2, UpTo
<1> QED BY <1>3

\* A function on the places up to m is a sequence of length m.
LEMMA PlacedSeq ==
  ASSUME NEW S, NEW m \in Nat, NEW list \in [1..m -> S]
  PROVE  list \in Seq(S) /\ Len(list) = m
<1>1. list \in Seq(S)
  BY SeqDef
<1>2. PICK k \in Nat : k = Len(list) /\ DOMAIN list = 1..k
  BY <1>1, LenProperties
<1>3. DOMAIN list = 1..m
  OBVIOUS
<1>4. \A i \in Int : i \in 1..k <=> i \in 1..m
  BY ONLY <1>2, <1>3, Zenon
<1>5. k = m
  <2>1. CASE k < m
    BY <1>4, <2>1, m \in Int
  <2>2. CASE m < k
    BY <1>4, <2>2, k \in Int
  <2> QED BY <2>1, <2>2
<1> QED BY <1>1, <1>2, <1>5

-----------------------------------------------------------------------------
(* The entries that have a key, and the pages put one after the other.      *)

Entries == Seq(BufferEntry)

LEMMA NoEntries ==
  /\ <<>> \in Entries /\ Len(<<>>) = 0
  /\ \A s \in Entries : s \o <<>> = s /\ <<>> \o s = s /\ Len(s) \in Nat
  /\ \A s, t \in Entries : s \o t \in Entries /\ Len(s \o t) = Len(s) + Len(t)
  /\ \A s \in Entries, e \in BufferEntry : Append(s, e) \in Entries
<1>1. \A S : <<>> \in Seq(S) /\ Len(<<>>) = 0
  OBVIOUS
<1>2. \A S : \A s \in Seq(S) : s \o <<>> = s /\ <<>> \o s = s /\ Len(s) \in Nat
  OBVIOUS
<1>3. \A S : \A s, t \in Seq(S) : s \o t \in Seq(S) /\ Len(s \o t) = Len(s) + Len(t)
  OBVIOUS
<1>4. \A S : \A s \in Seq(S), e \in S : Append(s, e) \in Seq(S)
  OBVIOUS
<1> QED BY <1>1, <1>2, <1>3, <1>4, Zenon DEF Entries

LEMMA AppendJoined ==
  ASSUME NEW s \in Entries, NEW t \in Entries, NEW u \in Entries
  PROVE  (s \o t) \o u = s \o (t \o u)
<1>1. s \in Seq(BufferEntry) /\ t \in Seq(BufferEntry) /\ u \in Seq(BufferEntry)
  BY DEF Entries
<1> QED BY ONLY <1>1, ConcatAssociative

\* WithKey, entry by entry.
LEMMA WithKeySteps ==
  ASSUME NEW s \in Entries
  PROVE  \E f \in [0..Len(s) -> Entries] :
           /\ f[0] = <<>>
           /\ \A k \in 1..Len(s) :
                f[k] = IF s[k].key = <<>> THEN f[k - 1] ELSE f[k - 1] \o <<s[k]>>
           /\ WithKey(s) = f[Len(s)]
<1> DEFINE m == Len(s)
           step == [p \in (1..m) \X Entries |->
                      IF s[p[1]].key = <<>> THEN p[2] ELSE Append(p[2], s[p[1]])]
           Is(g) == g = [k \in 0..m |-> IF k = 0 THEN <<>>
                                        ELSE IF s[k].key = <<>> THEN g[k - 1] ELSE Append(g[k - 1], s[k])]
           f == CHOOSE g : Is(g)
<1>1. m \in Nat /\ <<>> \in Entries /\ \A k \in 1..m : s[k] \in BufferEntry
  BY NoEntries, SeqParts, Zenon DEF Entries
<1>2. step \in [(1..m) \X Entries -> Entries]
  <2>1. ASSUME NEW k \in 1..m, NEW v \in Entries PROVE Append(v, s[k]) \in Entries
    BY <1>1, NoEntries
  <2> QED BY <2>1
<1>3. \A k \in 1..m, v \in Entries :
        step[<<k, v>>] = IF s[k].key = <<>> THEN v ELSE Append(v, s[k])
  OBVIOUS
<1> HIDE DEF m, step
<1>4. PICK g \in [0..m -> Entries] : Grown(m, <<>>, step, g)
  BY <1>1, <1>2, Recursion
<1>5. Is(g)
  <2>1. \A k \in 1..m : g[k - 1] \in Entries
    BY <1>1, <1>4
  <2>2. ASSUME NEW k \in 0..m
        PROVE  g[k] = IF k = 0 THEN <<>>
                      ELSE IF s[k].key = <<>> THEN g[k - 1] ELSE Append(g[k - 1], s[k])
    <3>1. k = 0 \/ k \in 1..m
      BY <1>1
    <3>2. CASE k = 0
      BY <1>4, <3>2 DEF Grown
    <3>3. CASE k \in 1..m
      <4>1. g[k] = step[<<k, g[k - 1]>>] /\ k # 0
        BY <1>4, <3>3 DEF Grown
      <4>2. PICK v \in Entries : v = g[k - 1]
        BY <2>1, <3>3
      <4>3. step[<<k, v>>] = IF s[k].key = <<>> THEN v ELSE Append(v, s[k])
        BY <1>3, <3>3
      <4> QED BY <4>1, <4>2, <4>3
    <3> QED BY <3>1, <3>2, <3>3
  <2> QED BY <1>4, <2>2
<1>6. Is(f)
  BY <1>5, Zenon
<1>7. WithKey(s) = f[m]
  BY DEF WithKey, m
<1> HIDE DEF f
<1>8. f[0] = <<>> /\ \A k \in 1..m :
        f[k] = IF s[k].key = <<>> THEN f[k - 1] ELSE Append(f[k - 1], s[k])
  <2>1. 0 \in 0..m /\ \A k \in 1..m : k \in 0..m /\ k # 0
    BY <1>1
  <2>2. f[0] = <<>>
    BY <1>6, <2>1
  <2>3. ASSUME NEW k \in 1..m
        PROVE  f[k] = IF s[k].key = <<>> THEN f[k - 1] ELSE Append(f[k - 1], s[k])
    BY <1>6, <2>1
  <2> QED BY <2>2, <2>3
<1>9. \A k \in 0..m : f[k] \in Entries
  <2>1. ASSUME NEW k \in 1..m, f[k - 1] \in Entries PROVE f[k] = step[<<k, f[k - 1]>>]
    <3>1. PICK v \in Entries : v = f[k - 1]
      BY <2>1
    <3>2. step[<<k, v>>] = IF s[k].key = <<>> THEN v ELSE Append(v, s[k])
      BY <1>3
    <3> QED BY <1>8, <3>1, <3>2
  <2>2. f[0] \in Entries
    BY <1>1, <1>8
  <2> QED BY <1>1, <1>2, <2>1, <2>2, Typed
<1>10. f \in [0..m -> Entries]
  <2>1. f = [k \in 0..m |-> f[k]]
    BY <1>6
  <2> QED BY <1>9, <2>1
<1>11. \A k \in 1..m : f[k] = IF s[k].key = <<>> THEN f[k - 1] ELSE f[k - 1] \o <<s[k]>>
  <2>1. ASSUME NEW k \in 1..m PROVE Append(f[k - 1], s[k]) = f[k - 1] \o <<s[k]>>
    <3>1. f[k - 1] \in Seq(BufferEntry) /\ s[k] \in BufferEntry
      BY <1>1, <1>9 DEF Entries
    <3> QED BY <3>1, AppendIsConcat
  <2> QED BY <1>8, <2>1
<1> QED BY <1>7, <1>8, <1>10, <1>11 DEF m

\* WithKey of entries after entries.
LEMMA WithKeyJoined ==
  ASSUME NEW s \in Entries, NEW t \in Entries
  PROVE  /\ WithKey(s) \in Entries /\ WithKey(t) \in Entries
         /\ WithKey(s \o t) = WithKey(s) \o WithKey(t)
<1> DEFINE u == s \o t
<1>1. PICK p, q \in Nat : p = Len(s) /\ q = Len(t)
  BY NoEntries
<1>2. /\ u \in Entries /\ Len(u) = p + q
      /\ \A k \in 1..p : u[k] = s[k]
      /\ \A k \in 1..q : u[p + k] = t[k]
  <2>1. s \in Seq(BufferEntry) /\ t \in Seq(BufferEntry)
    BY DEF Entries
  <2>2. \A k \in 1..(p + q) : u[k] = IF k <= p THEN s[k] ELSE t[k - p]
    BY ONLY <1>1, <2>1, ConcatProperties
  <2>3. \A k \in 1..p : k \in 1..(p + q) /\ k <= p
    OBVIOUS
  <2>4. \A k \in 1..q : p + k \in 1..(p + q) /\ ~(p + k <= p) /\ (p + k) - p = k
    OBVIOUS
  <2>5. u \in Entries /\ Len(u) = p + q
    BY <1>1, NoEntries
  <2> HIDE DEF u
  <2> QED BY ONLY <2>2, <2>3, <2>4, <2>5
<1> HIDE DEF u
<1>3. PICK f \in [0..(p + q) -> Entries] :
        /\ f[0] = <<>>
        /\ \A k \in 1..(p + q) : f[k] = IF u[k].key = <<>> THEN f[k - 1] ELSE f[k - 1] \o <<u[k]>>
        /\ WithKey(u) = f[p + q]
  BY <1>2, WithKeySteps
<1>4. PICK g \in [0..p -> Entries] :
        /\ g[0] = <<>>
        /\ \A k \in 1..p : g[k] = IF s[k].key = <<>> THEN g[k - 1] ELSE g[k - 1] \o <<s[k]>>
        /\ WithKey(s) = g[p]
  BY <1>1, WithKeySteps
<1>5. PICK h \in [0..q -> Entries] :
        /\ h[0] = <<>>
        /\ \A k \in 1..q : h[k] = IF t[k].key = <<>> THEN h[k - 1] ELSE h[k - 1] \o <<t[k]>>
        /\ WithKey(t) = h[q]
  BY <1>1, WithKeySteps
<1>6. \A k \in 0..p : f[k] = g[k]
  <2> DEFINE S == {k \in 0..p : f[k] = g[k]}
  <2>1. 0 \in S
    BY <1>3, <1>4
  <2>2. ASSUME NEW k \in 1..p, k - 1 \in S PROVE k \in S
    <3>1. f[k - 1] = g[k - 1] /\ k \in 0..p /\ k \in 1..(p + q)
      BY <2>2
    <3> QED BY <1>2, <1>3, <1>4, <3>1
  <2> HIDE DEF S
  <2>3. 0..p \subseteq S
    BY <2>1, <2>2, UpTo
  <2> QED BY <2>3 DEF S
<1>7. \A k \in 0..q : f[p + k] = g[p] \o h[k]
  <2> DEFINE S == {k \in 0..q : f[p + k] = g[p] \o h[k]}
  <2>1. 0 \in S
    <3>1. f[p + 0] = g[p] /\ g[p] \in Entries
      BY <1>4, <1>6
    <3>2. g[p] \o h[0] = g[p]
      BY <1>5, <3>1, NoEntries
    <3> QED BY <3>1, <3>2
  <2>2. ASSUME NEW k \in 1..q, k - 1 \in S PROVE k \in S
    <3>1. PICK v, w, x \in Entries : v = g[p] /\ w = h[k - 1] /\ x = f[p + (k - 1)]
      BY <1>3, <1>4, <1>5
    <3>2. x = v \o w /\ p + k \in 1..(p + q) /\ (p + k) - 1 = p + (k - 1) /\ k \in 0..q
      BY <2>2, <3>1
    <3>3. f[p + k] = IF t[k].key = <<>> THEN x ELSE x \o <<t[k]>>
      BY <1>2, <1>3, <3>1, <3>2, ZenonT(60)
    <3>4. h[k] = IF t[k].key = <<>> THEN w ELSE w \o <<t[k]>>
      BY <1>5, <3>1
    <3>5. <<t[k]>> \in Entries
      <4>1. t[k] \in BufferEntry
        BY <1>1 DEF Entries
      <4> QED BY <4>1 DEF Entries
    <3>6. (v \o w) \o <<t[k]>> = v \o (w \o <<t[k]>>)
      BY ONLY <3>5, AppendJoined, v \in Entries, w \in Entries, ZenonT(60)
    <3>7. f[p + k] = v \o h[k]
      BY ONLY <3>2, <3>3, <3>4, <3>6
    <3> QED BY <3>1, <3>2, <3>7
  <2> HIDE DEF S
  <2>3. 0..q \subseteq S
    BY <2>1, <2>2, UpTo
  <2> QED BY <2>3 DEF S
<1>8. WithKey(u) = g[p] \o h[q]
  BY <1>3, <1>7
<1> QED BY <1>4, <1>5, <1>8 DEF u

\* What is between two places of the entries.
LEMMA WithKeySplit ==
  ASSUME NEW s \in Entries, NEW a \in 0..Len(s), NEW c \in a..Len(s)
  PROVE  /\ WithKey(SubSeq(s, 1, a)) \in Entries /\ WithKey(SubSeq(s, a + 1, c)) \in Entries
         /\ WithKey(SubSeq(s, 1, c)) = WithKey(SubSeq(s, 1, a)) \o WithKey(SubSeq(s, a + 1, c))
<1>1. PICK m \in Nat : m = Len(s)
  BY NoEntries
<1>2. s \in Seq(BufferEntry) /\ a \in 0..m /\ c \in a..m
  BY <1>1 DEF Entries
<1> DEFINE x == SubSeq(s, 1, a)
           y == SubSeq(s, a + 1, c)
           z0 == SubSeq(s, 1, c)
<1>3. /\ x \in Seq(BufferEntry) /\ Len(x) = a
      /\ \A k \in 1..a : x[k] = s[k]
  BY <1>1, <1>2
<1>4. /\ y \in Seq(BufferEntry) /\ Len(y) = c - a
      /\ \A k \in 1..(c - a) : y[k] = s[a + k]
  BY <1>1, <1>2
<1>5. /\ z0 \in Seq(BufferEntry) /\ Len(z0) = c
      /\ \A k \in 1..c : z0[k] = s[k]
  BY <1>1, <1>2
<1> HIDE DEF x, y, z0
<1>6. z0 = x \o y
  <2>1. x \o y \in Seq(BufferEntry) /\ Len(x \o y) = a + (c - a)
    BY <1>3, <1>4, NoEntries DEF Entries
  <2>2. \A k \in 1..a + (c - a) : (x \o y)[k] = IF k <= a THEN x[k] ELSE y[k - a]
    BY <1>3, <1>4, ConcatProperties
  <2>3. ASSUME NEW k \in 1..c PROVE z0[k] = (x \o y)[k]
    <3>1. k \in 1..a + (c - a) /\ k \in Int
      BY <1>2
    <3>2. CASE k <= a
      <4>1. k \in 1..a
        BY <1>2, <3>2
      <4> QED BY <1>3, <1>5, <2>2, <3>1, <3>2, <4>1
    <3>3. CASE ~(k <= a)
      <4>1. k - a \in 1..(c - a) /\ a + (k - a) = k
        BY <1>2, <3>1, <3>3
      <4>2. y[k - a] = s[k]
        BY <1>4, <4>1
      <4> QED BY <1>5, <2>2, <3>1, <3>3, <4>2
    <3> QED BY <3>2, <3>3
  <2>4. Len(z0) = Len(x \o y) /\ \A k \in 1..Len(z0) : z0[k] = (x \o y)[k]
    BY <1>2, <1>5, <2>1, <2>3
  <2> QED BY <1>5, <2>1, <2>4, SeqEqual
<1> QED BY <1>3, <1>4, <1>6, WithKeyJoined DEF Entries, x, y, z0

LEMMA WithKeyNone == WithKey(<<>>) = <<>>
<1>1. PICK f \in [0..0 -> Entries] : f[0] = <<>> /\ WithKey(<<>>) = f[0]
  BY NoEntries, WithKeySteps
<1> QED BY <1>1

\* FlattenSeq, page by page.
LEMMA FlatSteps ==
  ASSUME NEW ss \in Seq(Entries), Len(ss) > 0
  PROVE  \E f \in [0..Len(ss) -> Entries] :
           /\ f[0] = <<>>
           /\ \A k \in 1..Len(ss) : f[k] = f[k - 1] \o ss[k]
           /\ FlattenSeq(ss) = f[Len(ss)]
<1> DEFINE m == Len(ss)
           step == [p \in (1..m) \X Entries |-> p[2] \o ss[p[1]]]
           Is(g) == g = [k \in 1..m |-> IF k = 1 THEN ss[k] ELSE g[k - 1] \o ss[k]]
           f == CHOOSE g : Is(g)
<1>1. m \in Nat /\ m \in 1..m /\ <<>> \in Entries /\ \A k \in 1..m : ss[k] \in Entries
  <2>1. m \in Nat /\ m > 0
    OBVIOUS
  <2>2. \A k \in 1..m : ss[k] \in Entries
    BY SeqParts, Zenon
  <2> QED BY <2>1, <2>2, NoEntries
<1>2. step \in [(1..m) \X Entries -> Entries]
  <2>1. ASSUME NEW k \in 1..m, NEW v \in Entries PROVE v \o ss[k] \in Entries
    BY <1>1, NoEntries
  <2> QED BY <2>1
<1>3. \A k \in 1..m, v \in Entries : step[<<k, v>>] = v \o ss[k]
  OBVIOUS
<1>4. FlattenSeq(ss) = f[m]
  <2>1. Len(ss) # 0
    OBVIOUS
  <2> QED BY <2>1, Zenon DEF FlattenSeq
<1> HIDE DEF m, step
<1>5. PICK g \in [0..m -> Entries] : Grown(m, <<>>, step, g)
  BY <1>1, <1>2, Recursion
<1>6. g[0] = <<>> /\ \A k \in 1..m : g[k] = g[k - 1] \o ss[k]
  <2>1. ASSUME NEW k \in 1..m PROVE g[k] = g[k - 1] \o ss[k]
    <3>1. PICK v \in Entries : v = g[k - 1]
      BY <1>1, <1>5
    <3> QED BY <1>3, <1>5, <3>1 DEF Grown
  <2> QED BY <1>5, <2>1 DEF Grown
<1> DEFINE g1 == [k \in 1..m |-> g[k]]
<1>7. Is(g1)
  <2>1. ASSUME NEW k \in 1..m PROVE g[k] = IF k = 1 THEN ss[k] ELSE g1[k - 1] \o ss[k]
    <3>1. CASE k = 1
      <4>1. g[k] = <<>> \o ss[k] /\ ss[k] \in Entries
        BY <1>1, <1>6, <3>1
      <4> QED BY <3>1, <4>1, NoEntries
    <3>2. CASE k # 1
      <4>1. k - 1 \in 1..m
        BY <1>1, <3>2
      <4>2. g1[k - 1] = g[k - 1]
        BY <4>1
      <4> QED BY <1>6, <3>2, <4>2
    <3> QED BY <3>1, <3>2
  <2> QED BY <2>1
<1>8. Is(f)
  BY <1>7, Zenon
<1> HIDE DEF f
<1>9. \A k \in 1..m : f[k] = g[k]
  <2>0. \A k \in 1..m : f[k] = IF k = 1 THEN ss[k] ELSE f[k - 1] \o ss[k]
    BY <1>8
  <2> DEFINE S == {k \in 0..m : k > 0 => f[k] = g[k]}
  <2>1. 0 \in S
    BY <1>1
  <2>2. ASSUME NEW k \in 1..m, k - 1 \in S PROVE k \in S
    <3>0. k \in 0..m
      BY <1>1
    <3>1. CASE k = 1
      <4>1. g[k] = <<>> \o ss[k]
        <5>1. k - 1 = 0
          BY <3>1
        <5> QED BY <1>6, <5>1
      <4>2. ss[k] \in Entries /\ f[k] = ss[k]
        BY <1>1, <2>0, <3>1
      <4> QED BY <3>0, <4>1, <4>2, NoEntries
    <3>2. CASE k # 1
      <4>1. k - 1 > 0
        BY <1>1, <3>2
      <4>2. f[k - 1] = g[k - 1]
        BY <2>2, <4>1
      <4> QED BY <1>6, <2>0, <3>0, <3>2, <4>2
    <3> QED BY <3>1, <3>2
  <2> HIDE DEF S
  <2>3. 0..m \subseteq S
    BY <1>1, <2>1, <2>2, UpTo
  <2>4. \A k \in 1..m : k \in 0..m /\ k > 0
    BY <1>1
  <2> QED BY <2>3, <2>4 DEF S
<1>10. FlattenSeq(ss) = g[m]
  BY <1>1, <1>4, <1>9
<1> QED BY <1>6, <1>10 DEF m

LEMMA FlatNone == FlattenSeq(<<>>) = <<>>
BY DEF FlattenSeq

LEMMA FlatType ==
  ASSUME NEW ss \in Seq(Entries)
  PROVE  FlattenSeq(ss) \in Entries
<1>1. CASE Len(ss) = 0
  <2>1. ss = <<>>
    BY <1>1
  <2> QED BY <2>1, FlatNone, NoEntries
<1>2. CASE Len(ss) # 0
  <2>1. Len(ss) > 0 /\ Len(ss) \in 0..Len(ss)
    BY <1>2
  <2> QED BY <2>1, FlatSteps
<1> QED BY <1>1, <1>2

\* One page more.
LEMMA FlatMore ==
  ASSUME NEW ss \in Seq(Entries), NEW x \in Entries
  PROVE  FlattenSeq(Append(ss, x)) = FlattenSeq(ss) \o x
<1> DEFINE tt == Append(ss, x)
<1>1. PICK m \in Nat : m = Len(ss)
  OBVIOUS
<1>2. /\ tt \in Seq(Entries) /\ Len(tt) = m + 1 /\ tt[m + 1] = x
      /\ \A k \in 1..m : tt[k] = ss[k]
  BY <1>1
<1> HIDE DEF tt
<1>3. PICK h \in [0..(m + 1) -> Entries] :
        /\ h[0] = <<>>
        /\ \A k \in 1..(m + 1) : h[k] = h[k - 1] \o tt[k]
        /\ FlattenSeq(tt) = h[m + 1]
  <2>1. Len(tt) > 0
    BY <1>2
  <2> QED BY <1>2, <2>1, FlatSteps
<1>4. FlattenSeq(tt) = h[m] \o x
  <2>1. m + 1 \in 1..(m + 1) /\ (m + 1) - 1 = m
    OBVIOUS
  <2> QED BY <1>2, <1>3, <2>1
<1>5. CASE m = 0
  <2>1. ss = <<>>
    <3>1. Len(ss) = 0
      BY <1>1, <1>5
    <3> QED BY <3>1, EmptySeq
  <2> QED BY <1>3, <1>4, <1>5, <2>1, FlatNone DEF tt
<1>6. CASE m # 0
  <2>1. PICK f \in [0..m -> Entries] :
          /\ f[0] = <<>>
          /\ \A k \in 1..m : f[k] = f[k - 1] \o ss[k]
          /\ FlattenSeq(ss) = f[m]
    BY <1>1, <1>6, FlatSteps
  <2>2. \A k \in 0..m : h[k] = f[k]
    <3> DEFINE S == {k \in 0..m : h[k] = f[k]}
    <3>1. 0 \in S
      BY <1>3, <2>1
    <3>2. ASSUME NEW k \in 1..m, k - 1 \in S PROVE k \in S
      <4>1. h[k - 1] = f[k - 1] /\ k \in 0..m /\ k \in 1..(m + 1)
        BY <3>2
      <4> QED BY <1>2, <1>3, <2>1, <4>1
    <3> HIDE DEF S
    <3>3. 0..m \subseteq S
      BY <3>1, <3>2, UpTo
    <3> QED BY <3>3 DEF S
  <2>3. h[m] = f[m]
    BY <2>2
  <2>4. FlattenSeq(tt) = FlattenSeq(ss) \o x
    BY ONLY <1>4, <2>1, <2>3, Zenon
  <2> QED BY <2>4 DEF tt
<1> QED BY <1>5, <1>6

-----------------------------------------------------------------------------
(* The pages of a flush.                                                    *)

Packs == [i \in DOMAIN packed |-> packed[i][2]]
PackedInOrder ==
  /\ packed \in Seq(ToSet(packed)) /\ Packs \in Seq(Entries)
  /\ pc \in {"flush", "entry"} => FlattenSeq(Packs) = WithKey(SubSeq(buffer, 1, next))
  /\ pc = "entry" => next <= j
PackInv == KeysInv /\ PackedInOrder

\* No page, and a page more.
LEMMA NonePacked ==
  <<>> \in Seq(ToSet(<<>>)) /\ [i \in DOMAIN <<>> |-> <<>>[i][2]] = <<>>
<1>1. \A S : <<>> \in Seq(S)
  OBVIOUS
<1>2. DOMAIN <<>> = {}
  OBVIOUS
<1> QED BY <1>1, <1>2

LEMMA OnePacked ==
  ASSUME PackedInOrder, NEW q, NEW x \in Entries, NEW y, packed' = Append(packed, <<q, x, y>>)
  PROVE  packed' \in Seq(ToSet(packed')) /\ Packs' = Append(Packs, x) /\ Packs' \in Seq(Entries)
<1> DEFINE T == ToSet(packed) \cup {<<q, x, y>>}
           new == <<q, x, y>>
<1>1. PICK m \in Nat : m = Len(packed) /\ DOMAIN packed = 1..m
  BY SeqParts DEF PackedInOrder
<1>2. packed \in Seq(T) /\ new \in T
  <2>1. \A i \in 1..m : packed[i] \in T
    BY <1>1 DEF ToSet
  <2>2. packed \in Seq(ToSet(packed))
    BY DEF PackedInOrder
  <2>3. \A S, U : \A s \in Seq(S) : (\A i \in 1..Len(s) : s[i] \in U) => s \in Seq(U)
    OBVIOUS
  <2> HIDE DEF T, new
  <2>4. packed \in Seq(T)
    BY ONLY <1>1, <2>1, <2>2, <2>3
  <2> QED BY <2>4 DEF T, new
<1> HIDE DEF T, new
<1>3. packed' = Append(packed, new)
  BY DEF new
<1>4. /\ packed' \in Seq(T) /\ Len(packed') = m + 1 /\ packed'[m + 1] = new
      /\ DOMAIN packed' = 1..(m + 1) /\ \A i \in 1..m : packed'[i] = packed[i]
  BY <1>1, <1>2, <1>3
<1>5. packed' \in Seq(ToSet(packed'))
  <2>1. \A i \in 1..(m + 1) : packed'[i] \in ToSet(packed')
    BY <1>4 DEF ToSet
  <2>2. \A S, U : \A s \in Seq(S) : (\A i \in 1..Len(s) : s[i] \in U) => s \in Seq(U)
    OBVIOUS
  <2> QED BY ONLY <1>4, <2>1, <2>2
<1>6. /\ Packs \in Seq(Entries) /\ Len(Packs) = m /\ \A i \in 1..m : Packs[i] = packed[i][2]
  <2>1. DOMAIN Packs = 1..m /\ \A i \in 1..m : Packs[i] = packed[i][2]
    BY <1>1 DEF Packs
  <2>2. Packs \in Seq(Entries)
    BY DEF PackedInOrder
  <2>3. Packs \in [1..m -> Entries]
    <3>1. DOMAIN Packs = 1..Len(Packs) /\ \A i \in 1..Len(Packs) : Packs[i] \in Entries
      BY <2>2, SeqParts, Zenon
    <3>2. Packs = [i \in 1..m |-> Packs[i]]
      BY <1>1 DEF Packs
    <3>3. \A i \in 1..m : Packs[i] \in Entries
      BY <2>1, <3>1
    <3> QED BY ONLY <3>2, <3>3
  <2>4. Len(Packs) = m
    BY <2>3, PlacedSeq
  <2> QED BY <2>1, <2>2, <2>4
<1>7. Packs' = [i \in 1..(m + 1) |-> IF i = m + 1 THEN x ELSE Packs[i]]
  <2>1. Packs' = [i \in 1..(m + 1) |-> packed'[i][2]]
    BY <1>4 DEF Packs
  <2>2. new[2] = x
    BY DEF new
  <2>3. ASSUME NEW i \in 1..(m + 1) PROVE packed'[i][2] = IF i = m + 1 THEN x ELSE Packs[i]
    <3>1. CASE i = m + 1
      BY <1>4, <2>2, <3>1
    <3>2. CASE i # m + 1
      <4>1. i \in 1..m
        BY <3>2
      <4> QED BY <1>4, <1>6, <3>2, <4>1
    <3> QED BY <3>1, <3>2
  <2> QED BY ONLY <2>1, <2>3
<1>8. PICK s : s = Packs
  OBVIOUS
<1>9. /\ Append(s, x) \in Seq(Entries) /\ Len(Append(s, x)) = m + 1 /\ Append(s, x)[m + 1] = x
      /\ \A i \in 1..m : Append(s, x)[i] = s[i]
  BY <1>6, <1>8
<1>10. Append(s, x) = [i \in 1..(m + 1) |-> IF i = m + 1 THEN x ELSE s[i]]
  <2> DEFINE t == Append(s, x)
  <2>1. t = [i \in 1..(m + 1) |-> t[i]]
    <3>1. t \in [1..Len(t) -> Entries] /\ Len(t) = m + 1
      BY <1>9, LenProperties
    <3> HIDE DEF t
    <3> QED BY ONLY <3>1
  <2> HIDE DEF t
  <2>2. ASSUME NEW i \in 1..(m + 1) PROVE t[i] = IF i = m + 1 THEN x ELSE s[i]
    <3>1. i = m + 1 \/ i \in 1..m
      OBVIOUS
    <3> QED BY <1>9, <3>1 DEF t
  <2> QED BY <2>1, <2>2 DEF t
<1> QED BY <1>5, <1>7, <1>8, <1>9, <1>10

LEMMA EntriesBetween ==
  ASSUME NEW s \in Entries, NEW a \in Nat, NEW c \in Nat, a <= c, c <= Len(s)
  PROVE  a \in 0..Len(s) /\ c \in a..Len(s) /\ c \in 0..Len(s)
BY NoEntries

LEMMA InitPacks == Init => PackInv
<1> SUFFICES ASSUME Init PROVE PackInv
  OBVIOUS
<1>1. KeysInv
  BY InitKeys
<1>2. PackedInOrder
  <2>1. packed = <<>> /\ pc = "read" /\ <<>> \in Seq(Entries)
    <3>1. \A S : <<>> \in Seq(S)
      OBVIOUS
    <3> QED BY <3>1 DEF Init
  <2>2. Packs = <<>>
    BY <2>1, NonePacked DEF Packs
  <2> QED BY <2>1, <2>2, NonePacked DEF PackedInOrder
<1> QED BY <1>1, <1>2 DEF PackInv

\* A step that packs no page.
LEMMA SamePacks ==
  ASSUME PackInv, packed' = packed, buffer' = buffer, next' = next,
         pc' \in {"flush", "entry"} => pc \in {"flush", "entry"},
         pc' = "entry" => next' <= j'
  PROVE  PackedInOrder'
<1>1. Packs' = Packs
  BY DEF Packs
<1> QED BY <1>1 DEF PackInv, PackedInOrder

\* FSinsert fails or the file ends: the flush begins with no page.
LEMMA FlushPacks ==
  ASSUME PackInv, Flush
  PROVE  PackedInOrder'
<1>1. packed' = <<>> /\ buffer' = buffer /\ next' = 0 /\ pc' = "flush"
  BY DEF Flush
<1>2. Packs' = <<>> /\ <<>> \in Seq(Entries)
  <2>1. \A S : <<>> \in Seq(S)
    OBVIOUS
  <2> QED BY <1>1, <2>1, NonePacked DEF Packs
<1>3. SubSeq(buffer, 1, 0) = <<>>
  BY DEF PackInv, KeysInv, BufferTypeOK
<1>4. FlattenSeq(Packs') = WithKey(SubSeq(buffer', 1, next'))
  BY <1>1, <1>2, <1>3, FlatNone, WithKeyNone
<1> QED BY <1>1, <1>2, <1>4, NonePacked DEF PackedInOrder

\* packpage ends a page: what it packed comes after what was packed before.
LEMMA EndPagePacks ==
  ASSUME PackInv, EndPage
  PROVE  PackedInOrder'
<1>1. /\ pc = "entry" /\ buffer \in Entries /\ n = Len(buffer)
      /\ next \in Nat /\ j \in Nat /\ next <= j /\ j <= Len(buffer)
  <2>1. pc = "entry" /\ buffer \in Seq(BufferEntry) /\ n = Len(buffer) /\ n \in Nat
    BY DEF EndPage, PackInv, KeysInv, BufferTypeOK, n
  <2>2. next \in 0..n /\ j \in 0..n /\ next <= j
    BY <2>1 DEF PackInv, KeysInv, BufferTypeOK, PackedInOrder
  <2> QED BY <2>1, <2>2 DEF Entries
<1>2. PICK before, rest, all \in Entries :
        /\ before = WithKey(SubSeq(buffer, 1, next)) /\ rest = Meant
        /\ all = WithKey(SubSeq(buffer, 1, j)) /\ all = before \o rest
  <2>1. next \in 0..Len(buffer) /\ j \in next..Len(buffer)
    BY <1>1, EntriesBetween
  <2>2. /\ WithKey(SubSeq(buffer, 1, next)) \in Entries /\ WithKey(SubSeq(buffer, next + 1, j)) \in Entries
        /\ WithKey(SubSeq(buffer, 1, j))
             = WithKey(SubSeq(buffer, 1, next)) \o WithKey(SubSeq(buffer, next + 1, j))
    BY <1>1, <2>1, WithKeySplit
  <2>3. Meant = WithKey(SubSeq(buffer, next + 1, j))
    BY DEF Meant
  <2>4. WithKey(SubSeq(buffer, 1, j)) \in Entries
    BY <2>2, NoEntries
  <2> QED BY ONLY <2>2, <2>3, <2>4, Zenon
<1>3. Packs \in Seq(Entries) /\ FlattenSeq(Packs) = before
  BY <1>1, <1>2 DEF PackInv, PackedInOrder
<1>4. /\ packed' \in Seq(ToSet(packed')) /\ Packs' \in Seq(Entries)
      /\ FlattenSeq(Packs') = all
  <2>1. CASE Meant = <<>>
    <3>1. packed' = packed
      BY <2>1 DEF EndPage
    <3>2. Packs' = Packs /\ all = before
      BY <1>2, <2>1, <3>1, NoEntries DEF Packs
    <3>3. packed \in Seq(ToSet(packed))
      BY DEF PackInv, PackedInOrder
    <3> QED BY <1>3, <3>1, <3>2, <3>3
  <2>2. CASE Meant # <<>>
    <3>1. PICK q, y : packed' = Append(packed, <<q, rest, y>>)
      BY <1>2, <2>2 DEF EndPage
    <3>2. packed' \in Seq(ToSet(packed')) /\ Packs' = Append(Packs, rest) /\ Packs' \in Seq(Entries)
      BY <3>1, OnePacked DEF PackInv
    <3>3. FlattenSeq(Append(Packs, rest)) = FlattenSeq(Packs) \o rest
      BY <1>3, FlatMore
    <3> QED BY <1>2, <1>3, <3>2, <3>3
  <2> QED BY <2>1, <2>2
<1>5. CASE Inext # 0
  <2>1. next' = j /\ buffer' = buffer /\ pc' = "flush"
    BY <1>5 DEF EndPage, Inext
  <2> QED BY <1>2, <1>4, <2>1 DEF PackedInOrder
<1>6. CASE Inext = 0
  <2>1. buffer' = <<>> /\ pc' \in {"end", "read"}
    BY <1>6 DEF EndPage
  <2> QED BY <1>4, <2>1 DEF PackedInOrder
<1> QED BY <1>5, <1>6

LEMMA NextPacks ==
  ASSUME PackInv, [Next]_vars
  PROVE  PackInv'
<1>1. KeysInv'
  BY NextKeys DEF PackInv
<1>2. ASSUME NEW l \in Lines, Insert(l) PROVE PackedInOrder'
  <2>1. packed' = packed /\ pc' = "read"
    BY <1>2 DEF Insert
  <2>2. Packs' = Packs
    BY <2>1 DEF Packs
  <2> QED BY <2>1, <2>2 DEF PackInv, PackedInOrder
<1>3. ASSUME Flush PROVE PackedInOrder'
  BY <1>3, FlushPacks
<1>4. ASSUME Header PROVE PackedInOrder'
  <2>1. /\ packed' = packed /\ buffer' = buffer /\ next' = next
        /\ pc = "flush" /\ pc' = "entry" /\ j' = next
    BY <1>4 DEF Header
  <2>2. next' <= j'
    BY <2>1 DEF PackInv, KeysInv, BufferTypeOK, n
  <2> QED BY <2>1, <2>2, SamePacks
<1>5. ASSUME NoKey PROVE PackedInOrder'
  <2>1. /\ packed' = packed /\ buffer' = buffer /\ next' = next
        /\ pc = "entry" /\ pc' = "entry" /\ j' = j + 1
    BY <1>5 DEF NoKey
  <2>2. next' <= j'
    BY <2>1 DEF PackInv, KeysInv, BufferTypeOK, PackedInOrder, n
  <2> QED BY <2>1, <2>2, SamePacks
<1>6. ASSUME PackEntry PROVE PackedInOrder'
  <2>1. /\ packed' = packed /\ buffer' = buffer /\ next' = next
        /\ pc = "entry" /\ pc' = "entry" /\ j' = j + 1
    BY <1>6 DEF PackEntry
  <2>2. next' <= j'
    BY <2>1 DEF PackInv, KeysInv, BufferTypeOK, PackedInOrder, n
  <2> QED BY <2>1, <2>2, SamePacks
<1>7. ASSUME EndPage PROVE PackedInOrder'
  BY <1>7, EndPagePacks
<1>8. ASSUME UNCHANGED vars PROVE PackedInOrder'
  <2>1. packed' = packed /\ buffer' = buffer /\ next' = next /\ pc' = pc /\ j' = j
    BY <1>8 DEF vars
  <2>2. pc' = "entry" => next' <= j'
    BY <2>1 DEF PackInv, PackedInOrder
  <2> QED BY <2>1, <2>2, SamePacks
<1> QED BY <1>1, <1>2, <1>3, <1>4, <1>5, <1>6, <1>7, <1>8 DEF Next, PackInv

\* Only the reading of a line changes the buffer, until it is emptied.
LEMMA NextSorted ==
  ASSUME LinesAscii, KeysInv, BufferSorted, [Next]_vars
  PROVE  BufferSorted'
<1>1. ASSUME buffer' = buffer PROVE BufferSorted'
  BY <1>1 DEF BufferSorted, n
<1>2. ASSUME buffer' = <<>> PROVE BufferSorted'
  <2>1. n' = 0
    BY <1>2 DEF n
  <2> QED BY <2>1 DEF BufferSorted
<1>3. ASSUME NEW l \in Lines, Insert(l) PROVE BufferSorted'
  BY <1>3, InsertSorted
<1>4. CASE Flush
  BY <1>1, <1>4 DEF Flush
<1>5. CASE Header
  BY <1>1, <1>5 DEF Header
<1>6. CASE NoKey
  BY <1>1, <1>6 DEF NoKey
<1>7. CASE PackEntry
  BY <1>1, <1>7 DEF PackEntry
<1>8. CASE EndPage
  <2>1. buffer' = buffer \/ buffer' = <<>>
    BY <1>8 DEF EndPage
  <2> QED BY <1>1, <1>2, <2>1
<1>9. CASE UNCHANGED vars
  BY <1>1, <1>9 DEF vars
<1> QED BY <1>3, <1>4, <1>5, <1>6, <1>7, <1>8, <1>9 DEF Next

\* Where keys are ASCII, so that memcmp's answer survives the signed char it is kept
\* in: whatever lines are read, in whatever order and however many pages a flush fills,
\* the buffer is sorted, equal keys in the order in which they came, and the pages of a
\* flush hold its entries up to the next one to pack, each once and in order.
THEOREM PagesInOrderTheorem ==
  ASSUME LinesAscii
  PROVE  Spec => []PagesInOrder
<1>1. Init => PackInv /\ BufferSorted
  <2>1. Init => n = 0
    BY DEF Init, n
  <2> QED BY <2>1, InitPacks DEF BufferSorted
<1>2. PackInv /\ BufferSorted /\ [Next]_vars => (PackInv /\ BufferSorted)'
  BY NextPacks, NextSorted DEF PackInv
<1>3. PackInv /\ BufferSorted => PagesInOrder
  BY Zenon DEF PackInv, PackedInOrder, PagesInOrder, Packs
<1> QED BY <1>1, <1>2, <1>3, PTL DEF Spec

-----------------------------------------------------------------------------
(* Reading a page.                                                          *)

LEMMA Sizes ==
  /\ PageSize \in Nat /\ PageSize >= 16 /\ MaxKeys \in Nat /\ MaxKeys >= 1
  /\ PageSize - 1 \in Nat
BY DEF OafsAssumption

LEMMA CellIs ==
  ASSUME NEW pg, NEW o \in 0..(PageSize - 1)
  PROVE  Offset(o) = o /\ Cell(pg, o) = pg[o]
<1>1. o % PageSize = o
  <2>1. PageSize \in Nat \ {0}
    BY Sizes
  <2> QED BY <2>1, SmallRemainder
<1> QED BY <1>1 DEF Offset, Cell

\* starts says where K entries are, up to `last`, and where the page's free bytes begin.
Linked(pg, starts, K, last) ==
  /\ starts \in Seq(Nat) /\ Len(starts) = K + 1 /\ starts[1] = 4
  /\ \A k \in 1..K : /\ starts[k] <= last /\ pg[starts[k]] = starts[k + 1]
                     /\ starts[k + 1] \in (starts[k] + 1)..(PageSize - 1)
  /\ starts[K + 1] < PageSize /\ (starts[K + 1] > last \/ pg[starts[K + 1]] = 0)

\* One step of the walk along a page.
Further(pg, last, s) ==
  LET o == Last(s)
  IN  IF o > last \/ Cell(pg, o) \notin (o + 1)..(PageSize - 1) THEN s ELSE Append(s, Cell(pg, o))

Walks(pg, starts, K, last) ==
  /\ \A k \in 1..K : Further(pg, last, SubSeq(starts, 1, k)) = SubSeq(starts, 1, k + 1)
  /\ Further(pg, last, SubSeq(starts, 1, K + 1)) = SubSeq(starts, 1, K + 1)

LEMMA FurtherIs ==
  ASSUME NEW pg, NEW starts, NEW K, K \in Nat, NEW last, last \in Nat, Linked(pg, starts, K, last)
  PROVE  Walks(pg, starts, K, last)
<1>1. /\ starts \in Seq(Nat) /\ Len(starts) = K + 1
      /\ \A k \in 1..K : /\ starts[k] <= last /\ pg[starts[k]] = starts[k + 1]
                         /\ starts[k + 1] \in (starts[k] + 1)..(PageSize - 1)
      /\ starts[K + 1] < PageSize /\ (starts[K + 1] > last \/ pg[starts[K + 1]] = 0)
  BY DEF Linked
<1>2. \A k \in 1..(K + 1) : /\ SubSeq(starts, 1, k) \in Seq(Nat) /\ Len(SubSeq(starts, 1, k)) = k
                            /\ Last(SubSeq(starts, 1, k)) = starts[k] /\ starts[k] \in Nat
  BY <1>1 DEF Last
<1>3. \A k \in 1..(K + 1) : starts[k] \in 0..(PageSize - 1)
  <2>1. ASSUME NEW k \in 1..K PROVE starts[k] < PageSize
    <3>1. starts[k] \in Nat /\ starts[k + 1] \in (starts[k] + 1)..(PageSize - 1)
      BY <1>1, <1>2, k \in 1..(K + 1)
    <3> QED BY <3>1, Sizes
  <2>2. \A k \in 1..(K + 1) : k \in 1..K \/ k = K + 1
    OBVIOUS
  <2>3. \A k \in 1..(K + 1) : starts[k] < PageSize /\ starts[k] \in Nat
    BY <1>1, <1>2, <2>1, <2>2
  <2> QED BY <2>3, Sizes
<1>4. ASSUME NEW k \in 1..K
      PROVE  Further(pg, last, SubSeq(starts, 1, k)) = SubSeq(starts, 1, k + 1)
  <2>1. k \in 1..(K + 1) /\ k + 1 \in 1..(K + 1)
    OBVIOUS
  <2>2. Last(SubSeq(starts, 1, k)) = starts[k] /\ Cell(pg, starts[k]) = starts[k + 1]
    BY <1>1, <1>2, <1>3, <2>1, CellIs
  <2>3. ~(starts[k] > last) /\ starts[k + 1] \in (starts[k] + 1)..(PageSize - 1)
    <3>1. starts[k] \in Nat /\ starts[k] <= last
      BY <1>1, <1>2, <2>1
    <3> QED BY <1>1, <3>1
  <2>4. Append(SubSeq(starts, 1, k), starts[k + 1]) = SubSeq(starts, 1, k + 1)
    BY <1>1, <2>1
  <2> QED BY <2>2, <2>3, <2>4 DEF Further
<1>5. Further(pg, last, SubSeq(starts, 1, K + 1)) = SubSeq(starts, 1, K + 1)
  <2>1. K + 1 \in 1..(K + 1)
    OBVIOUS
  <2>2. Last(SubSeq(starts, 1, K + 1)) = starts[K + 1] /\ Cell(pg, starts[K + 1]) = pg[starts[K + 1]]
    BY <1>2, <1>3, <2>1, CellIs
  <2>3. 0 \notin (starts[K + 1] + 1)..(PageSize - 1)
    BY <1>2, <2>1
  <2> QED BY <1>1, <2>2, <2>3 DEF Further
<1> QED BY <1>4, <1>5 DEF Walks

\* The walk finds the entries, where they are not more than it looks for.
LEMMA ChainIs ==
  ASSUME NEW pg, NEW starts, NEW K \in 0..MaxKeys, NEW last \in Nat, Linked(pg, starts, K, last)
  PROVE  Chain(pg, last) = SubSeq(starts, 1, K)
<1> DEFINE Is(g) == g = [k \in 0..MaxKeys |->
                           LET o == Last(g[k - 1])
                           IN  IF k = 0 THEN <<4>>
                               ELSE IF o > last \/ Cell(pg, o) \notin (o + 1)..(PageSize - 1)
                                    THEN g[k - 1] ELSE Append(g[k - 1], Cell(pg, o))]
           walk == CHOOSE g : Is(g)
           found == [k \in 0..MaxKeys |-> SubSeq(starts, 1, (IF k <= K THEN k ELSE K) + 1)]
<1>1. \A g : Is(g) <=> g = [k \in 0..MaxKeys |-> IF k = 0 THEN <<4>> ELSE Further(pg, last, g[k - 1])]
  BY DEF Further
<1>2. Chain(pg, last) = Front(walk[MaxKeys])
  BY DEF Chain
<1>3. starts \in Seq(Nat) /\ Len(starts) = K + 1 /\ starts[1] = 4 /\ K \in Nat /\ MaxKeys \in Nat
  BY Sizes DEF Linked
<1>4. /\ \A k \in 0..K : found[k] = SubSeq(starts, 1, k + 1)
      /\ \A k \in K..MaxKeys : found[k] = SubSeq(starts, 1, K + 1)
  <2>1. \A k \in 0..MaxKeys : found[k] = SubSeq(starts, 1, (IF k <= K THEN k ELSE K) + 1)
    OBVIOUS
  <2> HIDE DEF found
  <2>2. ASSUME NEW k \in 0..K PROVE found[k] = SubSeq(starts, 1, k + 1)
    <3>1. k \in 0..MaxKeys /\ k <= K
      BY <1>3
    <3> QED BY <2>1, <3>1
  <2>3. ASSUME NEW k \in K..MaxKeys PROVE found[k] = SubSeq(starts, 1, K + 1)
    <3>1. k \in 0..MaxKeys /\ (IF k <= K THEN k ELSE K) = K
      BY <1>3
    <3> QED BY <2>1, <3>1
  <2> QED BY <2>2, <2>3
<1>5. found = [k \in 0..MaxKeys |-> found[k]]
  OBVIOUS
<1> HIDE DEF found
<1>6. found[0] = <<4>>
  <2>1. found[0] = SubSeq(starts, 1, 1)
    <3>1. 0 \in 0..K /\ 0 + 1 = 1
      BY <1>3
    <3> QED BY <1>4, <3>1
  <2>2. /\ SubSeq(starts, 1, 1) \in Seq(Nat) /\ Len(SubSeq(starts, 1, 1)) = 1
        /\ SubSeq(starts, 1, 1)[1] = 4
    BY <1>3
  <2>3. \A s \in Seq(Nat) : Len(s) = 1 /\ s[1] = 4 => s = <<4>>
    OBVIOUS
  <2> QED BY <2>1, <2>2, <2>3
<1>7. /\ \A k \in 1..K : Further(pg, last, SubSeq(starts, 1, k)) = SubSeq(starts, 1, k + 1)
      /\ Further(pg, last, SubSeq(starts, 1, K + 1)) = SubSeq(starts, 1, K + 1)
  <2>1. K \in Nat
    BY <1>3
  <2> HIDE DEF Is, walk
  <2>2. Walks(pg, starts, K, last)
    BY <2>1, FurtherIs, Zenon
  <2> QED BY ONLY <2>2, Zenon DEF Walks
<1>8. ASSUME NEW k \in 1..MaxKeys PROVE found[k] = Further(pg, last, found[k - 1])
  <2>1. CASE k <= K
    <3>1. k \in 1..K /\ k \in 0..K /\ k - 1 \in 0..K /\ (k - 1) + 1 = k
      BY <1>3, <2>1
    <3>2. found[k - 1] = SubSeq(starts, 1, k) /\ found[k] = SubSeq(starts, 1, k + 1)
      BY <1>4, <3>1
    <3>3. Further(pg, last, SubSeq(starts, 1, k)) = SubSeq(starts, 1, k + 1)
      BY <1>7, <3>1
    <3> QED BY <3>2, <3>3
  <2>2. CASE ~(k <= K)
    <3>1. k \in K..MaxKeys /\ k - 1 \in K..MaxKeys
      BY <1>3, <2>2
    <3>2. found[k] = SubSeq(starts, 1, K + 1) /\ found[k - 1] = SubSeq(starts, 1, K + 1)
      BY <1>4, <3>1
    <3>3. Further(pg, last, SubSeq(starts, 1, K + 1)) = SubSeq(starts, 1, K + 1)
      BY <1>7
    <3> QED BY <3>2, <3>3
  <2> QED BY <2>1, <2>2
<1> HIDE DEF Is
<1>9. Is(found)
  <2>1. \A k \in 0..MaxKeys : found[k] = IF k = 0 THEN <<4>> ELSE Further(pg, last, found[k - 1])
    <3>1. \A k \in 0..MaxKeys : k = 0 \/ k \in 1..MaxKeys
      BY <1>3
    <3> QED BY <1>6, <1>8, <3>1
  <2>2. found = [k \in 0..MaxKeys |-> IF k = 0 THEN <<4>> ELSE Further(pg, last, found[k - 1])]
    BY <1>5, <2>1
  <2> QED BY <1>1, <2>2
<1>10. Is(walk)
  BY <1>9, Zenon
<1> HIDE DEF walk
<1>11. walk[0] = <<4>> /\ \A k \in 1..MaxKeys : walk[k] = Further(pg, last, walk[k - 1])
  <2>1. walk = [k \in 0..MaxKeys |-> IF k = 0 THEN <<4>> ELSE Further(pg, last, walk[k - 1])]
    BY <1>1, <1>10
  <2>2. 0 \in 0..MaxKeys /\ \A k \in 1..MaxKeys : k \in 0..MaxKeys /\ k # 0
    BY <1>3
  <2> QED BY <2>1, <2>2
<1>12. walk[MaxKeys] = found[MaxKeys]
  <2> DEFINE S == {k \in 0..MaxKeys : walk[k] = found[k]}
  <2>1. 0 \in S
    BY <1>3, <1>6, <1>11
  <2>2. ASSUME NEW k \in 1..MaxKeys, k - 1 \in S PROVE k \in S
    <3>1. k \in 0..MaxKeys /\ walk[k - 1] = found[k - 1]
      BY <1>3, <2>2
    <3>2. walk[k] = found[k]
      BY <1>8, <1>11, <3>1
    <3> QED BY <3>1, <3>2
  <2>3. 0..MaxKeys \subseteq S
    <3> HIDE DEF S
    <3> QED BY <1>3, <2>1, <2>2, UpTo
  <2> QED BY <1>3, <2>3
<1>13. found[MaxKeys] = SubSeq(starts, 1, K + 1)
  BY <1>3, <1>4
<1>14. Front(SubSeq(starts, 1, K + 1)) = SubSeq(starts, 1, K)
  BY <1>3 DEF Front
<1> QED BY <1>2, <1>12, <1>13, <1>14

\* A sequence read off a page place by place, each from the one before.
ByPlace(X, K) ==
  /\ SubSeq(X, 1, 0) = <<>> /\ SubSeq(X, 1, K) = X
  /\ \A k \in 1..K : /\ SubSeq(X, 1, k) = Append(SubSeq(X, 1, k - 1), X[k])
                     /\ k # 1 => SubSeq(X, 1, k - 1)[k - 1] = X[k - 1]

LEMMA PlaceByPlace ==
  ASSUME NEW V, NEW K \in Nat, NEW X \in Seq(V), Len(X) = K
  PROVE  ByPlace(X, K)
<1>1. SubSeq(X, 1, 0) = <<>>
  OBVIOUS
<1>2. SubSeq(X, 1, K) = X
  <2>1. /\ SubSeq(X, 1, K) \in Seq(V) /\ Len(SubSeq(X, 1, K)) = K
        /\ \A i \in 1..K : SubSeq(X, 1, K)[i] = X[i]
    OBVIOUS
  <2> QED BY <2>1, SeqEqual
<1>3. ASSUME NEW k \in 1..K
      PROVE  SubSeq(X, 1, k) = Append(SubSeq(X, 1, k - 1), X[k])
  <2>1. k - 1 \in Nat /\ k - 1 <= K /\ X[k] \in V /\ k \in Nat
    OBVIOUS
  <2>2. /\ SubSeq(X, 1, k - 1) \in Seq(V) /\ Len(SubSeq(X, 1, k - 1)) = k - 1
        /\ \A i \in 1..(k - 1) : SubSeq(X, 1, k - 1)[i] = X[i]
    BY <2>1
  <2>3. /\ SubSeq(X, 1, k) \in Seq(V) /\ Len(SubSeq(X, 1, k)) = k
        /\ \A i \in 1..k : SubSeq(X, 1, k)[i] = X[i]
    BY <2>1
  <2> DEFINE s == SubSeq(X, 1, k - 1)
             t == SubSeq(X, 1, k)
  <2>4. /\ s \in Seq(V) /\ Len(s) = k - 1 /\ \A i \in 1..(k - 1) : s[i] = X[i]
        /\ t \in Seq(V) /\ Len(t) = k /\ \A i \in 1..k : t[i] = X[i]
    BY <2>2, <2>3
  <2> HIDE DEF s, t
  <2>5. /\ Append(s, X[k]) \in Seq(V) /\ Len(Append(s, X[k])) = k
        /\ \A i \in 1..k : Append(s, X[k])[i] = X[i]
    BY <2>1, <2>4
  <2>6. t = Append(s, X[k])
    BY <2>4, <2>5, SeqEqual
  <2> QED BY <2>6 DEF s, t
<1>4. ASSUME NEW k \in 1..K, k # 1
      PROVE  SubSeq(X, 1, k - 1)[k - 1] = X[k - 1]
  <2>1. k - 1 \in 1..K
    BY <1>4
  <2> QED BY <2>1
<1> QED BY <1>1, <1>2, <1>3, <1>4 DEF ByPlace

\* What Layout reads, if each entry reads as it should after the one before.
LEMMA LayoutIs ==
  ASSUME NEW pg, NEW starts, NEW K \in 0..MaxKeys, Linked(pg, starts, K, PageSize - 4),
         NEW V, NEW X \in Seq(V), Len(X) = K,
         \A k \in 1..K : EntryAt(pg, starts[k], IF k = 1 THEN <<>> ELSE X[k - 1].key,
                                 Dataoffset(pg, starts[k])) = X[k]
  PROVE  Layout(pg) = X
<1> DEFINE c == Chain(pg, PageSize - 4)
           Is(g) == g = [i \in 0..Len(c) |->
                           IF i = 0 THEN <<>>
                           ELSE Append(g[i - 1],
                                  EntryAt(pg, c[i], IF i = 1 THEN <<>> ELSE g[i - 1][i - 1].key,
                                          Dataoffset(pg, c[i])))]
           f == CHOOSE g : Is(g)
           found == [i \in 0..K |-> SubSeq(X, 1, i)]
<1>1. Layout(pg) = f[Len(c)]
  BY DEF Layout
<1>2. K \in Nat /\ Len(c) = K /\ \A k \in 1..K : c[k] = starts[k]
  <2>1. PageSize - 4 \in Nat /\ K \in Nat
    BY Sizes
  <2>2. c = SubSeq(starts, 1, K)
    BY <2>1, ChainIs
  <2>3. starts \in Seq(Nat) /\ Len(starts) = K + 1
    BY DEF Linked
  <2> HIDE DEF c
  <2> QED BY <2>1, <2>2, <2>3
<1> HIDE DEF c
<1>p. ByPlace(X, K)
  BY ONLY <1>2, PlaceByPlace, X \in Seq(V), Len(X) = K, Zenon
<1>3. found[0] = <<>> /\ found[K] = X
  BY <1>2, <1>p DEF ByPlace
<1>4. ASSUME NEW k \in 1..K
      PROVE  /\ found[k] = Append(found[k - 1], X[k])
             /\ X[k] = EntryAt(pg, c[k], IF k = 1 THEN <<>> ELSE found[k - 1][k - 1].key,
                               Dataoffset(pg, c[k]))
  <2>1. /\ SubSeq(X, 1, k) = Append(SubSeq(X, 1, k - 1), X[k])
        /\ k # 1 => SubSeq(X, 1, k - 1)[k - 1] = X[k - 1]
    BY <1>p, Zenon DEF ByPlace
  <2>2. found[k] = SubSeq(X, 1, k) /\ found[k - 1] = SubSeq(X, 1, k - 1)
    BY <1>2, SMTT(30)
  <2> HIDE DEF found
  <2> QED BY <1>2, <2>1, <2>2
<1>5. found = [k \in 0..K |-> found[k]]
  OBVIOUS
<1> HIDE DEF found
<1>6. Is(found)
  <2>1. \A k \in 0..K : k = 0 \/ k \in 1..K
    BY <1>2
  <2>2. \A k \in 0..K :
          found[k] = IF k = 0 THEN <<>>
                     ELSE Append(found[k - 1],
                            EntryAt(pg, c[k], IF k = 1 THEN <<>> ELSE found[k - 1][k - 1].key,
                                    Dataoffset(pg, c[k])))
    BY <1>3, <1>4, <2>1
  <2> QED BY <1>2, <1>5, <2>2
<1>7. Is(f)
  BY <1>6, Zenon
<1> HIDE DEF f
<1>8. /\ f[0] = <<>>
      /\ \A k \in 1..K :
           f[k] = Append(f[k - 1], EntryAt(pg, c[k], IF k = 1 THEN <<>> ELSE f[k - 1][k - 1].key,
                                           Dataoffset(pg, c[k])))
  <2>1. 0 \in 0..K /\ \A k \in 1..K : k \in 0..K /\ k # 0
    BY <1>2
  <2> QED BY <1>2, <1>7, <2>1
<1>9. f[K] = found[K]
  <2> DEFINE S == {k \in 0..K : f[k] = found[k]}
  <2>1. 0 \in S
    BY <1>2, <1>3, <1>8
  <2>2. ASSUME NEW k \in 1..K, k - 1 \in S PROVE k \in S
    <3>1. k \in 0..K /\ f[k - 1] = found[k - 1]
      BY <1>2, <2>2
    <3>2. f[k] = found[k]
      <4>1. f[k] = Append(f[k - 1], EntryAt(pg, c[k], IF k = 1 THEN <<>> ELSE f[k - 1][k - 1].key,
                                            Dataoffset(pg, c[k])))
        BY <1>8
      <4>2. found[k]
              = Append(found[k - 1], EntryAt(pg, c[k], IF k = 1 THEN <<>> ELSE found[k - 1][k - 1].key,
                                             Dataoffset(pg, c[k])))
        BY <1>4
      <4>3. PICK v : v = f[k - 1] /\ v = found[k - 1]
        BY <3>1
      <4> QED BY ONLY <4>1, <4>2, <4>3
    <3> QED BY <3>1, <3>2
  <2>3. 0..K \subseteq S
    <3> HIDE DEF S
    <3> QED BY <1>2, <2>1, <2>2, UpTo
  <2> QED BY <1>2, <2>3
<1> QED BY <1>1, <1>2, <1>3, <1>9

\* And so for parsepage.
LEMMA ParseIs ==
  ASSUME NEW pg, NEW starts, NEW K \in 0..MaxKeys, Linked(pg, starts, K, PageSize - 1),
         NEW X \in Seq(Key), Len(X) = K, <<pg[0], pg[1]>> = Magic,
         \A k \in 1..K : ParseEntryKey(pg, starts[k], IF k = 1 THEN <<>> ELSE X[k - 1]) = X[k]
  PROVE  ParsePage(pg) = X
<1> DEFINE c == Chain(pg, PageSize - 1)
           Is(g) == g = [i \in 0..Len(c) |->
                           IF i = 0 THEN <<>>
                           ELSE Append(g[i - 1],
                                  ParseEntryKey(pg, c[i], IF i = 1 THEN <<>> ELSE g[i - 1][i - 1]))]
           f == CHOOSE g : Is(g)
           found == [i \in 0..K |-> SubSeq(X, 1, i)]
<1>1. ParsePage(pg) = f[Len(c)]
  BY DEF ParsePage
<1>2. K \in Nat /\ Len(c) = K /\ \A k \in 1..K : c[k] = starts[k]
  <2>1. PageSize - 1 \in Nat /\ K \in Nat
    BY Sizes
  <2>2. c = SubSeq(starts, 1, K)
    BY <2>1, ChainIs
  <2>3. starts \in Seq(Nat) /\ Len(starts) = K + 1
    BY DEF Linked
  <2> HIDE DEF c
  <2> QED BY <2>1, <2>2, <2>3
<1> HIDE DEF c
<1>p. ByPlace(X, K)
  BY ONLY <1>2, PlaceByPlace, X \in Seq(Key), Len(X) = K, Zenon
<1>3. found[0] = <<>> /\ found[K] = X
  BY <1>2, <1>p DEF ByPlace
<1>4. ASSUME NEW k \in 1..K
      PROVE  /\ found[k] = Append(found[k - 1], X[k])
             /\ X[k] = ParseEntryKey(pg, c[k], IF k = 1 THEN <<>> ELSE found[k - 1][k - 1])
  <2>1. /\ SubSeq(X, 1, k) = Append(SubSeq(X, 1, k - 1), X[k])
        /\ k # 1 => SubSeq(X, 1, k - 1)[k - 1] = X[k - 1]
    BY <1>p, Zenon DEF ByPlace
  <2>2. found[k] = SubSeq(X, 1, k) /\ found[k - 1] = SubSeq(X, 1, k - 1)
    BY <1>2, SMTT(30)
  <2> HIDE DEF found
  <2> QED BY <1>2, <2>1, <2>2
<1>5. found = [k \in 0..K |-> found[k]]
  OBVIOUS
<1> HIDE DEF found
<1>6. Is(found)
  <2>1. \A k \in 0..K : k = 0 \/ k \in 1..K
    BY <1>2
  <2>2. \A k \in 0..K :
          found[k] = IF k = 0 THEN <<>>
                     ELSE Append(found[k - 1],
                            ParseEntryKey(pg, c[k], IF k = 1 THEN <<>> ELSE found[k - 1][k - 1]))
    BY <1>3, <1>4, <2>1
  <2> QED BY <1>2, <1>5, <2>2
<1>7. Is(f)
  BY <1>6, Zenon
<1> HIDE DEF f
<1>8. /\ f[0] = <<>>
      /\ \A k \in 1..K :
           f[k] = Append(f[k - 1], ParseEntryKey(pg, c[k], IF k = 1 THEN <<>> ELSE f[k - 1][k - 1]))
  <2>1. 0 \in 0..K /\ \A k \in 1..K : k \in 0..K /\ k # 0
    BY <1>2
  <2> QED BY <1>2, <1>7, <2>1
<1>9. f[K] = found[K]
  <2> DEFINE S == {k \in 0..K : f[k] = found[k]}
  <2>1. 0 \in S
    BY <1>2, <1>3, <1>8
  <2>2. ASSUME NEW k \in 1..K, k - 1 \in S PROVE k \in S
    <3>1. k \in 0..K /\ f[k - 1] = found[k - 1]
      BY <1>2, <2>2
    <3>2. f[k] = found[k]
      <4>1. f[k] = Append(f[k - 1], ParseEntryKey(pg, c[k], IF k = 1 THEN <<>> ELSE f[k - 1][k - 1]))
        BY <1>8
      <4>2. found[k]
              = Append(found[k - 1], ParseEntryKey(pg, c[k], IF k = 1 THEN <<>> ELSE found[k - 1][k - 1]))
        BY <1>4
      <4>3. PICK v : v = f[k - 1] /\ v = found[k - 1]
        BY <3>1
      <4> QED BY ONLY <4>1, <4>2, <4>3
    <3> QED BY <3>1, <3>2
  <2>3. 0..K \subseteq S
    <3> HIDE DEF S
    <3> QED BY <1>2, <2>1, <2>2, UpTo
  <2> QED BY <1>2, <2>3
<1> QED BY <1>1, <1>2, <1>3, <1>9

\* And for its data.
LEMMA ParsedIs ==
  ASSUME NEW pg, NEW starts, NEW K \in 0..MaxKeys, Linked(pg, starts, K, PageSize - 1),
         NEW X, X = [k \in 1..K |-> X[k]], \A k \in 1..K : ParseEntryData(pg, starts[k]) = X[k]
  PROVE  ParsedData(pg) = X
<1> DEFINE c == Chain(pg, PageSize - 1)
<1>1. DOMAIN c = 1..K /\ \A k \in 1..K : c[k] = starts[k]
  <2>1. PageSize - 1 \in Nat /\ K \in Nat
    BY Sizes
  <2>2. c = SubSeq(starts, 1, K)
    BY <2>1, ChainIs
  <2>3. starts \in Seq(Nat) /\ Len(starts) = K + 1
    BY DEF Linked
  <2> HIDE DEF c
  <2> QED BY <2>1, <2>2, <2>3
<1>2. ParsedData(pg) = [k \in DOMAIN c |-> ParseEntryData(pg, c[k])]
  BY DEF ParsedData
<1> HIDE DEF c
<1>3. [k \in DOMAIN c |-> ParseEntryData(pg, c[k])] = [k \in 1..K |-> X[k]]
  BY <1>1
<1> QED BY ONLY <1>2, <1>3, X = [k \in 1..K |-> X[k]], Zenon

-----------------------------------------------------------------------------
(* One entry of a page.                                                     *)

\* The entry e is on the page from o up to `to`, after one with the key `before`.
Written(pg, o, to, before, e) ==
  LET m == pg[o + 1]
      s == Len(e.key) - m
  IN  /\ o \in Nat /\ to \in (o + 3)..(PageSize - 1) /\ pg[o] = to
      /\ m \in 0..127 /\ m <= Len(before) /\ s \in Nat
      /\ \A i \in 1..m : e.key[i] = before[i]
      /\ \A i \in 1..s : pg[o + 2 + i] = e.key[m + i]
      /\ IF e.data = <<>> THEN pg[o + 2] = 0 /\ to = o + 3 + s
         ELSE /\ pg[o + 2] = o + 2 + s /\ to = o + 4 + s + Len(e.data) /\ pg[o + 3 + s] = 255
              /\ \A i \in 1..Len(e.data) : pg[o + 3 + s + i] = e.data[i]

\* A piece of the page.
LEMMA PieceIs ==
  ASSUME NEW pg, NEW c \in Nat, NEW o \in Nat, o + c <= PageSize,
         \A i \in 1..c : pg[o + i - 1] \in Nat
  PROVE  /\ Piece(pg, o, c) \in Seq(Nat) /\ Len(Piece(pg, o, c)) = c
         /\ \A i \in 1..c : Piece(pg, o, c)[i] = pg[o + i - 1]
<1> DEFINE p == Piece(pg, o, c)
<1>1. ASSUME NEW i \in 1..c PROVE Cell(pg, o + i - 1) = pg[o + i - 1]
  <2>1. o + i - 1 \in 0..(PageSize - 1)
    BY Sizes
  <2> QED BY <2>1, CellIs
<1>2. p = [i \in 1..c |-> pg[o + i - 1]]
  BY <1>1 DEF Piece
<1>3. p \in [1..c -> Nat]
  BY <1>2
<1>4. p \in Seq(Nat) /\ Len(p) = c
  <2> HIDE DEF p
  <2> QED BY <1>3, PlacedSeq
<1> QED BY <1>2, <1>4

LEMMA BytesAreNats == \A k \in Key : k \in Seq(Nat)
<1>1. \A S, T : \A s \in Seq(S) : S \subseteq T => s \in Seq(T)
  OBVIOUS
<1>2. 1..255 \subseteq Nat
  OBVIOUS
<1> QED BY ONLY <1>1, <1>2, Zenon DEF Key

\* The key of an entry: what it shares with the key before, then what is on the page.
LEMMA KeyReads ==
  ASSUME NEW pg, NEW o, NEW to, NEW before \in Key, NEW e \in BufferEntry,
         Written(pg, o, to, before, e)
  PROVE  /\ pg[o + 1] \in 0..127 /\ Len(e.key) - pg[o + 1] \in Nat
         /\ Take(before, pg[o + 1]) \o Piece(pg, o + 3, Len(e.key) - pg[o + 1]) = e.key
<1>1. /\ before \in Seq(Nat) /\ e.key \in Seq(Nat)
      /\ Len(before) \in Nat /\ Len(e.key) \in Nat
      /\ e.data = <<>> \/ Len(e.data) \in Nat
  <2>1. before \in Key /\ e.key \in Key /\ e.data \in Key
    BY DEF BufferEntry
  <2>2. before \in Seq(Nat) /\ e.key \in Seq(Nat) /\ e.data \in Seq(Nat)
    BY <2>1, BytesAreNats
  <2> QED BY <2>2
<1>2. PICK m, s \in Nat : /\ m = pg[o + 1] /\ s = Len(e.key) - m /\ Len(e.key) = m + s
                         /\ m \in 0..127
  <2>1. /\ pg[o + 1] \in 0..127 /\ Len(e.key) - pg[o + 1] \in Nat
    BY DEF Written
  <2>2. \A l, p \in Nat : l - p \in Nat => l = p + (l - p)
    OBVIOUS
  <2>3. 0..127 \subseteq Nat
    OBVIOUS
  <2> QED BY ONLY <1>1, <2>1, <2>2, <2>3, Zenon
<1>3. /\ o \in Nat /\ to \in (o + 3)..(PageSize - 1) /\ m <= Len(before)
      /\ o + 3 + s <= to
      /\ \A i \in 1..m : e.key[i] = before[i]
      /\ \A i \in 1..s : pg[o + 2 + i] = e.key[m + i]
  <2>1. /\ o \in Nat /\ to \in (o + 3)..(PageSize - 1) /\ m <= Len(before)
        /\ \A i \in 1..m : e.key[i] = before[i]
        /\ \A i \in 1..s : pg[o + 2 + i] = e.key[m + i]
        /\ e.data = <<>> => to = o + 3 + s
        /\ e.data # <<>> => to = o + 4 + s + Len(e.data)
    BY <1>2, Zenon DEF Written
  <2>2. o + 3 + s <= to
    BY ONLY <1>1, <2>1, s \in Nat
  <2> QED BY <2>1, <2>2
<1>4. /\ Take(before, m) \in Seq(Nat) /\ Len(Take(before, m)) = m
      /\ \A i \in 1..m : Take(before, m)[i] = e.key[i]
  <2>1. Take(before, m) = SubSeq(before, 1, m)
    BY <1>3 DEF Take
  <2>2. /\ SubSeq(before, 1, m) \in Seq(Nat) /\ Len(SubSeq(before, 1, m)) = m
        /\ \A i \in 1..m : SubSeq(before, 1, m)[i] = before[i]
    BY <1>1, <1>3
  <2> QED BY <1>3, <2>1, <2>2
<1>5. /\ Piece(pg, o + 3, s) \in Seq(Nat) /\ Len(Piece(pg, o + 3, s)) = s
      /\ \A i \in 1..s : Piece(pg, o + 3, s)[i] = e.key[m + i]
  <2>1. o + 3 \in Nat /\ o + 3 + s <= PageSize
    <3>1. o \in Nat /\ o + 3 + s <= to /\ to \in (o + 3)..(PageSize - 1)
      BY <1>3
    <3> QED BY ONLY <3>1, Sizes, s \in Nat
  <2>2. ASSUME NEW i \in 1..s
        PROVE  pg[o + 3 + i - 1] = e.key[m + i] /\ pg[o + 3 + i - 1] \in Nat
    <3>1. o + 3 + i - 1 = o + 2 + i
      BY <1>3
    <3>2. \A k \in 1..Len(e.key) : e.key[k] \in Nat
      BY ONLY <1>1
    <3>3. m + i \in 1..Len(e.key)
      BY <1>2, SMTT(30)
    <3> QED BY <1>3, <3>1, <3>2, <3>3
  <2>3. /\ Piece(pg, o + 3, s) \in Seq(Nat) /\ Len(Piece(pg, o + 3, s)) = s
        /\ \A i \in 1..s : Piece(pg, o + 3, s)[i] = pg[o + 3 + i - 1]
    BY ONLY <2>1, <2>2, s \in Nat, PieceIs
  <2> QED BY <2>2, <2>3
<1>6. PICK a, b \in Seq(Nat) : a = Take(before, m) /\ b = Piece(pg, o + 3, s)
  BY <1>4, <1>5
<1>7. a \o b \in Seq(Nat) /\ Len(a \o b) = m + s /\ \A i \in 1..(m + s) : (a \o b)[i] = IF i <= m THEN a[i] ELSE b[i - m]
  <2>1. Len(a) = m /\ Len(b) = s
    BY <1>4, <1>5, <1>6
  <2> QED BY ONLY <2>1, ConcatProperties, a \in Seq(Nat), b \in Seq(Nat)
<1>8. ASSUME NEW i \in 1..(m + s) PROVE (a \o b)[i] = e.key[i]
  <2>1. CASE i <= m
    <3>1. i \in 1..m
      BY <2>1
    <3> QED BY <1>4, <1>6, <1>7, <2>1, <3>1
  <2>2. CASE ~(i <= m)
    <3>1. i - m \in 1..s /\ m + (i - m) = i
      BY <2>2
    <3>2. b[i - m] = e.key[i]
      BY <1>5, <1>6, <3>1
    <3> QED BY <1>7, <2>2, <3>2
  <2> QED BY <2>1, <2>2
<1>9. a \o b = e.key
  <2>1. \A i \in 1..Len(a \o b) : (a \o b)[i] = e.key[i]
    BY <1>7, <1>8
  <2> QED BY ONLY <1>1, <1>2, <1>7, <2>1, SeqEqual, ZenonT(60)
<1> QED BY <1>2, <1>6, <1>9

LEMMA NoTimeCode == LongCode(Complement(NoTime)) = <<255>>
<1> DEFINE l == Complement(NoTime)
<1>1. l = <<255, 255, 255, 255>>
  <2>1. NoTime[1] = 0 /\ NoTime[2] = 0 /\ NoTime[3] = 0 /\ NoTime[4] = 0
    BY DEF NoTime
  <2>2. \A i \in 1..4 : i = 1 \/ i = 2 \/ i = 3 \/ i = 4
    OBVIOUS
  <2>3. l = [i \in 1..4 |-> 255]
    <3>1. \A i \in 1..4 : 255 - NoTime[i] = 255
      BY <2>1, <2>2
    <3> QED BY <3>1 DEF Complement
  <2>4. <<255, 255, 255, 255>> = [i \in 1..4 |-> 255]
    OBVIOUS
  <2> QED BY <2>3, <2>4
<1> HIDE DEF l
<1>2. SmallNegative(l)
  <2>1. l \in Seq(Nat) /\ Len(l) = 4 /\ l[1] = 255 /\ l[2] = 255 /\ l[3] = 255
    BY <1>1
  <2>2. /\ SubSeq(l, 1, 3) \in Seq(Nat) /\ Len(SubSeq(l, 1, 3)) = 3
        /\ SubSeq(l, 1, 3)[1] = 255 /\ SubSeq(l, 1, 3)[2] = 255 /\ SubSeq(l, 1, 3)[3] = 255
    BY <2>1
  <2>3. \A s \in Seq(Nat) :
          Len(s) = 3 /\ s[1] = 255 /\ s[2] = 255 /\ s[3] = 255 => s = <<255, 255, 255>>
    OBVIOUS
  <2>4. SubSeq(l, 1, 3) = <<255, 255, 255>>
    BY ONLY <2>2, <2>3
  <2> QED BY <2>4 DEF SmallNegative
<1>3. LowWord(l) = 65535
  BY <1>1 DEF LowWord
<1>4. OAQ(65535) = <<255>>
  BY DEF OAQ
<1>5. LongCode(l) = OAQ(LowWord(l))
  BY <1>2 DEF LongCode
<1> QED BY <1>3, <1>4, <1>5 DEF l

\* What a page says of an entry: to the layout, and to parseentry.
LaidOut(e) == [key |-> e.key, time |-> IF e.data = <<>> THEN <<>> ELSE Stamp, data |-> e.data]
Delivered(e) == IF e.data = <<>> THEN <<>> ELSE Stamp \o e.data

\* An entry's bytes, once more, with its lengths named.
Lengths(pg, o, to, before, e, m, s, d) ==
  /\ m = pg[o + 1] /\ d = Len(e.data) /\ m % 128 = m
  /\ Take(before, m) \o Piece(pg, o + 3, s) = e.key
  /\ Cell(pg, o) = to /\ Cell(pg, o + 1) = m /\ Cell(pg, o + 2) = pg[o + 2]
  /\ o \in Nat /\ to \in (o + 3)..(PageSize - 1)
  /\ e.data = <<>> => pg[o + 2] = 0 /\ to = o + 3 + s
  /\ e.data # <<>> => /\ pg[o + 2] = o + 2 + s /\ to = o + 4 + s + d /\ pg[o + 3 + s] = 255
                      /\ \A i \in 1..d : pg[o + 3 + s + i] = e.data[i] /\ e.data[i] \in Nat

LEMMA LengthsOf ==
  ASSUME NEW pg, NEW o, NEW to, NEW before \in Key, NEW e \in BufferEntry,
         Written(pg, o, to, before, e)
  PROVE  \E m, s, d \in Nat : Lengths(pg, o, to, before, e, m, s, d)
<1>1. e.data \in Seq(Nat) /\ Len(e.data) \in Nat
  <2>1. e.data \in Key
    BY DEF BufferEntry
  <2>2. e.data \in Seq(Nat)
    BY <2>1, BytesAreNats
  <2> QED BY <2>2
<1>2. PICK m, s, d \in Nat :
        /\ m = pg[o + 1] /\ s = Len(e.key) - m /\ d = Len(e.data) /\ m \in 0..127
        /\ Take(before, m) \o Piece(pg, o + 3, s) = e.key
  <2>1. 0..127 \subseteq Nat
    OBVIOUS
  <2>2. /\ pg[o + 1] \in 0..127 /\ Len(e.key) - pg[o + 1] \in Nat
        /\ Take(before, pg[o + 1]) \o Piece(pg, o + 3, Len(e.key) - pg[o + 1]) = e.key
    BY KeyReads
  <2> QED BY ONLY <1>1, <2>1, <2>2, Zenon
<1>3. /\ o \in Nat /\ to \in (o + 3)..(PageSize - 1) /\ pg[o] = to
      /\ e.data = <<>> => pg[o + 2] = 0 /\ to = o + 3 + s
      /\ e.data # <<>> => /\ pg[o + 2] = o + 2 + s /\ to = o + 4 + s + d /\ pg[o + 3 + s] = 255
                         /\ \A i \in 1..d : pg[o + 3 + s + i] = e.data[i]
  BY <1>2, Zenon DEF Written
<1>4. /\ Cell(pg, o) = to /\ Cell(pg, o + 1) = m /\ Cell(pg, o + 2) = pg[o + 2]
      /\ m % 128 = m
  <2>1. o \in 0..(PageSize - 1) /\ o + 1 \in 0..(PageSize - 1) /\ o + 2 \in 0..(PageSize - 1)
    BY <1>3, Sizes, SMTT(30)
  <2>2. m % 128 = m
    <3>1. m \in 0..(128 - 1) /\ 128 \in Nat \ {0}
      BY <1>2
    <3> QED BY ONLY <3>1, SmallRemainder
  <2> QED BY <1>2, <1>3, <2>1, <2>2, CellIs
<1>5. \A i \in 1..d : e.data[i] \in Nat
  BY <1>1, <1>2
<1>6. Lengths(pg, o, to, before, e, m, s, d)
  BY ONLY <1>2, <1>3, <1>4, <1>5, Zenon DEF Lengths
<1> QED BY <1>6

\* The layout reads the entry; its <dataoffset> is where the timestamp is.
LEMMA EntryReads ==
  ASSUME NEW pg, NEW o, NEW to, NEW before \in Key, NEW e \in BufferEntry,
         Written(pg, o, to, before, e)
  PROVE  EntryAt(pg, o, before, Dataoffset(pg, o)) = LaidOut(e)
<1>1. PICK m, s, d \in Nat : Lengths(pg, o, to, before, e, m, s, d)
  BY LengthsOf
<1>2. /\ m % 128 = m /\ Take(before, m) \o Piece(pg, o + 3, s) = e.key
      /\ Cell(pg, o) = to /\ Cell(pg, o + 1) = m /\ Cell(pg, o + 2) = pg[o + 2]
      /\ d = Len(e.data)
  BY <1>1, Zenon DEF Lengths
<1>n. o \in Nat /\ to \in (o + 3)..(PageSize - 1)
  BY <1>1, Zenon DEF Lengths
<1>3. CASE e.data = <<>>
  <2>1. Cell(pg, o + 2) = 0 /\ to - o - 3 = s
    BY <1>1, <1>2, <1>n, <1>3 DEF Lengths
  <2>2. Dataoffset(pg, o) = 0
    BY <2>1 DEF Dataoffset
  <2> QED BY <1>2, <1>3, <2>1, <2>2 DEF EntryAt, LaidOut
<1>4. CASE e.data # <<>>
  <2>1. /\ pg[o + 2] = o + 2 + s /\ to = o + 4 + s + d /\ pg[o + 3 + s] = 255
        /\ \A i \in 1..d : pg[o + 3 + s + i] = e.data[i] /\ e.data[i] \in Nat
    BY <1>1, <1>4, Zenon DEF Lengths
  <2>t. to = o + 4 + s + d
    BY <2>1
  <2>2. PICK p \in Nat : p = o + 3 + s
    BY ONLY <1>n, s \in Nat
  <2>3. /\ o + 2 + s # 0 /\ (o + 2 + s) + 1 = p /\ p # 0 /\ p - o - 3 = s /\ to - p - 1 = d
        /\ p + 1 + d <= PageSize /\ p + 1 \in Nat
    BY ONLY <1>n, <2>t, <2>2, Sizes, s \in Nat, d \in Nat
  <2>4. Dataoffset(pg, o) = p
    BY <1>2, <2>1, <2>3 DEF Dataoffset
  <2>5. Piece(pg, p, 1) = Stamp
    <3>1. pg[p] = 255 /\ p \in 0..(PageSize - 1)
      BY ONLY <2>1, <2>2, <2>3, Sizes, d \in Nat
    <3>2. Cell(pg, p) = 255
      BY <3>1, CellIs
    <3>3. Piece(pg, p, 1) = <<255>>
      <4>1. p + 1 - 1 = p
        OBVIOUS
      <4> QED BY <3>2, <4>1 DEF Piece
    <3> QED BY <3>3, NoTimeCode DEF Stamp
  <2>6. Piece(pg, p + 1, d) = e.data
    <3>1. \A i \in 1..d : pg[p + 1 + i - 1] = e.data[i] /\ pg[p + 1 + i - 1] \in Nat
      <4>1. \A i \in 1..d : p + 1 + i - 1 = o + 3 + s + i
        BY ONLY <1>n, <2>2, s \in Nat, d \in Nat
      <4> QED BY ONLY <2>1, <4>1
    <3>2. PICK q \in Nat : q = p + 1
      BY <2>3
    <3>3. /\ q + d <= PageSize /\ \A i \in 1..d : pg[q + i - 1] \in Nat
          /\ \A i \in 1..d : pg[q + i - 1] = e.data[i]
      BY ONLY <2>3, <3>1, <3>2
    <3>4. /\ Piece(pg, q, d) \in Seq(Nat) /\ Len(Piece(pg, q, d)) = d
          /\ \A i \in 1..d : Piece(pg, q, d)[i] = pg[q + i - 1]
      <4>1. q + d <= PageSize
        BY <3>3
      <4>2. \A i \in 1..d : pg[q + i - 1] \in Nat
        BY <3>3
      <4> QED BY ONLY <4>1, <4>2, d \in Nat, q \in Nat, PieceIs
    <3>5. e.data \in Seq(Nat)
      BY BytesAreNats DEF BufferEntry
    <3>6. \A i \in 1..d : Piece(pg, q, d)[i] = e.data[i]
      BY ONLY <3>3, <3>4
    <3>7. Piece(pg, q, d) = e.data
      BY ONLY <1>2, <3>4, <3>5, <3>6, SeqEqual
    <3> QED BY ONLY <3>2, <3>7, Zenon
  <2> QED BY <1>2, <1>4, <2>3, <2>4, <2>5, <2>6 DEF EntryAt, LaidOut
<1> QED BY <1>3, <1>4

LEMMA ParseReads ==
  ASSUME NEW pg, NEW o, NEW to, NEW before \in Key, NEW e \in BufferEntry,
         Written(pg, o, to, before, e), e.data = <<>>
  PROVE  ParseEntryKey(pg, o, before) = e.key
<1>1. PICK m, s, d \in Nat : Lengths(pg, o, to, before, e, m, s, d)
  BY LengthsOf
<1>2. /\ m % 128 = m /\ Take(before, m) \o Piece(pg, o + 3, s) = e.key
      /\ Cell(pg, o) = to /\ Cell(pg, o + 1) = m /\ Cell(pg, o + 2) = 0
      /\ o \in Nat /\ to = o + 3 + s
  BY <1>1 DEF Lengths
<1>3. (to - o - 3 + m) - m = s
  BY <1>2
<1> QED BY <1>2, <1>3 DEF ParseEntryKey

\* parseentry's data of the entry has the timestamp in front.
LEMMA DataReads ==
  ASSUME NEW pg, NEW o, NEW to, NEW before \in Key, NEW e \in BufferEntry,
         Written(pg, o, to, before, e)
  PROVE  ParseEntryData(pg, o) = Delivered(e)
<1>1. PICK m, s, d \in Nat : Lengths(pg, o, to, before, e, m, s, d)
  BY LengthsOf
<1>2. /\ Cell(pg, o) = to /\ Cell(pg, o + 2) = pg[o + 2]
      /\ d = Len(e.data)
  BY <1>1, Zenon DEF Lengths
<1>n. o \in Nat /\ to \in (o + 3)..(PageSize - 1)
  BY <1>1, Zenon DEF Lengths
<1>3. CASE e.data = <<>>
  <2>1. Cell(pg, o + 2) = 0
    BY <1>1, <1>2, <1>3 DEF Lengths
  <2> QED BY <1>3, <2>1 DEF ParseEntryData, Delivered
<1>4. CASE e.data # <<>>
  <2>1. /\ pg[o + 2] = o + 2 + s /\ to = o + 4 + s + d /\ pg[o + 3 + s] = 255
        /\ \A i \in 1..d : pg[o + 3 + s + i] = e.data[i] /\ e.data[i] \in Nat
    BY <1>1, <1>4, Zenon DEF Lengths
  <2>t. to = o + 4 + s + d
    BY <2>1
  <2>2. PICK p \in Nat, c \in Nat : p = o + 3 + s /\ c = d + 1
    <3>1. o + 3 + s \in Nat /\ d + 1 \in Nat
      BY ONLY <1>n, s \in Nat, d \in Nat
    <3> QED BY ONLY <3>1, Zenon
  <2>3. /\ o + 2 + s # 0 /\ (o + 2 + s) + 1 = p /\ to - (o + 2 + s) - 1 = c /\ p + c <= PageSize
    BY ONLY <1>n, <2>t, <2>2, Sizes, s \in Nat, d \in Nat
  <2>4. ParseEntryData(pg, o) = Piece(pg, p, c)
    BY <1>2, <2>1, <2>3 DEF ParseEntryData
  <2>5. /\ \A i \in 1..c : pg[p + i - 1] \in Nat
        /\ \A i \in 1..c : pg[p + i - 1] = IF i = 1 THEN 255 ELSE e.data[i - 1]
    <3>1. ASSUME NEW i \in 1..c
          PROVE  pg[p + i - 1] \in Nat /\ pg[p + i - 1] = IF i = 1 THEN 255 ELSE e.data[i - 1]
      <4>1. CASE i = 1
        <5>1. p + i - 1 = o + 3 + s
          BY ONLY <2>2, <4>1
        <5> QED BY <2>1, <4>1, <5>1
      <4>2. CASE i # 1
        <5>1. PICK k \in 1..d : k = i - 1 /\ p + i - 1 = o + 3 + s + k
          <6>1. i - 1 \in 1..d /\ p + i - 1 = o + 3 + s + (i - 1)
            BY ONLY <1>n, <2>2, <4>2, i \in 1..c, s \in Nat, d \in Nat
          <6> QED BY ONLY <6>1, Zenon
        <5> QED BY ONLY <2>1, <4>2, <5>1
      <4> QED BY <4>1, <4>2
    <3> QED BY <3>1
  <2>6. /\ Piece(pg, p, c) \in Seq(Nat) /\ Len(Piece(pg, p, c)) = c
        /\ \A i \in 1..c : Piece(pg, p, c)[i] = pg[p + i - 1]
    <3>1. p + c <= PageSize
      BY <2>3
    <3>2. \A i \in 1..c : pg[p + i - 1] \in Nat
      BY <2>5
    <3> QED BY ONLY <3>1, <3>2, p \in Nat, c \in Nat, PieceIs
  <2>7. PICK f \in Seq(Nat) : f = e.data /\ Len(f) = d
    <3>1. e.data \in Seq(Nat)
      BY BytesAreNats DEF BufferEntry
    <3> QED BY <1>2, <3>1
  <2>8. PICK b : b = <<255>>
    OBVIOUS
  <2>b. b \in Seq(Nat) /\ Len(b) = 1 /\ b[1] = 255
    BY <2>8
  <2>9. /\ b \o f \in Seq(Nat) /\ Len(b \o f) = c
        /\ \A i \in 1..c : (b \o f)[i] = IF i = 1 THEN 255 ELSE f[i - 1]
    <3>0. b \in Seq(Nat)
      BY <2>b
    <3>1. PICK p1 \in Nat : p1 = 1
      OBVIOUS
    <3>2. p1 = Len(b) /\ d = Len(f)
      BY ONLY <2>7, <2>b, <3>1
    <3>3. /\ b \o f \in Seq(Nat) /\ Len(b \o f) = p1 + d
          /\ \A i \in 1..(p1 + d) : (b \o f)[i] = IF i <= p1 THEN b[i] ELSE f[i - p1]
      BY ONLY <3>0, <3>2, ConcatProperties, f \in Seq(Nat)
    <3>4. p1 + d = c /\ \A i \in 1..c : (i <= p1 <=> i = 1) /\ i - p1 = i - 1
      BY ONLY <2>2, <3>1, d \in Nat
    <3>5. b \o f \in Seq(Nat) /\ Len(b \o f) = c
      BY ONLY <3>3, <3>4, Zenon
    <3>6. ASSUME NEW i \in 1..c PROVE (b \o f)[i] = IF i = 1 THEN 255 ELSE f[i - 1]
      <4>1. (b \o f)[i] = IF i <= p1 THEN b[i] ELSE f[i - p1]
        BY ONLY <3>3, <3>4, i \in 1..c, Zenon
      <4>2. (i <= p1 <=> i = 1) /\ i - p1 = i - 1
        BY ONLY <3>4, i \in 1..c
      <4>3. b[1] = 255
        BY <2>b
      <4>4. CASE i = 1
        BY ONLY <4>1, <4>2, <4>3, <4>4
      <4>5. CASE i # 1
        <5>1. f[i - p1] = f[i - 1]
          BY <4>2
        <5> QED BY ONLY <4>1, <4>2, <4>5, <5>1
      <4> QED BY <4>4, <4>5
    <3> QED BY <3>5, <3>6
  <2>10. \A i \in 1..c : Piece(pg, p, c)[i] = (b \o f)[i]
    <3>1. \A i \in 1..c : (b \o f)[i] = IF i = 1 THEN 255 ELSE e.data[i - 1]
      BY ONLY <2>7, <2>9, Zenon
    <3>2. ASSUME NEW i \in 1..c PROVE Piece(pg, p, c)[i] = (b \o f)[i]
      <4>1. Piece(pg, p, c)[i] = pg[p + i - 1]
        BY ONLY <2>6, i \in 1..c, Zenon
      <4>2. pg[p + i - 1] = IF i = 1 THEN 255 ELSE e.data[i - 1]
        BY ONLY <2>5, i \in 1..c, Zenon
      <4>3. (b \o f)[i] = IF i = 1 THEN 255 ELSE e.data[i - 1]
        BY ONLY <3>1, i \in 1..c, Zenon
      <4> QED BY ONLY <4>1, <4>2, <4>3
    <3> QED BY <3>2
  <2>11. Piece(pg, p, c) = b \o f
    BY ONLY <2>6, <2>9, <2>10, SeqEqual
  <2>12. Delivered(e) = b \o f
    BY <1>4, <2>7, <2>8, NoTimeCode DEF Delivered, Stamp
  <2> QED BY ONLY <2>4, <2>11, <2>12, Zenon
<1> QED BY <1>3, <1>4

\* The entries W are on the page, each where `starts` has it, and the rest is 0.
Stands(pg, W, starts) ==
  /\ <<pg[0], pg[1]>> = Magic
  /\ starts \in Seq(Nat) /\ Len(starts) = Len(W) + 1 /\ starts[1] = 4
  /\ \A k \in 1..Len(W) :
       Written(pg, starts[k], starts[k + 1], IF k = 1 THEN <<>> ELSE W[k - 1].key, W[k])
  /\ \A k \in 1..(Len(W) + 1) : starts[k] <= starts[Len(W) + 1]
  /\ \A o \in starts[Len(W) + 1]..(PageSize - 1) : pg[o] = 0

LEMMA StandsLinked ==
  ASSUME NEW pg, NEW W \in Entries, NEW starts, Stands(pg, W, starts),
         starts[Len(W) + 1] < PageSize - 1, NEW last \in Nat, last \in (PageSize - 4)..(PageSize - 1)
  PROVE  Linked(pg, starts, Len(W), last)
<1>1. PICK K \in Nat : K = Len(W)
  BY NoEntries
<1>2. /\ starts \in Seq(Nat) /\ Len(starts) = K + 1 /\ starts[1] = 4
      /\ \A k \in 1..(K + 1) : starts[k] <= starts[K + 1]
      /\ \A o \in starts[K + 1]..(PageSize - 1) : pg[o] = 0
      /\ starts[K + 1] < PageSize - 1
  BY <1>1 DEF Stands
<1>3. \A k \in 1..(K + 1) : starts[k] \in Nat
  BY <1>2
<1>4. ASSUME NEW k \in 1..K
      PROVE  /\ starts[k] <= last /\ pg[starts[k]] = starts[k + 1]
             /\ starts[k + 1] \in (starts[k] + 1)..(PageSize - 1)
  <2>1. /\ starts[k + 1] \in (starts[k] + 3)..(PageSize - 1) /\ pg[starts[k]] = starts[k + 1]
        /\ starts[k] \in Nat
    BY <1>1 DEF Stands, Written
  <2>2. starts[k + 1] <= starts[K + 1] /\ starts[k + 1] \in Nat /\ starts[K + 1] \in Nat
    <3>1. k + 1 \in 1..(K + 1) /\ K + 1 \in 1..(K + 1)
      OBVIOUS
    <3> QED BY <1>2, <1>3, <3>1
  <2>3. starts[K + 1] < PageSize - 1
    BY <1>2
  <2>4. starts[k] <= last /\ starts[k + 1] \in (starts[k] + 1)..(PageSize - 1)
    BY ONLY <2>1, <2>2, <2>3, Sizes, last \in Nat, last \in (PageSize - 4)..(PageSize - 1)
  <2> QED BY <2>1, <2>4
<1>5. starts[K + 1] < PageSize /\ pg[starts[K + 1]] = 0
  <2>1. starts[K + 1] \in Nat /\ starts[K + 1] < PageSize - 1
    BY <1>2, <1>3
  <2>2. starts[K + 1] < PageSize /\ starts[K + 1] \in starts[K + 1]..(PageSize - 1)
    BY ONLY <2>1, Sizes
  <2> QED BY <1>2, <2>2
<1> QED BY <1>1, <1>2, <1>4, <1>5 DEF Linked

LEMMA EmptyIsKey == <<>> \in Key /\ \A W \in Entries : \A k \in 1..Len(W) : W[k] \in BufferEntry
<1>1. <<>> \in Key
  BY DEF Key
<1>2. \A W \in Entries : \A k \in 1..Len(W) : W[k] \in BufferEntry
  BY SeqParts, Zenon DEF Entries
<1> QED BY <1>1, <1>2

\* Such a page reads back as its entries, unless they end where END goes round.
LEMMA StandsReads ==
  ASSUME NEW pg, NEW W \in Entries, NEW starts, Stands(pg, W, starts), Len(W) <= MaxKeys,
         starts[Len(W) + 1] < PageSize - 1
  PROVE  /\ Layout(pg) = [k \in DOMAIN W |-> LaidOut(W[k])]
         /\ (\A k \in DOMAIN W : W[k].data = <<>>) => ParsePage(pg) = [k \in DOMAIN W |-> W[k].key]
         /\ ParsedData(pg) = [k \in DOMAIN W |-> Delivered(W[k])]
<1>1. PICK K \in 0..MaxKeys : K = Len(W) /\ K \in Nat /\ DOMAIN W = 1..K
  <2>1. Len(W) \in Nat /\ DOMAIN W = 1..Len(W)
    BY SeqParts, Zenon DEF Entries
  <2>2. Len(W) \in 0..MaxKeys
    BY <2>1, Sizes
  <2> QED BY <2>1, <2>2, Zenon
<1>2. \A k \in 1..K : W[k] \in BufferEntry /\ W[k].key \in Key /\ W[k].data \in Key
  <2>1. \A e \in BufferEntry : e.key \in Key /\ e.data \in Key
    BY DEF BufferEntry
  <2> QED BY <1>1, <2>1, EmptyIsKey, Zenon
<1> DEFINE Before1(k) == IF k = 1 THEN <<>> ELSE W[k - 1].key
           V == {LaidOut(W[k]) : k \in 1..K}
           X == [k \in 1..K |-> LaidOut(W[k])]
           Y == [k \in 1..K |-> W[k].key]
           D == [k \in 1..K |-> Delivered(W[k])]
<1>3. \A k \in 1..K : Before1(k) \in Key
  <2>1. \A k \in 1..K : k = 1 \/ k - 1 \in 1..K
    BY <1>1
  <2> QED BY <1>2, <2>1, EmptyIsKey
<1>4. \A k \in 1..K : Written(pg, starts[k], starts[k + 1], Before1(k), W[k])
  BY <1>1 DEF Stands
<1>5. X \in Seq(V) /\ Len(X) = K /\ Y \in Seq(Key) /\ Len(Y) = K
  <2>1. X \in [1..K -> V]
    OBVIOUS
  <2>2. Y \in [1..K -> Key]
    BY <1>2
  <2> HIDE DEF X, Y, V
  <2> QED BY <1>1, <2>1, <2>2, PlacedSeq
<1>6. /\ \A k \in 1..K : X[k] = LaidOut(W[k])
      /\ \A k \in 1..K : Before1(k) = IF k = 1 THEN <<>> ELSE X[k - 1].key
  <2>1. \A k \in 1..K : X[k] = LaidOut(W[k])
    OBVIOUS
  <2>2. \A k \in 1..K : k # 1 => k - 1 \in 1..K
    BY <1>1
  <2>3. \A k \in 1..K : X[k].key = W[k].key
    BY <2>1 DEF LaidOut
  <2> HIDE DEF X
  <2> QED BY <2>1, <2>2, <2>3
<1>7. /\ \A k \in 1..K : Y[k] = W[k].key
      /\ \A k \in 1..K : Before1(k) = IF k = 1 THEN <<>> ELSE Y[k - 1]
  <2>1. \A k \in 1..K : k # 1 => k - 1 \in 1..K
    BY <1>1
  <2> QED BY <2>1
<1>d. D = [k \in 1..K |-> D[k]] /\ \A k \in 1..K : D[k] = Delivered(W[k])
  OBVIOUS
<1> HIDE DEF X, Y, V, D, Before1
<1>8. Layout(pg) = X
  <2>1. ASSUME NEW k \in 1..K
        PROVE  EntryAt(pg, starts[k], IF k = 1 THEN <<>> ELSE X[k - 1].key,
                       Dataoffset(pg, starts[k])) = X[k]
    <3>1. EntryAt(pg, starts[k], Before1(k), Dataoffset(pg, starts[k])) = LaidOut(W[k])
      BY <1>2, <1>3, <1>4, EntryReads
    <3> QED BY <1>6, <3>1
  <2>2. PageSize - 4 \in Nat /\ PageSize - 4 \in (PageSize - 4)..(PageSize - 1)
    BY Sizes
  <2>3. Linked(pg, starts, K, PageSize - 4)
    BY <1>1, <2>2, StandsLinked
  <2> QED BY <1>5, <2>1, <2>3, LayoutIs
<1>9. ASSUME \A k \in DOMAIN W : W[k].data = <<>> PROVE ParsePage(pg) = Y
  <2>1. ASSUME NEW k \in 1..K
        PROVE  ParseEntryKey(pg, starts[k], IF k = 1 THEN <<>> ELSE Y[k - 1]) = Y[k]
    <3>1. ParseEntryKey(pg, starts[k], Before1(k)) = W[k].key
      BY <1>1, <1>2, <1>3, <1>4, <1>9, ParseReads
    <3> QED BY <1>7, <3>1
  <2>2. PageSize - 1 \in Nat /\ PageSize - 1 \in (PageSize - 4)..(PageSize - 1)
    BY Sizes
  <2>3. Linked(pg, starts, K, PageSize - 1)
    BY <1>1, <2>2, StandsLinked
  <2>4. <<pg[0], pg[1]>> = Magic
    BY DEF Stands
  <2> QED BY <1>5, <2>1, <2>3, <2>4, ParseIs
<1>10. ParsedData(pg) = D
  <2>1. \A k \in 1..K : ParseEntryData(pg, starts[k]) = D[k]
    BY <1>2, <1>3, <1>4, <1>d, DataReads
  <2>2. PageSize - 1 \in Nat /\ PageSize - 1 \in (PageSize - 4)..(PageSize - 1)
    BY Sizes
  <2>3. Linked(pg, starts, K, PageSize - 1)
    BY <1>1, <2>2, StandsLinked
  <2> QED BY <1>d, <2>1, <2>3, ParsedIs
<1> QED BY <1>1, <1>8, <1>9, <1>10, SMTT(30) DEF X, Y, D

-----------------------------------------------------------------------------
(* packpage writes an entry.                                                *)

LEMMA GreatestOf ==
  ASSUME NEW L \in Nat, NEW S, S \subseteq 0..L, S # {}
  PROVE  \E m \in S : \A k \in S : k <= m
<1> DEFINE U == {L - k : k \in S}
<1>1. U \subseteq Nat /\ U # {}
  <2>1. \A k \in S : k \in 0..L
    OBVIOUS
  <2>2. \A k \in 0..L : L - k \in Nat
    OBVIOUS
  <2> QED BY <2>1, <2>2
<1>2. PICK u \in U : \A v \in U : u <= v
  <2> HIDE DEF U
  <2> QED BY <1>1, LeastOf
<1>3. PICK m \in S : u = L - m
  OBVIOUS
<1>4. ASSUME NEW k \in S PROVE k <= m
  <2>1. L - m <= L - k
    BY <1>2, <1>3
  <2>2. k \in 0..L /\ m \in 0..L
    OBVIOUS
  <2> QED BY ONLY <2>1, <2>2, L \in Nat
<1> QED BY <1>4

\* The prefix is shared with the key before, and short where keys are.
LEMMA PrefixIs ==
  ASSUME NEW before \in Key, NEW k, k \in Key, Entry.key = k,
         before = IF pkey = 0 THEN <<>> ELSE KeyOf(pkey)
  PROVE  /\ Prefix \in Nat /\ Prefix <= Len(k) /\ Prefix <= Len(before)
         /\ \A i \in 1..Prefix : k[i] = before[i]
<1> DEFINE same == {m \in 0..SharedLength : \A i \in 1..m : KeyOf(pkey)[i] = k[i]}
<1>1. Len(k) \in Nat /\ Len(before) \in Nat
  BY DEF Key
<1>2. SharedLength \in Nat /\ SharedLength <= Len(k) /\ SharedLength <= Len(before)
  <2>1. CASE pkey = 0
    <3>1. Len(before) = 0 /\ SharedLength = 0
      BY <2>1 DEF SharedLength
    <3> QED BY <1>1, <3>1
  <2>2. CASE pkey # 0
    <3>1. SharedLength = IF Len(k) <= Len(before) THEN Len(k) ELSE Len(before)
      BY <2>2 DEF SharedLength
    <3> QED BY ONLY <1>1, <3>1
  <2> QED BY <2>1, <2>2
<1>3. same \subseteq 0..SharedLength /\ same # {}
  <2>1. 0 \in same
    BY <1>2
  <2> QED BY <2>1
<1>4. Prefix = CHOOSE m \in same : \A i \in same : i <= m
  BY Zenon DEF Prefix
<1>5. Prefix \in same
  <2> HIDE DEF same
  <2>1. \E m \in same : \A i \in same : i <= m
    BY <1>2, <1>3, GreatestOf
  <2> QED BY <1>4, <2>1, Zenon
<1>6. Prefix \in 0..SharedLength /\ \A i \in 1..Prefix : KeyOf(pkey)[i] = k[i]
  <2> HIDE DEF Prefix
  <2> QED BY <1>5
<1>7. Prefix \in Nat /\ Prefix <= Len(k) /\ Prefix <= Len(before)
  BY ONLY <1>1, <1>2, <1>6
<1>8. \A i \in 1..Prefix : k[i] = before[i]
  <2>1. CASE pkey = 0
    <3>1. Prefix = 0
      BY <1>6, <2>1 DEF SharedLength
    <3> QED BY ONLY <3>1
  <2>2. CASE pkey # 0
    BY <1>6, <2>2
  <2> QED BY <2>1, <2>2
<1> QED BY <1>7, <1>8

\* Four sequences, one after the other.
Joined(S, a, b, c, d, p, q, r, t) ==
  /\ a \o b \o c \o d \in Seq(S) /\ Len(a \o b \o c \o d) = p + q + r + t
  /\ \A i \in 1..p : (a \o b \o c \o d)[i] = a[i]
  /\ \A i \in 1..q : (a \o b \o c \o d)[p + i] = b[i]
  /\ \A i \in 1..r : (a \o b \o c \o d)[p + q + i] = c[i]
  /\ \A i \in 1..t : (a \o b \o c \o d)[p + q + r + i] = d[i]

LEMMA JoinedFour ==
  ASSUME NEW S, NEW a \in Seq(S), NEW b \in Seq(S), NEW c \in Seq(S), NEW d \in Seq(S),
         NEW p \in Nat, NEW q \in Nat, NEW r \in Nat, NEW t \in Nat,
         p = Len(a), q = Len(b), r = Len(c), t = Len(d)
  PROVE  Joined(S, a, b, c, d, p, q, r, t)
<1> DEFINE ab == a \o b
           abc == ab \o c
           s == abc \o d
<1>1. PICK u \in Nat : u = p + q
  OBVIOUS
<1>2. PICK v \in Nat : v = u + r
  OBVIOUS
<1>3. ab \in Seq(S) /\ Len(ab) = u /\ \A i \in 1..u : ab[i] = IF i <= p THEN a[i] ELSE b[i - p]
  BY <1>1, ConcatProperties
<1> HIDE DEF ab
<1>4. abc \in Seq(S) /\ Len(abc) = v /\ \A i \in 1..v : abc[i] = IF i <= u THEN ab[i] ELSE c[i - u]
  BY <1>2, <1>3, ConcatProperties
<1> HIDE DEF abc
<1>5. /\ s \in Seq(S) /\ Len(s) = v + t
      /\ \A i \in 1..(v + t) : s[i] = IF i <= v THEN abc[i] ELSE d[i - v]
  BY <1>4, ConcatProperties
<1> HIDE DEF s
<1>6. ASSUME NEW i \in 1..p PROVE s[i] = a[i]
  <2>1. i \in 1..(v + t) /\ i <= v /\ i \in 1..v /\ i <= u /\ i \in 1..u /\ i <= p
    BY <1>1, <1>2
  <2> QED BY <1>3, <1>4, <1>5, <2>1
<1>7. ASSUME NEW i \in 1..q PROVE s[p + i] = b[i]
  <2>1. /\ p + i \in 1..(v + t) /\ p + i <= v /\ p + i \in 1..v
        /\ p + i <= u /\ p + i \in 1..u /\ ~(p + i <= p) /\ (p + i) - p = i
    BY <1>1, <1>2
  <2> QED BY <1>3, <1>4, <1>5, <2>1
<1>c. ASSUME NEW i \in 1..r PROVE s[u + i] = c[i]
  <2>1. /\ u + i \in 1..(v + t) /\ u + i <= v /\ u + i \in 1..v
        /\ ~(u + i <= u) /\ (u + i) - u = i
    BY <1>2
  <2> QED BY <1>4, <1>5, <2>1
<1>8. ASSUME NEW i \in 1..t PROVE s[v + i] = d[i]
  <2>1. v + i \in 1..(v + t) /\ ~(v + i <= v) /\ (v + i) - v = i
    OBVIOUS
  <2> QED BY <1>5, <2>1
<1> QED BY <1>1, <1>2, <1>5, <1>6, <1>7, <1>c, <1>8 DEF Joined, s, abc, ab

\* What packpage writes for an entry: three bytes, the suffix, and the data if any.
EntryBytes(b, e, m, s, d, third) ==
  /\ b \in Seq(Nat) /\ b[2] = m /\ \A i \in 1..s : b[3 + i] = e.key[m + i]
  /\ e.data = <<>> => Len(b) = 3 + s /\ b[3] = 0
  /\ e.data # <<>> => /\ Len(b) = 4 + s + d /\ b[3] = third /\ b[4 + s] = 255
                      /\ \A i \in 1..d : b[4 + s + i] = e.data[i]

AtEntry(e, m, s, d, o) ==
  e = Entry /\ m = Prefix /\ Len(e.key) = m + s /\ d = Len(e.data) /\ o = z

LEMMA BytesAre ==
  ASSUME NEW e \in BufferEntry, NEW m \in Nat, NEW s \in Nat, NEW d \in Nat, NEW o \in Nat,
         AtEntry(e, m, s, d, o), NEW x \in Nat
  PROVE  Bytes(x)[1] = x /\ EntryBytes(Bytes(x), e, m, s, d, Offset(o + 2 + s))
<1>0. e = Entry /\ m = Prefix /\ Len(e.key) = m + s /\ d = Len(e.data) /\ o = z
  BY Zenon DEF AtEntry
<1> USE <1>0
<1>1. e.key \in Seq(Nat) /\ e.data \in Seq(Nat)
  <2>1. e.key \in Key /\ e.data \in Key
    BY DEF BufferEntry
  <2> QED BY <2>1, BytesAreNats
<1>2. PICK suffix \in Seq(Nat) :
        /\ suffix = SubSeq(e.key, m + 1, Len(e.key)) /\ Len(suffix) = s
        /\ \A i \in 1..s : suffix[i] = e.key[m + i]
  <2>1. SubSeq(e.key, m + 1, m + s) \in Seq(Nat)
    BY <1>1
  <2>2. Len(SubSeq(e.key, m + 1, m + s)) = s
    BY <1>1
  <2>3. \A i \in 1..s : SubSeq(e.key, m + 1, m + s)[i] = e.key[m + i]
    BY <1>1
  <2> QED BY <2>1, <2>2, <2>3
<1>3. e.data = <<>> => Bytes(x) = <<x, m, 0>> \o suffix
  BY <1>2 DEF Bytes
<1>4. PICK y \in Nat : /\ y = Offset(o + 2 + s)
                       /\ e.data # <<>> => Bytes(x) = <<x, m, y>> \o suffix \o <<255>> \o e.data
  <2>1. o + 3 + s - 1 = o + 2 + s /\ o + 2 + s \in Nat
    BY ONLY o \in Nat, s \in Nat
  <2>2. Offset(o + 2 + s) \in Nat
    BY ONLY <2>1, Sizes DEF Offset
  <2> QED BY <1>2, <2>1, <2>2, NoTimeCode DEF Bytes, Stamp
<1>5. \A w \in Nat : /\ <<x, m, w>> \in Seq(Nat) /\ Len(<<x, m, w>>) = 3
                     /\ <<x, m, w>>[1] = x /\ <<x, m, w>>[2] = m /\ <<x, m, w>>[3] = w
  OBVIOUS
<1>6. /\ <<255>> \in Seq(Nat) /\ Len(<<255>>) = 1 /\ 1 \in 1..3 /\ 2 \in 1..3 /\ 3 \in 1..3
      /\ 3 \in Nat /\ 1 \in Nat /\ 0 \in Nat /\ 3 + s + 1 = 4 + s
  OBVIOUS
<1>7. ASSUME e.data = <<>>
      PROVE  /\ Bytes(x) \in Seq(Nat) /\ Bytes(x)[1] = x /\ Bytes(x)[2] = m
             /\ \A i \in 1..s : Bytes(x)[3 + i] = e.key[m + i]
             /\ Len(Bytes(x)) = 3 + s /\ Bytes(x)[3] = 0
  <2>1. PICK a \in Seq(Nat) : a = <<x, m, 0>> /\ Len(a) = 3 /\ a[1] = x /\ a[2] = m /\ a[3] = 0
    BY <1>5, <1>6
  <2>2. Bytes(x) = a \o suffix
    BY <1>3, <1>7, <2>1
  <2>3. /\ a \o suffix \in Seq(Nat) /\ Len(a \o suffix) = 3 + s
        /\ \A i \in 1..(3 + s) : (a \o suffix)[i] = IF i <= 3 THEN a[i] ELSE suffix[i - 3]
    <3>1. PICK p \in Nat : p = 3
      OBVIOUS
    <3>2. p = Len(a) /\ s = Len(suffix)
      BY <1>2, <2>1, <3>1
    <3>3. /\ a \o suffix \in Seq(Nat) /\ Len(a \o suffix) = p + s
          /\ \A i \in 1..(p + s) : (a \o suffix)[i] = IF i <= p THEN a[i] ELSE suffix[i - p]
      BY ONLY <3>2, ConcatProperties, a \in Seq(Nat), suffix \in Seq(Nat)
    <3> QED BY ONLY <3>1, <3>3, Zenon
  <2>4. \A i \in 1..3 : i \in 1..(3 + s) /\ i <= 3
    OBVIOUS
  <2>5. \A i \in 1..s : 3 + i \in 1..(3 + s) /\ ~(3 + i <= 3) /\ (3 + i) - 3 = i
    OBVIOUS
  <2>6. (a \o suffix)[1] = x /\ (a \o suffix)[2] = m /\ (a \o suffix)[3] = 0
    BY ONLY <1>6, <2>1, <2>3, <2>4
  <2>7. ASSUME NEW i \in 1..s PROVE (a \o suffix)[3 + i] = e.key[m + i]
    <3>1. PICK k : k = 3 + i /\ k \in 1..(3 + s) /\ ~(k <= 3) /\ k - 3 = i
      BY <2>5
    <3>2. (a \o suffix)[k] = suffix[k - 3]
      BY ONLY <2>3, <3>1
    <3>3. suffix[i] = e.key[m + i]
      BY ONLY <1>2, i \in 1..s, Zenon
    <3> QED BY ONLY <3>1, <3>2, <3>3, Zenon
  <2> QED BY ONLY <2>2, <2>3, <2>6, <2>7, Zenon
<1>8. ASSUME e.data # <<>>
      PROVE  /\ Bytes(x) \in Seq(Nat) /\ Bytes(x)[1] = x /\ Bytes(x)[2] = m
             /\ \A i \in 1..s : Bytes(x)[3 + i] = e.key[m + i]
             /\ Len(Bytes(x)) = 4 + s + d /\ Bytes(x)[3] = Offset(o + 2 + s) /\ Bytes(x)[4 + s] = 255
             /\ \A i \in 1..d : Bytes(x)[4 + s + i] = e.data[i]
  <2>1. PICK a \in Seq(Nat) : /\ a = <<x, m, y>> /\ Len(a) = 3
                             /\ a[1] = x /\ a[2] = m /\ a[3] = y
    BY <1>5, <1>6
  <2>2. PICK c \in Seq(Nat) : c = <<255>> /\ Len(c) = 1 /\ c[1] = 255
    BY <1>6
  <2>3. PICK b : b = a \o suffix \o c \o e.data /\ b = Bytes(x)
    BY ONLY <1>4, <1>8, <2>1, <2>2, Zenon
  <2>4. /\ b \in Seq(Nat) /\ Len(b) = 3 + s + 1 + d
        /\ \A i \in 1..3 : b[i] = a[i]
        /\ \A i \in 1..s : b[3 + i] = suffix[i]
        /\ \A i \in 1..1 : b[3 + s + i] = c[i]
        /\ \A i \in 1..d : b[3 + s + 1 + i] = e.data[i]
    <3>1. 3 = Len(a) /\ s = Len(suffix) /\ 1 = Len(c) /\ d = Len(e.data) /\ e.data \in Seq(Nat)
      BY <1>1, <1>2, <2>1, <2>2
    <3>2. PICK f \in Seq(Nat) : f = e.data
      BY <3>1
    <3>3. /\ a \o suffix \o c \o f \in Seq(Nat) /\ Len(a \o suffix \o c \o f) = 3 + s + 1 + d
          /\ \A i \in 1..3 : (a \o suffix \o c \o f)[i] = a[i]
          /\ \A i \in 1..s : (a \o suffix \o c \o f)[3 + i] = suffix[i]
          /\ \A i \in 1..1 : (a \o suffix \o c \o f)[3 + s + i] = c[i]
          /\ \A i \in 1..d : (a \o suffix \o c \o f)[3 + s + 1 + i] = f[i]
      <4>1. Joined(Nat, a, suffix, c, f, 3, s, 1, d)
        BY ONLY <1>6, <3>1, <3>2, JoinedFour, a \in Seq(Nat), suffix \in Seq(Nat),
                c \in Seq(Nat), f \in Seq(Nat), s \in Nat, d \in Nat, Zenon
      <4> QED BY ONLY <4>1, Zenon DEF Joined
    <3> QED BY ONLY <2>3, <3>2, <3>3, Zenon
  <2>5. b[1] = x /\ b[2] = m /\ b[3] = y
    BY ONLY <1>6, <2>1, <2>4
  <2>6. 3 + s + 1 + d = 4 + s + d /\ \A i \in 1..d : 3 + s + 1 + i = 4 + s + i
    BY ONLY s \in Nat, d \in Nat
  <2>7. \A i \in 1..s : b[3 + i] = e.key[m + i]
    BY ONLY <1>2, <2>4, Zenon
  <2>8. Len(b) = 4 + s + d /\ \A i \in 1..d : b[4 + s + i] = e.data[i]
    BY ONLY <2>4, <2>6
  <2>9. b[3] = Offset(o + 2 + s)
    BY ONLY <1>4, <2>5, Zenon
  <2>10. b[4 + s] = 255
    <3>1. 1 \in 1..1 /\ 3 + s + 1 = 4 + s
      BY ONLY s \in Nat
    <3>2. b[3 + s + 1] = c[1]
      BY ONLY <2>4, <3>1, Zenon
    <3> QED BY ONLY <2>2, <3>1, <3>2, Zenon
  <2>12. Bytes(x)[4 + s] = 255
    BY ONLY <2>3, <2>10
  <2> QED BY ONLY <2>3, <2>4, <2>5, <2>7, <2>8, <2>9, <2>12, ZenonT(60)
<1> QED BY <1>7, <1>8, Zenon DEF EntryBytes

Shares(e, m, s, d, before) ==
  /\ Len(e.key) = m + s /\ d = Len(e.data) /\ m <= Len(before)
  /\ \A i \in 1..m : e.key[i] = before[i]
OnPage(pg, o, to, b) ==
  /\ to = o + Len(b) /\ to < PageSize /\ b[1] = to
  /\ \A i \in 1..Len(b) : pg[o + i - 1] = b[i]

LEMMA EntryWritten ==
  ASSUME NEW pg, NEW o \in Nat, NEW b \in Seq(Nat), NEW to \in Nat, NEW m \in 0..127, NEW s \in Nat,
         NEW d \in Nat, NEW before \in Key, NEW e \in BufferEntry, Shares(e, m, s, d, before),
         EntryBytes(b, e, m, s, d, o + 2 + s), OnPage(pg, o, to, b)
  PROVE  Written(pg, o, to, before, e)
<1>0. /\ b[2] = m /\ \A i \in 1..s : b[3 + i] = e.key[m + i]
      /\ e.data = <<>> => Len(b) = 3 + s /\ b[3] = 0
      /\ e.data # <<>> => /\ Len(b) = 4 + s + d /\ b[3] = o + 2 + s /\ b[4 + s] = 255
                          /\ \A i \in 1..d : b[4 + s + i] = e.data[i]
  BY Zenon DEF EntryBytes
<1>s. /\ Len(e.key) = m + s /\ d = Len(e.data) /\ m <= Len(before)
      /\ \A i \in 1..m : e.key[i] = before[i]
      /\ to = o + Len(b) /\ to < PageSize /\ b[1] = to
      /\ \A i \in 1..Len(b) : pg[o + i - 1] = b[i]
  BY Zenon DEF Shares, OnPage
<1> USE <1>0, <1>s
<1>1. Len(b) \in Nat /\ Len(b) >= 3 + s /\ (e.data # <<>> => Len(b) >= 4 + s + d)
  <2>1. Len(b) \in Nat
    OBVIOUS
  <2>2. CASE e.data = <<>>
    <3>1. Len(b) = 3 + s
      BY <2>2
    <3> QED BY ONLY <2>1, <2>2, <3>1, s \in Nat
  <2>3. CASE e.data # <<>>
    <3>1. Len(b) = 4 + s + d
      BY <2>3
    <3> QED BY ONLY <2>1, <3>1, s \in Nat, d \in Nat
  <2> QED BY <2>2, <2>3
<1>2. /\ to \in (o + 3)..(PageSize - 1)
      /\ \A i \in 1..(3 + s) : i \in 1..Len(b)
      /\ e.data # <<>> => \A i \in 1..d : 4 + s + i \in 1..Len(b)
  <2>1. to \in (o + 3)..(PageSize - 1)
    BY ONLY <1>1, <1>s, o \in Nat, to \in Nat, s \in Nat, Sizes
  <2>2. \A i \in 1..(3 + s) : i \in 1..Len(b)
    BY ONLY <1>1, s \in Nat
  <2>3. e.data # <<>> => \A i \in 1..d : 4 + s + i \in 1..Len(b)
    BY ONLY <1>1, s \in Nat, d \in Nat
  <2> QED BY <2>1, <2>2, <2>3
<1>3. pg[o] = to /\ pg[o + 1] = m /\ pg[o + 2] = b[3]
  <2>1. 1 \in 1..Len(b) /\ 2 \in 1..Len(b) /\ 3 \in 1..Len(b)
    BY <1>2
  <2>2. o + 1 - 1 = o /\ o + 2 - 1 = o + 1 /\ o + 3 - 1 = o + 2
    OBVIOUS
  <2>3. pg[o + 1 - 1] = b[1] /\ pg[o + 2 - 1] = b[2] /\ pg[o + 3 - 1] = b[3]
    BY <2>1
  <2> QED BY <2>2, <2>3
<1>4. \A i \in 1..s : pg[o + 2 + i] = e.key[m + i]
  <2>1. ASSUME NEW i \in 1..s PROVE pg[o + 2 + i] = e.key[m + i]
    <3>1. 3 + i \in 1..Len(b) /\ o + (3 + i) - 1 = o + 2 + i
      BY <1>2
    <3>2. pg[o + (3 + i) - 1] = b[3 + i]
      BY <3>1
    <3> QED BY <3>1, <3>2
  <2> QED BY <2>1
<1>5. ASSUME e.data # <<>> PROVE \A i \in 1..d : pg[o + 3 + s + i] = e.data[i]
  <2>1. ASSUME NEW i \in 1..d PROVE pg[o + 3 + s + i] = e.data[i]
    <3>1. 4 + s + i \in 1..Len(b) /\ o + (4 + s + i) - 1 = o + 3 + s + i
      BY <1>2, <1>5
    <3>2. pg[o + (4 + s + i) - 1] = b[4 + s + i]
      BY <3>1
    <3> QED BY <1>5, <3>1, <3>2
  <2> QED BY <2>1
<1>c. ASSUME e.data # <<>> PROVE pg[o + 3 + s] = 255
  <2>1. 4 + s \in 1..Len(b) /\ o + (4 + s) - 1 = o + 3 + s
    BY ONLY <1>1, <1>c, o \in Nat, s \in Nat, d \in Nat
  <2>2. pg[o + (4 + s) - 1] = b[4 + s]
    BY <2>1
  <2> QED BY <1>c, <2>1, <2>2
<1>6. Len(e.key) - m = s /\ m \in Nat
  OBVIOUS
<1>7. CASE e.data = <<>>
  <2>1. Len(b) = 3 + s /\ b[3] = 0
    BY <1>7
  <2>2. to = o + (3 + s)
    BY ONLY <2>1, <1>s
  <2>3. pg[o + 2] = 0 /\ to = o + 3 + s
    BY ONLY <1>3, <2>1, <2>2, o \in Nat, s \in Nat
  <2> QED BY ONLY <1>s, <1>2, <1>3, <1>4, <1>6, <1>7, <2>3, o \in Nat, m \in 0..127, s \in Nat,
                  ZenonT(60) DEF Written
<1>8. CASE e.data # <<>>
  <2>1. /\ pg[o + 2] = o + 2 + s /\ to = o + 4 + s + Len(e.data) /\ pg[o + 3 + s] = 255
        /\ \A i \in 1..Len(e.data) : pg[o + 3 + s + i] = e.data[i]
    <3>1. Len(b) = 4 + s + d /\ b[3] = o + 2 + s
      BY <1>8
    <3>2. to = o + (4 + s + d)
      BY ONLY <3>1, <1>s
    <3>3. to = o + 4 + s + d
      BY ONLY <3>2, o \in Nat, s \in Nat, d \in Nat
    <3> QED BY ONLY <1>3, <1>5, <1>c, <1>8, <3>1, <3>3, <1>s, Zenon
  <2> QED BY ONLY <1>s, <1>2, <1>3, <1>4, <1>6, <1>8, <2>1, o \in Nat, m \in 0..127, s \in Nat,
                  ZenonT(60) DEF Written
<1> QED BY <1>7, <1>8

\* An entry stays written while its bytes do.
LEMMA StillWritten ==
  ASSUME NEW pg, NEW new, NEW o, NEW to, NEW before \in Key, NEW e \in BufferEntry,
         Written(pg, o, to, before, e), \A i \in o..(to - 1) : new[i] = pg[i]
  PROVE  Written(new, o, to, before, e)
<1>1. /\ Len(e.key) \in Nat /\ Len(e.data) \in Nat /\ (e.data # <<>> => Len(e.data) > 0)
  <2>1. e.key \in Seq(1..255) /\ e.data \in Seq(1..255)
    BY DEF BufferEntry, Key
  <2> QED BY <2>1
<1>2. o \in Nat /\ to \in (o + 3)..(PageSize - 1) /\ pg[o] = to
  BY DEF Written
<1>3. PICK m \in 0..127, s \in Nat, d \in Nat :
        m = pg[o + 1] /\ s = Len(e.key) - m /\ d = Len(e.data) /\ (e.data # <<>> => d > 0)
  <2>1. pg[o + 1] \in 0..127 /\ Len(e.key) - pg[o + 1] \in Nat
    BY Zenon DEF Written
  <2> QED BY ONLY <1>1, <2>1, Zenon
<1>4. /\ m <= Len(before)
      /\ \A i \in 1..m : e.key[i] = before[i]
      /\ \A i \in 1..s : pg[o + 2 + i] = e.key[m + i]
      /\ e.data = <<>> => pg[o + 2] = 0 /\ to = o + 3 + s
      /\ e.data # <<>> => /\ pg[o + 2] = o + 2 + s /\ to = o + 4 + s + d /\ pg[o + 3 + s] = 255
                          /\ \A i \in 1..d : pg[o + 3 + s + i] = e.data[i]
  BY <1>3, Zenon DEF Written
<1>5. /\ o \in o..(to - 1) /\ o + 1 \in o..(to - 1) /\ o + 2 \in o..(to - 1)
      /\ to >= o + 3 + s
  <2>1. to \in Nat /\ to >= o + 3
    BY <1>2, Sizes
  <2>2. to >= o + 3 + s
    <3>1. CASE e.data = <<>>
      <4>1. to = o + 3 + s
        BY <1>4, <3>1
      <4> QED BY ONLY <1>2, <2>1, <4>1
    <3>2. CASE e.data # <<>>
      <4>1. to = o + 4 + s + d 
        BY <1>4, <3>2
      <4> QED BY ONLY <1>2, <4>1, s \in Nat, d \in Nat
    <3> QED BY <3>1, <3>2
  <2> QED BY ONLY <1>2, <2>1, <2>2
<1>6. new[o] = to /\ new[o + 1] = m /\ new[o + 2] = pg[o + 2]
  BY <1>2, <1>3, <1>5
<1>7. \A i \in 1..s : new[o + 2 + i] = e.key[m + i]
  <2>1. \A i \in 1..s : o + 2 + i \in o..(to - 1)
    BY ONLY <1>2, <1>5, s \in Nat
  <2>2. ASSUME NEW i \in 1..s PROVE new[o + 2 + i] = e.key[m + i]
    <3>1. pg[o + 2 + i] = e.key[m + i]
      BY ONLY <1>4, i \in 1..s, Zenon
    <3>2. new[o + 2 + i] = pg[o + 2 + i]
      BY <2>1
    <3> QED BY ONLY <3>1, <3>2
  <2> QED BY <2>2
<1>8. e.data # <<>> => \A i \in 1..d : new[o + 3 + s + i] = e.data[i]
  <2> SUFFICES ASSUME e.data # <<>>, NEW i \in 1..d PROVE new[o + 3 + s + i] = e.data[i]
    OBVIOUS
  <2>1. to = o + 4 + s + d
    BY <1>4
  <2>2. o + 3 + s + i \in o..(to - 1)
    BY ONLY <1>2, <2>1, s \in Nat, d \in Nat, i \in 1..d
  <2> QED BY <1>4, <2>2
<1>9. e.data # <<>> => new[o + 3 + s] = 255
  <2> SUFFICES ASSUME e.data # <<>> PROVE new[o + 3 + s] = 255
    OBVIOUS
  <2>1. to = o + 4 + s + d /\ pg[o + 3 + s] = 255
    BY <1>4
  <2>2. o + 3 + s \in o..(to - 1)
    BY ONLY <1>2, <2>1, s \in Nat, d \in Nat
  <2> QED BY <2>1, <2>2
<1> QED BY <1>2, <1>3, <1>4, <1>6, <1>7, <1>8, <1>9 DEF Written

\* One entry more, written where the others end.
LEMMA StandsMore ==
  ASSUME NEW pg, NEW new, NEW W \in Entries, NEW starts, Stands(pg, W, starts),
         NEW e \in BufferEntry, NEW o, o = starts[Len(W) + 1], NEW to, NEW before,
         before = IF W = <<>> THEN <<>> ELSE W[Len(W)].key,
         Written(new, o, to, before, e),
         \A i \in 0..(o - 1) : new[i] = pg[i], \A i \in to..(PageSize - 1) : new[i] = 0
  PROVE  Stands(new, Append(W, e), Append(starts, to))
<1>1. PICK K \in Nat : K = Len(W)
  BY NoEntries
<1>2. /\ <<pg[0], pg[1]>> = Magic
      /\ starts \in Seq(Nat) /\ Len(starts) = K + 1 /\ starts[1] = 4
      /\ \A k \in 1..K : Written(pg, starts[k], starts[k + 1], IF k = 1 THEN <<>> ELSE W[k - 1].key, W[k])
      /\ \A k \in 1..(K + 1) : starts[k] <= starts[K + 1]
      /\ o = starts[K + 1]
  BY <1>1 DEF Stands
<1>3. o \in Nat /\ to \in Nat /\ to >= o + 3 /\ o >= 4
  <2>1. o \in Nat /\ to \in (o + 3)..(PageSize - 1)
    BY DEF Written
  <2>2. starts[1] <= starts[K + 1]
    <3>1. 1 \in 1..(K + 1)
      OBVIOUS
    <3> QED BY ONLY <1>2, <3>1
  <2> QED BY ONLY <1>2, <2>1, <2>2, Sizes
<1>4. PICK V, ends : V = Append(W, e) /\ ends = Append(starts, to)
  OBVIOUS
<1>5. /\ Len(V) = K + 1 /\ V[K + 1] = e /\ \A k \in 1..K : V[k] = W[k]
  <2>1. W \in Seq(BufferEntry)
    BY DEF Entries
  <2> QED BY <1>1, <1>4, <2>1
<1>6. /\ ends \in Seq(Nat) /\ Len(ends) = K + 2 /\ ends[K + 2] = to
      /\ \A k \in 1..(K + 1) : ends[k] = starts[k]
  BY ONLY <1>2, <1>3, <1>4, K \in Nat
<1>7. <<new[0], new[1]>> = Magic
  <2>1. 0 \in 0..(o - 1) /\ 1 \in 0..(o - 1)
    BY ONLY <1>3
  <2> QED BY <1>2, <2>1
<1>8. \A k \in 1..(K + 1) : starts[k] \in Nat /\ starts[k] <= o /\ starts[k] <= to
  <2>1. \A k \in 1..(K + 1) : starts[k] \in Nat
    BY ONLY <1>2, K \in Nat
  <2> QED BY ONLY <1>2, <1>3, <2>1
<1>9. ASSUME NEW k \in 1..K
      PROVE  Written(new, ends[k], ends[k + 1], IF k = 1 THEN <<>> ELSE V[k - 1].key, V[k])
  <2>1. k \in 1..(K + 1) /\ k + 1 \in 1..(K + 1) /\ (k # 1 => k - 1 \in 1..K)
    OBVIOUS
  <2>2. PICK b : b = IF k = 1 THEN <<>> ELSE W[k - 1].key
    OBVIOUS
  <2>3. b \in Key /\ W[k] \in BufferEntry
    <3>1. \A x \in BufferEntry : x.key \in Key
      BY DEF BufferEntry
    <3> QED BY <1>1, <2>1, <2>2, <3>1, EmptyIsKey
  <2>4. Written(pg, starts[k], starts[k + 1], b, W[k])
    BY <1>2, <2>2
  <2>5. \A i \in starts[k]..(starts[k + 1] - 1) : new[i] = pg[i]
    <3>1. starts[k] \in Nat /\ starts[k + 1] \in Nat /\ starts[k + 1] <= o
      BY <1>8, <2>1
    <3>2. \A i \in starts[k]..(starts[k + 1] - 1) : i \in 0..(o - 1)
      BY ONLY <1>3, <3>1
    <3> QED BY <3>2
  <2>6. Written(new, starts[k], starts[k + 1], b, W[k])
    BY <2>3, <2>4, <2>5, StillWritten
  <2>7. V[k] = W[k] /\ ends[k] = starts[k] /\ ends[k + 1] = starts[k + 1]
    BY <1>5, <1>6, <2>1
  <2>8. b = IF k = 1 THEN <<>> ELSE V[k - 1].key
    BY <1>5, <2>1, <2>2
  <2> QED BY ONLY <2>6, <2>7, <2>8, Zenon
<1>10. Written(new, ends[K + 1], ends[K + 2], IF K + 1 = 1 THEN <<>> ELSE V[K].key, V[K + 1])
  <2>1. ends[K + 1] = o /\ ends[K + 2] = to
    BY <1>2, <1>6
  <2>2. before = IF K + 1 = 1 THEN <<>> ELSE V[K].key
    <3>1. CASE K = 0
      <4>1. W = <<>>
        BY <1>1, <3>1, EmptySeq DEF Entries
      <4> QED BY <3>1, <4>1
    <3>2. CASE K # 0
      <4>1. W # <<>> /\ K \in 1..K /\ K + 1 # 1
        <5>1. Len(<<>>) = 0
          BY NoEntries
        <5> QED BY <1>1, <3>2, <5>1
      <4> QED BY <1>1, <1>5, <4>1
    <3> QED BY <3>1, <3>2
  <2> QED BY <1>5, <2>1, <2>2
<1>11. \A k \in 1..(K + 1) :
         Written(new, ends[k], ends[k + 1], IF k = 1 THEN <<>> ELSE V[k - 1].key, V[k])
  <2>1. \A k \in 1..(K + 1) : k \in 1..K \/ (k = K + 1 /\ k + 1 = K + 2 /\ k - 1 = K)
    OBVIOUS
  <2> QED BY <1>9, <1>10, <2>1
<1>12. \A k \in 1..(K + 2) : ends[k] <= ends[K + 2]
  <2>1. \A k \in 1..(K + 2) : k \in 1..(K + 1) \/ k = K + 2
    OBVIOUS
  <2>2. to <= to
    BY <1>3
  <2> QED BY <1>6, <1>8, <2>1, <2>2
<1>13. ends[1] = 4 /\ K + 1 + 1 = K + 2 /\ Len(V) + 1 = K + 2
  <2>1. 1 \in 1..(K + 1)
    OBVIOUS
  <2> QED BY <1>2, <1>5, <1>6, <2>1
<1>14. \A i \in ends[K + 2]..(PageSize - 1) : new[i] = 0
  BY <1>6
<1>15. Stands(new, V, ends)
  BY ONLY <1>5, <1>6, <1>7, <1>11, <1>12, <1>13, <1>14, Zenon DEF Stands
<1> QED BY <1>4, <1>15

-----------------------------------------------------------------------------
(* Every page holds what was packed into it.                                *)

\* Keys whose length leaves the prefix's high bit alone: it says "deleted" to a reader.
LinesShort == \A l \in Lines : Len(l.key) < 128

\* The page being packed, until it is filled up.
IsPage(pg) == pg = [o \in DOMAIN pg |-> pg[o]] /\ DOMAIN pg = 0..(PageSize - 1)
PageAtHand ==
  /\ IsPage(page) /\ z \in 4..(PageSize - 1)
  /\ Meant = <<>> <=> pkey = 0
  /\ pkey # 0 => KeyOf(pkey) = Meant[Len(Meant)].key
  /\ \E starts : Stands(page, Meant, starts) /\ starts[Len(Meant) + 1] = z
PageInv ==
  /\ n <= MaxKeys
  /\ pc = "entry" /\ ~full => PageAtHand

\* One entry, with or without a key.
LEMMA WithKeyOne ==
  ASSUME NEW e \in BufferEntry
  PROVE  WithKey(<<e>>) = IF e.key = <<>> THEN <<>> ELSE <<e>>
<1>1. <<e>> \in Entries /\ Len(<<e>>) = 1 /\ <<e>>[1] = e
  <2>1. <<e>> \in Seq(BufferEntry)
    OBVIOUS
  <2> QED BY <2>1 DEF Entries
<1>2. PICK f \in [0..1 -> Entries] :
        /\ f[0] = <<>> /\ f[1] = IF e.key = <<>> THEN f[0] ELSE f[0] \o <<e>>
        /\ WithKey(<<e>>) = f[1]
  <2>1. PICK f \in [0..1 -> Entries] :
          /\ f[0] = <<>>
          /\ \A k \in 1..1 : f[k] = IF <<e>>[k].key = <<>> THEN f[k - 1] ELSE f[k - 1] \o <<<<e>>[k]>>
          /\ WithKey(<<e>>) = f[1]
    BY <1>1, WithKeySteps
  <2>2. 1 \in 1..1 /\ 1 - 1 = 0
    OBVIOUS
  <2>3. f[1] = IF e.key = <<>> THEN f[0] ELSE f[0] \o <<e>>
    BY <1>1, <2>1, <2>2
  <2> QED BY <2>1, <2>3
<1>3. <<>> \o <<e>> = <<e>>
  BY <1>1, NoEntries
<1> QED BY ONLY <1>2, <1>3

LEMMA WithKeyLen ==
  ASSUME NEW s \in Entries
  PROVE  Len(WithKey(s)) \in Nat /\ Len(WithKey(s)) <= Len(s)
<1>1. PICK m \in Nat : m = Len(s)
  BY NoEntries
<1>2. PICK f \in [0..m -> Entries] :
        /\ f[0] = <<>>
        /\ \A k \in 1..m : f[k] = IF s[k].key = <<>> THEN f[k - 1] ELSE f[k - 1] \o <<s[k]>>
        /\ WithKey(s) = f[m]
  BY <1>1, WithKeySteps
<1> DEFINE S == {k \in 0..m : Len(f[k]) \in Nat /\ Len(f[k]) <= k}
<1>3. 0 \in S
  BY <1>1, <1>2, NoEntries
<1>4. ASSUME NEW k \in 1..m, k - 1 \in S PROVE k \in S
  <2>1. PICK v \in Entries : v = f[k - 1]
    BY <1>1, <1>2
  <2>2. Len(v) \in Nat /\ Len(v) <= k - 1 /\ k \in 0..m
    BY <1>4, <2>1
  <2>3. <<s[k]>> \in Entries /\ Len(<<s[k]>>) = 1
    <3>1. s[k] \in BufferEntry
      BY <1>1, EmptyIsKey
    <3>2. <<s[k]>> \in Seq(BufferEntry) /\ Len(<<s[k]>>) = 1
      BY <3>1
    <3> QED BY <3>2 DEF Entries
  <2>4. Len(v \o <<s[k]>>) = Len(v) + 1
    BY <2>3, NoEntries
  <2>5. Len(f[k]) = Len(v) \/ Len(f[k]) = Len(v) + 1
    BY <1>2, <2>1, <2>4
  <2>6. Len(f[k]) \in Nat /\ Len(f[k]) <= k
    BY ONLY <2>2, <2>5, k \in 1..m
  <2> QED BY <2>2, <2>6
<1>5. 0..m \subseteq S
  <2> HIDE DEF S
  <2> QED BY <1>3, <1>4, UpTo
<1>6. m \in S
  BY <1>5
<1> QED BY <1>1, <1>2, <1>6

\* What the page should hold, when packpage has gone one entry further.
LEMMA MeantMore ==
  ASSUME KeysInv, pc = "entry", next <= j, j < n
  PROVE  /\ Meant \in Entries /\ Entry \in BufferEntry /\ Len(Meant) <= j - next
         /\ WithKey(SubSeq(buffer, next + 1, j + 1))
              = IF Entry.key = <<>> THEN Meant ELSE Append(Meant, Entry)
<1>1. /\ buffer \in Seq(BufferEntry) /\ next \in Nat /\ j \in Nat /\ n = Len(buffer) /\ n \in Nat
      /\ Entry \in BufferEntry
  <2>1. buffer \in Seq(BufferEntry) /\ n = Len(buffer)
    BY DEF KeysInv, BufferTypeOK, n
  <2>2. n \in Nat
    BY <2>1
  <2>3. next \in 0..n /\ j \in Nat
    BY DEF KeysInv, BufferTypeOK
  <2> QED BY <2>1, <2>2, <2>3, EntryFacts
<1>2. PICK s : s = SubSeq(buffer, next + 1, j)
  OBVIOUS
<1>3. /\ s \in Seq(BufferEntry) /\ Len(s) = j - next
      /\ \A k \in 1..(j - next) : s[k] = buffer[next + k]
  BY <1>1, <1>2
<1>4. PICK e \in BufferEntry : e = Entry /\ e = buffer[j + 1]
  BY <1>1 DEF Entry
<1>5. SubSeq(buffer, next + 1, j + 1) = s \o <<e>>
  <2>1. /\ SubSeq(buffer, next + 1, j + 1) \in Seq(BufferEntry)
        /\ Len(SubSeq(buffer, next + 1, j + 1)) = j - next + 1
        /\ \A k \in 1..(j - next + 1) : SubSeq(buffer, next + 1, j + 1)[k] = buffer[next + k]
    BY <1>1
  <2>2. /\ Append(s, e) \in Seq(BufferEntry) /\ Len(Append(s, e)) = j - next + 1
        /\ Append(s, e)[j - next + 1] = e /\ \A k \in 1..(j - next) : Append(s, e)[k] = s[k]
    BY <1>1, <1>3
  <2>3. ASSUME NEW k \in 1..(j - next + 1)
        PROVE  SubSeq(buffer, next + 1, j + 1)[k] = Append(s, e)[k]
    <3>1. CASE k = j - next + 1
      <4>1. next + k = j + 1
        BY <1>1, <3>1
      <4> QED BY <1>4, <2>1, <2>2, <3>1, <4>1
    <3>2. CASE k # j - next + 1
      <4>1. k \in 1..(j - next)
        BY <1>1, <3>2
      <4> QED BY <1>3, <2>1, <2>2, <4>1
    <3> QED BY <3>1, <3>2
  <2>4. SubSeq(buffer, next + 1, j + 1) = Append(s, e)
    BY <2>1, <2>2, <2>3, SeqEqual
  <2> QED BY <1>3, <2>4, AppendIsConcat
<1>6. s \in Entries /\ <<e>> \in Entries
  <2>1. <<e>> \in Seq(BufferEntry)
    OBVIOUS
  <2> QED BY <1>3, <2>1 DEF Entries
<1>7. PICK w \in Entries : w = WithKey(s) /\ w = Meant
  BY <1>2, <1>6, WithKeyJoined DEF Meant
<1>8. WithKey(s \o <<e>>) = w \o WithKey(<<e>>)
  BY <1>6, <1>7, WithKeyJoined, ZenonT(40)
<1>9. w \o WithKey(<<e>>) = IF e.key = <<>> THEN w ELSE Append(w, e)
  <2>1. WithKey(<<e>>) = IF e.key = <<>> THEN <<>> ELSE <<e>>
    BY WithKeyOne
  <2>2. w \o <<>> = w
    BY NoEntries
  <2>3. w \in Seq(BufferEntry)
    BY DEF Entries
  <2>4. w \o <<e>> = Append(w, e)
    BY <2>3, AppendIsConcat
  <2> QED BY <2>1, <2>2, <2>4
<1>10. Len(w) <= j - next
  <2>1. Len(w) \in Nat /\ Len(w) <= Len(s)
    BY <1>6, <1>7, WithKeyLen
  <2> QED BY <1>3, <2>1
<1> QED BY ONLY <1>1, <1>4, <1>5, <1>7, <1>8, <1>9, <1>10, Zenon

\* An empty page.
LEMMA HeaderPage ==
  ASSUME PackInv, PageInv, Header
  PROVE  PageInv'
<1>1. /\ pc' = "entry" /\ z' = 4 /\ pkey' = 0 /\ full' = FALSE /\ buffer' = buffer
      /\ next' = next /\ j' = next /\ n' = n
      /\ page' = [o \in 0..(PageSize - 1) |->
                    CASE o < 2 -> Magic[o + 1] [] o = 2 -> Offset(next)
                      [] o = 3 -> next \div PageSize [] OTHER -> 0]
  BY DEF Header, n
<1>2. Meant' = <<>>
  <2>1. SubSeq(buffer, next + 1, next) = <<>>
    BY DEF PackInv, KeysInv, BufferTypeOK, n
  <2>2. Meant' = WithKey(SubSeq(buffer', next' + 1, j'))
    BY DEF Meant
  <2> QED BY <1>1, <2>1, <2>2, WithKeyNone
<1>3. PICK pg : pg = page'
  OBVIOUS
<1>4. /\ pg[0] = Magic[1] /\ pg[1] = Magic[2] /\ DOMAIN pg = 0..(PageSize - 1)
      /\ \A o \in 4..(PageSize - 1) : pg[o] = 0
  <2>1. 0 \in 0..(PageSize - 1) /\ 1 \in 0..(PageSize - 1) /\ 4 \in 4..(PageSize - 1)
    BY Sizes
  <2>2. \A o \in 4..(PageSize - 1) : o \in 0..(PageSize - 1) /\ ~(o < 2) /\ o # 2 /\ o # 3
    BY Sizes
  <2>3. /\ pg[0] = Magic[0 + 1] /\ pg[1] = Magic[1 + 1]
        /\ DOMAIN pg = 0..(PageSize - 1)
    BY <1>1, <1>3, <2>1
  <2>4. \A o \in 4..(PageSize - 1) : pg[o] = 0
    BY <1>1, <1>3, <2>2
  <2> QED BY <2>3, <2>4
<1>p. IsPage(page')
  <2>1. page' = [o \in DOMAIN page' |-> page'[o]]
    BY ONLY <1>1
  <2> QED BY <1>3, <1>4, <2>1 DEF IsPage
<1>5. Stands(pg, <<>>, <<4>>)
  <2>1. Len(<<>>) = 0 /\ <<4>> \in Seq(Nat) /\ Len(<<4>>) = 1 /\ <<4>>[1] = 4
    OBVIOUS
  <2>2. <<pg[0], pg[1]>> = Magic
    BY <1>4 DEF Magic
  <2>3. 0 + 1 = 1 /\ (\A k \in 1..0 : FALSE) /\ (\A k \in 1..1 : k = 1 /\ 4 <= 4)
    OBVIOUS
  <2>4. \A k \in 1..(Len(<<>>) + 1) : <<4>>[k] <= <<4>>[Len(<<>>) + 1]
    BY <2>1, <2>3
  <2>5. \A k \in 1..Len(<<>>) : FALSE
    BY <2>1, <2>3
  <2>6. <<4>>[Len(<<>>) + 1] = 4 /\ Len(<<4>>) = Len(<<>>) + 1
    BY <2>1, <2>3
  <2> QED BY ONLY <1>4, <2>1, <2>2, <2>4, <2>5, <2>6, Zenon DEF Stands
<1>6. 4 \in 4..(PageSize - 1)
  BY Sizes
<1>7. <<4>>[Len(<<>>) + 1] = 4
  OBVIOUS
<1>8. PageAtHand'
  BY <1>1, <1>2, <1>3, <1>p, <1>5, <1>6, <1>7 DEF PageAtHand
<1> QED BY <1>1, <1>8 DEF PageInv

\* An entry without a key leaves the page alone.
LEMMA NoKeyPage ==
  ASSUME PackInv, PageInv, NoKey
  PROVE  PageInv'
<1>1. /\ pc = "entry" /\ j < n /\ Entry.key = <<>> /\ j' = j + 1
      /\ n' = n /\ UNCHANGED <<pc, file, buffer, page, next, z, pkey, full>>
  BY DEF NoKey, n
<1>2. next <= j
  BY <1>1 DEF PackInv, PackedInOrder
<1>3. Meant' = Meant
  <2>1. WithKey(SubSeq(buffer, next + 1, j + 1)) = Meant
    BY <1>1, <1>2, MeantMore DEF PackInv
  <2>2. Meant' = WithKey(SubSeq(buffer', next' + 1, j'))
    BY DEF Meant
  <2> QED BY <1>1, <2>1, <2>2
<1>4. KeyOf(pkey)' = KeyOf(pkey)
  BY <1>1 DEF KeyOf
<1>5. PageAtHand => PageAtHand'
  BY <1>1, <1>3, <1>4, Zenon DEF PageAtHand
<1> QED BY <1>1, <1>5 DEF PageInv

\* The entry stands where the others end.
LEMMA PackEntryPage ==
  ASSUME LinesShort, LinesFit, PackInv, PageInv, PackEntry, ~full'
  PROVE  PageAtHand'
<1>1. PICK e \in BufferEntry, W \in Entries :
        /\ e = Entry /\ W = Meant /\ Meant' = Append(W, e) /\ Len(W) \in Nat
        /\ e.key \in Key /\ e.key # <<>> /\ e.data \in Key /\ e.id \in Nat \ {0}
        /\ Len(e.key) < 128 /\ KeyOf(e.id) = e.key /\ KeyOf(e.id)' = e.key
        /\ 8 + Len(e.key) + Len(e.data) <= PageSize
  <2>1. /\ pc = "entry" /\ j < n /\ j' = j + 1 /\ Entry.key # <<>>
        /\ buffer' = buffer /\ next' = next /\ file' = file /\ next <= j
    BY DEF PackEntry, PackInv, PackedInOrder
  <2>2. /\ Meant \in Entries /\ Entry \in BufferEntry
        /\ WithKey(SubSeq(buffer, next + 1, j + 1)) = Append(Meant, Entry)
    BY <2>1, MeantMore DEF PackInv
  <2>3. Meant' = Append(Meant, Entry)
    <3>1. Meant' = WithKey(SubSeq(buffer', next' + 1, j'))
      BY DEF Meant
    <3> QED BY <2>1, <2>2, <3>1
  <2>4. /\ Entry.id \in DOMAIN file /\ Entry.id \in Nat \ {0} /\ Entry.key = KeyOf(Entry.id)
        /\ Entry.data = file[Entry.id].data
    BY <2>1, EntryFacts DEF PackInv
  <2>5. file[Entry.id] \in Lines
    BY <2>4 DEF PackInv, KeysInv, BufferTypeOK
  <2>6. Len(Entry.key) < 128 /\ 8 + Len(Entry.key) + Len(Entry.data) <= PageSize
    BY <2>4, <2>5 DEF LinesShort, LinesFit, KeyOf
  <2>7. \A x \in BufferEntry : x.key \in Key /\ x.data \in Key
    BY DEF BufferEntry
  <2>8. KeyOf(Entry.id)' = file'[Entry'.id].key
    BY DEF KeyOf
  <2>9. PICK e \in BufferEntry, W \in Entries : e = Entry /\ W = Meant
    BY <2>2
  <2>10. file'[e.id].key = e.key /\ KeyOf(e.id) = e.key
    BY <2>1, <2>4, <2>9 DEF KeyOf
  <2>11. KeyOf(e.id)' = file'[e.id].key
    BY DEF KeyOf
  <2>12. Len(W) \in Nat
    BY NoEntries
  <2> QED BY <2>1, <2>3, <2>4, <2>6, <2>7, <2>9, <2>10, <2>11, <2>12
<1>2. /\ DOMAIN page = 0..(PageSize - 1) /\ z \in 4..(PageSize - 1)
      /\ W = <<>> <=> pkey = 0
      /\ pkey # 0 => KeyOf(pkey) = W[Len(W)].key
  BY <1>1 DEF PackEntry, PageInv, PageAtHand, IsPage
<1>3. PICK starts : Stands(page, W, starts) /\ starts[Len(W) + 1] = z
  BY <1>1 DEF PackEntry, PageInv, PageAtHand
<1>o. PICK o \in Nat : o = z /\ o < PageSize
  BY <1>2, Sizes
<1>4. PICK before \in Key : /\ before = IF pkey = 0 THEN <<>> ELSE KeyOf(pkey)
                           /\ before = IF W = <<>> THEN <<>> ELSE W[Len(W)].key
  <2>1. CASE W = <<>>
    BY <1>2, <2>1, EmptyIsKey
  <2>2. CASE W # <<>>
    <3>1. Len(W) \in 1..Len(W)
      <4>1. Len(W) # 0
        BY <2>2, EmptySeq DEF Entries
      <4> QED BY <1>1, <4>1
    <3>2. W[Len(W)].key \in Key
      <4>1. \A x \in BufferEntry : x.key \in Key
        BY DEF BufferEntry
      <4> QED BY <3>1, <4>1, EmptyIsKey
    <3> QED BY <1>2, <2>2, <3>2
  <2> QED BY <2>1, <2>2
<1>5. PICK m \in 0..127, s \in Nat, d \in Nat :
        /\ m = Prefix /\ Len(e.key) = m + s /\ d = Len(e.data) /\ m <= Len(before)
        /\ \A i \in 1..m : e.key[i] = before[i]
  <2>1. /\ Prefix \in Nat /\ Prefix <= Len(e.key) /\ Prefix <= Len(before)
        /\ \A i \in 1..Prefix : e.key[i] = before[i]
    BY <1>1, <1>4, PrefixIs
  <2>2. Len(e.key) \in Nat /\ Len(e.data) \in Nat
    BY <1>1 DEF Key
  <2>3. PICK m \in Nat, s \in Nat : m = Prefix /\ Len(e.key) = m + s /\ m \in 0..127
    <3>1. PICK m \in Nat, l \in Nat : m = Prefix /\ l = Len(e.key) /\ m <= l /\ l < 128
      BY <1>1, <2>1, <2>2
    <3>2. l - m \in Nat /\ l = m + (l - m) /\ m \in 0..127
      BY ONLY <3>1
    <3> QED BY ONLY <3>1, <3>2, Zenon
  <2> QED BY ONLY <2>1, <2>2, <2>3, Zenon
<1>6. PICK len \in Nat :
        /\ len = IF e.data = <<>> THEN 3 + s ELSE 4 + s + d
        /\ \A x \in Nat : /\ Bytes(x) \in Seq(Nat) /\ Bytes(x)[1] = x /\ Len(Bytes(x)) = len
                          /\ EntryBytes(Bytes(x), e, m, s, d, Offset(o + 2 + s))
  <2>1. m \in Nat /\ AtEntry(e, m, s, d, o)
    BY <1>1, <1>5, <1>o DEF AtEntry
  <2>2. ASSUME NEW x \in Nat
        PROVE  Bytes(x)[1] = x /\ EntryBytes(Bytes(x), e, m, s, d, Offset(o + 2 + s))
    BY ONLY <2>1, e \in BufferEntry, s \in Nat, d \in Nat, o \in Nat, x \in Nat,
            BytesAre, Zenon
  <2>3. PICK len \in Nat : len = IF e.data = <<>> THEN 3 + s ELSE 4 + s + d
    OBVIOUS
  <2>4. ASSUME NEW x \in Nat PROVE Bytes(x) \in Seq(Nat) /\ Len(Bytes(x)) = len
    BY <2>2, <2>3, Zenon DEF EntryBytes
  <2> QED BY ONLY <2>2, <2>3, <2>4, Zenon
<1>7. PICK b \in Seq(Nat), to \in Nat :
        b = Bytes(to) /\ to = o + len /\ to < PageSize /\ Len(b) = len
  <2>1. Len(Bytes(0)) = len
    BY <1>6
  <2>2. Len(Bytes(Offset(z + Len(Bytes(0))))) = len
    <3>1. Offset(z + Len(Bytes(0))) \in Nat
      BY ONLY <1>o, <2>1, len \in Nat, o \in Nat, Sizes DEF Offset
    <3> QED BY <1>6, <3>1
  <2>3. o + len <= PageSize /\ o + len # PageSize
    <3>1. full' = (full \/ z + Len(Bytes(Offset(z + Len(Bytes(0))))) = PageSize)
      BY DEF PackEntry
    <3>2. o + len # PageSize
      BY ONLY <1>o, <2>2, <3>1, ~full', Zenon
    <3>3. PICK k \in Nat : k = m + s /\ k = Len(e.key) /\ 8 + k + d <= PageSize
      BY <1>1, <1>5
    <3>4. 3 + 1 + k + d - m = 4 + s + d /\ 4 + s + d \in 0..(PageSize - 1)
      BY ONLY <3>3, Sizes, m \in 0..127, s \in Nat, d \in Nat
    <3>5. (4 + s + d) % PageSize = 4 + s + d
      <4>1. PageSize \in Nat \ {0}
        BY Sizes
      <4> QED BY <3>4, <4>1, SmallRemainder
    <3>6. Need = (3 + 1 + k + d - m) % PageSize
      BY <1>1, <1>5, <3>3, Zenon DEF Need
    <3>7. PageSize - o >= 4 + s + d
      <4>1. PageSize - z >= Need
        BY DEF PackEntry, Fits
      <4> QED BY ONLY <1>o, <3>4, <3>5, <3>6, <4>1
    <3>8. len <= 4 + s + d
      <4>1. len = 3 + s \/ len = 4 + s + d
        BY <1>6
      <4> QED BY ONLY <4>1, s \in Nat, d \in Nat, len \in Nat
    <3> QED BY ONLY <3>2, <3>7, <3>8, Sizes, o \in Nat, s \in Nat, d \in Nat, len \in Nat
  <2>4. PICK to \in Nat : to = o + len /\ to < PageSize
    BY ONLY <2>3, Sizes, o \in Nat, len \in Nat
  <2> QED BY <1>6, <2>4
<1>8. /\ page' = [i \in DOMAIN page |-> IF i \in o..(to - 1) THEN b[i - o + 1] ELSE page[i]]
      /\ z' = to
  <2>1. Len(Bytes(0)) = len
    BY <1>6
  <2>2. Offset(z + Len(Bytes(0))) = to /\ Offset(to) = to
    <3>1. to \in 0..(PageSize - 1)
      BY ONLY <1>7, Sizes
    <3> QED BY <1>o, <1>7, <2>1, <3>1, CellIs
  <2>3. Bytes(Offset(z + Len(Bytes(0)))) = b /\ z + Len(b) = to
    BY <1>o, <1>7, <2>2
  <2>4. LET bytes == Bytes(Offset(z + Len(Bytes(0))))
        IN  /\ page' = [i \in DOMAIN page |->
                          IF i \in z..(z + Len(bytes) - 1) THEN bytes[i - z + 1] ELSE page[i]]
            /\ z' = Offset(z + Len(bytes))
    BY DEF PackEntry
  <2>5. /\ page' = [i \in DOMAIN page |->
                      IF i \in z..(z + Len(b) - 1) THEN b[i - z + 1] ELSE page[i]]
        /\ z' = Offset(z + Len(b))
    BY ONLY <2>3, <2>4
  <2> QED BY ONLY <1>o, <2>2, <2>3, <2>5
<1>9. PICK new : /\ new = page' /\ DOMAIN new = 0..(PageSize - 1)
                 /\ \A i \in 0..(PageSize - 1) : new[i] = IF i \in o..(to - 1) THEN b[i - o + 1] ELSE page[i]
  <2>1. PICK new : new = page' /\ new = [i \in DOMAIN page |-> IF i \in o..(to - 1) THEN b[i - o + 1] ELSE page[i]]
    BY <1>8
  <2>2. /\ DOMAIN new = DOMAIN page
        /\ \A i \in DOMAIN page : new[i] = IF i \in o..(to - 1) THEN b[i - o + 1] ELSE page[i]
    BY ONLY <2>1
  <2>3. new = page'
    BY <2>1
  <2>4. DOMAIN page = 0..(PageSize - 1)
    BY <1>2
  <2> QED BY ONLY <2>2, <2>3, <2>4, ZenonT(60)
<1>10. to >= o + 3 /\ to \in 4..(PageSize - 1) /\ o >= 4
  <2>1. o >= 4
    BY ONLY <1>2, <1>o, Sizes
  <2>2. len >= 3
    BY ONLY <1>6, s \in Nat, d \in Nat, len \in Nat
  <2> QED BY ONLY <1>7, <2>1, <2>2, Sizes, o \in Nat, len \in Nat
<1>11. \A i \in 0..(o - 1) : new[i] = page[i]
  <2>1. \A i \in 0..(o - 1) : i \in 0..(PageSize - 1) /\ i \notin o..(to - 1)
    BY ONLY <1>o, o \in Nat, to \in Nat, Sizes
  <2> QED BY <1>9, <2>1
<1>12. \A i \in to..(PageSize - 1) : new[i] = 0
  <2>1. \A i \in to..(PageSize - 1) : /\ i \in 0..(PageSize - 1) /\ i \notin o..(to - 1)
                                      /\ i \in o..(PageSize - 1)
    BY ONLY <1>10, o \in Nat, to \in Nat, Sizes
  <2>2. \A i \in o..(PageSize - 1) : page[i] = 0
    BY <1>3, <1>o DEF Stands
  <2> QED BY <1>9, <2>1, <2>2
<1>13. \A i \in 1..Len(b) : new[o + i - 1] = b[i]
  <2>1. \A i \in 1..len : /\ o + i - 1 \in 0..(PageSize - 1) /\ o + i - 1 \in o..(to - 1)
                          /\ (o + i - 1) - o + 1 = i
    BY ONLY <1>7, o \in Nat, to \in Nat, len \in Nat, Sizes
  <2> QED BY <1>7, <1>9, <2>1
<1>14. Written(new, o, to, before, e)
  <2>1. b[1] = to /\ EntryBytes(b, e, m, s, d, Offset(o + 2 + s))
    BY ONLY <1>6, <1>7, Zenon
  <2>2. e.data # <<>> => Offset(o + 2 + s) = o + 2 + s
    <3> SUFFICES ASSUME e.data # <<>> PROVE Offset(o + 2 + s) = o + 2 + s
      OBVIOUS
    <3>1. to = o + (4 + s + d)
      BY <1>6, <1>7
    <3>2. o + 2 + s \in 0..(PageSize - 1)
      BY ONLY <1>7, <3>1, o \in Nat, s \in Nat, d \in Nat, Sizes
    <3> QED BY <3>2, CellIs
  <2>3. EntryBytes(b, e, m, s, d, o + 2 + s)
    BY ONLY <2>1, <2>2, Zenon DEF EntryBytes
  <2>4. OnPage(new, o, to, b)
    BY <1>7, <1>13, <2>1 DEF OnPage
  <2>5. Shares(e, m, s, d, before)
    BY <1>5, Zenon DEF Shares
  <2> QED BY ONLY <2>3, <2>4, <2>5, EntryWritten, o \in Nat, b \in Seq(Nat),
          to \in Nat, m \in 0..127, s \in Nat, d \in Nat, before \in Key, e \in BufferEntry, Zenon
<1>15. Stands(new, Append(W, e), Append(starts, to))
  <2>1. o = starts[Len(W) + 1]
    BY <1>3, <1>o
  <2> QED BY ONLY <1>3, <1>4, <1>11, <1>12, <1>14, <2>1, StandsMore, W \in Entries,
          e \in BufferEntry, Zenon
<1>16. /\ Len(Append(W, e)) = Len(W) + 1 /\ Append(W, e)[Len(W) + 1] = e /\ Append(W, e) # <<>>
       /\ Append(starts, to)[Len(W) + 1 + 1] = to
  <2>1. W \in Seq(BufferEntry)
    BY DEF Entries
  <2>2. Len(Append(W, e)) = Len(W) + 1 /\ Append(W, e)[Len(W) + 1] = e
    BY <2>1
  <2>3. Append(W, e) # <<>>
    <3>1. Len(<<>>) = 0 /\ Len(W) + 1 # 0
      BY <1>1, NoEntries
    <3> QED BY <2>2, <3>1
  <2>4. starts \in Seq(Nat) /\ Len(starts) = Len(W) + 1
    BY <1>3 DEF Stands
  <2>5. Append(starts, to)[Len(W) + 1 + 1] = to
    BY <1>1, <2>4
  <2> QED BY <2>2, <2>3, <2>5
<1>17. pkey' = e.id /\ pkey' # 0
  BY <1>1 DEF PackEntry
<1>18. KeyOf(pkey)' = e.key
  <2>1. KeyOf(pkey)' = file'[pkey'].key /\ KeyOf(e.id)' = file'[e.id].key
    BY DEF KeyOf
  <2> QED BY <1>1, <1>17, <2>1
<1>19. /\ Meant' # <<>> /\ Meant'[Len(Meant')].key = e.key /\ z' = to
       /\ Stands(page', Meant', Append(starts, to)) /\ Append(starts, to)[Len(Meant') + 1] = z'
  BY <1>1, <1>8, <1>9, <1>15, <1>16
<1>20. IsPage(page')
  <2>1. page' = [i \in DOMAIN page' |-> page'[i]]
    BY ONLY <1>8
  <2> QED BY <1>9, <2>1 DEF IsPage
<1> QED BY <1>10, <1>17, <1>18, <1>19, <1>20 DEF PageAtHand

\* The entry stands where the others end, in PageInv's words.
LEMMA EntryPage ==
  ASSUME LinesShort, LinesFit, PackInv, PageInv, PackEntry
  PROVE  PageInv'
<1>1. n' <= MaxKeys
  BY DEF PageInv, PackEntry, n
<1>2. ~full' => PageAtHand'
  BY PackEntryPage
<1> QED BY <1>1, <1>2 DEF PageInv

\* A page of a flush, with what was packed into it.
Holds(p) ==
  LET keys == [k \in DOMAIN p[2] |-> p[2][k].key]
  IN \/ p[3]
     \/ /\ Layout(p[1]) = [k \in DOMAIN p[2] |-> LaidOut(p[2][k])]
        /\ (\A k \in DOMAIN p[2] : p[2][k].data = <<>>) => ParsePage(p[1]) = keys
        /\ ParsedData(p[1]) = [k \in DOMAIN p[2] |-> Delivered(p[2][k])]

LEMMA PagesHoldIs == PagesHold <=> \A i \in DOMAIN packed : Holds(packed[i])
<1> DEFINE Keys(i) == [k \in DOMAIN packed[i][2] |-> packed[i][2][k].key]
           Laid(i) == [k \in DOMAIN packed[i][2] |->
                         [key |-> Keys(i)[k],
                          time |-> IF packed[i][2][k].data = <<>> THEN <<>> ELSE Stamp,
                          data |-> packed[i][2][k].data]]
<1>1. PagesHold <=>
        \A i \in DOMAIN packed :
          \/ packed[i][3]
          \/ /\ Layout(packed[i][1]) = Laid(i)
             /\ (\A k \in DOMAIN packed[i][2] : packed[i][2][k].data = <<>>)
                  => ParsePage(packed[i][1]) = Keys(i)
             /\ ParsedData(packed[i][1])
                  = [k \in DOMAIN packed[i][2] |->
                       IF packed[i][2][k].data = <<>> THEN <<>> ELSE Stamp \o packed[i][2][k].data]
  BY Zenon DEF PagesHold
<1>2. \A i : Laid(i) = [k \in DOMAIN packed[i][2] |-> LaidOut(packed[i][2][k])]
  BY DEF LaidOut
<1>3. \A i : [k \in DOMAIN packed[i][2] |->
                IF packed[i][2][k].data = <<>> THEN <<>> ELSE Stamp \o packed[i][2][k].data]
               = [k \in DOMAIN packed[i][2] |-> Delivered(packed[i][2][k])]
  BY DEF Delivered
<1> QED BY <1>1, <1>2, <1>3, Zenon DEF Holds

LEMMA OneHolds ==
  ASSUME PackedInOrder, \A i \in DOMAIN packed : Holds(packed[i]),
         NEW p, Holds(p), packed' = Append(packed, p)
  PROVE  \A i \in DOMAIN packed' : Holds(packed'[i])
<1>1. PICK m \in Nat : m = Len(packed) /\ DOMAIN packed = 1..m
  BY SeqParts DEF PackedInOrder
<1>2. packed \in Seq(ToSet(packed) \cup {p}) /\ p \in ToSet(packed) \cup {p}
  <2>1. packed \in Seq(ToSet(packed))
    BY DEF PackedInOrder
  <2>2. \A S, U : S \subseteq U => \A s \in Seq(S) : s \in Seq(U)
    OBVIOUS
  <2> QED BY ONLY <2>1, <2>2
<1>3. PICK T : packed \in Seq(T) /\ p \in T
  BY <1>2
<1>4. /\ DOMAIN packed' = 1..(m + 1) /\ packed'[m + 1] = p
      /\ \A i \in 1..m : packed'[i] = packed[i]
  BY <1>1, <1>3
<1>5. \A i \in 1..(m + 1) : i \in 1..m \/ i = m + 1
  OBVIOUS
<1> QED BY ONLY <1>1, <1>4, <1>5, Holds(p), \A i \in DOMAIN packed : Holds(packed[i]), Zenon

\* packpage ends a page: END lands on a byte that is 0 already.
LEMMA EndPageHolds ==
  ASSUME PackInv, PageInv, EndPage, Meant # <<>>
  PROVE  \E p : Holds(p) /\ packed' = Append(packed, p)
<1> DEFINE final == [page EXCEPT ![Offset(z + 1)] = 0]
           p == <<final, Meant, full \/ z + 1 = PageSize>>
<1>1. packed' = Append(packed, p)
  BY DEF EndPage
<1>2. CASE full \/ z + 1 = PageSize
  <2>1. p[3]
    BY <1>2
  <2> HIDE DEF p
  <2> QED BY <1>1, <2>1 DEF Holds
<1>3. CASE ~(full \/ z + 1 = PageSize)
  <2>1. /\ pc = "entry" /\ buffer \in Seq(BufferEntry) /\ n = Len(buffer) /\ n \in Nat /\ n <= MaxKeys
        /\ next \in Nat /\ j \in Nat /\ next <= j /\ j <= n
    <3>1. pc = "entry" /\ buffer \in Seq(BufferEntry) /\ n = Len(buffer) /\ n \in Nat /\ n <= MaxKeys
      BY DEF EndPage, PackInv, KeysInv, BufferTypeOK, PageInv, n
    <3>2. next \in 0..n /\ j \in 0..n /\ next <= j
      BY <3>1 DEF PackInv, KeysInv, BufferTypeOK, PackedInOrder
    <3> QED BY <3>1, <3>2
  <2>2. PICK W \in Entries : W = Meant /\ Len(W) <= MaxKeys
    <3>1. PICK s : s = SubSeq(buffer, next + 1, j)
      OBVIOUS
    <3>2. s \in Seq(BufferEntry) /\ Len(s) = j - next
      BY <2>1, <3>1
    <3>3. s \in Entries
      BY <3>2 DEF Entries
    <3>4. WithKey(s) \in Entries
      BY <3>3, NoEntries, WithKeyJoined
    <3>5. Len(WithKey(s)) \in Nat /\ Len(WithKey(s)) <= Len(s)
      BY <3>3, WithKeyLen
    <3>6. Len(WithKey(s)) <= MaxKeys
      BY ONLY <2>1, <3>2, <3>5, Sizes
    <3> QED BY <3>1, <3>4, <3>6 DEF Meant
  <2>3. PageAtHand
    BY <1>3, <2>1 DEF PageInv
  <2>4. PICK starts : Stands(page, W, starts) /\ starts[Len(W) + 1] = z
    BY <2>2, <2>3 DEF PageAtHand
  <2>5. z < PageSize - 1 /\ z + 1 \in 0..(PageSize - 1) /\ z + 1 \in z..(PageSize - 1)
    <3>1. z \in 4..(PageSize - 1) /\ z + 1 # PageSize
      BY <1>3, <2>3 DEF PageAtHand
    <3> QED BY ONLY <3>1, Sizes
  <2>6. final = page
    <3>1. Offset(z + 1) = z + 1
      BY <2>5, CellIs
    <3>2. page[z + 1] = 0
      BY <2>4, <2>5 DEF Stands
    <3>3. page = [i \in DOMAIN page |-> page[i]]
      BY <2>3 DEF PageAtHand, IsPage
    <3>4. [page EXCEPT ![z + 1] = 0] = page
      BY ONLY <3>2, <3>3
    <3> QED BY <3>1, <3>4
  <2>7. /\ Layout(page) = [k \in DOMAIN W |-> LaidOut(W[k])]
        /\ (\A k \in DOMAIN W : W[k].data = <<>>) => ParsePage(page) = [k \in DOMAIN W |-> W[k].key]
        /\ ParsedData(page) = [k \in DOMAIN W |-> Delivered(W[k])]
    BY <2>2, <2>4, <2>5, StandsReads
  <2>8. PICK q : q = p /\ q[1] = page /\ q[2] = W
    <3>1. \A a, b, c : <<a, b, c>>[1] = a /\ <<a, b, c>>[2] = b
      OBVIOUS
    <3>2. p[1] = final /\ p[2] = Meant
      BY <3>1, Zenon DEF p
    <3> HIDE DEF p, final
    <3> QED BY ONLY <2>2, <2>6, <3>2, Zenon
  <2>9. Holds(q)
    BY ONLY <2>7, <2>8, Zenon DEF Holds
  <2> QED BY <1>1, <2>8, <2>9
<1> QED BY <1>2, <1>3

LEMMA NextHolds ==
  ASSUME PackInv, PageInv, PagesHold, [Next]_vars
  PROVE  PagesHold'
<1>1. PagesHold' <=> \A i \in DOMAIN packed' : Holds(packed'[i])
  <2>1. (PagesHold <=> \A i \in DOMAIN packed : Holds(packed[i]))'
    BY PagesHoldIs, PTL
  <2> QED BY <2>1 DEF Holds, Layout, ParsePage, ParsedData, LaidOut, Delivered
<1>2. ASSUME packed' = packed PROVE PagesHold'
  BY <1>1, <1>2, PagesHoldIs
<1>3. CASE Flush
  <2>1. DOMAIN packed' = {}
    BY <1>3 DEF Flush
  <2> QED BY <1>1, <2>1
<1>4. CASE EndPage
  <2>1. CASE Meant = <<>>
    BY <1>2, <1>4, <2>1 DEF EndPage
  <2>2. CASE Meant # <<>>
    <3>1. PICK p : Holds(p) /\ packed' = Append(packed, p)
      BY <1>4, <2>2, EndPageHolds
    <3> QED BY <1>1, <3>1, OneHolds, PagesHoldIs DEF PackInv
  <2> QED BY <2>1, <2>2
<1>5. CASE \E l \in Lines : Insert(l)
  BY <1>2, <1>5 DEF Insert
<1>6. CASE Header \/ NoKey \/ PackEntry
  BY <1>2, <1>6 DEF Header, NoKey, PackEntry
<1>7. CASE UNCHANGED vars
  BY <1>2, <1>7 DEF vars
<1> QED BY <1>3, <1>4, <1>5, <1>6, <1>7 DEF Next

LEMMA NextPage ==
  ASSUME LinesShort, LinesFit, PackInv, PageInv, [Next]_vars
  PROVE  PageInv'
<1>1. ASSUME NEW l \in Lines, Insert(l) PROVE PageInv'
  <2>1. /\ pc' = "read" /\ n = Len(buffer) /\ n \in Nat /\ n < MaxKeys /\ buffer \in Seq(BufferEntry)
        /\ file \in Seq(Lines) /\ file' = Append(file, l)
    BY <1>1 DEF Insert, PackInv, KeysInv, BufferTypeOK, n
  <2>2. PICK p : p = Place(l.key) /\ p \in 1..(Len(buffer) + 1)
    BY <2>1, PlaceInRange DEF PackInv, KeysInv
  <2>3. PICK e \in BufferEntry : buffer' = InsertAt(buffer, p, e)
    <3>1. l.key \in Key /\ l.data \in Key
      BY DEF OafsAssumption, Key
    <3>2. Len(file') \in Nat /\ Len(file') = Len(file) + 1 /\ Len(file) \in Nat
      BY <2>1
    <3>3. [key |-> l.key, data |-> l.data, id |-> Len(file')] \in BufferEntry
      BY <3>1, <3>2 DEF BufferEntry
    <3> QED BY <1>1, <2>2, <3>3 DEF Insert
  <2>4. Len(buffer') = n + 1
    BY <2>1, <2>2, <2>3, InsertAtFacts
  <2>5. n' <= MaxKeys
    BY <2>1, <2>4, Sizes DEF n
  <2> QED BY <2>1, <2>5 DEF PageInv
<1>2. CASE Flush
  BY <1>2 DEF Flush, PageInv, n
<1>3. CASE Header
  BY <1>3, HeaderPage
<1>4. CASE NoKey
  BY <1>4, NoKeyPage
<1>5. CASE PackEntry
  BY <1>5, EntryPage
<1>6. CASE EndPage
  <2>1. pc' \in {"flush", "end", "read"} /\ (buffer' = buffer \/ buffer' = <<>>)
    BY <1>6 DEF EndPage
  <2>2. n' <= MaxKeys
    <3>1. n' = Len(buffer') /\ Len(<<>>) = 0
      BY DEF n
    <3> QED BY <2>1, <3>1, Sizes DEF PageInv, n
  <2> QED BY <2>1, <2>2 DEF PageInv
<1>7. CASE UNCHANGED vars
  <2>1. n' = n /\ Meant' = Meant /\ KeyOf(pkey)' = KeyOf(pkey) /\ UNCHANGED <<pc, full, page, z, pkey>>
    BY <1>7 DEF vars, n, Meant, KeyOf
  <2>2. PageAtHand => PageAtHand'
    BY <2>1, Zenon DEF PageAtHand
  <2> QED BY <2>1, <2>2 DEF PageInv
<1> QED BY <1>1, <1>2, <1>3, <1>4, <1>5, <1>6, <1>7 DEF Next

\* Where keys are shorter than 128, so that what one shares with the key before leaves
\* alone the bit that says "deleted", and a line fits a page: whatever lines are read,
\* no entry runs over packpage's page, and every page of a flush but those that are
\* filled to their end reads back by the layout, its <dataoffset> one more than the one
\* packpage writes, as the entries that were packed into it: keys, timestamps and data.
\* parsepage gives the keys of a page without data, and the data with the timestamp in
\* front.
THEOREM PagesHoldTheorem ==
  ASSUME LinesShort, LinesFit
  PROVE  Spec => []PagesHold
<1>1. Init => PackInv /\ PageInv /\ PagesHold
  <2>1. Init => PageInv
    <3>1. Init => n = 0 /\ pc = "read"
      BY DEF Init, n
    <3> QED BY <3>1, Sizes DEF PageInv
  <2>2. Init => DOMAIN packed = {}
    BY DEF Init
  <2> QED BY <2>1, <2>2, InitPacks, PagesHoldIs
<1>2. PackInv /\ PageInv /\ PagesHold /\ [Next]_vars => (PackInv /\ PageInv /\ PagesHold)'
  BY NextPacks, NextPage, NextHolds
<1> QED BY <1>1, <1>2, PTL DEF Spec
=============================================================================
