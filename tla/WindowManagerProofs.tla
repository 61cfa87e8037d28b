------------------------- MODULE WindowManagerProofs -------------------------
(***************************************************************************)
(* What setfocus() guarantees, the invariants of the window manager, and   *)
(* that it implements the desktop: for any table size, any keys and any    *)
(* set of launchable programs.                                             *)
(***************************************************************************)
EXTENDS WindowManager, WellFoundedInduction, TLAPS

-----------------------------------------------------------------------------
(* setfocus(), for every table and every argument.                          *)

\* A non-empty set of slots has a least one, and Least returns it.
LEMMA LeastIsMember ==
  ASSUME NEW S, S \subseteq Nat, S # {}
  PROVE  Least(S) \in S /\ \A t \in S : Least(S) <= t
<1>1. PICK s \in S : \A t \in S : ~ (<<t, s>> \in OpToRel(<, Nat))
  BY WFMin, NatLessThanWellFounded
<1>2. \A t \in S : s <= t
  <2> SUFFICES ASSUME NEW t \in S, t < s PROVE FALSE
    OBVIOUS
  <2>1. <<t, s>> \in {ss \in Nat \X Nat : ss[1] < ss[2]}
    OBVIOUS
  <2> QED
    BY <1>1, <2>1 DEF OpToRel
<1> QED
  BY <1>1, <1>2 DEF Least

\* The range correction yields a made slot, whatever signed char it is given.
LEMMA WrapInRange ==
  ASSUME NEW n \in Nat \ {0}, NEW new \in Int
  PROVE  Wrap(n, new) \in 1..n
BY DEF Wrap

LEMMA BeforeInRange ==
  ASSUME NEW n \in Nat \ {0}, NEW f \in 1..n
  PROVE  Before(n, f) \in 1..n
BY DEF Before

\* The focus always lands on a made slot; and on an open one if there is any.
THEOREM FocusOfInRange ==
  ASSUME NEW n \in Nat \ {0}, NEW open \in SUBSET (1..n), NEW new \in Int
  PROVE  /\ FocusOf(n, open, new) \in 1..n
         /\ open # {} => FocusOf(n, open, new) \in open
<1>1. Wrap(n, new) \in 1..n
  BY WrapInRange
<1>2. CASE open # {}
  <2> DEFINE ahead == {s \in open : s >= Wrap(n, new)}
             from  == IF ahead # {} THEN ahead ELSE open
  <2>1. from \subseteq open /\ from # {}
    BY <1>2
  <2>2. open \subseteq Nat
    OBVIOUS
  <2>3. Least(from) \in from
    <3> HIDE DEF from
    <3> QED BY <2>1, <2>2, LeastIsMember
  <2>4. FocusOf(n, open, new) = Least(from)
    BY <1>2 DEF FocusOf, FirstOpen
  <2> QED
    BY <2>1, <2>3, <2>4
<1>3. CASE open = {}
  <2>1. FocusOf(n, open, new) = ((Wrap(n, new) + WinMax) % n) + 1
    BY <1>3 DEF FocusOf
  <2>2. Wrap(n, new) + WinMax \in Int
    BY <1>1, WinMaxAssumption
  <2>3. (Wrap(n, new) + WinMax) % n \in 0..(n - 1)
    BY <2>2
  <2> QED
    BY <1>3, <2>1, <2>3
<1> QED
  BY <1>2, <1>3

\* FUNCT-ESC's memory is a made slot too, open or not.
LEMMA PrevOfInRange ==
  ASSUME NEW n \in Nat \ {0}, NEW open \in SUBSET (1..n), NEW new \in Int,
         NEW focus \in 1..n
  PROVE  PrevOf(n, open, focus, new) \in 1..n
BY FocusOfInRange, BeforeInRange DEF PrevOf

\* Division with remainder, as the lemmas below need it.
LEMMA DivMod ==
  ASSUME NEW n \in Nat, NEW m \in Nat \ {0}
  PROVE  n \div m \in Nat /\ n % m \in 0..(m - 1) /\ n = m * (n \div m) + (n % m)
OBVIOUS

LEMMA Remainder ==
  ASSUME NEW k \in Nat \ {0}, NEW b \in Nat, NEW s \in 0..(k - 1)
  PROVE  (k * b + s) % k = s
<1> DEFINE n == k * b + s
           d == n \div k
           r == n % k
<1>1. n \in Nat
  OBVIOUS
<1>2. d \in Nat /\ r \in 0..(k - 1) /\ n = k * d + r
  BY <1>1, DivMod
<1>3. k * b + s = k * d + r
  BY <1>2
<1> HIDE DEF n, d, r
<1>4. k * (b - d) = r - s /\ b - d \in Int
  BY <1>2, <1>3
<1>5. r - s < k /\ r - s > -k
  BY <1>2
<1>6. ~(b - d >= 1)
  <2>1. ASSUME b - d >= 1 PROVE k * (b - d) >= k
    BY <2>1, <1>4
  <2> QED BY <2>1, <1>4, <1>5
<1>7. ~(b - d <= -1)
  <2>1. ASSUME b - d <= -1 PROVE k * (b - d) <= -k
    BY <2>1, <1>4
  <2> QED BY <2>1, <1>4, <1>5
<1>8. b - d = 0
  BY <1>4, <1>6, <1>7
<1>9. k * (b - d) = 0
  BY <1>8
<1>10. r = s
  BY <1>4, <1>9, <1>2
<1> QED BY <1>10 DEF n, r

LEMMA NextRemainder ==
  ASSUME NEW m \in Nat, NEW n \in Nat \ {0}
  PROVE  (m + 1) % n = IF m % n = n - 1 THEN 0 ELSE (m % n) + 1
<1> DEFINE d == m \div n
           r == m % n
<1>1. d \in Nat /\ r \in 0..(n - 1) /\ m = n * d + r
  BY DivMod
<1> HIDE DEF d, r
<1>2. CASE r = n - 1
  <2>1. m + 1 = n * (d + 1) + 0 /\ d + 1 \in Nat /\ 0 \in 0..(n - 1)
    BY <1>1, <1>2
  <2>2. (n * (d + 1) + 0) % n = 0
    BY <2>1, Remainder
  <2> QED BY <1>2, <2>1, <2>2 DEF r
<1>3. CASE r # n - 1
  <2>1. m + 1 = n * d + (r + 1) /\ r + 1 \in 0..(n - 1)
    BY <1>1, <1>3
  <2>2. (n * d + (r + 1)) % n = r + 1
    BY <1>1, <2>1, Remainder
  <2> QED BY <1>3, <2>1, <2>2 DEF r
<1> QED BY <1>2, <1>3

\* The walk visits the slots in turn: after k moves from slot c, this one.
Visited(n, c, k) == ((c - 1 + k) % n) + 1

LEMMA VisitedStep ==
  ASSUME NEW n \in Nat \ {0}, NEW c \in 1..n, NEW k \in Nat
  PROVE  /\ Visited(n, c, 0) = c
         /\ Visited(n, c, k) \in 1..n
         /\ Visited(n, c, k + 1) = Wrap(n, Visited(n, c, k) + 1)
         /\ Visited(n, c, k) = Before(n, Visited(n, c, k + 1))
<1> DEFINE m == c - 1 + k
<1>1. m \in Nat /\ c - 1 + (k + 1) = m + 1
  OBVIOUS
<1>2. m % n \in 0..(n - 1)
  BY <1>1, DivMod
<1>3. (m + 1) % n = IF m % n = n - 1 THEN 0 ELSE (m % n) + 1
  BY <1>1, NextRemainder
<1>4. Visited(n, c, 0) = c
  <2>1. c - 1 = n * 0 + (c - 1) /\ c - 1 \in 0..(n - 1)
    OBVIOUS
  <2>2. (n * 0 + (c - 1)) % n = c - 1
    BY <2>1, Remainder
  <2>3. c - 1 + 0 = n * 0 + (c - 1)
    OBVIOUS
  <2> QED BY <2>2, <2>3 DEF Visited
<1>5. Visited(n, c, k) = (m % n) + 1 /\ Visited(n, c, k + 1) = ((m + 1) % n) + 1
  BY <1>1 DEF Visited
<1> HIDE DEF m
<1> QED
  BY <1>2, <1>3, <1>4, <1>5 DEF Wrap, Before

\* As long as it has not been round the table.
LEMMA VisitedRound ==
  ASSUME NEW n \in Nat \ {0}, NEW c \in 1..n, NEW k \in 0..(n - 1)
  PROVE  Visited(n, c, k) = IF c + k <= n THEN c + k ELSE c + k - n
<1>1. CASE c + k <= n
  <2>1. c - 1 + k = n * 0 + (c - 1 + k) /\ c - 1 + k \in 0..(n - 1)
    BY <1>1
  <2>2. (n * 0 + (c - 1 + k)) % n = c - 1 + k
    BY <2>1, Remainder
  <2> QED BY <1>1, <2>1, <2>2 DEF Visited
<1>2. CASE c + k > n
  <2>1. c - 1 + k = n * 1 + (c - 1 + k - n) /\ c - 1 + k - n \in 0..(n - 1)
    BY <1>2
  <2>2. (n * 1 + (c - 1 + k - n)) % n = c - 1 + k - n
    BY <2>1, Remainder
  <2> QED BY <1>2, <2>1, <2>2 DEF Visited
<1> QED BY <1>1, <1>2

\* The recursion of Walk has a solution, and the slots visited are it.
LEMMA WalkSlots ==
  ASSUME NEW n \in Nat \ {0}, NEW new \in Int, NEW last \in Nat,
         NEW slot, slot = CHOOSE f : f = [k \in 0..last |-> IF k = 0 THEN Wrap(n, new)
                                                            ELSE Wrap(n, f[k - 1] + 1)]
  PROVE  \A k \in 0..last : slot[k] = Visited(n, Wrap(n, new), k)
<1> DEFINE c == Wrap(n, new)
           Rec(f) == [k \in 0..last |-> IF k = 0 THEN c ELSE Wrap(n, f[k - 1] + 1)]
           round == [k \in 0..last |-> Visited(n, c, k)]
<1>1. c \in 1..n
  BY WrapInRange
<1> HIDE DEF c
<1>2. \A k \in 0..last : round[k] = Rec(round)[k]
  <2> SUFFICES ASSUME NEW k \in 0..last
               PROVE  Visited(n, c, k) = IF k = 0 THEN c ELSE Wrap(n, round[k - 1] + 1)
    OBVIOUS
  <2>1. CASE k = 0
    BY <1>1, <2>1, VisitedStep
  <2>2. CASE k # 0
    <3>1. k - 1 \in Nat /\ k - 1 \in 0..last /\ (k - 1) + 1 = k
      BY <2>2
    <3>2. Visited(n, c, (k - 1) + 1) = Wrap(n, Visited(n, c, k - 1) + 1)
      BY <1>1, <3>1, VisitedStep
    <3>3. round[k - 1] = Visited(n, c, k - 1)
      BY <3>1
    <3> QED BY <2>2, <3>1, <3>2, <3>3
  <2> QED BY <2>1, <2>2
<1>3. round = Rec(round)
  BY <1>2
<1>4. slot = CHOOSE f : f = Rec(f)
  BY DEF c
<1>5. slot = Rec(slot)
  <2> HIDE DEF Rec, round
  <2> QED BY <1>3, <1>4
<1> DEFINE bad == {k \in 0..last : slot[k] # Visited(n, c, k)}
<1>6. SUFFICES ASSUME bad # {} PROVE FALSE
  BY DEF c
<1>7. Least(bad) \in bad /\ \A k \in bad : Least(bad) <= k
  <2>1. bad \subseteq Nat
    OBVIOUS
  <2> HIDE DEF bad
  <2> QED BY <1>6, <2>1, LeastIsMember
<1>8. PICK k \in bad : \A m \in bad : k <= m
  BY <1>7
<1>9. k # 0
  <2>1. Visited(n, c, 0) = c
    BY <1>1, VisitedStep
  <2>2. 0 \in 0..last /\ Rec(slot)[0] = c
    OBVIOUS
  <2> HIDE DEF Rec
  <2> QED BY <1>5, <1>8, <2>1, <2>2
<1>10. k - 1 \in 0..last /\ k - 1 \notin bad /\ (k - 1) + 1 = k
  BY <1>8, <1>9
<1>11. slot[k - 1] = Visited(n, c, k - 1)
  BY <1>10
<1>12. Visited(n, c, k) = Wrap(n, Visited(n, c, k - 1) + 1)
  BY <1>1, <1>10, VisitedStep
<1>13. slot[k] = Wrap(n, slot[k - 1] + 1)
  BY <1>5, <1>8, <1>9
<1> QED
  BY <1>8, <1>11, <1>12, <1>13

\* Least(S) is m, if m is in S and nothing less is.
LEMMA LeastIs ==
  ASSUME NEW S, S \subseteq Nat, NEW m \in S, \A k \in S : m <= k
  PROVE  Least(S) = m
<1>1. Least(S) \in S /\ \A t \in S : Least(S) <= t
  BY LeastIsMember
<1>2. Least(S) \in Nat /\ m \in Nat /\ Least(S) <= m /\ m <= Least(S)
  BY <1>1
<1> HIDE DEF Least
<1> QED BY <1>2

\* The walk of setfocus computes FocusOf and PrevOf.
THEOREM WalkIsFocusOf ==
  ASSUME NEW n \in 1..WinMax, NEW open \in SUBSET (1..n), NEW focus, NEW new \in Int
  PROVE  Walk(n, open, focus, new)
           = [wfocus |-> FocusOf(n, open, new), wprev |-> PrevOf(n, open, focus, new)]
<1> USE WinMaxAssumption
<1> DEFINE slot[k \in 0..WinMax + 1] ==
             IF k = 0 THEN Wrap(n, new) ELSE Wrap(n, slot[k - 1] + 1)
           ends == {k \in 0..WinMax + 1 : slot[k] \in open \/ GiveUp(k)}
           last == Least(ends)
           c == Wrap(n, new)
<1>1. Walk(n, open, focus, new)
        = [wfocus |-> slot[last], wprev |-> IF last = 0 THEN focus ELSE slot[last - 1]]
  BY DEF Walk
<1>2. \A k \in 0..WinMax + 1 : slot[k] = Visited(n, c, k)
  <2>1. WinMax + 1 \in Nat /\ n \in Nat \ {0}
    OBVIOUS
  <2>2. slot = CHOOSE f : f = [k \in 0..WinMax + 1 |-> IF k = 0 THEN Wrap(n, new)
                                                       ELSE Wrap(n, f[k - 1] + 1)]
    BY DEF slot
  <2> HIDE DEF slot
  <2> QED BY <2>1, <2>2, WalkSlots DEF c
<1>3. c \in 1..n
  BY WrapInRange
<1> HIDE DEF slot, c
<1>4. ends \subseteq Nat /\ WinMax + 1 \in ends
  BY DEF GiveUp
<1>5. ASSUME NEW k \in ends, \A m \in ends : k <= m,
             Visited(n, c, k) = FocusOf(n, open, new), c \in open <=> k = 0
      PROVE  slot[last] = FocusOf(n, open, new) /\
             (IF last = 0 THEN focus ELSE slot[last - 1]) = PrevOf(n, open, focus, new)
  <2>1. last = k
    <3> HIDE DEF ends
    <3> QED BY <1>4, <1>5, LeastIs
  <2>2. k \in 0..WinMax + 1
    OBVIOUS
  <2>3. slot[k] = FocusOf(n, open, new)
    BY <1>2, <1>5, <2>2
  <2>4. CASE k = 0
    BY <1>5, <2>1, <2>3, <2>4 DEF PrevOf, c
  <2>5. CASE k # 0
    <3>1. k - 1 \in Nat /\ k - 1 \in 0..WinMax + 1 /\ (k - 1) + 1 = k
      BY <2>2, <2>5
    <3>2. slot[k - 1] = Visited(n, c, k - 1)
      BY <1>2, <3>1
    <3>3. Visited(n, c, k - 1) = Before(n, Visited(n, c, k))
      BY <1>3, <3>1, VisitedStep
    <3>4. slot[k - 1] = PrevOf(n, open, focus, new)
      BY <1>5, <2>5, <3>2, <3>3 DEF PrevOf, c
    <3> QED BY <2>1, <2>3, <2>5, <3>4
  <2> QED BY <2>4, <2>5
<1>6. ASSUME NEW k \in 0..(n - 1)
      PROVE  slot[k] = IF c + k <= n THEN c + k ELSE c + k - n
  BY <1>2, <1>3, VisitedRound
<1>7. CASE open = {}
  <2>1. \A k \in ends : WinMax + 1 <= k
    BY <1>7 DEF GiveUp
  <2>2. Visited(n, c, WinMax + 1) = FocusOf(n, open, new)
    <3>1. c - 1 + (WinMax + 1) = c + WinMax
      BY <1>3
    <3> QED BY <1>7, <3>1 DEF Visited, FocusOf, c
  <2>3. ~(c \in open <=> WinMax + 1 # 0)
    BY <1>7
  <2> HIDE DEF ends, last
  <2> QED BY <1>1, <1>4, <1>5, <2>1, <2>2, <2>3
<1>8. CASE open # {}
  <2> DEFINE ahead == {s \in open : s >= c}
             from == IF ahead # {} THEN ahead ELSE open
             F == Least(from)
             k == IF F >= c THEN F - c ELSE F - c + n
  <2>1. F \in from /\ \A t \in from : F <= t
    <3>1. open \subseteq Nat /\ ahead \subseteq open
      OBVIOUS
    <3>2. from # {} /\ from \subseteq Nat
      <4> HIDE DEF ahead
      <4> QED BY <1>8, <3>1
    <3> HIDE DEF from
    <3> QED BY <3>2, LeastIsMember
  <2>2. F = FocusOf(n, open, new)
    BY <1>8 DEF FocusOf, FirstOpen, c
  <2>3. F \in open /\ F \in 1..n /\ (F < c => ahead = {}) /\ (F >= c => ahead # {})
    <3>1. from = ahead \/ (ahead = {} /\ from = open)
      OBVIOUS
    <3>2. \A t \in ahead : t \in open /\ t >= c
      OBVIOUS
    <3>3. \A t \in open : t >= c => t \in ahead
      OBVIOUS
    <3> HIDE DEF from, ahead, F
    <3>4. F \in open /\ F \in 1..n
      BY <2>1, <3>1, <3>2
    <3>5. ASSUME F < c PROVE ahead = {}
      <4>1. F \notin ahead
        BY <1>3, <3>2, <3>4, <3>5
      <4> QED BY <2>1, <3>1, <4>1
    <3>6. ASSUME F >= c PROVE ahead # {}
      BY <3>3, <3>4, <3>6
    <3> QED BY <3>4, <3>5, <3>6
  <2>a. \A t \in open : IF F >= c THEN t >= c => F <= t ELSE t < c /\ F <= t
    BY <1>3, <2>1, <2>3
  <2> HIDE DEF F, from, ahead
  <2>4. k \in 0..(n - 1) /\ k \in 0..WinMax /\ c \in 1..n
    BY <1>3, <2>3
  <2>5. slot[k] = F
    BY <1>6, <2>3, <2>4
  <2>6. k \in ends
    BY <2>3, <2>4, <2>5
  <2>7. ASSUME NEW m \in ends, m < k PROVE FALSE
    <3>1. m \in 0..(n - 1) /\ ~GiveUp(m) /\ slot[m] \in open
      BY <2>4, <2>7 DEF GiveUp
    <3>2. slot[m] = IF c + m <= n THEN c + m ELSE c + m - n
      BY <1>6, <3>1
    <3> QED BY <2>a, <2>3, <2>4, <2>7, <3>1, <3>2
  <2>8. \A m \in ends : k <= m
    BY <2>4, <2>7
  <2>9. Visited(n, c, k) = FocusOf(n, open, new)
    BY <1>2, <2>2, <2>4, <2>5
  <2>10. c \in open <=> k = 0
    BY <2>a, <2>3, <2>4
  <2> HIDE DEF k
  <2> QED BY <1>1, <1>5, <2>6, <2>8, <2>9, <2>10
<1> QED BY <1>7, <1>8

-----------------------------------------------------------------------------
(* The scheduler.                                                           *)

USE WinMaxAssumption, ConstantAssumption

LEMMA OpenIsMade ==
  ASSUME TypeOK, SlotsConsistent
  PROVE  Open \in SUBSET (1..nwin) /\ nwin \in Nat \ {0} /\ nwin <= WinMax
BY DEF TypeOK, SlotsConsistent, Open, Slot

LEMMA InitIInv == Init => IInv
<1> SUFFICES ASSUME Init PROVE IInv
  OBVIOUS
<1>1. Booted \in 2..3 /\ Booted <= WinMax
  BY DEF Booted
<1>2. /\ nwin = Booted /\ wcur = Booted /\ wfocus = Booted /\ wprev = 1 /\ wnext = 0
      /\ wkey = NoKey /\ pc = "poll" /\ run = 0 /\ code = NoProgram /\ path = "turn"
  BY DEF Init
<1>3. status \in [Slot -> BOOLEAN] /\ \A s \in Slot : status[s] <=> s <= Booted
  <2>1. status = [s \in Slot |-> s <= Booted]
    BY DEF Init
  <2>2. \A s \in Slot : (s <= Booted) \in BOOLEAN
    BY <1>1 DEF Slot
  <2>3. status \in [Slot -> BOOLEAN]
    BY <2>1, <2>2, Zenon
  <2>4. \A s \in Slot : status[s] <=> s <= Booted
    BY <2>1, Zenon
  <2> QED
    BY <2>3, <2>4
<1>4. /\ fun \in [Slot -> Program \cup {NoProgram}]
      /\ \A s \in Slot : fun[s] # NoProgram <=> s <= Booted
  BY <1>1 DEF Init, Slot, Program, NoProgram
<1>5. /\ state \in [Slot -> Program \cup {"null", "event"}]
      /\ \A s \in Slot : state[s] = IF s <= Booted THEN fun[s] ELSE "null"
  <2>1. state = [s \in Slot |-> IF status[s] THEN fun[s] ELSE "null"]
    BY DEF Init
  <2> QED
    BY <1>3, <1>4, <2>1 DEF Program, NoProgram
<1>6. ret \in [Slot -> {"null", "waitkey", "eos", "pointer"}]
  BY DEF Init
<1>7. TypeOK
  BY <1>1, <1>2, <1>3, <1>4, <1>5, <1>6 DEF TypeOK, Slot
<1>8. SlotsConsistent
  BY <1>1, <1>2, <1>3, <1>4, <1>5 DEF SlotsConsistent, Slot, Program, NoProgram
<1> QED
  BY <1>2, <1>7, <1>8 DEF IInv, KeyCallIsUndisturbed, NoStaleKey, KeyCallFindsKey, NoProgram

-----------------------------------------------------------------------------
(* FUNCT keys keep the table in order. *)

TableOK ==
  /\ nwin \in Slot /\ wcur \in 1..nwin
  /\ wfocus \in 1..nwin /\ wprev \in 1..nwin
  /\ status \in [Slot -> BOOLEAN]
  /\ fun \in [Slot -> Program \cup {NoProgram}]
  /\ state \in [Slot -> Program \cup {"null", "event"}]
  /\ ret \in [Slot -> {"null", "waitkey", "eos", "pointer"}]
  /\ SlotsConsistent

LEMMA RefocusTable ==
  ASSUME TableOK, NEW new \in Int, Refocus(new)
  PROVE  TableOK' /\ nwin' = nwin
<1>1. Open \in SUBSET (1..nwin) /\ nwin \in Nat \ {0}
  BY DEF TableOK, SlotsConsistent, Open, Slot
<1>2. wfocus' \in 1..nwin /\ wprev' \in 1..nwin
  BY <1>1, FocusOfInRange, PrevOfInRange DEF Refocus, TableOK
<1> QED
  BY <1>2 DEF Refocus, TableOK, SlotsConsistent

LEMMA KillTable ==
  ASSUME TableOK, Kill
  PROVE  TableOK' /\ nwin' = nwin
<1> DEFINE left  == Open \ {wfocus}
           first == FocusOf(nwin, left, wfocus)
<1>1. left \in SUBSET (1..nwin) /\ nwin \in Nat \ {0}
  BY DEF TableOK, SlotsConsistent, Open, Slot
<1>2. first \in 1..nwin
  BY <1>1, FocusOfInRange DEF TableOK
<1>3. wfocus' = FocusOf(nwin, left, first + 1) /\ wprev' = PrevOf(nwin, left, first, first + 1)
  BY DEF Kill
<1>4. wfocus' \in 1..nwin /\ wprev' \in 1..nwin
  <2> HIDE DEF left, first
  <2> QED
    BY <1>1, <1>2, <1>3, FocusOfInRange, PrevOfInRange
<1>5. wfocus \in Slot /\ nwin' = nwin /\ wcur' = wcur
  BY DEF TableOK, Slot, Kill
<1>6. SlotsConsistent'
  BY <1>5 DEF Kill, TableOK, SlotsConsistent, Slot, NoProgram
<1> QED
  BY <1>4, <1>5, <1>6 DEF Kill, TableOK, Slot, NoProgram

LEMMA LaunchTable ==
  ASSUME TableOK, Launch
  PROVE  TableOK' /\ nwin' >= nwin
<1>1. PICK p \in Launchable : NewWin /\ Start(wcur', p)
  BY DEF Launch
<1>2. p \in Program /\ p # NoProgram
  BY DEF Program, NoProgram
<1>3. /\ nwin' \in Slot /\ nwin' >= nwin /\ wcur' \in 1..nwin'
      /\ wfocus' \in 1..nwin' /\ wprev' \in 1..nwin'
  <2>1. CASE nwin = WinMax
    BY <1>1, <2>1 DEF NewWin, TableOK
  <2>2. CASE nwin # WinMax
    <3>1. nwin' = nwin + 1 /\ nwin' \in Nat \ {0} /\ nwin' \in Slot /\ wcur' = nwin'
      BY <1>1, <2>2 DEF NewWin, TableOK, Slot
    <3>2. Open \in SUBSET (1..nwin') /\ wfocus \in 1..nwin' /\ nwin' \in Int
      BY <3>1 DEF TableOK, SlotsConsistent, Open, Slot
    <3>3. /\ wfocus' = FocusOf(nwin', Open, nwin')
          /\ wprev' = PrevOf(nwin', Open, wfocus, nwin')
      BY <1>1, <2>2 DEF NewWin
    <3>4. wfocus' \in 1..nwin' /\ wprev' \in 1..nwin'
      BY <3>1, <3>2, <3>3, FocusOfInRange, PrevOfInRange
    <3> QED
      BY <3>1, <3>4 DEF TableOK, Slot
  <2> QED
    BY <2>1, <2>2
<1>4. PICK r \in Returns(p) :
        state' = [state EXCEPT ![wcur'] = IF state[wcur'] = "null" THEN p
                                          ELSE IF r = "null" THEN "null" ELSE "event"]
  BY <1>1 DEF Start
<1>5. wcur' \in Slot
  BY <1>3 DEF Slot
<1>6. /\ status' = [status EXCEPT ![wcur'] = TRUE]
      /\ fun' = [fun EXCEPT ![wcur'] = p]
      /\ ret' = [ret EXCEPT ![wcur'] = "null"]
  BY <1>1 DEF Start
<1>7. nwin' < WinMax => wcur' = nwin + 1 /\ state[wcur'] = "null"
  <2> SUFFICES ASSUME nwin' < WinMax PROVE wcur' = nwin + 1 /\ state[wcur'] = "null"
    OBVIOUS
  <2>1. wcur' = nwin + 1
    BY <1>1, <1>3 DEF NewWin, TableOK, Slot
  <2> QED
    BY <2>1, <1>5 DEF TableOK, SlotsConsistent, Slot
<1>8. SlotsConsistent'
  <2> SUFFICES ASSUME NEW s \in Slot
               PROVE  /\ status'[s] <=> fun'[s] # NoProgram
                      /\ ~status'[s] => state'[s] = "null"
                      /\ s > nwin' => ~status'[s]
                      /\ status'[s] /\ nwin' < WinMax => state'[s] = fun'[s]
    BY DEF SlotsConsistent
  <2>1. CASE s = wcur'
    BY <2>1, <1>2, <1>3, <1>4, <1>5, <1>6, <1>7 DEF TableOK
  <2>2. CASE s # wcur'
    <3>1. /\ status'[s] = status[s] /\ fun'[s] = fun[s] /\ state'[s] = state[s]
      BY <2>2, <1>4, <1>5, <1>6 DEF TableOK
    <3> QED
      BY <3>1, <1>3 DEF TableOK, SlotsConsistent, Slot
  <2> QED
    BY <2>1, <2>2
<1> QED
  BY <1>2, <1>3, <1>4, <1>5, <1>6, <1>8 DEF TableOK

\* Whatever FUNCT key is hit, in whatever table, the table stays in order.
THEOREM FunctTable ==
  ASSUME TableOK, Funct
  PROVE  TableOK' /\ nwin' >= nwin /\ nwin' \in Nat
<1>1. nwin \in Nat /\ wfocus \in Int /\ wprev \in Int
  BY DEF TableOK, Slot
<1>2. ASSUME NEW new \in Int, Refocus(new) PROVE TableOK' /\ nwin' = nwin
  BY <1>2, RefocusTable
<1>3. CASE FocusNext
  BY <1>1, <1>2, <1>3 DEF FocusNext
<1>4. CASE FocusPrev
  BY <1>1, <1>2, <1>4 DEF FocusPrev
<1>5. CASE FocusLast
  BY <1>1, <1>2, <1>5 DEF FocusLast
<1>6. CASE FocusGoto
  BY <1>1, <1>2, <1>6 DEF FocusGoto
<1>7. CASE Kill
  BY <1>1, <1>7, KillTable
<1>8. CASE Launch
  BY <1>1, <1>8, LaunchTable DEF TableOK, Slot
<1> QED
  BY <1>3, <1>4, <1>5, <1>6, <1>7, <1>8 DEF Funct
-----------------------------------------------------------------------------
(* Every step of the thread keeps the invariant. *)

LEMMA TypeIsTable == IInv <=> /\ TableOK
                             /\ wnext \in 0..nwin /\ wkey \in Key \cup {NoKey}
                             /\ pc \in {"poll", "deliver", "turn", "getc", "take", "return", "crash"}
                             /\ run \in 0..nwin
                             /\ code \in Program \cup {NoProgram, "init"}
                             /\ path \in {"key", "turn"}
                             /\ KeyCallIsUndisturbed /\ NoStaleKey /\ KeyCallFindsKey
BY DEF IInv, TypeOK, TableOK

\* A call made in the focused, open window with a key, or in an open one in its turn.
LEMMA CallKeeps ==
  ASSUME IInv, NEW s \in 1..nwin, NEW by \in {"key", "turn"}, Call(s, by),
         run = 0
  PROVE  /\ pc' \in {"getc", "return", "crash"}
         /\ run' \in 0..nwin
         /\ code' \in Program \cup {NoProgram, "init"}
         /\ path' \in {"key", "turn"}
         /\ run' # 0 <=> pc' # "crash"
         /\ run' # 0 => run' = s /\ path' = by /\ code' # NoProgram /\ status[s]
<1>1. s \in Slot /\ fun[s] \in Program \cup {NoProgram} /\ (status[s] <=> fun[s] # NoProgram)
  BY DEF IInv, TypeOK, SlotsConsistent, Slot
<1>2. CASE fun[s] = NoProgram
  BY <1>2 DEF Call, calls, IInv, TypeOK
<1>3. CASE fun[s] # NoProgram
  <2>1. /\ run' = s /\ path' = by
        /\ code' = IF state[s] = "null" THEN "init" ELSE fun[s]
        /\ pc' = IF code' = "vi" THEN "getc" ELSE "return"
    BY <1>3 DEF Call
  <2>2. code' \in Program \cup {"init"} /\ code' # NoProgram
    BY <1>1, <1>3, <2>1 DEF Program, NoProgram
  <2>3. pc' \in {"getc", "return"}
    BY <2>1
  <2> QED
    BY <1>1, <1>3, <2>1, <2>2, <2>3 DEF Slot
<1> QED
  BY <1>2, <1>3

LEMMA NextIInv == IInv /\ [Next]_vars => IInv'
<1> SUFFICES ASSUME IInv, [Next]_vars PROVE IInv'
  OBVIOUS
<1> USE DEF IInv
<1>t. TableOK
  BY TypeIsTable
<1>1. CASE PollNoKey
  BY <1>1 DEF PollNoKey, table, calls, TypeOK, SlotsConsistent, KeyCallIsUndisturbed,
              NoStaleKey, KeyCallFindsKey, HasKey, Open
<1>2. CASE PollKey
  BY <1>2 DEF PollKey, table, calls, TypeOK, SlotsConsistent, KeyCallIsUndisturbed,
              NoStaleKey, KeyCallFindsKey, HasKey, Open
<1>3. CASE PollFunct
  <2>1. TableOK' /\ nwin' >= nwin /\ nwin' \in Nat
    BY <1>3, <1>t, FunctTable DEF PollFunct
  <2>2. run = 0
    BY <1>3 DEF PollFunct, KeyCallFindsKey
  <2> QED
    BY <1>3, <2>1, <2>2 DEF PollFunct, TableOK, calls, TypeOK, Slot,
       KeyCallIsUndisturbed, NoStaleKey, KeyCallFindsKey
<1>4. CASE Deliver
  <2>1. wfocus \in 1..nwin /\ wcur \in 1..nwin /\ run = 0 /\ wkey # NoKey
    BY <1>4 DEF Deliver, TypeOK, KeyCallFindsKey
  <2>2. Call(wfocus, "key")
    BY <1>4 DEF Deliver
  <2>3. /\ pc' \in {"getc", "return", "crash"}
        /\ run' \in 0..nwin
        /\ code' \in Program \cup {NoProgram, "init"}
        /\ path' \in {"key", "turn"}
        /\ run' # 0 <=> pc' # "crash"
        /\ run' # 0 => run' = wfocus /\ path' = "key" /\ code' # NoProgram /\ status[wfocus]
    BY <2>1, <2>2, CallKeeps
  <2>4. TypeOK'
    BY <1>4, <2>1, <2>3 DEF Deliver, TypeOK
  <2>5. SlotsConsistent'
    BY <1>4 DEF Deliver, SlotsConsistent
  <2>6. KeyCallIsUndisturbed'
    BY <1>4, <2>1, <2>3 DEF Deliver, KeyCallIsUndisturbed, Open, TypeOK, Slot
  <2>7. NoStaleKey' /\ KeyCallFindsKey'
    BY <1>4, <2>1, <2>3 DEF Deliver, NoStaleKey, KeyCallFindsKey, HasKey, TypeOK, Slot
  <2> QED
    BY <2>4, <2>5, <2>6, <2>7
<1>5. CASE Turn
  <2>1. Before(nwin, wcur) \in 1..nwin /\ run = 0 /\ wkey = NoKey
    BY <1>5, BeforeInRange DEF Turn, TypeOK, Slot, NoStaleKey, KeyCallFindsKey
  <2>2. CASE Ready(wcur')
    <3>1. Call(wcur', "turn") /\ wcur' \in 1..nwin
      BY <1>5, <2>1, <2>2 DEF Turn
    <3>2. /\ pc' \in {"getc", "return", "crash"}
          /\ run' \in 0..nwin
          /\ code' \in Program \cup {NoProgram, "init"}
          /\ path' \in {"key", "turn"}
          /\ run' # 0 <=> pc' # "crash"
          /\ run' # 0 => run' = wcur' /\ path' = "turn" /\ code' # NoProgram /\ status[wcur']
      BY <3>1, <2>1, CallKeeps
    <3> QED
      BY <1>5, <2>1, <3>1, <3>2 DEF Turn, TypeOK, SlotsConsistent, KeyCallIsUndisturbed,
         NoStaleKey, KeyCallFindsKey
  <2>3. CASE ~Ready(wcur')
    BY <1>5, <2>1, <2>3 DEF Turn, calls, TypeOK, SlotsConsistent, KeyCallIsUndisturbed,
       NoStaleKey, KeyCallFindsKey
  <2> QED
    BY <2>2, <2>3
<1>6. CASE GetcNoKey
  BY <1>6 DEF GetcNoKey, table, calls, TypeOK, SlotsConsistent, KeyCallIsUndisturbed,
              NoStaleKey, KeyCallFindsKey, HasKey, Open
<1>7. CASE GetcKey
  BY <1>7 DEF GetcKey, table, calls, TypeOK, SlotsConsistent, KeyCallIsUndisturbed,
              NoStaleKey, KeyCallFindsKey, HasKey, Open
<1>8. CASE GetcFunct
  <2>1. TableOK' /\ nwin' >= nwin /\ nwin' \in Nat
    BY <1>8, <1>t, FunctTable DEF GetcFunct
  <2>2. run # 0 /\ path = "turn"
    BY <1>8 DEF GetcFunct, KeyCallFindsKey, TypeOK
  <2> QED
    BY <1>8, <2>1, <2>2 DEF GetcFunct, TableOK, calls, TypeOK, Slot,
       KeyCallIsUndisturbed, NoStaleKey, KeyCallFindsKey
<1>9. CASE Take
  BY <1>9 DEF Take, table, calls, TypeOK, SlotsConsistent, KeyCallIsUndisturbed,
              NoStaleKey, KeyCallFindsKey, HasKey, Open
<1>10. CASE Return
  <2>1. PICK r \in Returns(code) : ret' = [ret EXCEPT ![IF RereadWinp THEN wcur ELSE run] = r]
    BY <1>10 DEF Return
  <2>2. run # 0 /\ code \in Program \cup {"init"}
    BY <1>10 DEF Return, KeyCallFindsKey, TypeOK
  <2>3. r \in {"null", "waitkey", "eos", "pointer"}
    BY <2>1, <2>2 DEF Returns, Program
  <2>4. ret' \in [Slot -> {"null", "waitkey", "eos", "pointer"}]
    BY <2>1, <2>3 DEF TypeOK
  <2>5. wcur' \in 1..nwin
    BY <1>10, <2>2 DEF Return, EndKeyCall, TypeOK, KeyCallFindsKey
  <2>6. wkey' = NoKey
    BY <1>10, <2>2 DEF Return, EndKeyCall, TypeOK, NoStaleKey
  <2> QED
    BY <1>10, <2>4, <2>5, <2>6 DEF Return, TypeOK, Slot, SlotsConsistent, KeyCallIsUndisturbed,
       NoStaleKey, KeyCallFindsKey
<1>11. CASE UNCHANGED vars
  BY <1>11 DEF vars, table, calls, TypeOK, SlotsConsistent, KeyCallIsUndisturbed,
               NoStaleKey, KeyCallFindsKey, HasKey, Open
<1> QED
  BY <1>1, <1>2, <1>3, <1>4, <1>5, <1>6, <1>7, <1>8, <1>9, <1>10, <1>11 DEF Next
\* The table, the keyboard and the call in progress are consistent in every
\* state that the scheduler, the programs and the user can reach.
THEOREM Invariance == Spec => []IInv
<1>1. Init => IInv
  BY InitIInv
<1>2. IInv /\ [Next]_vars => IInv'
  BY NextIInv
<1> QED
  BY <1>1, <1>2, PTL DEF Spec

\* The variables keep their types: no index leaves the table, wcur and wfocus
\* never fall to 0 although both are decremented, and none passes nwin.
THEOREM TypeCorrect == Spec => []TypeOK
<1>1. IInv => TypeOK
  BY DEF IInv
<1> QED
  BY <1>1, Invariance, PTL

\* status, fun and state of a slot never disagree, unless the table is full.
THEOREM SlotsCorrect == Spec => []SlotsConsistent
<1>1. IInv => SlotsConsistent
  BY DEF IInv
<1> QED
  BY <1>1, Invariance, PTL

\* setfocus's walk ends at the first open window round the table, on every table
\* that comes up and for every key: its guard against hanging cuts no walk short.
THEOREM WalkTheorem == Spec => []WalkEndsAtFirstOpen
<1>1. IInv => WalkEndsAtFirstOpen
  <2> SUFFICES ASSUME IInv, NEW new \in 0..(WinMax + 1)
               PROVE  Walk(nwin, Open, wfocus, new)
                        = [wfocus |-> FocusOf(nwin, Open, new),
                           wprev |-> PrevOf(nwin, Open, wfocus, new)]
    BY DEF WalkEndsAtFirstOpen
  <2>1. Open \in SUBSET (1..nwin) /\ nwin \in 1..WinMax
    BY OpenIsMade DEF IInv
  <2>2. new \in Int
    OBVIOUS
  <2> QED
    BY <2>1, <2>2, WalkIsFocusOf
<1> QED
  BY <1>1, Invariance, PTL

\* The key loop, and a program in its turn, start with no key in hand.
THEOREM NoStaleKeyTheorem == Spec => []NoStaleKey
<1>1. IInv => NoStaleKey
  BY DEF IInv
<1> QED
  BY <1>1, Invariance, PTL

\* A program called with a key keeps the focus and its window until it returns,
\* and finds the key when it asks for one.
THEOREM KeyCallServed == Spec => []KeyCallIsServed
<1>1. IInv => KeyCallIsServed
  BY DEF IInv, KeyCallIsServed
<1> QED
  BY <1>1, Invariance, PTL

-----------------------------------------------------------------------------
(* The focus stays on an open window. *)

\* Any step but a kill or a launch leaves the open windows alone; a launch
\* closes none, and its focus is open before the new window is.
LEMMA FunctFocus ==
  ASSUME TableOK, Funct, wfocus \in Open
  PROVE  wfocus' \in Open' \/ Open' = {}
<1>1. Open \in SUBSET (1..nwin) /\ nwin \in Nat \ {0} /\ Open # {} /\ wfocus \in Slot
  BY DEF TableOK, SlotsConsistent, Open, Slot
<1>2. ASSUME NEW new \in Int, Refocus(new) PROVE wfocus' \in Open'
  BY <1>1, <1>2, FocusOfInRange DEF Refocus, Open
<1>3. CASE FocusNext \/ FocusPrev \/ FocusLast \/ FocusGoto
  BY <1>2, <1>3 DEF FocusNext, FocusPrev, FocusLast, FocusGoto, TableOK, Slot
<1>4. CASE Kill
  <2> DEFINE left  == Open \ {wfocus}
             first == FocusOf(nwin, left, wfocus)
  <2>1. Open' = left
    BY <1>1, <1>4 DEF Kill, Open, TableOK
  <2>2. wfocus' = FocusOf(nwin, left, first + 1)
    BY <1>4 DEF Kill
  <2>3. left \in SUBSET (1..nwin)
    BY <1>1
  <2>4. first \in 1..nwin
    <3> HIDE DEF left
    <3> QED BY <1>1, <2>3, FocusOfInRange DEF TableOK
  <2>5. left # {} => wfocus' \in left
    <3> HIDE DEF left, first
    <3> QED BY <1>1, <2>2, <2>3, <2>4, FocusOfInRange
  <2> QED
    BY <2>1, <2>5
<1>5. CASE Launch
  <2>1. PICK p \in Launchable : NewWin /\ Start(wcur', p)
    BY <1>5 DEF Launch
  <2>2. Open \subseteq Open'
    BY <2>1 DEF Start, Open, TableOK
  <2>3. CASE nwin = WinMax
    BY <2>1, <2>2, <2>3 DEF NewWin
  <2>4. CASE nwin # WinMax
    <3>1. nwin' = nwin + 1 /\ wfocus' = FocusOf(nwin', Open, nwin')
      BY <2>1, <2>4 DEF NewWin
    <3>2. nwin' \in Nat \ {0} /\ nwin' \in Int /\ Open \in SUBSET (1..nwin')
      BY <1>1, <3>1
    <3> QED
      BY <1>1, <2>2, <3>1, <3>2, FocusOfInRange
  <2> QED
    BY <2>3, <2>4
<1> QED
  BY <1>3, <1>4, <1>5 DEF Funct

LEMMA FocusStep ==
  ASSUME IInv, [Next]_vars, wfocus \in Open
  PROVE  wfocus' \in Open' \/ Open' = {}
<1>1. CASE PollFunct \/ GetcFunct
  BY <1>1, FunctFocus, TypeIsTable DEF PollFunct, GetcFunct
<1>2. CASE ~(PollFunct \/ GetcFunct)
  <2>1. wfocus' = wfocus /\ status' = status
    BY <1>2 DEF Next, PollNoKey, PollKey, Deliver, Turn, GetcNoKey, GetcKey, Take, Return,
                vars, table
  <2> QED
    BY <2>1 DEF Open
<1> QED
  BY <1>1, <1>2

\* The focus leaves the open windows only when the last of them is killed.
THEOREM FocusTheorem == Spec => FocusStaysOpen
<1>1. IInv /\ [Next]_vars => [(wfocus \in Open) => (wfocus' \in Open' \/ Open' = {})]_vars
  BY FocusStep
<1> QED
  BY <1>1, Invariance, PTL DEF Spec, FocusStaysOpen

\* A waiting program is called only in the focused window and with a key.
THEOREM CallsTheorem == Spec => CallsAreWanted
<1> DEFINE Wanted == run = 0 /\ run' # 0 =>
                       /\ status[run']
                       /\ ret[run'] = "waitkey" => run' = wfocus /\ wkey # NoKey
<1>1. ASSUME IInv, Next PROVE Wanted
  <2> SUFFICES ASSUME run = 0, run' # 0
               PROVE  /\ status[run']
                      /\ ret[run'] = "waitkey" => run' = wfocus /\ wkey # NoKey
    OBVIOUS
  <2>1. CASE Deliver
    BY <1>1, <2>1, CallKeeps DEF Deliver, IInv, TypeOK, KeyCallFindsKey
  <2>2. CASE Turn
    <3>1. wcur' \in 1..nwin
      BY <1>1, <2>2, BeforeInRange DEF Turn, IInv, TypeOK, Slot
    <3>2. Ready(wcur') /\ Call(wcur', "turn")
      BY <2>2 DEF Turn, calls
    <3> QED
      BY <1>1, <3>1, <3>2, CallKeeps DEF Ready
  <2>3. CASE ~(Deliver \/ Turn)
    BY <1>1, <2>3 DEF Next, PollNoKey, PollKey, PollFunct, GetcNoKey, GetcKey, GetcFunct,
                      Take, Return, calls
  <2> QED
    BY <2>1, <2>2, <2>3
<1>2. IInv /\ [Next]_vars => [Wanted]_vars
  BY <1>1
<1> QED
  BY <1>2, Invariance, PTL DEF Spec, CallsAreWanted

-----------------------------------------------------------------------------
(* The scheduler implements the desktop: each of its steps is a step of    *)
(* Desktop.tla, or leaves open windows, focus and running program alone.   *)

DeskFocus == IF wfocus \in Open THEN wfocus ELSE 0
DeskBusy  == IF pc = "crash" THEN -1 ELSE run
DeskStep  == [Desk!Next]_(Desk!vars)

USE WinMaxAssumption, ConstantAssumption DEF DeskFocus, DeskBusy

\* A focus key moves the focus to an open window, or finds none.
LEMMA RefocusDesk ==
  ASSUME TableOK, NEW new \in Int, Refocus(new), UNCHANGED DeskBusy
  PROVE  DeskStep
<1>1. Open \in SUBSET (1..nwin) /\ nwin \in Nat \ {0} /\ Open' = Open
  BY DEF TableOK, SlotsConsistent, Open, Slot, Refocus
<1>2. CASE Open = {}
  BY <1>1, <1>2 DEF DeskStep, Desk!vars
<1>3. CASE Open # {}
  <2>1. DeskFocus' = wfocus' /\ wfocus' \in Open
    BY <1>1, <1>3, FocusOfInRange DEF Refocus
  <2> QED
    BY <1>1, <2>1 DEF DeskStep, Desk!Next, Desk!Refocus
<1> QED
  BY <1>2, <1>3

\* A kill closes the focused window, or finds none and moves the focus.
LEMMA KillDesk ==
  ASSUME TableOK, Kill, UNCHANGED DeskBusy
  PROVE  DeskStep
<1> DEFINE left  == Open \ {wfocus}
           first == FocusOf(nwin, left, wfocus)
<1>1. Open \in SUBSET (1..nwin) /\ nwin \in Nat \ {0} /\ wfocus \in Slot /\ wfocus \in 1..nwin
  BY DEF TableOK, SlotsConsistent, Open, Slot
<1>2. Open' = left
  BY <1>1 DEF Kill, Open, TableOK
<1>3. wfocus' = FocusOf(nwin, left, first + 1)
  BY DEF Kill
<1>4. left \in SUBSET (1..nwin)
  BY <1>1
<1>5. first \in 1..nwin
  <2> HIDE DEF left
  <2> QED BY <1>1, <1>4, FocusOfInRange
<1>6. left # {} => wfocus' \in left
  <2> HIDE DEF left, first
  <2> QED BY <1>1, <1>3, <1>4, <1>5, FocusOfInRange
<1>7. DeskFocus' \in IF left = {} THEN {0} ELSE left
  BY <1>2, <1>6
<1>8. CASE wfocus \in Open
  <2>1. DeskFocus = wfocus /\ wfocus # 0
    BY <1>1, <1>8
  <2> QED
    BY <1>2, <1>7, <2>1 DEF DeskStep, Desk!Next, Desk!CloseWindow
<1>9. CASE wfocus \notin Open
  <2>1. left = Open /\ DeskFocus = 0
    BY <1>9
  <2> QED
    BY <1>2, <1>7, <2>1 DEF DeskStep, Desk!Next, Desk!Refocus, Desk!vars
<1> QED
  BY <1>8, <1>9

\* A launch opens a window without giving it the focus of another one.
LEMMA LaunchDesk ==
  ASSUME TableOK, Launch, UNCHANGED DeskBusy
  PROVE  DeskStep
<1>1. PICK p \in Launchable : NewWin /\ Start(wcur', p)
  BY DEF Launch
<1>2. Open \in SUBSET (1..nwin) /\ nwin \in Nat \ {0} /\ wfocus \in Slot
  BY DEF TableOK, SlotsConsistent, Open, Slot
<1>3. wcur' \in Slot
  BY LaunchTable DEF TableOK, Slot
<1>4. Open' = Open \cup {wcur'}
  BY <1>1, <1>3 DEF Start, Open, TableOK
<1>5. CASE nwin = WinMax
  <2>1. wfocus' = wfocus
    BY <1>1, <1>5 DEF NewWin
  <2>2. CASE wcur' \in Open
    BY <1>4, <2>1, <2>2 DEF DeskStep, Desk!vars
  <2>3. CASE wcur' \notin Open
    <3>1. DeskFocus' \in IF DeskFocus # 0 THEN Open ELSE Open \cup {0, wcur'}
      BY <1>2, <1>4, <2>1
    <3> QED
      BY <1>3, <1>4, <2>3, <3>1 DEF DeskStep, Desk!Next, Desk!OpenWindow
  <2> QED
    BY <2>2, <2>3
<1>6. CASE nwin # WinMax
  <2>1. nwin' = nwin + 1 /\ wcur' = nwin' /\ wfocus' = FocusOf(nwin', Open, nwin')
    BY <1>1, <1>6 DEF NewWin
  <2>2. nwin' \in Nat \ {0} /\ nwin' \in Int /\ Open \in SUBSET (1..nwin') /\ wcur' \notin Open
    BY <1>2, <2>1
  <2>3. Open # {} => wfocus' \in Open
    BY <2>1, <2>2, FocusOfInRange
  <2>4. DeskFocus' \in IF DeskFocus # 0 THEN Open ELSE Open \cup {0, wcur'}
    BY <1>2, <1>4, <2>3
  <2> QED
    BY <1>3, <1>4, <2>2, <2>4 DEF DeskStep, Desk!Next, Desk!OpenWindow
<1> QED
  BY <1>5, <1>6

LEMMA FunctDesk ==
  ASSUME TableOK, Funct, UNCHANGED DeskBusy
  PROVE  DeskStep
<1>1. nwin \in Nat /\ wfocus \in Int /\ wprev \in Int
  BY DEF TableOK, Slot
<1>2. CASE FocusNext \/ FocusPrev \/ FocusLast \/ FocusGoto
  BY <1>1, <1>2, RefocusDesk DEF FocusNext, FocusPrev, FocusLast, FocusGoto
<1>3. CASE Kill
  BY <1>3, KillDesk
<1>4. CASE Launch
  BY <1>4, LaunchDesk
<1> QED
  BY <1>2, <1>3, <1>4 DEF Funct

LEMMA StepDesk ==
  ASSUME IInv, [Next]_vars
  PROVE  DeskStep
<1>t. TableOK
  BY TypeIsTable
<1>1. CASE PollFunct \/ GetcFunct
  BY <1>t, <1>1, FunctDesk DEF PollFunct, GetcFunct, calls
<1>2. CASE Deliver
  <2>1. /\ run = 0 /\ pc = "deliver" /\ wfocus \in 1..nwin /\ wfocus \in Slot
        /\ status' = status /\ wfocus' = wfocus /\ Call(wfocus, "key")
    BY <1>2 DEF Deliver, IInv, TypeOK, KeyCallFindsKey, Slot
  <2>2. CASE fun[wfocus] = NoProgram
    <3>1. pc' = "crash" /\ DeskFocus = 0
      BY <2>1, <2>2 DEF Call, IInv, SlotsConsistent, Open
    <3> QED
      BY <2>1, <3>1 DEF DeskStep, Desk!Next, Desk!Crash, Open
  <2>3. CASE fun[wfocus] # NoProgram
    <3>1. run' = wfocus /\ pc' # "crash" /\ wfocus \in Open
      BY <2>1, <2>3 DEF Call, IInv, SlotsConsistent, Open
    <3> QED
      BY <2>1, <3>1 DEF DeskStep, Desk!Next, Desk!Begin, Open
  <2> QED
    BY <2>2, <2>3
<1>3. CASE Turn
  <2>1. /\ run = 0 /\ pc = "turn" /\ status' = status /\ wfocus' = wfocus
        /\ wcur' \in 1..nwin /\ wcur' \in Slot
    BY <1>3, BeforeInRange DEF Turn, IInv, TypeOK, KeyCallFindsKey, Slot
  <2>2. CASE Ready(wcur')
    <3>1. run' = wcur' /\ pc' # "crash" /\ wcur' \in Open
      BY <1>3, <2>1, <2>2 DEF Turn, Call, Ready, IInv, SlotsConsistent, Open
    <3> QED
      BY <2>1, <3>1 DEF DeskStep, Desk!Next, Desk!Begin, Open
  <2>3. CASE ~Ready(wcur')
    BY <1>3, <2>1, <2>3 DEF Turn, calls, DeskStep, Desk!vars, Open
  <2> QED
    BY <2>2, <2>3
<1>4. CASE Return
  <2>1. run \in Slot /\ run' = 0 /\ pc = "return" /\ pc' = "poll"
        /\ status' = status /\ wfocus' = wfocus
    BY <1>4 DEF Return, IInv, TypeOK, KeyCallFindsKey, Slot
  <2> QED
    BY <2>1 DEF DeskStep, Desk!Next, Desk!Finish, Open
<1>5. CASE PollNoKey \/ PollKey \/ GetcNoKey \/ GetcKey \/ Take \/ UNCHANGED vars
  BY <1>5 DEF PollNoKey, PollKey, GetcNoKey, GetcKey, Take, vars, table, calls,
              DeskStep, Desk!vars, Open
<1> QED
  BY <1>1, <1>2, <1>3, <1>4, <1>5 DEF Next

LEMMA InitDesk == Init => Desk!Init
<1> SUFFICES ASSUME Init PROVE Desk!Init
  OBVIOUS
<1>1. Booted \in Slot /\ Booted # 0 /\ Booted <= Booted
  BY DEF Booted, Slot
<1>2. wfocus = Booted /\ run = 0 /\ pc = "poll"
  BY DEF Init
<1>3. status[Booted]
  BY <1>1, Zenon DEF Init
<1> QED
  BY <1>1, <1>2, <1>3 DEF Desk!Init, Open

\* The window table, round robin and key loop implement the desktop.
THEOREM DesktopTheorem == Spec => ImplementsDesktop
<1>1. Init => Desk!Init
  BY InitDesk
<1>2. IInv /\ [Next]_vars => [Desk!Next]_(Desk!vars)
  BY StepDesk DEF DeskStep
<1> QED
  BY <1>1, <1>2, Invariance, PTL DEF Spec, ImplementsDesktop, Desk!Spec

-----------------------------------------------------------------------------
\* As long as some window is open, the focus is on an open window and no key is
\* delivered to a closed slot.
THEOREM NoCrashTheorem == Spec => NoCrashWhileOpen
<1> DEFINE Sound == wfocus \in Open /\ pc # "crash"
           NonEmpty == Open # {}
<1>1. Init => Sound
  <2> SUFFICES ASSUME Init PROVE Sound
    OBVIOUS
  <2>1. Booted \in Slot /\ Booted <= Booted
    BY DEF Booted, Slot
  <2>2. status[Booted]
    BY <2>1, Zenon DEF Init
  <2> QED
    BY <2>1, <2>2 DEF Init, Open
<1>2. IInv /\ Sound /\ NonEmpty' /\ [Next]_vars => Sound'
  <2> SUFFICES ASSUME IInv, Sound, NonEmpty', [Next]_vars PROVE Sound'
    OBVIOUS
  <2>1. wfocus' \in Open'
    BY FocusStep
  <2>2. pc' # "crash"
    <3>1. CASE Deliver
      BY <3>1 DEF Deliver, Call, IInv, SlotsConsistent, Open, Slot
    <3>2. CASE Turn
      <4>1. wcur' \in Slot
        BY <3>2, BeforeInRange DEF Turn, IInv, TypeOK, Slot
      <4> QED
        BY <3>2, <4>1 DEF Turn, Call, Ready, IInv, SlotsConsistent
    <3>3. CASE ~(Deliver \/ Turn)
      BY <3>3 DEF Next, PollNoKey, PollKey, PollFunct, GetcNoKey, GetcKey, GetcFunct,
                  Take, Return, vars
    <3> QED
      BY <3>1, <3>2, <3>3
  <2> QED
    BY <2>1, <2>2
<1>3. Spec /\ []NonEmpty => []Sound
  <2> HIDE DEF Sound, NonEmpty
  <2> QED
    BY <1>1, <1>2, Invariance, PTL DEF Spec
<1> QED
  BY <1>3, PTL DEF NoCrashWhileOpen
=============================================================================
