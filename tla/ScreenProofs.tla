---------------------------- MODULE ScreenProofs ----------------------------
(***************************************************************************)
(* The windows on the screen, for screens of any size and windows of any   *)
(* size and number: what window() reads back from the screen is where they *)
(* are, until a kill or a move takes cells of another.  Then what any      *)
(* character writes and where it leaves the cursor: inside the window, or  *)
(* astray in known ways, and after a string where its characters one by    *)
(* one would.                                                              *)
(***************************************************************************)
EXTENDS Screen, WellFoundedInduction, TLAPS

Rect == [x : Nat, y : Nat, w : Nat, h : Nat]

\* Slots that are not taken have no window, and windows without a place no size.
GeometryOK ==
  /\ nwin \in Nat
  /\ status \in [Win -> BOOLEAN]
  /\ geometry \in [Win -> Rect]
  /\ \A n \in Win : n > nwin => ~status[n]
  /\ \A n \in Win : ~Shown(n) => geometry[n] = Unplaced

-----------------------------------------------------------------------------
(* Rows of cells.                                                           *)

LEMMA Sides == Cols \in Nat \ {0} /\ Rows \in Nat \ {0} /\ CharMod \in Nat \ {0} /\ TabStop \in Nat \ {0}
BY ScreenAssumption DEF ScreenAssumption

\* a lies in row k, from column x to the column before x + w.
InRow(a, k, x, w) == Cols * k + x <= a /\ a <= Cols * k + x + w - 1

LEMMA InRegion ==
  ASSUME NEW x \in Int, NEW y \in Int, NEW w \in Int, NEW h \in Int
  PROVE  \A a : a \in Region(x, y, w, h) <=> a \in Int /\ \E k \in y..(y + h - 1) : InRow(a, k, x, w)
<1>1. Cols \in Nat
  BY Sides
<1>2. ASSUME NEW a, a \in Region(x, y, w, h)
      PROVE  a \in Int /\ \E k \in y..(y + h - 1) : InRow(a, k, x, w)
  <2>1. PICK i \in 0..(h - 1) : a \in Address(x, y + i) .. Address(x + w - 1, y + i)
    BY <1>2 DEF Region
  <2>2. PICK k \in Int : k = y + i
    OBVIOUS
  <2>3. PICK m \in Int : m = Cols * k
    BY <1>1
  <2>4. a \in (m + x)..(m + (x + w - 1))
    BY <2>1, <2>2, <2>3 DEF Address
  <2>5. a \in Int /\ m + x <= a /\ a <= m + x + w - 1
    BY ONLY <2>4, x \in Int, w \in Int, m \in Int
  <2>6. k \in y..(y + h - 1)
    BY <2>2
  <2> QED BY <2>3, <2>5, <2>6 DEF InRow
<1>3. ASSUME NEW a \in Int, NEW k \in y..(y + h - 1), InRow(a, k, x, w)
      PROVE  a \in Region(x, y, w, h)
  <2>1. PICK i \in 0..(h - 1) : k = y + i
    <3>1. k - y \in 0..(h - 1) /\ k = y + (k - y)
      OBVIOUS
    <3> QED BY <3>1
  <2>2. PICK m \in Int : m = Cols * (y + i)
    BY <1>1
  <2>3. m + x <= a /\ a <= m + x + w - 1
    BY <1>3, <2>1, <2>2 DEF InRow
  <2>4. a \in (m + x)..(m + (x + w - 1))
    BY ONLY <2>3, x \in Int, w \in Int, m \in Int, a \in Int
  <2>5. a \in Address(x, y + i) .. Address(x + w - 1, y + i)
    BY <2>2, <2>4 DEF Address
  <2> QED BY <2>5 DEF Region
<1> QED BY <1>2, <1>3

\* The rows of a screen lie behind each other.
LEMMA RowsFit ==
  ASSUME NEW k \in Int, NEW m \in Int, k < m
  PROVE  /\ Cols * k \in Int /\ Cols * m \in Int /\ Cols * k + Cols <= Cols * m
<1>1. Cols \in Nat
  BY Sides
<1>2. PICK d \in Nat : m = k + 1 + d
  <2>1. m - k - 1 \in Nat /\ m = k + 1 + (m - k - 1)
    OBVIOUS
  <2> QED BY <2>1
<1>3. Cols * m = Cols * k + Cols + Cols * d /\ Cols * d >= 0
  BY <1>1, <1>2
<1> QED BY <1>1, <1>3

LEMMA NextRow ==
  ASSUME NEW k \in Int
  PROVE  /\ Cols * k \in Int /\ Cols * (k + 1) = Cols * k + Cols /\ Cols * (k - 1) = Cols * k - Cols
BY Sides

\* A window between the borders of the screen has its header and its body on the screen.
LEMMA OnScreen ==
  ASSUME NEW g \in Rect, 2 <= g.x, 1 <= g.y, g.x + g.w + 1 < Cols, g.y + g.h <= Rows
  PROVE  Covered(g) \subseteq 0..(Address(0, Rows) - 1)
<1> SUFFICES ASSUME NEW a \in Covered(g) PROVE a \in 0..(Address(0, Rows) - 1)
  OBVIOUS
<1>1. g.x \in Nat /\ g.y \in Nat /\ g.w \in Nat /\ g.h \in Nat /\ Cols \in Nat /\ Rows \in Nat
  BY Sides DEF Rect
<1>2. a \in Int /\ \E k \in (g.y - 1)..(g.y - 1 + (g.h + 1) - 1) : InRow(a, k, g.x - 2, g.w + 4)
  <2>1. a \in Region(g.x - 2, g.y - 1, g.w + 4, g.h + 1)
    BY DEF Covered
  <2> QED BY <1>1, <2>1, InRegion
<1>3. PICK k \in (g.y - 1)..(g.y - 1 + (g.h + 1) - 1) : InRow(a, k, g.x - 2, g.w + 4)
  BY <1>2
<1>4. k \in Nat /\ k < Rows
  BY <1>1
<1>5. Cols * k \in Nat /\ Cols * k + Cols <= Cols * Rows /\ Cols * Rows \in Nat
  BY <1>1, <1>4, RowsFit
<1>6. 0 <= a /\ a <= Cols * Rows - 1
  BY <1>1, <1>2, <1>3, <1>5 DEF InRow
<1>7. Address(0, Rows) = Cols * Rows
  BY <1>5 DEF Address
<1> QED BY <1>2, <1>5, <1>6, <1>7

LEMMA CellsBelow == 0..(Address(0, Rows) - 1) \subseteq Cells
<1>1. Cols * Rows \in Nat /\ Cols * (Rows + 2) \in Nat /\ Cols * Rows <= Cols * (Rows + 2)
  BY Sides
<1>2. Address(0, Rows) = Cols * Rows /\ Address(0, Rows + 2) = Cols * (Rows + 2)
  BY <1>1 DEF Address
<1> QED BY <1>1, <1>2 DEF Cells

\* Header and body are part of what is drawn and of the frame that moves along.
LEMMA CoveredInFrame ==
  ASSUME NEW g \in Rect
  PROVE  Covered(g) \subseteq Drawn(g) /\ Covered(g) \subseteq Frame(g) /\ Covered(g) \subseteq Int
<1>1. g.x \in Nat /\ g.y \in Nat /\ g.w \in Nat /\ g.h \in Nat /\ Cols \in Nat
  BY Sides DEF Rect
<1>2. ASSUME NEW a \in Covered(g) PROVE a \in Frame(g) /\ a \in Int /\ a \in Drawn(g)
  <2>1. a \in Int /\ \E k \in (g.y - 1)..(g.y - 1 + (g.h + 1) - 1) : InRow(a, k, g.x - 2, g.w + 4)
    <3>1. a \in Region(g.x - 2, g.y - 1, g.w + 4, g.h + 1)
      BY DEF Covered
    <3> QED BY <1>1, <3>1, InRegion
  <2>2. PICK k \in (g.y - 1)..(g.y - 1 + (g.h + 1) - 1) : InRow(a, k, g.x - 2, g.w + 4)
    BY <2>1
  <2>3. k \in (g.y - 2)..(g.y - 2 + (g.h + 4) - 1) /\ Cols * k \in Int
    BY <1>1
  <2>4. InRow(a, k, g.x - 3, g.w + 8)
    BY <1>1, <2>1, <2>2, <2>3 DEF InRow
  <2>5. a \in Region(g.x - 3, g.y - 2, g.w + 8, g.h + 4)
    BY <1>1, <2>1, <2>3, <2>4, InRegion
  <2>6. a \in Header(g) \/ a \in Body(g)
    <3>1. k \in (g.y - 1)..(g.y - 1 + 1 - 1) \/ k \in g.y..(g.y + g.h - 1)
      BY <1>1, <2>2
    <3>2. CASE k \in (g.y - 1)..(g.y - 1 + 1 - 1)
      <4>1. a \in Region(g.x - 2, g.y - 1, g.w + 4, 1)
        BY <1>1, <2>1, <2>2, <3>2, InRegion
      <4> QED BY <4>1 DEF Header
    <3>3. CASE k \in g.y..(g.y + g.h - 1)
      <4>1. a \in Region(g.x - 2, g.y, g.w + 4, g.h)
        BY <1>1, <2>1, <2>2, <3>3, InRegion
      <4> QED BY <4>1 DEF Body
    <3> QED BY <3>1, <3>2, <3>3
  <2> QED BY <2>1, <2>5, <2>6 DEF Frame, Drawn
<1> QED BY <1>2

\* The body is covered, and so is the row above each of its rows.
LEMMA BodyCovered ==
  ASSUME NEW g \in Rect, NEW a \in Body(g)
  PROVE  a \in Int /\ a \in Covered(g) /\ a - Cols \in Covered(g)
<1>1. g.x \in Nat /\ g.y \in Nat /\ g.w \in Nat /\ g.h \in Nat /\ Cols \in Nat
  BY Sides DEF Rect
<1>2. a \in Int /\ \E k \in g.y..(g.y + g.h - 1) : InRow(a, k, g.x - 2, g.w + 4)
  <2>1. a \in Region(g.x - 2, g.y, g.w + 4, g.h)
    BY DEF Body
  <2> QED BY <1>1, <2>1, InRegion
<1>3. PICK k \in g.y..(g.y + g.h - 1) : InRow(a, k, g.x - 2, g.w + 4)
  BY <1>2
<1>4. k \in (g.y - 1)..(g.y - 1 + (g.h + 1) - 1) /\ k - 1 \in (g.y - 1)..(g.y - 1 + (g.h + 1) - 1)
  BY <1>1
<1>5. PICK b \in Int : b = a - Cols
  BY <1>1, <1>2
<1>6. InRow(b, k - 1, g.x - 2, g.w + 4)
  <2>1. k \in Int /\ Cols * k \in Int /\ Cols * (k - 1) = Cols * k - Cols
    BY <1>1, NextRow
  <2> QED BY <1>1, <1>2, <1>3, <1>5, <2>1 DEF InRow
<1>7. a \in Region(g.x - 2, g.y - 1, g.w + 4, g.h + 1) /\ b \in Region(g.x - 2, g.y - 1, g.w + 4, g.h + 1)
  BY <1>1, <1>2, <1>3, <1>4, <1>6, InRegion
<1> QED BY <1>2, <1>5, <1>7 DEF Covered

\* What overlap() looks at holds all that is drawn but the last row, the shadow's.
LEMMA DrawnClear ==
  ASSUME NEW g \in Rect, g.h > 0, NEW a \in Drawn(g)
  PROVE  \/ a \in Region(g.x - 3, g.y - 2, g.w + 7, g.h + 2)
         \/ a - Cols \in Region(g.x - 3, g.y - 2, g.w + 7, g.h + 2)
<1>1. g.x \in Nat /\ g.y \in Nat /\ g.w \in Nat /\ g.h \in Nat /\ Cols \in Nat
  BY Sides DEF Rect
<1>2. a \in Int /\ \E k \in (g.y - 1)..(g.y + g.h) : InRow(a, k, g.x - 3, g.w + 7)
  <2>1. CASE a \in Header(g)
    <3>1. a \in Region(g.x - 2, g.y - 1, g.w + 4, 1)
      BY <2>1 DEF Header
    <3>2. a \in Int /\ \E k \in (g.y - 1)..(g.y - 1 + 1 - 1) : InRow(a, k, g.x - 2, g.w + 4)
      BY <1>1, <3>1, InRegion
    <3>3. PICK k \in (g.y - 1)..(g.y - 1 + 1 - 1) : InRow(a, k, g.x - 2, g.w + 4)
      BY <3>2
    <3>4. k \in (g.y - 1)..(g.y + g.h) /\ Cols * k \in Int
      BY <1>1
    <3>5. InRow(a, k, g.x - 3, g.w + 7)
      BY <1>1, <3>2, <3>3, <3>4 DEF InRow
    <3> QED BY <3>2, <3>4, <3>5
  <2>2. CASE a \in Body(g)
    <3>1. a \in Region(g.x - 2, g.y, g.w + 4, g.h)
      BY <2>2 DEF Body
    <3>2. a \in Int /\ \E k \in g.y..(g.y + g.h - 1) : InRow(a, k, g.x - 2, g.w + 4)
      BY <1>1, <3>1, InRegion
    <3>3. PICK k \in g.y..(g.y + g.h - 1) : InRow(a, k, g.x - 2, g.w + 4)
      BY <3>2
    <3>4. k \in (g.y - 1)..(g.y + g.h) /\ Cols * k \in Int
      BY <1>1
    <3>5. InRow(a, k, g.x - 3, g.w + 7)
      BY <1>1, <3>2, <3>3, <3>4 DEF InRow
    <3> QED BY <3>2, <3>4, <3>5
  <2>3. CASE a \in Shadow(g)
    <3>1. a \in Region(g.x - 1, g.y, g.w + 4, g.h + 1)
      BY <2>3 DEF Shadow
    <3>2. a \in Int /\ \E k \in g.y..(g.y + (g.h + 1) - 1) : InRow(a, k, g.x - 1, g.w + 4)
      BY <1>1, <3>1, InRegion
    <3>3. PICK k \in g.y..(g.y + (g.h + 1) - 1) : InRow(a, k, g.x - 1, g.w + 4)
      BY <3>2
    <3>4. k \in (g.y - 1)..(g.y + g.h) /\ Cols * k \in Int
      BY <1>1
    <3>5. InRow(a, k, g.x - 3, g.w + 7)
      BY <1>1, <3>2, <3>3, <3>4 DEF InRow
    <3> QED BY <3>2, <3>4, <3>5
  <2> QED BY <2>1, <2>2, <2>3 DEF Drawn
<1>3. PICK k \in (g.y - 1)..(g.y + g.h) : InRow(a, k, g.x - 3, g.w + 7)
  BY <1>2
<1>4. CASE k < g.y + g.h
  <2>1. k \in (g.y - 2)..(g.y - 2 + (g.h + 2) - 1)
    BY <1>1, <1>4
  <2> QED BY <1>1, <1>2, <1>3, <2>1, InRegion
<1>5. CASE k = g.y + g.h
  <2>1. PICK b \in Int : b = a - Cols
    BY <1>1, <1>2
  <2>2. InRow(b, k - 1, g.x - 3, g.w + 7)
    <3>1. k \in Int /\ Cols * k \in Int /\ Cols * (k - 1) = Cols * k - Cols
      BY <1>1, NextRow
    <3> QED BY <1>1, <1>2, <1>3, <2>1, <3>1 DEF InRow
  <2>3. k - 1 \in (g.y - 2)..(g.y - 2 + (g.h + 2) - 1)
    BY <1>1, <1>5
  <2>4. b \in Region(g.x - 3, g.y - 2, g.w + 7, g.h + 2)
    BY <1>1, <2>2, <2>3, InRegion
  <2> QED BY <2>1, <2>4
<1> QED BY <1>1, <1>4, <1>5

\* What the frame moves onto was its own or is ahead of it.
LEMMA FrameMoves ==
  ASSUME NEW g \in Rect, NEW dx \in {-1, 0, 1}, NEW dy \in {-1, 0, 1},
         (dx = 0 /\ dy # 0) \/ (dy = 0 /\ dx # 0), NEW a \in Frame(g)
  PROVE  a + Address(dx, dy) \in Frame(g) \cup Ahead(g, dx, dy)
<1>1. g.x \in Nat /\ g.y \in Nat /\ g.w \in Nat /\ g.h \in Nat /\ Cols \in Nat
  BY Sides DEF Rect
<1>2. a \in Int /\ \E k \in (g.y - 2)..(g.y - 2 + (g.h + 4) - 1) : InRow(a, k, g.x - 3, g.w + 8)
  <2>1. a \in Region(g.x - 3, g.y - 2, g.w + 8, g.h + 4)
    BY DEF Frame
  <2> QED BY <1>1, <2>1, InRegion
<1>3. PICK k \in (g.y - 2)..(g.y + g.h + 1) : InRow(a, k, g.x - 3, g.w + 8)
  <2>1. g.y - 2 + (g.h + 4) - 1 = g.y + g.h + 1
    BY <1>1
  <2> QED BY <1>2, <2>1
<1>4. k \in Int /\ Cols * k \in Int /\ g.y - 2 <= k /\ k <= g.y + g.h + 1
  BY <1>1
<1>5. \A b : b \in Int /\ (\E m \in (g.y - 2)..(g.y + g.h + 1) : InRow(b, m, g.x - 3, g.w + 8)) => b \in Frame(g)
  <2>1. g.y - 2 + (g.h + 4) - 1 = g.y + g.h + 1
    BY <1>1
  <2> QED BY <1>1, <2>1, InRegion DEF Frame
<1>6. CASE dy = 0
  <2>1. Address(dx, dy) = dx
    BY <1>1, <1>6 DEF Address
  <2>2. PICK b \in Int : b = a + dx
    BY <1>2
  <2>3. CASE InRow(b, k, g.x - 3, g.w + 8)
    BY <1>4, <1>5, <2>1, <2>2, <2>3
  <2>4. CASE ~InRow(b, k, g.x - 3, g.w + 8)
    <3>1. CASE dx = 1
      <4>1. InRow(b, k, g.x + g.w + 5, 1)
        BY <1>1, <1>2, <1>3, <1>4, <2>2, <2>4, <3>1 DEF InRow
      <4>2. k \in (g.y - 2)..(g.y - 2 + (g.h + 4) - 1)
        BY <1>1, <1>4
      <4>3. b \in Region(g.x + g.w + 5, g.y - 2, 1, g.h + 4)
        BY <1>1, <4>1, <4>2, InRegion
      <4> QED BY <1>6, <2>1, <2>2, <3>1, <4>3 DEF Ahead
    <3>2. CASE dx = -1
      <4>1. InRow(b, k, g.x - 4, 1)
        BY <1>1, <1>2, <1>3, <1>4, <2>2, <2>4, <3>2 DEF InRow
      <4>2. k \in (g.y - 2)..(g.y - 2 + (g.h + 4) - 1)
        BY <1>1, <1>4
      <4>3. b \in Region(g.x - 4, g.y - 2, 1, g.h + 4)
        BY <1>1, <4>1, <4>2, InRegion
      <4> QED BY <1>6, <2>1, <2>2, <3>2, <4>3 DEF Ahead
    <3> QED BY <1>6, <3>1, <3>2
  <2> QED BY <2>3, <2>4
<1>7. CASE dy = 1
  <2>1. dx = 0 /\ Address(dx, dy) = Cols
    BY <1>1, <1>7 DEF Address
  <2>2. PICK b \in Int : b = a + Cols
    BY <1>1, <1>2
  <2>3. InRow(b, k + 1, g.x - 3, g.w + 8)
    <3>1. Cols * (k + 1) = Cols * k + Cols
      BY <1>4, NextRow
    <3> QED BY <1>1, <1>2, <1>3, <1>4, <2>2, <3>1 DEF InRow
  <2>4. CASE k + 1 <= g.y + g.h + 1
    <3>1. k + 1 \in (g.y - 2)..(g.y + g.h + 1)
      BY <1>1, <1>4, <2>4
    <3> QED BY <1>5, <2>1, <2>2, <2>3, <3>1
  <2>5. CASE k + 1 = g.y + g.h + 2
    <3>1. g.y + g.h + 2 \in (g.y + g.h + 2)..(g.y + g.h + 2 + 1 - 1)
      BY <1>1
    <3>2. b \in Region(g.x - 3, g.y + g.h + 2, g.w + 8, 1)
      BY <1>1, <2>3, <2>5, <3>1, InRegion
    <3> QED BY <1>7, <2>1, <2>2, <3>2 DEF Ahead
  <2> QED BY <1>1, <1>4, <2>4, <2>5
<1>8. CASE dy = -1
  <2>1. dx = 0 /\ Address(dx, dy) = -Cols
    BY <1>1, <1>8 DEF Address
  <2>2. PICK b \in Int : b = a + (-Cols)
    BY <1>1, <1>2
  <2>3. InRow(b, k - 1, g.x - 3, g.w + 8)
    <3>1. Cols * (k - 1) = Cols * k - Cols
      BY <1>4, NextRow
    <3> QED BY <1>1, <1>2, <1>3, <1>4, <2>2, <3>1 DEF InRow
  <2>4. CASE k - 1 >= g.y - 2
    <3>1. k - 1 \in (g.y - 2)..(g.y + g.h + 1)
      BY <1>1, <1>4, <2>4
    <3> QED BY <1>5, <2>1, <2>2, <2>3, <3>1
  <2>5. CASE k - 1 = g.y - 3
    <3>1. g.y - 3 \in (g.y - 3)..(g.y - 3 + 1 - 1)
      BY <1>1
    <3>2. b \in Region(g.x - 3, g.y - 3, g.w + 8, 1)
      BY <1>1, <2>3, <2>5, <3>1, InRegion
    <3> QED BY <1>8, <2>1, <2>2, <3>2 DEF Ahead
  <2> QED BY <1>1, <1>4, <2>4, <2>5
<1> QED BY <1>6, <1>7, <1>8

\* A region moves along with its window.
LEMMA RegionMoves ==
  ASSUME NEW x \in Int, NEW y \in Int, NEW w \in Int, NEW h \in Int, NEW dx \in {-1, 0, 1}, NEW dy \in {-1, 0, 1},
         NEW a \in Region(x + dx, y + dy, w, h)
  PROVE  a - Address(dx, dy) \in Region(x, y, w, h) /\ a \in Int
<1>1. Cols \in Nat /\ x + dx \in Int /\ y + dy \in Int
  BY Sides
<1>2. a \in Int /\ \E k \in (y + dy)..(y + dy + h - 1) : InRow(a, k, x + dx, w)
  BY <1>1, InRegion
<1>3. PICK k \in (y + dy)..(y + dy + h - 1) : InRow(a, k, x + dx, w)
  BY <1>2
<1>4. PICK i \in Int : i = k - dy
  BY <1>1
<1>5. i \in y..(y + h - 1)
  BY <1>1, <1>4
<1>6. Address(dx, dy) \in Int /\ InRow(a - Address(dx, dy), i, x, w)
  <2>1. k \in Int /\ Cols * k \in Int
    BY <1>1
  <2>2. Cols * i = Cols * k - Cols * dy /\ Cols * dy \in Int
    <3>1. CASE dy = 0
      BY <1>1, <1>4, <2>1, <3>1
    <3>2. CASE dy = 1
      <4>1. Cols * (k - 1) = Cols * k - Cols
        BY <2>1, NextRow
      <4> QED BY <1>1, <1>4, <2>1, <3>2, <4>1
    <3>3. CASE dy = -1
      <4>1. Cols * (k + 1) = Cols * k + Cols
        BY <2>1, NextRow
      <4>2. i = k + 1 /\ Cols * dy = -Cols
        BY <1>1, <1>4, <2>1, <3>3
      <4> QED BY <1>1, <2>1, <4>1, <4>2
    <3> QED BY <3>1, <3>2, <3>3
  <2>3. Address(dx, dy) = Cols * dy + dx
    BY DEF Address
  <2> QED BY <1>1, <1>2, <1>3, <2>1, <2>2, <2>3 DEF InRow
<1>7. a - Address(dx, dy) \in Int
  BY <1>2, <1>6
<1> QED BY <1>2, <1>5, <1>6, <1>7, InRegion

LEMMA WindowMoves ==
  ASSUME NEW g \in Rect, NEW m \in Rect, NEW dx \in {-1, 0, 1}, NEW dy \in {-1, 0, 1},
         m.x = g.x + dx, m.y = g.y + dy, m.w = g.w, m.h = g.h
  PROVE  /\ \A a \in Body(m) : a - Address(dx, dy) \in Body(g)
         /\ \A a \in Covered(m) : a - Address(dx, dy) \in Covered(g)
<1>1. g.x \in Nat /\ g.y \in Nat /\ g.w \in Nat /\ g.h \in Nat
  BY DEF Rect
<1>2. ASSUME NEW a \in Body(m) PROVE a - Address(dx, dy) \in Body(g)
  <2>1. m.x - 2 = (g.x - 2) + dx
    BY <1>1
  <2>2. a \in Region((g.x - 2) + dx, g.y + dy, g.w + 4, g.h)
    BY <2>1 DEF Body
  <2>3. a - Address(dx, dy) \in Region(g.x - 2, g.y, g.w + 4, g.h)
    <3>1. g.x - 2 \in Int /\ g.y \in Int /\ g.w + 4 \in Int /\ g.h \in Int
      BY <1>1
    <3> QED BY <2>2, <3>1, RegionMoves
  <2> QED BY <2>3 DEF Body
<1>3. ASSUME NEW a \in Covered(m) PROVE a - Address(dx, dy) \in Covered(g)
  <2>1. m.x - 2 = (g.x - 2) + dx /\ m.y - 1 = (g.y - 1) + dy
    BY <1>1
  <2>2. a \in Region((g.x - 2) + dx, (g.y - 1) + dy, g.w + 4, g.h + 1)
    BY <2>1 DEF Covered
  <2>3. a - Address(dx, dy) \in Region(g.x - 2, g.y - 1, g.w + 4, g.h + 1)
    <3>1. g.x - 2 \in Int /\ g.y - 1 \in Int /\ g.w + 4 \in Int /\ g.h + 1 \in Int
      BY <1>1
    <3> QED BY <2>2, <3>1, RegionMoves
  <2> QED BY <2>3 DEF Covered
<1> QED BY <1>2, <1>3

LEMMA LeastOf ==
  ASSUME NEW S, S \subseteq Nat, S # {}
  PROVE  \E i \in S : \A k \in S : i <= k
<1>1. PICK i \in S : \A k \in S : ~ (<<k, i>> \in OpToRel(<, Nat))
  BY WFMin, NatLessThanWellFounded
<1>2. ASSUME NEW k \in S, k < i PROVE FALSE
  <2>1. <<k, i>> \in {ss \in Nat \X Nat : ss[1] < ss[2]}
    BY <1>2
  <2> QED BY <1>1, <2>1 DEF OpToRel
<1> QED BY <1>2

\* Where there are places, the placer takes the first.
LEMMA PlacedIsPlace ==
  ASSUME NEW w \in Nat, NEW h \in Nat, Places(w, h) # {}
  PROVE  Placed(w, h) \in Places(w, h)
<1> DEFINE P == Places(w, h)
<1>1. \A a \in P : a[1] \in Nat /\ a[2] \in Nat /\ a = <<a[1], a[2]>>
  BY Sides DEF Places
<1>2. PICK y \in {a[2] : a \in P} : \A m \in {a[2] : a \in P} : y <= m
  <2>1. {a[2] : a \in P} \subseteq Nat /\ {a[2] : a \in P} # {}
    BY <1>1
  <2> QED BY <2>1, LeastOf
<1>3. PICK x \in {a[1] : a \in {c \in P : c[2] = y}} : \A m \in {a[1] : a \in {c \in P : c[2] = y}} : x <= m
  <2>1. {a[1] : a \in {c \in P : c[2] = y}} \subseteq Nat /\ {a[1] : a \in {c \in P : c[2] = y}} # {}
    BY <1>1, <1>2
  <2> QED BY <2>1, LeastOf
<1>4. PICK a \in P : a[1] = x /\ a[2] = y
  BY <1>3
<1> HIDE DEF P
<1>5. \A b \in P \ {a} : Before(a, b)
  <2> SUFFICES ASSUME NEW b \in P, b # a PROVE a[2] < b[2] \/ (a[2] = b[2] /\ a[1] < b[1])
    BY DEF Before
  <2>1. y <= b[2]
    BY <1>2
  <2>2. b[2] = y => x <= b[1]
    BY <1>3
  <2>3. b[2] = y => b[1] # x
    BY <1>1, <1>4
  <2> QED BY <1>1, <1>4, <2>1, <2>2, <2>3
<1>6. \E c \in P : \A b \in P \ {c} : Before(c, b)
  BY <1>5
<1> QED BY <1>6 DEF Placed, P

-----------------------------------------------------------------------------
(* The screen shows where the windows are.                                  *)

\* What screen s shows of window n at g: its own text, and above it a header that is
\* not gray, though another's shadow may have been drawn over it.
Shows(g, n, s) ==
  /\ Covered(g) \subseteq 0..(Address(0, Rows) - 1)
  /\ \A a \in Covered(g) : s[a] # 0
  /\ \A a \in Body(g) : s[a] = n
Intact(n) == Shows(geometry[n], n, screen)
AllIntact == ~spoiled /\ ~crowded => \A n \in Win : Shown(n) => Intact(n)
ScreenInv == GeometryOK /\ AllIntact

\* That windows are apart follows: no cell shows two of them.
LEMMA IntactApart == ScreenInv => TextIntact
<1> SUFFICES ASSUME ScreenInv, ~spoiled, ~crowded
             PROVE  Apart /\ \A n \in Win : Shown(n) => \A a \in Body(geometry[n]) : screen[a] = n
  BY DEF TextIntact
<1>1. \A n \in Win : Shown(n) => Intact(n)
  BY DEF ScreenInv, AllIntact
<1>2. ASSUME NEW n \in Win, NEW m \in Win \ {n}, Shown(n), Shown(m)
      PROVE  Body(geometry[n]) \cap Body(geometry[m]) = {}
  BY <1>1, <1>2 DEF Intact, Shows
<1>3. ASSUME NEW n \in Win, Shown(n)
      PROVE  Body(geometry[n]) \subseteq 0..(Address(0, Rows) - 1) /\ \A a \in Body(geometry[n]) : screen[a] = n
  <2>1. geometry[n] \in Rect
    BY DEF ScreenInv, GeometryOK
  <2>2. Body(geometry[n]) \subseteq Covered(geometry[n])
    BY <2>1, BodyCovered
  <2> QED BY <1>1, <1>3, <2>2 DEF Intact, Shows
<1> QED BY <1>2, <1>3 DEF Apart

\* It is enough that what happens to one window leaves the cells of the others alone.
LEMMA OthersKept ==
  ASSUME AllIntact, ~spoiled', ~spoiled, crowded => crowded', NEW n \in Win,
         \A m \in Win \ {n} : status'[m] = status[m] /\ geometry'[m] = geometry[m],
         ~crowded' => \A m \in Win \ {n} : Shown(m) /\ Intact(m) => Shows(geometry[m], m, screen'),
         ~crowded' /\ ~crowded => (Shown(n)' => Intact(n)')
  PROVE  AllIntact'
<1> SUFFICES ASSUME ~crowded', NEW m \in Win, Shown(m)' PROVE Intact(m)'
  BY DEF AllIntact
<1>1. CASE m = n
  BY <1>1
<1>2. CASE m # n
  <2>1. status'[m] = status[m] /\ geometry'[m] = geometry[m]
    BY <1>2
  <2>2. Shown(m) /\ Intact(m)
    BY <2>1 DEF Shown, AllIntact
  <2>3. Shows(geometry[m], m, screen')
    BY <1>2, <2>2
  <2> QED BY <2>1, <2>3 DEF Intact
<1> QED BY <1>1, <1>2

LEMMA FirstScreen == Init => ScreenInv
<1> SUFFICES ASSUME Init PROVE ScreenInv
  OBVIOUS
<1>1. /\ nwin = 1 /\ geometry = [n \in Win |-> IF n = 1 THEN Boot ELSE Unplaced]
      /\ status = [n \in Win |-> n = 1]
      /\ screen = [a \in Cells |-> IF a \in MenuLine \/ a >= Address(0, Rows) THEN -1
                                   ELSE IF a \in Drawn(Boot) THEN 1 ELSE 0]
  BY DEF Init
<1>2. Boot \in Rect /\ Boot.y >= 1 /\ 1 \in Win /\ Win \subseteq Nat \ {0}
  BY WindowAssumption DEF Rect
<1>3. GeometryOK
  <2>1. Unplaced \in Rect
    BY DEF Unplaced, Rect
  <2>2. \A n \in Win : n > 1 => n # 1
    BY <1>2
  <2>3. Shown(1) /\ \A n \in Win : n # 1 => geometry[n] = Unplaced
    BY <1>1, <1>2, WindowAssumption DEF Shown
  <2> QED BY <1>1, <1>2, <2>1, <2>2, <2>3 DEF GeometryOK
<1>4. Intact(1)
  <2>1. geometry[1] = Boot
    BY <1>1, <1>2
  <2>2. Covered(Boot) \subseteq 0..(Address(0, Rows) - 1) /\ Covered(Boot) \subseteq Int
    BY <1>2, OnScreen, CoveredInFrame, WindowAssumption
  <2>3. ASSUME NEW a \in Covered(Boot) PROVE screen[a] # 0
    <3>1. a \in Drawn(Boot) /\ a \in Cells
      BY <1>2, <2>2, CoveredInFrame, CellsBelow
    <3> QED BY <1>1, <3>1
  <2>4. ASSUME NEW a \in Body(Boot) PROVE screen[a] = 1
    <3>1. a \in Covered(Boot) /\ a \in Drawn(Boot) /\ a \in Int
      BY <1>2, BodyCovered, CoveredInFrame
    <3>2. a \in Cells
      BY <2>2, <3>1, CellsBelow
    <3>3. ~(a >= Address(0, Rows))
      <4>1. Address(0, Rows) \in Int
        BY Sides DEF Address
      <4> QED BY <2>2, <3>1, <4>1
    <3>4. a \notin MenuLine
      <4> SUFFICES ASSUME a \in MenuLine PROVE FALSE
        OBVIOUS
      <4>1. a \in Int /\ \E k \in 0..(0 + 1 - 1) : InRow(a, k, 0, Cols)
        BY Sides, InRegion DEF MenuLine
      <4>2. a <= Cols - 1
        BY <4>1, Sides DEF InRow
      <4>3. /\ Boot.x \in Nat /\ Boot.y \in Nat /\ Boot.w \in Nat /\ Boot.h \in Nat
            /\ a \in Region(Boot.x - 2, Boot.y, Boot.w + 4, Boot.h)
        BY <1>2 DEF Rect, Body
      <4>4. \E k \in Boot.y..(Boot.y + Boot.h - 1) : InRow(a, k, Boot.x - 2, Boot.w + 4)
        BY <4>3, InRegion
      <4>5. PICK k \in Boot.y..(Boot.y + Boot.h - 1) : InRow(a, k, Boot.x - 2, Boot.w + 4)
        BY <4>4
      <4>6. k \in Int /\ 0 < k /\ Boot.x >= 2
        BY <1>2, <4>3, WindowAssumption
      <4>7. Cols * 0 + Cols <= Cols * k
        BY <4>6, RowsFit
      <4> QED BY <4>1, <4>2, <4>3, <4>5, <4>6, <4>7, Sides DEF InRow
    <3> QED BY <1>1, <3>1, <3>2, <3>3, <3>4
  <2> QED BY <2>1, <2>2, <2>3, <2>4 DEF Intact, Shows
<1>5. \A n \in Win : Shown(n) => n = 1
  BY <1>1 DEF Shown
<1> QED BY <1>3, <1>4, <1>5 DEF ScreenInv, AllIntact

LEMMA UnplacedBody == Body(Unplaced) = {} /\ Unplaced.w = 0 /\ Unplaced \in Rect
<1>1. Unplaced \in Rect /\ Unplaced.w = 0 /\ Unplaced.x = 0 /\ Unplaced.y = 0 /\ Unplaced.h = 0
  BY DEF Unplaced, Rect
<1>2. Body(Unplaced) = Region(-2, 0, 4, 0)
  BY <1>1 DEF Body
<1>3. \A k : k \notin 0..(0 + 0 - 1)
  OBVIOUS
<1> QED BY <1>1, <1>2, <1>3, InRegion

\* window() draws on the screen, and clear of the others' text: where overlap() does not
\* look, in the row of the shadow, it only reaches the header of a window below.
LEMMA OpenScreen ==
  ASSUME ScreenInv, ~spoiled, NEW n \in Win, Open(n)
  PROVE  ScreenInv'
<1>1. /\ n = nwin + 1 /\ nwin' = n /\ spoiled' = spoiled /\ crowded' = crowded
      /\ status' = [status EXCEPT ![n] = TRUE]
  BY DEF Open
<1>2. PICK size \in Sizes : window(n, size[1], size[2])
  BY DEF Open
<1>3. PICK w \in Nat \ {0}, h \in Nat \ {0} : window(n, w, h)
  <2>1. size[1] \in Nat \ {0} /\ size[2] \in Nat \ {0}
    BY WindowAssumption
  <2> QED BY <1>2, <2>1
<1>4. /\ nwin \in Nat /\ status \in [Win -> BOOLEAN] /\ geometry \in [Win -> Rect]
      /\ \A m \in Win : m > nwin => ~status[m]
      /\ \A m \in Win : ~Shown(m) => geometry[m] = Unplaced
      /\ n \in Nat /\ nwin' \in Nat
  BY <1>1 DEF ScreenInv, GeometryOK
<1>5. ~status[n] /\ geometry[n] = Unplaced /\ geometry[n].w = 0
  <2>1. ~status[n]
    BY <1>1, <1>4
  <2> QED BY <1>4, <2>1, UnplacedBody DEF Shown
<1>6. CASE Places(w, h) = {}
  <2>1. UNCHANGED <<geometry, tty, screen>>
    BY <1>3, <1>6 DEF window
  <2>2. GeometryOK'
    <3>1. \A m \in Win : m > nwin' => m > nwin /\ m # n
      BY <1>1, <1>4, WindowAssumption
    <3>2. \A m \in Win : ~Shown(m)' => ~Shown(m)
      BY <1>1, <1>4, <2>1 DEF Shown
    <3> QED BY <1>1, <1>4, <2>1, <3>1, <3>2 DEF GeometryOK
  <2>3. \A m \in Win \ {n} : status'[m] = status[m] /\ geometry'[m] = geometry[m]
    BY <1>1, <1>4, <2>1
  <2>4. ~Shown(n)'
    BY <1>5, <2>1 DEF Shown
  <2>5. \A m \in Win \ {n} : Intact(m) => Shows(geometry[m], m, screen')
    BY <2>1 DEF Intact
  <2>6. AllIntact'
    BY <1>1, <2>3, <2>4, <2>5, OthersKept DEF ScreenInv
  <2> QED BY <2>2, <2>6 DEF ScreenInv
<1>7. CASE Places(w, h) # {}
  <2> DEFINE g == [x |-> Placed(w, h)[1], y |-> Placed(w, h)[2], w |-> w, h |-> h]
  <2>1. /\ geometry' = [geometry EXCEPT ![n] = g]
        /\ screen' = Painted(Drawn(g), n, screen)
    BY <1>3, <1>5, <1>7 DEF window, windraw
  <2>2. /\ Placed(w, h) \in (2..(Cols - 5 - w)) \X (1..(Rows - h))
        /\ ~overlap(Placed(w, h)[1], Placed(w, h)[2], w, h)
    BY <1>7, PlacedIsPlace DEF Places
  <2>3. g \in Rect /\ g.w = w /\ g.h = h /\ g.x = Placed(w, h)[1] /\ g.y = Placed(w, h)[2]
    BY <2>2, Sides DEF Rect
  <2> HIDE DEF g
  <2>4. 2 <= g.x /\ 1 <= g.y /\ g.x + g.w + 1 < Cols /\ g.y + g.h <= Rows
    <3>1. g.x \in Nat /\ g.y \in Nat /\ g.y <= Rows - h /\ ~(g.x < 3) /\ ~(g.x + w >= Cols - 5) /\ ~(g.y < 3)
      BY <2>2, <2>3, Sides DEF overlap, Rect
    <3> QED BY <2>3, <3>1, Sides
  <2>5. GeometryOK'
    <3>1. \A m \in Win : m > nwin' => m > nwin /\ m # n
      BY <1>1, <1>4, WindowAssumption
    <3>2. \A m \in Win : ~Shown(m)' => m # n /\ ~Shown(m)
      BY <1>1, <1>4, <2>1, <2>3 DEF Shown
    <3> QED BY <1>1, <1>4, <2>1, <2>3, <3>1, <3>2 DEF GeometryOK
  <2>6. \A m \in Win \ {n} : status'[m] = status[m] /\ geometry'[m] = geometry[m]
    BY <1>1, <1>4, <2>1
  <2>7. \A a \in Region(g.x - 3, g.y - 2, g.w + 7, g.h + 2) : screen[a] = 0
    BY <2>2, <2>3 DEF overlap, Gray
  <2>8. ASSUME NEW m \in Win \ {n}, Intact(m) PROVE Shows(geometry[m], m, screen')
    <3>1. geometry[m] \in Rect /\ Covered(geometry[m]) \subseteq Cells
      BY <1>4, <2>8, CellsBelow DEF Intact, Shows
    <3>2. ASSUME NEW a \in Body(geometry[m]) PROVE screen'[a] = m
      <4>1. a \in Covered(geometry[m]) /\ a - Cols \in Covered(geometry[m])
        BY <3>1, BodyCovered
      <4>2. screen[a] # 0 /\ screen[a - Cols] # 0 /\ screen[a] = m
        BY <2>8, <4>1 DEF Intact, Shows
      <4>3. a \notin Drawn(g)
        BY <2>3, <2>7, <4>2, DrawnClear
      <4> QED BY <2>1, <3>1, <4>1, <4>2, <4>3 DEF Painted
    <3>3. ASSUME NEW a \in Covered(geometry[m]) PROVE screen'[a] # 0
      <4>1. screen[a] # 0 /\ n # 0
        BY <2>8, WindowAssumption DEF Intact, Shows
      <4> QED BY <2>1, <3>1, <4>1 DEF Painted
    <3> QED BY <2>8, <3>2, <3>3 DEF Intact, Shows
  <2>9. Intact(n)'
    <3>1. geometry'[n] = g
      BY <1>4, <2>1
    <3>2. Covered(g) \subseteq 0..(Address(0, Rows) - 1)
      BY <2>3, <2>4, OnScreen
    <3>3. \A a \in Covered(g) : screen'[a] = n
      BY <2>1, <2>3, <3>2, CoveredInFrame, CellsBelow DEF Painted
    <3>4. n # 0 /\ \A a \in Body(g) : a \in Covered(g)
      BY <2>3, BodyCovered, WindowAssumption
    <3> QED BY <3>1, <3>2, <3>3, <3>4 DEF Intact, Shows
  <2>10. AllIntact'
    BY <1>1, <2>6, <2>8, <2>9, OthersKept DEF ScreenInv
  <2> QED BY <2>5, <2>10 DEF ScreenInv
<1> QED BY <1>6, <1>7

LEMMA KillScreen ==
  ASSUME ScreenInv, ~spoiled, NEW n \in Win, winkill(n)
  PROVE  ScreenInv'
<1>1. /\ screen' = Painted(Erased(geometry[n]), 0, screen) /\ nwin' = nwin /\ spoiled' = spoiled
      /\ crowded' = (crowded \/ \E m \in Win \ {n} : Shown(m) /\ Erased(geometry[n]) \cap Covered(geometry[m]) # {})
      /\ status' = [status EXCEPT ![n] = FALSE]
      /\ geometry' = [geometry EXCEPT ![n] = Unplaced]
  BY DEF winkill, Takes
<1>2. /\ nwin \in Nat /\ status \in [Win -> BOOLEAN] /\ geometry \in [Win -> Rect]
      /\ \A m \in Win : m > nwin => ~status[m]
      /\ \A m \in Win : ~Shown(m) => geometry[m] = Unplaced
  BY DEF ScreenInv, GeometryOK
<1>3. GeometryOK'
  <2>1. \A m \in Win : ~Shown(m)' => m = n \/ ~Shown(m)
    BY <1>1, <1>2 DEF Shown
  <2> QED BY <1>1, <1>2, <2>1, UnplacedBody DEF GeometryOK
<1>4. \A m \in Win \ {n} : status'[m] = status[m] /\ geometry'[m] = geometry[m]
  BY <1>1, <1>2
<1>5. ASSUME ~crowded', NEW m \in Win \ {n}, Shown(m), Intact(m) PROVE Shows(geometry[m], m, screen')
  <2>1. Covered(geometry[m]) \subseteq Cells
    BY <1>5, CellsBelow DEF Intact, Shows
  <2>2. \A a \in Covered(geometry[m]) : a \notin Erased(geometry[n])
    BY <1>1, <1>5
  <2>3. \A a \in Covered(geometry[m]) : screen'[a] = screen[a]
    BY <1>1, <2>1, <2>2 DEF Painted
  <2>4. \A a \in Body(geometry[m]) : a \in Covered(geometry[m])
    BY <1>2, BodyCovered
  <2> QED BY <1>5, <2>3, <2>4 DEF Intact, Shows
<1>6. ~Shown(n)'
  BY <1>1, <1>2 DEF Shown
<1>7. AllIntact'
  BY <1>1, <1>4, <1>5, <1>6, OthersKept DEF ScreenInv
<1> QED BY <1>3, <1>7 DEF ScreenInv

\* The frame that mowin() copies holds nothing of another window, nor do the cells
\* ahead of it, which are gray.
LEMMA MoveScreen ==
  ASSUME ScreenInv, ~spoiled, NEW n \in Win, NEW dx \in {-1, 0, 1}, NEW dy \in {-1, 0, 1},
         (dx = 0 /\ dy # 0) \/ (dy = 0 /\ dx # 0), mowin(n, dx, dy)
  PROVE  ScreenInv'
<1> DEFINE g == geometry[n]
           by == Address(dx, dy)
<1>1. /\ ~MayLeave(g, dx, dy) /\ \A a \in Ahead(g, dx, dy) : Gray(a)
      /\ screen' = MovedFrame(g, dx, dy)
      /\ crowded' = (crowded \/ \E m \in Win \ {n} : Shown(m) /\ Frame(g) \cap Covered(geometry[m]) # {})
      /\ geometry' = [geometry EXCEPT ![n] = Moved(g, dx, dy)]
      /\ nwin' = nwin /\ spoiled' = spoiled /\ status' = status /\ status[n]
  BY DEF mowin, Blocked, Takes
<1>2. /\ nwin \in Nat /\ status \in [Win -> BOOLEAN] /\ geometry \in [Win -> Rect] /\ g \in Rect
      /\ \A m \in Win : m > nwin => ~status[m]
      /\ \A m \in Win : ~Shown(m) => geometry[m] = Unplaced
  BY DEF ScreenInv, GeometryOK
<1>3. g.x \in Nat /\ g.y \in Nat /\ g.w \in Nat /\ g.h \in Nat /\ Cols \in Nat /\ Rows \in Nat /\ dx \in Int /\ dy \in Int
  BY <1>2, Sides DEF Rect
<1>4. /\ ~(g.x + dx < 3) /\ ~(g.x + g.w + dx >= Cols - 3)
      /\ ~(g.y + dy < 2) /\ ~(g.y + g.h + dy >= Rows - 1)
  BY <1>1 DEF MayLeave
<1>5. PICK moved \in Rect : /\ moved.x = g.x + dx /\ moved.y = g.y + dy /\ moved.w = g.w /\ moved.h = g.h
                            /\ geometry'[n] = moved /\ geometry' = [geometry EXCEPT ![n] = moved]
  <2> DEFINE moved == Moved(g, dx, dy)
  <2>1. geometry' = [geometry EXCEPT ![n] = moved]
    BY <1>1, <1>2
  <2>2. moved \in Rect /\ moved.x = g.x + dx /\ moved.y = g.y + dy /\ moved.w = g.w /\ moved.h = g.h
    <3>1. g.x + dx \in Nat /\ g.y + dy \in Nat
      BY <1>3, <1>4
    <3> QED BY <1>2, <3>1 DEF Rect, Moved
  <2> HIDE DEF moved
  <2>3. geometry'[n] = moved
    BY <1>2, <2>1
  <2> QED BY <2>1, <2>2, <2>3
<1> HIDE DEF g, by
<1>6. GeometryOK'
  <2>1. Shown(n)
    <3>1. g # Unplaced
      BY <1>4, UnplacedBody DEF Unplaced
    <3> QED BY <1>2, <3>1 DEF g
  <2>2. \A m \in Win : ~Shown(m)' => m # n /\ ~Shown(m)
    BY <1>1, <1>2, <1>5, <2>1 DEF Shown, g
  <2> QED BY <1>1, <1>2, <1>5, <2>2 DEF GeometryOK
<1>7. \A m \in Win \ {n} : status'[m] = status[m] /\ geometry'[m] = geometry[m]
  BY <1>1, <1>2, <1>5
<1>8. \A a \in Frame(g) : a + by \in Frame(g) \cup Ahead(g, dx, dy)
  BY <1>2, FrameMoves DEF by
<1>9. ASSUME ~crowded', NEW m \in Win \ {n}, Shown(m), Intact(m) PROVE Shows(geometry[m], m, screen')
  <2>1. Covered(geometry[m]) \subseteq Cells
    BY <1>9, CellsBelow DEF Intact, Shows
  <2>2. ASSUME NEW a \in Covered(geometry[m]) PROVE screen'[a] = screen[a]
    <3>1. a \notin Frame(g)
      BY <1>1, <1>9
    <3>2. a \notin Ahead(g, dx, dy)
      <4>1. screen[a] # 0
        BY <1>9 DEF Intact, Shows
      <4> QED BY <1>1, <4>1 DEF Gray
    <3>3. a \notin {c + by : c \in Frame(g)}
      BY <1>8, <3>1, <3>2
    <3> QED BY <1>1, <2>1, <3>1, <3>3 DEF MovedFrame, by
  <2>3. \A a \in Body(geometry[m]) : a \in Covered(geometry[m])
    BY <1>2, BodyCovered
  <2> QED BY <1>9, <2>2, <2>3 DEF Intact, Shows
<1>10. ASSUME ~crowded, Shown(n)' PROVE Intact(n)'
  <2>1. Covered(moved) \subseteq 0..(Address(0, Rows) - 1)
    <3>1. 2 <= moved.x /\ 1 <= moved.y /\ moved.x + moved.w + 1 < Cols /\ moved.y + moved.h <= Rows
      BY <1>3, <1>4, <1>5
    <3> QED BY <3>1, OnScreen
  <2>2. Intact(n)
    <3>1. Shown(n)
      BY <1>1, <1>5, <1>10 DEF Shown, g
    <3> QED BY <1>10, <3>1 DEF ScreenInv, AllIntact
  <2>3. /\ by \in Int
        /\ \A a \in Body(moved) : a - by \in Body(g)
        /\ \A a \in Covered(moved) : a - by \in Covered(g)
    <3>1. by \in Int
      BY <1>3 DEF by, Address
    <3> QED BY <1>2, <1>5, <3>1, WindowMoves DEF by
  <2>4. ASSUME NEW a \in Covered(moved) PROVE screen'[a] = screen[a - by]
    <3>1. a - by \in Frame(g) /\ a \in Int
      BY <1>2, <2>3, CoveredInFrame
    <3>2. a = (a - by) + by
      BY <2>3, <3>1
    <3>3. a \in Cells /\ a \in {c + by : c \in Frame(g)}
      BY <2>1, <3>1, <3>2, CellsBelow
    <3> QED BY <1>1, <3>3 DEF MovedFrame, by
  <2>5. \A a \in Body(moved) : a \in Covered(moved)
    BY BodyCovered
  <2>6. \A a \in Covered(moved) : screen'[a] # 0
    BY <2>2, <2>3, <2>4 DEF Intact, Shows, g
  <2>7. \A a \in Body(moved) : screen'[a] = n
    BY <2>2, <2>3, <2>4, <2>5 DEF Intact, Shows, g
  <2> QED BY <1>5, <2>1, <2>6, <2>7 DEF Intact, Shows
<1>11. AllIntact'
  BY <1>1, <1>7, <1>9, <1>10, OthersKept DEF ScreenInv
<1> QED BY <1>6, <1>11 DEF ScreenInv

LEMMA PrintScreen ==
  ASSUME ScreenInv, ~spoiled, NEW n \in Win, NEW t, Prints(n, t)
  PROVE  ScreenInv'
<1>1. /\ screen' = Painted(t.out, n, screen)
      /\ spoiled' = ~(t.out \subseteq Body(geometry[n]))
      /\ nwin' = nwin /\ crowded' = crowded /\ geometry' = geometry /\ status' = status
  BY DEF Prints
<1>2. GeometryOK'
  BY <1>1 DEF ScreenInv, GeometryOK, Shown
<1>3. AllIntact'
  <2> SUFFICES ASSUME ~spoiled', ~crowded, NEW m \in Win, Shown(m) PROVE Intact(m)'
    BY <1>1 DEF AllIntact, Shown
  <2>1. \A i \in Win : Shown(i) => Intact(i)
    BY DEF ScreenInv, AllIntact
  <2>2. t.out \subseteq Body(geometry[n])
    BY <1>1
  <2>3. geometry[m] \in Rect /\ Covered(geometry[m]) \subseteq Cells
    BY <2>1, CellsBelow DEF ScreenInv, GeometryOK, Intact, Shows
  <2>4. ASSUME NEW a \in Covered(geometry[m]) PROVE screen'[a] # 0
    <3>1. screen[a] # 0 /\ n # 0
      BY <2>1, WindowAssumption DEF Intact, Shows
    <3> QED BY <1>1, <2>3, <3>1 DEF Painted
  <2>5. ASSUME NEW a \in Body(geometry[m]) PROVE screen'[a] = m
    <3>1. a \in Cells /\ screen[a] = m
      BY <2>1, <2>3, BodyCovered DEF Intact, Shows
    <3>2. m = n \/ a \notin t.out
      <4>1. CASE Shown(n)
        BY <2>1, <2>2, <3>1, <4>1 DEF Intact, Shows
      <4>2. CASE ~Shown(n)
        BY <2>2, <4>2, UnplacedBody DEF ScreenInv, GeometryOK
      <4> QED BY <4>1, <4>2
    <3> QED BY <1>1, <3>1, <3>2 DEF Painted
  <2>6. Shows(geometry[m], m, screen')
    BY <2>1, <2>4, <2>5 DEF Intact, Shows
  <2> QED BY <1>1, <2>6 DEF Intact
<1> QED BY <1>2, <1>3 DEF ScreenInv

LEMMA ScreenStep == ScreenInv /\ [Next]_vars => ScreenInv'
<1> SUFFICES ASSUME ScreenInv, [Next]_vars PROVE ScreenInv'
  OBVIOUS
<1>1. CASE Next
  <2>1. ~spoiled
    BY <1>1 DEF Next
  <2>2. PICK n \in Win :
          \/ Open(n) \/ winkill(n) \/ Putchar(n) \/ Putcraw(n) \/ Puts(n) \/ Gotoxy(n)
          \/ \E d \in {-1, 1} : mowin(n, d, 0) \/ mowin(n, 0, d)
    BY <1>1 DEF Next
  <2>3. CASE Open(n)
    BY <2>1, <2>3, OpenScreen
  <2>4. CASE winkill(n)
    BY <2>1, <2>4, KillScreen
  <2>5. CASE Putchar(n) \/ Putcraw(n) \/ Puts(n) \/ Gotoxy(n)
    <3>1. \E t : Prints(n, t)
      BY <2>5 DEF Putchar, Putcraw, Puts, Gotoxy
    <3> QED BY <2>1, <3>1, PrintScreen
  <2>6. CASE \E d \in {-1, 1} : mowin(n, d, 0) \/ mowin(n, 0, d)
    <3>1. PICK d \in {-1, 1} : mowin(n, d, 0) \/ mowin(n, 0, d)
      BY <2>6
    <3>2. d \in {-1, 0, 1} /\ d # 0 /\ 0 \in {-1, 0, 1}
      OBVIOUS
    <3> QED BY <2>1, <3>1, <3>2, MoveScreen
  <2> QED BY <2>2, <2>3, <2>4, <2>5, <2>6
<1>2. CASE UNCHANGED vars
  BY <1>2 DEF vars, ScreenInv, GeometryOK, AllIntact, Intact, Shows, Shown, Covered, Body
<1> QED BY <1>1, <1>2

\* The windows are apart and each shows its own text, whatever the screen, the sizes and
\* the number of the windows, until a program prints outside its own or a kill or a move
\* takes cells of another: the gray that overlap() and mowin() look for on the screen is
\* map enough to place a window clear of the others' text, and to stop one ahead of it.
THEOREM TextIntactTheorem == Spec => []TextIntact
<1>1. Init => ScreenInv
  BY FirstScreen
<1>2. ScreenInv /\ [Next]_vars => ScreenInv'
  BY ScreenStep
<1>3. ScreenInv => TextIntact
  BY IntactApart
<1> QED BY <1>1, <1>2, <1>3, PTL DEF Spec

-----------------------------------------------------------------------------
(* A character.                                                             *)

Tty == [r : Nat, c : Nat, p : Int, text : BOOLEAN, out : SUBSET Int]

LEMMA CharRange == \A m \in Int : Char8(m) \in Nat /\ Char8(m) < CharMod
BY Sides DEF Char8

LEMMA AddressInt == \A m, k \in Int : Address(m, k) \in Int /\ Address(m, k) = Cols * k + m /\ Cols * k \in Int
BY Sides DEF Address

LEMMA WriteFacts ==
  ASSUME NEW t \in Tty, NEW cells, cells \subseteq Int
  PROVE  /\ Write(t, cells) \in Tty /\ Write(t, cells).out = t.out \cup cells
         /\ Write(t, cells).r = t.r /\ Write(t, cells).c = t.c /\ Write(t, cells).p = t.p
         /\ Write(t, cells).text = t.text
BY DEF Write, Tty

LEMMA AtFacts ==
  ASSUME NEW g \in Rect, NEW t \in Tty, NEW r \in Nat, NEW c \in Nat
  PROVE  /\ At(g, t, r, c) \in Tty /\ At(g, t, r, c).r = r /\ At(g, t, r, c).c = c
         /\ At(g, t, r, c).p = Address(g.x + c, g.y + r) /\ At(g, t, r, c).out = t.out
         /\ At(g, t, r, c).text = t.text
<1>1. g.x \in Nat /\ g.y \in Nat
  BY DEF Rect
<1>2. PICK u : u = [t EXCEPT !.r = r, !.c = c]
  OBVIOUS
<1>3. u \in Tty /\ u.r = r /\ u.c = c /\ u.out = t.out /\ u.text = t.text
  BY <1>2 DEF Tty
<1>4. Address(g.x + c, g.y + r) \in Int
  <2>1. g.x + c \in Int /\ g.y + r \in Int
    BY <1>1
  <2> QED BY <2>1, AddressInt
<1>5. At(g, t, r, c) = [u EXCEPT !.p = Address(g.x + u.c, g.y + u.r)]
  BY <1>2 DEF At, updatewinptr
<1> QED BY <1>3, <1>4, <1>5 DEF Tty

LEMMA BelowFacts ==
  ASSUME NEW g \in Rect, NEW r \in Nat
  PROVE  Below(g, r) \in Nat /\ (g.h > 0 => Below(g, r) < g.h)
<1>1. Char8(r + 1) \in Nat /\ g.h \in Nat
  BY CharRange DEF Rect
<1> QED BY <1>1 DEF Below

\* A row of the body, and the two columns before it.
LEMMA InBody ==
  ASSUME NEW g \in Rect, NEW r \in Nat, r < g.h, NEW a \in Int,
         Address(g.x, g.y + r) - 2 <= a, a <= Address(g.x, g.y + r) + g.w + 1
  PROVE  a \in Body(g)
<1>1. g.x \in Nat /\ g.y \in Nat /\ g.w \in Nat /\ g.h \in Nat
  BY DEF Rect
<1>2. PICK k \in g.y..(g.y + g.h - 1) : k = g.y + r
  BY <1>1
<1>3. Address(g.x, g.y + r) = Cols * k + g.x /\ Cols * k \in Int
  <2>1. g.x \in Int /\ g.y + r \in Int
    BY <1>1
  <2> QED BY <1>2, <2>1, AddressInt
<1>4. InRow(a, k, g.x - 2, g.w + 4)
  BY <1>1, <1>3 DEF InRow
<1>5. a \in Region(g.x - 2, g.y, g.w + 4, g.h)
  BY <1>1, <1>2, <1>4, InRegion
<1> QED BY <1>5 DEF Body

\* A new line is begun, and cleared, within the body.
LEMMA NewLine ==
  ASSUME NEW g \in Rect, NEW t \in Tty
  PROVE  /\ nlpure(g, t) \in Tty /\ nl(g, t) \in Tty
         /\ nlpure(g, t).r = nl(g, t).r /\ nlpure(g, t).c = nl(g, t).c /\ nlpure(g, t).p = nl(g, t).p
         /\ nl(g, t).r = Below(g, t.r) /\ nl(g, t).c = 0 /\ nl(g, t).p = Address(g.x, g.y + Below(g, t.r))
         /\ g.h > 0 => nlpure(g, t).out \subseteq t.out \cup Body(g) /\ nl(g, t).out \subseteq t.out \cup Body(g)
<1>1. g.x \in Nat /\ g.y \in Nat /\ g.w \in Nat /\ g.h \in Nat /\ t.r \in Nat /\ t.out \subseteq Int
  BY DEF Rect, Tty
<1>2. PICK b \in Nat : b = Below(g, t.r) /\ (g.h > 0 => b < g.h)
  BY <1>1, BelowFacts
<1>3. PICK s : s = At(g, t, b, 0)
  OBVIOUS
<1>4. s \in Tty /\ s.r = b /\ s.c = 0 /\ s.p = Address(g.x, g.y + b) /\ s.out = t.out
  <2>1. 0 \in Nat /\ g.x + 0 = g.x
    BY <1>1
  <2> QED BY <1>3, <2>1, AtFacts
<1>5. s.p \in Int
  BY <1>4 DEF Tty
<1>6. PICK u : u = Write(s, {s.p - 2, s.p - 1})
  OBVIOUS
<1>7. u \in Tty /\ u.r = b /\ u.c = 0 /\ u.p = s.p /\ u.out = t.out \cup {s.p - 2, s.p - 1}
  BY <1>4, <1>5, <1>6, WriteFacts
<1>8. nlpure(g, t) = u
  BY <1>2, <1>3, <1>6 DEF nlpure
<1>9. nl(g, t) = Write(u, u.p .. (u.p + g.w))
  BY <1>1, <1>7, <1>8 DEF nl, wclreol
<1>10. u.p .. (u.p + g.w) \subseteq Int
  BY <1>1, <1>5, <1>7
<1>11. /\ nl(g, t) \in Tty /\ nl(g, t).r = b /\ nl(g, t).c = 0 /\ nl(g, t).p = s.p
       /\ nl(g, t).out = u.out \cup (u.p .. (u.p + g.w))
  <2>1. PICK cells : cells = u.p .. (u.p + g.w)
    OBVIOUS
  <2>2. nl(g, t) = Write(u, cells) /\ cells \subseteq Int
    BY <1>9, <1>10, <2>1
  <2>3. /\ nl(g, t) \in Tty /\ nl(g, t).r = u.r /\ nl(g, t).c = u.c /\ nl(g, t).p = u.p
        /\ nl(g, t).out = u.out \cup cells
    <3>1. u \in Tty
      BY <1>7
    <3>2. /\ Write(u, cells) \in Tty /\ Write(u, cells).out = u.out \cup cells
          /\ Write(u, cells).r = u.r /\ Write(u, cells).c = u.c /\ Write(u, cells).p = u.p
      BY ONLY <2>2, <3>1, WriteFacts
    <3> QED BY ONLY <2>2, <3>2
  <2> QED BY <1>7, <2>1, <2>3
<1>12. ASSUME g.h > 0, NEW a \in Int, s.p - 2 <= a, a <= s.p + g.w + 1 PROVE a \in Body(g)
  BY <1>2, <1>4, <1>12, InBody
<1>13. ASSUME g.h > 0 PROVE u.out \subseteq t.out \cup Body(g)
  <2>1. s.p - 2 \in Body(g) /\ s.p - 1 \in Body(g)
    BY <1>1, <1>5, <1>12, <1>13
  <2> QED BY <1>7, <2>1
<1>14. ASSUME g.h > 0 PROVE u.p .. (u.p + g.w) \subseteq Body(g)
  BY <1>1, <1>5, <1>7, <1>12, <1>14
<1> QED BY <1>2, <1>4, <1>7, <1>8, <1>11, <1>13, <1>14

LEMMA AdvanceFacts ==
  ASSUME NEW g \in Rect, NEW t \in Tty
  PROVE  /\ Advance(g, t) \in Tty /\ (g.h > 0 => Advance(g, t).out \subseteq t.out \cup Body(g))
         /\ t.c < g.w => /\ Advance(g, t).r = t.r /\ Advance(g, t).c = t.c + 1
                         /\ Advance(g, t).p = t.p /\ Advance(g, t).out = t.out
         /\ t.c >= g.w => /\ Advance(g, t).r = Below(g, t.r) /\ Advance(g, t).c = 0
                          /\ Advance(g, t).p = Address(g.x, g.y + Below(g, t.r))
<1>1. g.w \in Nat /\ t.c \in Nat
  BY DEF Rect, Tty
<1>2. CASE t.c >= g.w
  BY <1>1, <1>2, NewLine DEF Advance
<1>3. CASE ~(t.c >= g.w)
  <2>1. Advance(g, t) = [t EXCEPT !.c = t.c + 1]
    BY <1>3 DEF Advance
  <2> QED BY <1>1, <1>3, <2>1 DEF Tty
<1> QED BY <1>2, <1>3

\* Where a character that shows stands, and where the cursor goes.
LEMMA PutFacts ==
  ASSUME NEW g \in Rect, NEW t \in Tty
  PROVE  /\ Put(g, t) \in Tty
         /\ g.h > 0 => Put(g, t).out \subseteq t.out \cup {t.p} \cup Body(g)
         /\ t.c < g.w => Put(g, t).r = t.r /\ Put(g, t).c = t.c + 1 /\ Put(g, t).p = t.p + 1
         /\ t.c >= g.w => /\ Put(g, t).r = Below(g, t.r) /\ Put(g, t).c = 0
                          /\ Put(g, t).p = Address(g.x, g.y + Below(g, t.r))
<1>1. t.p \in Int
  BY DEF Tty
<1>2. PICK v \in Tty : /\ v = Write(t, {t.p}) /\ v.out = t.out \cup {t.p} /\ v.r = t.r /\ v.c = t.c /\ v.p = t.p
  BY <1>1, WriteFacts
<1>3. PICK u : u = [v EXCEPT !.p = v.p + 1]
  OBVIOUS
<1>4. u \in Tty /\ u.out = t.out \cup {t.p} /\ u.r = t.r /\ u.c = t.c /\ u.p = t.p + 1
  <2>1. v.p + 1 \in Int
    BY <1>1, <1>2
  <2>2. u \in Tty /\ u.out = v.out /\ u.r = v.r /\ u.c = v.c /\ u.p = v.p + 1
    BY ONLY <1>3, <2>1, v \in Tty DEF Tty
  <2> QED BY <1>2, <2>2
<1>5. Put(g, t) = Advance(g, u)
  BY <1>2, <1>3 DEF Put
<1> QED BY <1>4, <1>5, AdvanceFacts

LEMMA AddressPlus ==
  ASSUME NEW x \in Int, NEW c \in Int, NEW k \in Int
  PROVE  Address(x + c, k) = Address(x, k) + c /\ Address(x, k) \in Int
<1>1. x + c \in Int
  OBVIOUS
<1>2. Address(x + c, k) = Cols * k + (x + c) /\ Address(x, k) = Cols * k + x /\ Cols * k \in Int
  BY <1>1, AddressInt
<1> QED BY <1>2

LEMMA InRowOf ==
  ASSUME NEW g \in Rect, NEW r \in Nat, NEW c \in Nat
  PROVE  /\ Address(g.x + c, g.y + r) = Address(g.x, g.y + r) + c
         /\ Address(g.x, g.y + r) \in Int /\ Address(g.x + c, g.y + r) \in Int
<1>1. g.x \in Int /\ c \in Int /\ g.y + r \in Int
  BY DEF Rect
<1>2. Address(g.x + c, g.y + r) = Address(g.x, g.y + r) + c /\ Address(g.x, g.y + r) \in Int
  BY <1>1, AddressPlus
<1> QED BY <1>1, <1>2

\* From its window's cursor, the cells up to the end of the row and the two before.
LEMMA CursorInBody ==
  ASSUME NEW g \in Rect, NEW t \in Tty, Inside(g, t)
  PROVE  /\ t.p \in Body(g) /\ t.p - 1 \in Body(g) /\ t.p - 2 \in Body(g)
         /\ t.p .. (t.p + (g.w - t.c)) \subseteq Body(g)
<1>1. /\ g.x \in Nat /\ g.y \in Nat /\ g.w \in Nat /\ g.h \in Nat
      /\ t.r \in Nat /\ t.c \in Nat /\ t.p \in Int
  BY DEF Rect, Tty
<1>2. PICK a \in Int : a = Address(g.x, g.y + t.r)
  <2>1. Address(g.x, g.y + t.r) \in Int
    BY ONLY <1>1, InRowOf, g \in Rect
  <2> QED BY <2>1
<1>3. Address(g.x + t.c, g.y + t.r) = a + t.c
  BY ONLY <1>1, <1>2, InRowOf, g \in Rect
<1>4. t.r < g.h /\ t.c <= g.w /\ a <= t.p /\ t.p <= a + t.c
  BY <1>1, <1>2, <1>3 DEF Inside
<1>5. \A b \in Int : a - 2 <= b /\ b <= a + g.w + 1 => b \in Body(g)
  BY <1>1, <1>2, <1>4, InBody
<1> QED BY <1>1, <1>4, <1>5

\* What a character gives when it is written inside its window.
Stays(g, t, u) == u \in Tty /\ (Inside(g, t) => u.out \subseteq t.out \cup Body(g))

LEMMA InsideHasRows == ASSUME NEW g \in Rect, NEW t \in Tty, Inside(g, t) PROVE g.h > 0
BY DEF Inside, Rect, Tty

LEMMA MarkFacts ==
  ASSUME NEW t \in Tty, NEW b \in BOOLEAN
  PROVE  /\ [t EXCEPT !.text = b] \in Tty /\ [t EXCEPT !.text = b].out = t.out
         /\ [t EXCEPT !.text = b].r = t.r /\ [t EXCEPT !.text = b].c = t.c /\ [t EXCEPT !.text = b].p = t.p
BY DEF Tty

LEMMA PutStays == ASSUME NEW g \in Rect, NEW t \in Tty PROVE Stays(g, t, Put(g, t))
<1>1. Put(g, t) \in Tty /\ (g.h > 0 => Put(g, t).out \subseteq t.out \cup {t.p} \cup Body(g))
  BY PutFacts
<1>2. ASSUME Inside(g, t) PROVE Put(g, t).out \subseteq t.out \cup Body(g)
  <2>1. t.p \in Body(g) /\ g.h > 0
    BY <1>2, CursorInBody, InsideHasRows
  <2> QED BY <1>1, <2>1
<1> QED BY <1>1, <1>2 DEF Stays

LEMMA TextFacts ==
  ASSUME NEW g \in Rect, NEW t \in Tty
  PROVE  /\ Text(g, t) \in Tty
         /\ g.h > 0 => Text(g, t).out \subseteq t.out \cup {t.p} \cup Body(g)
         /\ t.c < g.w => Text(g, t).r = t.r /\ Text(g, t).c = t.c + 1 /\ Text(g, t).p = t.p + 1
         /\ t.c >= g.w => /\ Text(g, t).r = Below(g, t.r) /\ Text(g, t).c = 0
                          /\ Text(g, t).p = Address(g.x, g.y + Below(g, t.r))
<1>1. PICK u : u = [t EXCEPT !.text = TRUE]
  OBVIOUS
<1>2. u \in Tty /\ u.out = t.out /\ u.r = t.r /\ u.c = t.c /\ u.p = t.p
  BY <1>1, MarkFacts
<1>3. Text(g, t) = Put(g, u)
  BY <1>1 DEF Text
<1> QED BY <1>2, <1>3, PutFacts

LEMMA ColourStays ==
  ASSUME NEW g \in Rect, NEW t \in Tty, NEW k \in {1, 2}
  PROVE  Stays(g, t, [Write(t, {t.p - k}) EXCEPT !.text = FALSE])
<1>1. t.p - k \in Int
  BY DEF Tty
<1>2. PICK u : u = Write(t, {t.p - k})
  OBVIOUS
<1>3. u \in Tty /\ u.out = t.out \cup {t.p - k}
  BY <1>1, <1>2, WriteFacts
<1>4. [u EXCEPT !.text = FALSE] \in Tty /\ [u EXCEPT !.text = FALSE].out = u.out
  BY <1>3, MarkFacts
<1>5. Inside(g, t) => t.p - k \in Body(g)
  BY CursorInBody
<1> QED BY <1>2, <1>3, <1>4, <1>5 DEF Stays

LEMMA BackFacts ==
  ASSUME NEW g \in Rect, NEW t \in Tty
  PROVE  /\ Back(g, t) \in Tty /\ Back(g, t).out = t.out
         /\ Inside(g, t) => Back(g, t).p \in Body(g)
<1>1. /\ g.x \in Nat /\ g.y \in Nat /\ g.w \in Nat /\ g.h \in Nat
      /\ t.r \in Nat /\ t.c \in Nat /\ t.p \in Int
  BY DEF Rect, Tty
<1>2. ASSUME NEW r \in Nat, NEW c \in Nat, r < g.h, c <= g.w PROVE Address(g.x + c, g.y + r) \in Body(g)
  <2>1. PICK a \in Int : a = Address(g.x, g.y + r) /\ Address(g.x + c, g.y + r) = a + c
    BY InRowOf
  <2> QED BY <1>1, <1>2, <2>1, InBody
<1>3. Inside(g, t) => t.r < g.h /\ t.c <= g.w
  BY DEF Inside
<1>4. CASE t.c > 0
  <2>1. PICK c \in Nat : c = t.c - 1
    BY <1>1, <1>4
  <2>2. Back(g, t) = At(g, t, t.r, c)
    BY <1>4, <2>1 DEF Back, Column
  <2>3. At(g, t, t.r, c) \in Tty /\ At(g, t, t.r, c).out = t.out /\ At(g, t, t.r, c).p = Address(g.x + c, g.y + t.r)
    <3>1. PICK k \in Nat : k = t.r
      BY <1>1
    <3>2. At(g, t, k, c) \in Tty /\ At(g, t, k, c).out = t.out /\ At(g, t, k, c).p = Address(g.x + c, g.y + k)
      BY AtFacts
    <3> QED BY <3>1, <3>2
  <2>4. Inside(g, t) => c <= g.w
    BY <1>1, <1>3, <2>1
  <2> QED BY <1>1, <1>2, <1>3, <2>2, <2>3, <2>4
<1>5. CASE ~(t.c > 0) /\ t.r > 0
  <2>1. PICK r \in Nat : r = t.r - 1
    BY <1>1, <1>5
  <2>2. Back(g, t) = At(g, t, r, g.w)
    BY <1>5, <2>1 DEF Back
  <2>3. At(g, t, r, g.w) \in Tty /\ At(g, t, r, g.w).out = t.out /\ At(g, t, r, g.w).p = Address(g.x + g.w, g.y + r)
    <3>1. PICK k \in Nat : k = g.w
      BY <1>1
    <3>2. At(g, t, r, k) \in Tty /\ At(g, t, r, k).out = t.out /\ At(g, t, r, k).p = Address(g.x + k, g.y + r)
      BY AtFacts
    <3> QED BY <3>1, <3>2
  <2>4. Inside(g, t) => r < g.h
    BY <1>1, <1>3, <2>1
  <2> QED BY <1>1, <1>2, <2>2, <2>3, <2>4
<1>6. CASE ~(t.c > 0) /\ ~(t.r > 0)
  <2>1. Back(g, t) = [t EXCEPT !.p = Address(g.x + t.c, g.y + t.r)]
    BY <1>6 DEF Back, updatewinptr
  <2>2. Address(g.x + t.c, g.y + t.r) \in Int
    BY ONLY <1>1, InRowOf, g \in Rect
  <2>3. Back(g, t) \in Tty /\ Back(g, t).out = t.out /\ Back(g, t).p = Address(g.x + t.c, g.y + t.r)
    BY <2>1, <2>2 DEF Tty
  <2> QED BY <1>1, <1>2, <1>3, <2>3
<1> QED BY <1>4, <1>5, <1>6

\* Where the cursor is sent, nothing is written.
LEMMA AtStays ==
  ASSUME NEW g \in Rect, NEW t \in Tty, NEW r \in Nat, NEW c \in Nat
  PROVE  Stays(g, t, At(g, t, r, c))
BY AtFacts DEF Stays

LEMMA CellsStay ==
  ASSUME NEW g \in Rect, NEW t \in Tty
  PROVE  Stays(g, t, wclreol(g, t))
<1>1. PICK cells : cells = t.p .. (t.p + (g.w - t.c))
  OBVIOUS
<1>2. cells \subseteq Int
  BY <1>1
<1>3. wclreol(g, t) = Write(t, cells)
  BY <1>1 DEF wclreol
<1>4. Write(t, cells) \in Tty /\ Write(t, cells).out = t.out \cup cells
  BY <1>2, WriteFacts
<1>5. Inside(g, t) => cells \subseteq Body(g)
  BY <1>1, CursorInBody
<1> QED BY <1>3, <1>4, <1>5 DEF Stays

LEMMA LinesStay ==
  ASSUME NEW g \in Rect, NEW t \in Tty
  PROVE  Stays(g, t, nl(g, t)) /\ Stays(g, t, nlpure(g, t)) /\ Stays(g, t, clnl(g, t))
<1>1. ASSUME NEW u \in Tty
      PROVE  /\ nl(g, u) \in Tty /\ nlpure(g, u) \in Tty
             /\ Inside(g, t) => nl(g, u).out \subseteq u.out \cup Body(g) /\ nlpure(g, u).out \subseteq u.out \cup Body(g)
  BY NewLine, InsideHasRows
<1>2. PICK u : u = wclreol(g, t)
  OBVIOUS
<1>3. u \in Tty /\ (Inside(g, t) => u.out \subseteq t.out \cup Body(g)) /\ clnl(g, t) = nlpure(g, u)
  BY <1>2, CellsStay DEF Stays, clnl
<1> QED BY <1>1, <1>3 DEF Stays

LEMMA ClearStays ==
  ASSUME NEW g \in Rect, NEW t \in Tty
  PROVE  Stays(g, t, wclrscr(g, t))
<1>1. PICK u : u = At(g, t, 0, 0)
  OBVIOUS
<1>2. u \in Tty /\ u.out = t.out
  <2>1. 0 \in Nat
    OBVIOUS
  <2> QED BY <1>1, <2>1, AtFacts
<1>3. wclrscr(g, t) = Write(u, Body(g)) /\ Body(g) \subseteq Int
  BY <1>1, BodyCovered DEF wclrscr, Body
<1>4. Write(u, Body(g)) \in Tty /\ Write(u, Body(g)).out = u.out \cup Body(g)
  BY <1>2, <1>3, WriteFacts
<1> QED BY <1>2, <1>3, <1>4 DEF Stays

LEMMA AdvanceStays == ASSUME NEW g \in Rect, NEW t \in Tty PROVE Stays(g, t, Advance(g, t))
BY AdvanceFacts, InsideHasRows DEF Stays

\* A character written inside its window stays inside.
LEMMA CharStays ==
  ASSUME NEW g \in Rect, NEW t \in Tty, NEW ch \in Chars
  PROVE  Stays(g, t, wputc(g, t, ch))
<1>1. /\ g.x \in Nat /\ g.y \in Nat /\ g.w \in Nat /\ g.h \in Nat
      /\ t.r \in Nat /\ t.c \in Nat /\ t.p \in Int
  BY DEF Rect, Tty
<1>2. PICK r \in Nat, c \in Nat, h \in Nat, w \in Nat, p \in Int : r = t.r /\ c = t.c /\ h = g.h /\ w = g.w /\ p = t.p
  BY <1>1
<1>3. Stays(g, t, Text(g, t))
  <2>1. Text(g, t) \in Tty /\ (g.h > 0 => Text(g, t).out \subseteq t.out \cup {t.p} \cup Body(g))
    BY TextFacts
  <2>2. Inside(g, t) => g.h > 0 /\ t.p \in Body(g)
    BY CursorInBody, InsideHasRows
  <2> QED BY <2>1, <2>2 DEF Stays
<1>4. Stays(g, t, Ink(g, t))
  <2>1. CASE t.c = 0
    <3>1. Ink(g, t) = [Write(t, {t.p - 1}) EXCEPT !.text = FALSE]
      BY <2>1 DEF Ink
    <3> QED BY <3>1, ColourStays
  <2>2. CASE t.c # 0
    BY <2>2, PutStays DEF Ink
  <2> QED BY <2>1, <2>2
<1>5. Stays(g, t, Paper(g, t))
  <2>1. CASE t.c = 0 /\ t.text
    <3>1. Paper(g, t) = [Write(t, {t.p - 2}) EXCEPT !.text = FALSE]
      BY <2>1 DEF Paper
    <3> QED BY <3>1, ColourStays
  <2>2. CASE ~(t.c = 0 /\ t.text)
    BY <2>2, PutStays DEF Paper
  <2> QED BY <2>1, <2>2
<1>6. Stays(g, t, Back(g, t)) /\ Stays(g, t, Back(g, Text(g, Back(g, t))))
  <2>1. PICK u : u = Back(g, t)
    OBVIOUS
  <2>2. u \in Tty /\ u.out = t.out /\ (Inside(g, t) => u.p \in Body(g))
    BY <2>1, BackFacts
  <2>3. PICK v : v = Text(g, u)
    OBVIOUS
  <2>4. v \in Tty /\ (g.h > 0 => v.out \subseteq u.out \cup {u.p} \cup Body(g))
    BY <2>2, <2>3, TextFacts
  <2>5. Back(g, v) \in Tty /\ Back(g, v).out = v.out
    BY <2>4, BackFacts
  <2>6. Inside(g, t) => g.h > 0
    BY InsideHasRows
  <2> QED BY <2>1, <2>2, <2>3, <2>4, <2>5, <2>6 DEF Stays
<1>7. Stays(g, t, Tab(g, t))
  <2>1. PICK k : k = Char8((t.c \div TabStop + 1) * TabStop)
    OBVIOUS
  <2>2. k \in Nat
    <3>1. (c \div TabStop + 1) * TabStop \in Int
      BY Sides
    <3> QED BY <1>2, <2>1, <3>1, CharRange
  <2>3. Tab(g, t) = IF k > g.w THEN nl(g, t) ELSE At(g, t, r, k)
    BY <1>2, <2>1 DEF Tab, Column
  <2> QED BY <2>2, <2>3, LinesStay, AtStays
<1>8. Stays(g, t, FlushLine(g, t))
  <2>1. CASE t.c > 0
    <3>1. FlushLine(g, t) = [t EXCEPT !.p = Address(g.x + c, g.y + r)]
      BY <1>2, <2>1 DEF FlushLine, updatewinptr
    <3>2. Address(g.x + c, g.y + r) \in Int
      BY InRowOf
    <3> QED BY <3>1, <3>2 DEF Stays, Tty
  <2>2. CASE ~(t.c > 0)
    BY <2>2, LinesStay DEF FlushLine
  <2> QED BY <2>1, <2>2
<1>9. Stays(g, t, Column(g, t, 0)) /\ Stays(g, t, wgotoxy(g, t, 0, 0))
  <2>1. Column(g, t, 0) = At(g, t, r, 0) /\ 0 \in Nat
    BY <1>2 DEF Column
  <2>2. PICK y \in Nat, x \in Nat : y = (IF 0 < g.h THEN 0 ELSE g.h) /\ x = (IF 0 < g.w THEN 0 ELSE g.w)
    BY <1>1
  <2>3. wgotoxy(g, t, 0, 0) = At(g, t, y, x)
    BY <2>2 DEF wgotoxy
  <2> QED BY <2>1, <2>3, AtStays
<1>10. Stays(g, t, At(g, t, Below(g, t.r), t.c))
  <2>1. PICK b \in Nat : b = Below(g, t.r)
    BY <1>1, BelowFacts
  <2> QED BY <1>2, <2>1, AtStays
<1>11. Stays(g, t, Up(g, t))
  <2>1. PICK b : b = (IF t.r >= g.h THEN Char8(g.h - 1) ELSE Char8(t.r - 1))
    OBVIOUS
  <2>2. b \in Nat
    <3>1. h - 1 \in Int /\ r - 1 \in Int
      OBVIOUS
    <3> QED BY <1>2, <2>1, <3>1, CharRange
  <2>3. Up(g, t) = At(g, t, b, c)
    BY <1>2, <2>1 DEF Up
  <2> QED BY <2>2, <2>3, AtStays
<1>12. Stays(g, t, Right(g, t))
  <2>1. PICK u : u = [t EXCEPT !.p = p + 1]
    OBVIOUS
  <2>2. u \in Tty /\ u.out = t.out
    BY <2>1 DEF Tty
  <2>3. Right(g, t) = Advance(g, u)
    BY <1>2, <2>1 DEF Right
  <2>4. Advance(g, u) \in Tty /\ (g.h > 0 => Advance(g, u).out \subseteq u.out \cup Body(g))
    BY <2>2, AdvanceFacts
  <2> QED BY <2>2, <2>3, <2>4, InsideHasRows DEF Stays
<1>13. /\ wputc(g, t, "text") = Text(g, t) /\ wputc(g, t, "ink") = Ink(g, t) /\ wputc(g, t, "paper") = Paper(g, t)
       /\ wputc(g, t, "BS") = Back(g, t) /\ wputc(g, t, "DEL") = Back(g, Text(g, Back(g, t)))
       /\ wputc(g, t, "TAB") = Tab(g, t) /\ wputc(g, t, "FLSHLN") = FlushLine(g, t) /\ wputc(g, t, "NL") = nl(g, t)
  BY DEF wputc
<1>14. /\ wputc(g, t, "NLPURE") = nlpure(g, t) /\ wputc(g, t, "CLNL") = clnl(g, t) /\ wputc(g, t, "CLRSCR") = wclrscr(g, t)
       /\ wputc(g, t, "CR") = Column(g, t, 0) /\ wputc(g, t, "CLREOL") = wclreol(g, t)
       /\ wputc(g, t, "HOME") = wgotoxy(g, t, 0, 0)
  BY DEF wputc
<1>15. /\ wputc(g, t, "ESC") = Advance(g, t) /\ wputc(g, t, "RIGHT") = Right(g, t)
       /\ wputc(g, t, "DOWN") = At(g, t, Below(g, t.r), t.c) /\ wputc(g, t, "UP") = Up(g, t)
  BY DEF wputc
<1>16. /\ \A i \in {"text", "ink", "paper", "BS", "TAB", "FLSHLN", "NL"} : Stays(g, t, wputc(g, t, i))
       /\ \A i \in {"NLPURE", "CLRSCR", "CR", "CLREOL", "HOME", "CLNL"} : Stays(g, t, wputc(g, t, i))
       /\ \A i \in {"ESC", "RIGHT", "DOWN", "UP", "DEL"} : Stays(g, t, wputc(g, t, i))
  BY <1>3, <1>4, <1>5, <1>6, <1>7, <1>8, <1>9, <1>10, <1>11, <1>12, <1>13, <1>14, <1>15,
     LinesStay, ClearStays, CellsStay, AdvanceStays
<1> QED BY <1>16 DEF Chars

-----------------------------------------------------------------------------
(* A string: its characters one after the other.                            *)

\* What a character of a string does, with puts (fast) or with putchar.
Char(fast, g, u, ch) == IF fast /\ ch \in {"text", "DEL"} THEN Fast(g, u) ELSE wputc(g, u, ch)

\* The function that a fold of the first m characters is defined by: its value for a
\* set of places is the terminal after the characters at these places.
Folds(fast, g, t, s, m, f) ==
  f = [S \in SUBSET (1..m) |-> IF S = {} THEN t ELSE Char(fast, g, f[S \ {Max(S)}], s[Max(S)])]

LEMMA MaxFacts ==
  ASSUME NEW m \in Nat, NEW S, S \subseteq 1..m, S # {}
  PROVE  Max(S) \in S /\ \A i \in S : i <= Max(S)
<1> DEFINE D == {m - i : i \in S}
<1>1. D \subseteq Nat /\ D # {}
  <2>1. ASSUME NEW i \in S PROVE m - i \in Nat
    <3>1. i \in 1..m
      OBVIOUS
    <3> QED BY ONLY <3>1, m \in Nat
  <2> QED BY <2>1
<1>2. PICK d \in D : \A e \in D : d <= e
  <2> HIDE DEF D
  <2> QED BY <1>1, LeastOf
<1>3. PICK i \in S : d = m - i
  BY <1>2
<1>4. \A k \in S : k \in Int /\ m - k \in D
  OBVIOUS
<1>5. \A k \in S : i >= k
  BY <1>2, <1>3, <1>4
<1> HIDE DEF D
<1>6. Max(S) \in S /\ \A k \in S : Max(S) >= k
  BY <1>5 DEF Max
<1> QED BY <1>4, <1>6

LEMMA FoldsExist ==
  ASSUME NEW fast, NEW g, NEW t, NEW s, NEW m \in Nat
  PROVE  \E f : Folds(fast, g, t, s, m, f)
<1> DEFINE Bad == {i \in Nat : ~\E f : Folds(fast, g, t, s, i, f)}
<1>1. ASSUME NEW i \in Nat, NEW f, Folds(fast, g, t, s, i, f)
      PROVE  \E h : Folds(fast, g, t, s, i + 1, h)
  <2> DEFINE h == [S \in SUBSET (1..(i + 1)) |->
                     IF S = {} THEN t ELSE Char(fast, g, f[S \ {Max(S)}], s[Max(S)])]
  <2>1. ASSUME NEW S \in SUBSET (1..(i + 1)), S # {}
        PROVE  S \ {Max(S)} \in SUBSET (1..i)
    <3>1. i + 1 \in Nat
      OBVIOUS
    <3>2. Max(S) \in S /\ \A k \in S : k <= Max(S)
      BY <2>1, <3>1, MaxFacts
    <3>3. \A k \in S : k \in Int /\ 1 <= k /\ k <= i + 1
      OBVIOUS
    <3>4. PICK last : last = Max(S)
      OBVIOUS
    <3>5. ASSUME NEW k \in S \ {last} PROVE k \in 1..i
      <4>1. k \in Int /\ last \in Int /\ 1 <= k /\ k <= last /\ last <= i + 1 /\ k # last
        BY <3>2, <3>3, <3>4
      <4> QED BY ONLY <4>1, i \in Nat
    <3> QED BY <3>4, <3>5
  <2>2. ASSUME NEW R \in SUBSET (1..i) PROVE h[R] = f[R]
    <3>1. R \in SUBSET (1..(i + 1))
      OBVIOUS
    <3>2. h[R] = IF R = {} THEN t ELSE Char(fast, g, f[R \ {Max(R)}], s[Max(R)])
      BY <3>1
    <3>3. f[R] = IF R = {} THEN t ELSE Char(fast, g, f[R \ {Max(R)}], s[Max(R)])
      BY <1>1 DEF Folds
    <3> QED BY <3>2, <3>3
  <2>3. \A S \in SUBSET (1..(i + 1)) : S # {} => h[S \ {Max(S)}] = f[S \ {Max(S)}]
    BY <2>1, <2>2
  <2>4. h = [S \in SUBSET (1..(i + 1)) |->
               IF S = {} THEN t ELSE Char(fast, g, h[S \ {Max(S)}], s[Max(S)])]
    <3> DEFINE e == [S \in SUBSET (1..(i + 1)) |->
                       IF S = {} THEN t ELSE Char(fast, g, h[S \ {Max(S)}], s[Max(S)])]
    <3>1. \A S \in SUBSET (1..(i + 1)) : e[S] = h[S]
      BY <2>3
    <3> QED BY <3>1
  <2> HIDE DEF h
  <2> QED BY <2>4 DEF Folds
<1>2. 0 \notin Bad
  <2> DEFINE h == [S \in SUBSET (1..0) |-> t]
  <2>1. \A S \in SUBSET (1..0) : S = {}
    OBVIOUS
  <2>2. h = [S \in SUBSET (1..0) |-> IF S = {} THEN t ELSE Char(fast, g, h[S \ {Max(S)}], s[Max(S)])]
    BY <2>1
  <2> HIDE DEF h
  <2> QED BY <2>2 DEF Folds
<1>3. Bad = {}
  <2> SUFFICES ASSUME Bad # {} PROVE FALSE
    OBVIOUS
  <2>1. PICK i \in Bad : \A k \in Bad : i <= k
    <3>1. Bad \subseteq Nat
      OBVIOUS
    <3> HIDE DEF Bad
    <3> QED BY <3>1, LeastOf
  <2>2. PICK k \in Nat : i = k + 1
    <3>1. i \in Nat /\ i # 0
      BY <1>2
    <3>2. i - 1 \in Nat /\ i = (i - 1) + 1
      BY ONLY <3>1
    <3> QED BY ONLY <3>2
  <2>3. k \notin Bad
    BY <2>1, <2>2
  <2> QED BY <1>1, <2>2, <2>3
<1> QED BY <1>3

\* The terminal after each character.
Steps(fast, g, t, s, u) ==
  u[0] = t /\ \A k \in 1..Len(s) : u[k] = Char(fast, g, u[k - 1], s[k])

Folded(fast, g, t, s) == (CHOOSE f : Folds(fast, g, t, s, Len(s), f))[1..Len(s)]

LEMMA FoldSteps ==
  ASSUME NEW fast, NEW g, NEW t, NEW s \in Seq(Chars)
  PROVE  \E u : Steps(fast, g, t, s, u) /\ u[Len(s)] = Folded(fast, g, t, s)
<1>1. Len(s) \in Nat
  OBVIOUS
<1>2. PICK f : f = (CHOOSE h : Folds(fast, g, t, s, Len(s), h)) /\ Folds(fast, g, t, s, Len(s), f)
  <2>1. \E h : Folds(fast, g, t, s, Len(s), h)
    BY <1>1, FoldsExist
  <2> QED BY <2>1
<1> DEFINE u == [k \in 0..Len(s) |-> f[1..k]]
<1>3. u[0] = t
  <2>1. 1..0 = {} /\ {} \in SUBSET (1..Len(s)) /\ 0 \in 0..Len(s)
    BY <1>1
  <2> QED BY <1>2, <2>1 DEF Folds
<1>4. ASSUME NEW k \in 1..Len(s) PROVE u[k] = Char(fast, g, u[k - 1], s[k])
  <2>1. 1..k \in SUBSET (1..Len(s)) /\ 1..k # {} /\ k \in Nat /\ k \in 0..Len(s) /\ k - 1 \in 0..Len(s)
    <3>1. PICK m \in Nat : m = Len(s)
      BY <1>1
    <3>2. k \in Nat /\ 1 <= k /\ k <= m
      BY <3>1
    <3>3. 1..k \in SUBSET (1..m) /\ 1 \in 1..k /\ k \in 0..m /\ k - 1 \in 0..m
      BY ONLY <3>2, m \in Nat
    <3> QED BY <3>1, <3>2, <3>3
  <2>2. Max(1..k) \in 1..k /\ \A i \in 1..k : i <= Max(1..k)
    BY <2>1, MaxFacts
  <2>3. Max(1..k) = k
    BY <2>1, <2>2
  <2>4. (1..k) \ {k} = 1..(k - 1)
    BY <2>1
  <2>5. f[1..k] = Char(fast, g, f[(1..k) \ {Max(1..k)}], s[Max(1..k)])
    BY <1>2, <2>1 DEF Folds
  <2> QED BY <2>1, <2>3, <2>4, <2>5
<1>5. u[Len(s)] = f[1..Len(s)]
  BY <1>1
<1> HIDE DEF u
<1> QED BY <1>2, <1>3, <1>4, <1>5 DEF Steps, Folded

LEMMA PutsSteps ==
  ASSUME NEW g, NEW t, NEW s \in Seq(Chars)
  PROVE  \E u : Steps(TRUE, g, t, s, u) /\ u[Len(s)] = wputz(g, t, s)
<1>1. DOMAIN s = 1..Len(s)
  OBVIOUS
<1>2. wputz(g, t, s) = Folded(TRUE, g, t, s)
  BY <1>1 DEF Folded, wputz, FoldLeft, MapThenFoldSet, Folds, Char
<1> QED BY <1>2, FoldSteps

Putchars(g, t, s) == FoldLeft(LAMBDA v, ch : wputc(g, v, ch), t, s)

LEMMA PutcharSteps ==
  ASSUME NEW g, NEW t, NEW s \in Seq(Chars)
  PROVE  \E u : Steps(FALSE, g, t, s, u) /\ u[Len(s)] = Putchars(g, t, s)
<1>1. DOMAIN s = 1..Len(s)
  OBVIOUS
<1>2. Putchars(g, t, s) = Folded(FALSE, g, t, s)
  BY <1>1 DEF Putchars, Folded, FoldLeft, MapThenFoldSet, Folds, Char
<1> QED BY <1>2, FoldSteps

LEMMA UpTo ==
  ASSUME NEW m \in Nat, NEW S, 0 \in S, \A k \in 1..m : k - 1 \in S => k \in S
  PROVE  0..m \subseteq S
<1> DEFINE Bad == {k \in 0..m : k \notin S}
<1> SUFFICES ASSUME Bad # {} PROVE FALSE
  OBVIOUS
<1>1. PICK k \in Bad : \A i \in Bad : k <= i
  <2>1. Bad \subseteq Nat
    OBVIOUS
  <2> HIDE DEF Bad
  <2> QED BY <2>1, LeastOf
<1>2. k \in Nat /\ k # 0 /\ k <= m /\ k \notin S
  OBVIOUS
<1>3. k \in 1..m /\ k - 1 \in 0..m /\ ~(k <= k - 1)
  BY ONLY <1>2, m \in Nat
<1>4. k - 1 \in S
  BY <1>1, <1>3
<1> QED BY <1>2, <1>3, <1>4

LEMMA FastFacts ==
  ASSUME NEW g \in Rect, NEW t \in Tty
  PROVE  /\ Fast(g, t) \in Tty
         /\ t.c < g.w => Fast(g, t).r = t.r /\ Fast(g, t).c = t.c + 1 /\ Fast(g, t).p = t.p + 1
         /\ t.c >= g.w => /\ Fast(g, t).r = Below(g, t.r) /\ Fast(g, t).c = 0
                          /\ Fast(g, t).p = Address(g.x, g.y + Below(g, t.r))
<1>1. t.p \in Int /\ t.r \in Nat /\ t.c \in Nat /\ g.w \in Nat /\ g.x \in Nat
  BY DEF Tty, Rect
<1>2. PICK v \in Tty : v = Write(t, {t.p}) /\ v.r = t.r /\ v.c = t.c /\ v.p = t.p
  BY <1>1, WriteFacts
<1>3. PICK s : s = [v EXCEPT !.p = v.p + 1]
  OBVIOUS
<1>4. s \in Tty /\ s.r = t.r /\ s.c = t.c /\ s.p = t.p + 1
  <2>1. v.p + 1 \in Int
    BY <1>1, <1>2
  <2>2. s \in Tty /\ s.r = v.r /\ s.c = v.c /\ s.p = v.p + 1
    BY ONLY <1>3, <2>1, v \in Tty DEF Tty
  <2> QED BY <1>2, <2>2
<1>5. PICK b \in Nat : b = Below(g, t.r)
  BY <1>1, BelowFacts
<1>6. Fast(g, t) = IF t.c >= g.w THEN At(g, s, b, 0) ELSE [s EXCEPT !.c = s.c + 1]
  BY <1>2, <1>3, <1>5 DEF Fast
<1>7. CASE t.c >= g.w
  <2>1. 0 \in Nat /\ g.x + 0 = g.x
    BY <1>1
  <2>2. At(g, s, b, 0) \in Tty /\ At(g, s, b, 0).r = b /\ At(g, s, b, 0).c = 0 /\ At(g, s, b, 0).p = Address(g.x + 0, g.y + b)
    BY <1>4, <2>1, AtFacts
  <2> QED BY <1>1, <1>5, <1>6, <1>7, <2>1, <2>2
<1>8. CASE ~(t.c >= g.w)
  <2>1. s.c + 1 \in Nat
    BY <1>1, <1>4
  <2>2. [s EXCEPT !.c = s.c + 1] \in Tty /\ [s EXCEPT !.c = s.c + 1].r = s.r /\ [s EXCEPT !.c = s.c + 1].c = s.c + 1
        /\ [s EXCEPT !.c = s.c + 1].p = s.p
    BY <1>4, <2>1 DEF Tty
  <2> QED BY <1>4, <1>6, <1>8, <2>2
<1> QED BY <1>7, <1>8

LEMMA CharTyped ==
  ASSUME NEW fast, NEW g \in Rect, NEW t \in Tty, NEW ch \in Chars
  PROVE  Char(fast, g, t, ch) \in Tty
BY FastFacts, CharStays DEF Char, Stays

LEMMA PutsTyped ==
  ASSUME NEW g \in Rect, NEW t \in Tty, NEW s \in Seq(Chars)
  PROVE  wputz(g, t, s) \in Tty
<1>1. PICK u : Steps(TRUE, g, t, s, u) /\ u[Len(s)] = wputz(g, t, s)
  BY PutsSteps
<1> DEFINE S == {k \in 0..Len(s) : u[k] \in Tty}
<1>2. Len(s) \in Nat
  OBVIOUS
<1>3. 0 \in S
  BY <1>1, <1>2 DEF Steps
<1>4. ASSUME NEW k \in 1..Len(s), k - 1 \in S PROVE k \in S
  <2>1. u[k - 1] \in Tty
    BY <1>4
  <2>3. s[k] \in Chars
    OBVIOUS
  <2>4. u[k] = Char(TRUE, g, u[k - 1], s[k])
    BY <1>1 DEF Steps
  <2>2. k \in 0..Len(s)
    BY <1>2
  <2> QED BY <2>1, <2>2, <2>3, <2>4, CharTyped
<1>5. 0..Len(s) \subseteq S
  <2> HIDE DEF S
  <2> QED BY <1>2, <1>3, <1>4, UpTo
<1> QED BY <1>1, <1>2, <1>5

-----------------------------------------------------------------------------
(* The cursors.                                                             *)

CursorInv == tty \in [Win -> Tty] /\ \A n \in Win : tty[n].out = {}

LEMMA FirstCursors == Init => CursorInv
<1> SUFFICES ASSUME Init PROVE CursorInv
  OBVIOUS
<1>1. tty = [n \in Win |-> IF n = 1 THEN At(Boot, Blank, 0, 0) ELSE Blank]
  BY DEF Init
<1>2. Blank \in Tty /\ Blank.out = {} /\ Boot \in Rect /\ 0 \in Nat
  BY WindowAssumption DEF Blank, Null, Tty, Rect
<1>3. At(Boot, Blank, 0, 0) \in Tty /\ At(Boot, Blank, 0, 0).out = {}
  BY <1>2, AtFacts
<1> QED BY <1>1, <1>2, <1>3 DEF CursorInv

LEMMA PrintCursors ==
  ASSUME CursorInv, NEW n \in Win, NEW t \in Tty, Prints(n, t)
  PROVE  CursorInv'
<1>1. tty' = [m \in Win |-> IF m = n THEN [t EXCEPT !.out = {}] ELSE [tty[m] EXCEPT !.text = t.text]]
  BY DEF Prints
<1>2. [t EXCEPT !.out = {}] \in Tty /\ [t EXCEPT !.out = {}].out = {} /\ t.text \in BOOLEAN
  BY DEF Tty
<1>3. ASSUME NEW m \in Win
      PROVE  [tty[m] EXCEPT !.text = t.text] \in Tty /\ [tty[m] EXCEPT !.text = t.text].out = {}
  <2>1. tty[m] \in Tty /\ tty[m].out = {}
    BY DEF CursorInv
  <2> QED BY <1>2, <2>1, MarkFacts
<1> QED BY <1>1, <1>2, <1>3 DEF CursorInv

LEMMA CursorStep == ScreenInv /\ CursorInv /\ [Next]_vars => CursorInv'
<1> SUFFICES ASSUME ScreenInv, CursorInv, [Next]_vars PROVE CursorInv'
  OBVIOUS
<1>1. CASE Next
  <2>1. ~spoiled
    BY <1>1 DEF Next
  <2>2. PICK n \in Win :
          \/ Open(n) \/ winkill(n) \/ Putchar(n) \/ Putcraw(n) \/ Puts(n) \/ Gotoxy(n)
          \/ \E d \in {-1, 1} : mowin(n, d, 0) \/ mowin(n, 0, d)
    BY <1>1 DEF Next
  <2>3. PICK t \in Tty, g \in Rect : t = tty[n] /\ t.out = {} /\ g = geometry[n]
    BY DEF CursorInv, ScreenInv, GeometryOK
  <2>4. CASE Open(n)
    <3>1. PICK size \in Sizes : window(n, size[1], size[2])
      BY <2>4 DEF Open
    <3>2. UNCHANGED tty \/ \E m : geometry' = [geometry EXCEPT ![n] = m] /\ tty' = [tty EXCEPT ![n] = At(m, @, 0, 0)]
      BY <3>1 DEF window, windraw
    <3>3. CASE UNCHANGED tty
      BY <3>3 DEF CursorInv
    <3>4. CASE \E m : geometry' = [geometry EXCEPT ![n] = m] /\ tty' = [tty EXCEPT ![n] = At(m, @, 0, 0)]
      <4>1. PICK m : geometry' = [geometry EXCEPT ![n] = m] /\ tty' = [tty EXCEPT ![n] = At(m, tty[n], 0, 0)]
        BY <3>4
      <4>2. ScreenInv'
        BY <2>1, <2>4, OpenScreen
      <4>3. m \in Rect
        BY <4>1, <4>2 DEF ScreenInv, GeometryOK
      <4>4. At(m, t, 0, 0) \in Tty /\ At(m, t, 0, 0).out = {}
        <5>1. 0 \in Nat
          OBVIOUS
        <5> QED BY <2>3, <4>3, <5>1, AtFacts
      <4> QED BY <2>3, <4>1, <4>4 DEF CursorInv
    <3> QED BY <3>2, <3>3, <3>4
  <2>5. CASE winkill(n)
    <3>1. tty' = [tty EXCEPT ![n] = [Blank EXCEPT !.text = t.text]] /\ t.text \in BOOLEAN
      BY <2>3, <2>5 DEF winkill, Tty
    <3>2. [Blank EXCEPT !.text = t.text] \in Tty /\ [Blank EXCEPT !.text = t.text].out = {}
      BY <3>1 DEF Blank, Null, Tty
    <3> QED BY <3>1, <3>2 DEF CursorInv
  <2>6. CASE Putchar(n)
    <3>1. PICK ch \in Chars : Prints(n, wputc(g, t, ch))
      BY <2>3, <2>6 DEF Putchar
    <3>2. wputc(g, t, ch) \in Tty
      BY CharStays DEF Stays
    <3> QED BY <3>1, <3>2, PrintCursors
  <2>7. CASE Putcraw(n)
    <3>1. PICK u : u = Write(t, {t.p})
      OBVIOUS
    <3>2. u \in Tty /\ Prints(n, wputc(g, u, "RIGHT"))
      <4>1. t.p \in Int
        BY DEF Tty
      <4> QED BY <2>3, <2>7, <3>1, <4>1, WriteFacts DEF Putcraw, putcraw
    <3>3. wputc(g, u, "RIGHT") \in Tty
      BY <3>2, CharStays DEF Stays, Chars
    <3> QED BY <3>2, <3>3, PrintCursors
  <2>8. CASE Puts(n)
    <3>1. PICK s \in Strings : Prints(n, nl(g, wputz(g, t, s)))
      BY <2>3, <2>8 DEF Puts
    <3>2. wputz(g, t, s) \in Tty
      BY PutsTyped, WindowAssumption
    <3>3. nl(g, wputz(g, t, s)) \in Tty
      BY <3>2, NewLine
    <3> QED BY <3>1, <3>3, PrintCursors
  <2>9. CASE Gotoxy(n)
    <3>1. PICK x \in 0..3, y \in 0..3 : Prints(n, wgotoxy(g, t, x, y))
      BY <2>3, <2>9 DEF Gotoxy
    <3>2. PICK r \in Nat, c \in Nat : r = (IF y < g.h THEN y ELSE g.h) /\ c = (IF x < g.w THEN x ELSE g.w)
      BY DEF Rect
    <3>3. wgotoxy(g, t, x, y) = At(g, t, r, c)
      BY <3>2 DEF wgotoxy
    <3> QED BY <3>1, <3>3, AtFacts, PrintCursors
  <2>10. CASE \E d \in {-1, 1} : mowin(n, d, 0) \/ mowin(n, 0, d)
    BY <2>10 DEF mowin, CursorInv
  <2> QED BY <2>2, <2>4, <2>5, <2>6, <2>7, <2>8, <2>9, <2>10
<1>2. CASE UNCHANGED vars
  BY <1>2 DEF vars, CursorInv
<1> QED BY <1>1, <1>2

\* From inside its window no character is written outside, in any window on any
\* screen: the column that equals the width is still within the body.
THEOREM PrintsInsideTheorem == Spec => []PrintsInside
<1>1. Init => ScreenInv /\ CursorInv
  BY FirstScreen, FirstCursors
<1>2. ScreenInv /\ CursorInv /\ [Next]_vars => (ScreenInv /\ CursorInv)'
  BY ScreenStep, CursorStep
<1>3. ScreenInv /\ CursorInv => PrintsInside
  <2> SUFFICES ASSUME ScreenInv, CursorInv, NEW n \in Win, Inside(geometry[n], tty[n]), NEW ch \in Chars
               PROVE  wputc(geometry[n], tty[n], ch).out \subseteq Body(geometry[n])
    BY DEF PrintsInside
  <2>1. PICK t \in Tty, g \in Rect : t = tty[n] /\ t.out = {} /\ g = geometry[n]
    BY DEF CursorInv, ScreenInv, GeometryOK
  <2>2. wputc(g, t, ch).out \subseteq t.out \cup Body(g)
    BY <2>1, CharStays DEF Stays
  <2> QED BY <2>1, <2>2
<1> QED BY <1>1, <1>2, <1>3, PTL DEF Spec

-----------------------------------------------------------------------------
(* Two terminals whose cursors are at the same place.                       *)

Level(t, u) == t.r = u.r /\ t.c = u.c /\ t.p = u.p

LEMMA AtLevel ==
  ASSUME NEW g \in Rect, NEW t \in Tty, NEW u \in Tty, NEW r \in Nat, NEW c \in Nat
  PROVE  Level(At(g, t, r, c), At(g, u, r, c))
BY AtFacts DEF Level

LEMMA UpdateLevel ==
  ASSUME NEW g \in Rect, NEW t \in Tty, NEW u \in Tty, Level(t, u)
  PROVE  Level(updatewinptr(g, t), updatewinptr(g, u))
BY DEF Level, updatewinptr, Tty

LEMMA NewLineLevel ==
  ASSUME NEW g \in Rect, NEW t \in Tty, NEW u \in Tty, Level(t, u)
  PROVE  Level(nl(g, t), nl(g, u)) /\ Level(nlpure(g, t), nlpure(g, u))
BY NewLine DEF Level

LEMMA ClearLevel ==
  ASSUME NEW g \in Rect, NEW t \in Tty
  PROVE  wclreol(g, t) \in Tty /\ Level(wclreol(g, t), t)
<1>1. PICK cells : cells = t.p .. (t.p + (g.w - t.c))
  OBVIOUS
<1>2. cells \subseteq Int
  BY <1>1
<1> QED BY <1>1, <1>2, WriteFacts DEF wclreol, Level

LEMMA PutLevel ==
  ASSUME NEW g \in Rect, NEW t \in Tty, NEW u \in Tty, Level(t, u)
  PROVE  Level(Put(g, t), Put(g, u)) /\ Level(Text(g, t), Text(g, u)) /\ Level(Advance(g, t), Advance(g, u))
         /\ Level(Text(g, t), Fast(g, u))
<1>1. PICK c \in Nat, w \in Nat : c = t.c /\ c = u.c /\ w = g.w
  BY DEF Level, Tty, Rect
<1>2. CASE c < w
  BY <1>1, <1>2, PutFacts, TextFacts, AdvanceFacts, FastFacts DEF Level
<1>3. CASE c >= w
  BY <1>1, <1>3, PutFacts, TextFacts, AdvanceFacts, FastFacts DEF Level
<1> QED BY <1>2, <1>3

LEMMA InkLevel ==
  ASSUME NEW g \in Rect, NEW t \in Tty, NEW u \in Tty, Level(t, u)
  PROVE  Level(Ink(g, t), Ink(g, u))
<1>1. ASSUME NEW v \in Tty PROVE Level([Write(v, {v.p - 1}) EXCEPT !.text = FALSE], v)
  <2>1. PICK s \in Tty : s = Write(v, {v.p - 1}) /\ Level(s, v)
    <3>1. v.p - 1 \in Int
      BY DEF Tty
    <3> QED BY <3>1, WriteFacts DEF Level
  <2> QED BY <2>1, MarkFacts DEF Level
<1>2. CASE t.c = 0
  <2>1. u.c = 0
    BY <1>2 DEF Level
  <2>2. Level(Ink(g, t), t) /\ Level(Ink(g, u), u)
    BY <1>1, <1>2, <2>1 DEF Ink
  <2> QED BY <2>2 DEF Level
<1>3. CASE t.c # 0
  <2>1. u.c # 0
    BY <1>3 DEF Level
  <2> QED BY <1>3, <2>1, PutLevel DEF Ink
<1> QED BY <1>2, <1>3

\* Apart from paper, which asks whether the last character was text, a character
\* takes cursors at the same place to the same place.
LEMMA CharLevel ==
  ASSUME NEW g \in Rect, NEW t \in Tty, NEW u \in Tty, Level(t, u), NEW ch \in Chars \ {"paper", "DEL"}
  PROVE  Level(wputc(g, t, ch), wputc(g, u, ch))
<1>1. PICK r \in Nat, c \in Nat, p \in Int, w \in Nat, h \in Nat :
        /\ r = t.r /\ c = t.c /\ p = t.p /\ r = u.r /\ c = u.c /\ p = u.p
        /\ w = g.w /\ h = g.h
  BY DEF Level, Tty, Rect
<1>2. Level(Back(g, t), Back(g, u))
  <2>1. CASE c > 0
    <3>1. PICK k \in Nat : k = c - 1
      BY <2>1
    <3>2. Back(g, t) = At(g, t, r, k) /\ Back(g, u) = At(g, u, r, k)
      BY <1>1, <2>1, <3>1 DEF Back, Column
    <3> QED BY <3>2, AtLevel
  <2>2. CASE ~(c > 0) /\ r > 0
    <3>1. PICK k \in Nat : k = r - 1
      BY <2>2
    <3>2. Back(g, t) = At(g, t, k, w) /\ Back(g, u) = At(g, u, k, w)
      BY <1>1, <2>2, <3>1 DEF Back
    <3> QED BY <3>2, AtLevel
  <2>3. CASE ~(c > 0) /\ ~(r > 0)
    BY <1>1, <2>3, UpdateLevel DEF Back
  <2> QED BY <2>1, <2>2, <2>3
<1>3. Level(Tab(g, t), Tab(g, u))
  <2>1. PICK k \in Nat : k = Char8((c \div TabStop + 1) * TabStop)
    <3>1. (c \div TabStop + 1) * TabStop \in Int
      BY Sides
    <3> QED BY <3>1, CharRange
  <2>2. /\ Tab(g, t) = IF k > w THEN nl(g, t) ELSE At(g, t, r, k)
        /\ Tab(g, u) = IF k > w THEN nl(g, u) ELSE At(g, u, r, k)
    BY <1>1, <2>1 DEF Tab, Column
  <2> QED BY <2>2, NewLineLevel, AtLevel
<1>4. Level(FlushLine(g, t), FlushLine(g, u))
  BY <1>1, UpdateLevel, NewLineLevel DEF FlushLine
<1>5. Level(clnl(g, t), clnl(g, u))
  <2>1. PICK v \in Tty, x \in Tty : v = wclreol(g, t) /\ x = wclreol(g, u) /\ Level(v, t) /\ Level(x, u)
    BY ClearLevel
  <2>2. Level(v, x)
    BY <2>1 DEF Level
  <2> QED BY <2>1, <2>2, NewLineLevel DEF clnl
<1>6. Level(wclrscr(g, t), wclrscr(g, u))
  <2>1. PICK v \in Tty, x \in Tty : v = At(g, t, 0, 0) /\ x = At(g, u, 0, 0) /\ Level(v, x)
    <3>1. 0 \in Nat
      OBVIOUS
    <3> QED BY <3>1, AtFacts, AtLevel
  <2>2. wclrscr(g, t) = Write(v, Body(g)) /\ wclrscr(g, u) = Write(x, Body(g)) /\ Body(g) \subseteq Int
    BY <2>1, BodyCovered DEF wclrscr, Body
  <2> QED BY <2>1, <2>2, WriteFacts DEF Level
<1>7. Level(Column(g, t, 0), Column(g, u, 0)) /\ Level(wgotoxy(g, t, 0, 0), wgotoxy(g, u, 0, 0))
  <2>1. Column(g, t, 0) = At(g, t, r, 0) /\ Column(g, u, 0) = At(g, u, r, 0) /\ 0 \in Nat
    BY <1>1 DEF Column
  <2>2. PICK y \in Nat, x \in Nat : y = (IF 0 < h THEN 0 ELSE h) /\ x = (IF 0 < w THEN 0 ELSE w)
    OBVIOUS
  <2>3. wgotoxy(g, t, 0, 0) = At(g, t, y, x) /\ wgotoxy(g, u, 0, 0) = At(g, u, y, x)
    BY <1>1, <2>2 DEF wgotoxy
  <2> QED BY <2>1, <2>3, AtLevel
<1>8. Level(wclreol(g, t), wclreol(g, u))
  BY ClearLevel DEF Level
<1>9. Level(At(g, t, Below(g, t.r), t.c), At(g, u, Below(g, u.r), u.c))
  <2>1. PICK b \in Nat : b = Below(g, r)
    BY BelowFacts
  <2> QED BY <1>1, <2>1, AtLevel
<1>10. Level(Up(g, t), Up(g, u))
  <2>1. PICK b \in Nat : b = (IF r >= h THEN Char8(h - 1) ELSE Char8(r - 1))
    <3>1. h - 1 \in Int /\ r - 1 \in Int
      OBVIOUS
    <3> QED BY <3>1, CharRange
  <2>2. Up(g, t) = At(g, t, b, c) /\ Up(g, u) = At(g, u, b, c)
    BY <1>1, <2>1 DEF Up
  <2> QED BY <2>2, AtLevel
<1>11. Level(Right(g, t), Right(g, u))
  <2>1. PICK v, x : v = [t EXCEPT !.p = p + 1] /\ x = [u EXCEPT !.p = p + 1]
    OBVIOUS
  <2>2. v \in Tty /\ x \in Tty /\ Level(v, x)
    BY <2>1 DEF Tty, Level
  <2>3. Right(g, t) = Advance(g, v) /\ Right(g, u) = Advance(g, x)
    BY <1>1, <2>1 DEF Right
  <2> QED BY <2>2, <2>3, PutLevel
<1>12. /\ ch = "text" => Level(wputc(g, t, ch), wputc(g, u, ch))
       /\ ch = "ink" => Level(wputc(g, t, ch), wputc(g, u, ch))
       /\ ch = "BS" => Level(wputc(g, t, ch), wputc(g, u, ch))
       /\ ch = "TAB" => Level(wputc(g, t, ch), wputc(g, u, ch))
       /\ ch = "FLSHLN" => Level(wputc(g, t, ch), wputc(g, u, ch))
       /\ ch = "NL" => Level(wputc(g, t, ch), wputc(g, u, ch))
  BY <1>2, <1>3, <1>4, PutLevel, InkLevel, NewLineLevel DEF wputc
<1>13. /\ ch = "NLPURE" => Level(wputc(g, t, ch), wputc(g, u, ch))
       /\ ch = "CLRSCR" => Level(wputc(g, t, ch), wputc(g, u, ch))
       /\ ch = "CR" => Level(wputc(g, t, ch), wputc(g, u, ch))
       /\ ch = "CLREOL" => Level(wputc(g, t, ch), wputc(g, u, ch))
       /\ ch = "HOME" => Level(wputc(g, t, ch), wputc(g, u, ch))
       /\ ch = "CLNL" => Level(wputc(g, t, ch), wputc(g, u, ch))
  BY <1>5, <1>6, <1>7, <1>8, NewLineLevel DEF wputc
<1>14. /\ ch = "ESC" => Level(wputc(g, t, ch), wputc(g, u, ch))
       /\ ch = "RIGHT" => Level(wputc(g, t, ch), wputc(g, u, ch))
       /\ ch = "DOWN" => Level(wputc(g, t, ch), wputc(g, u, ch))
       /\ ch = "UP" => Level(wputc(g, t, ch), wputc(g, u, ch))
  BY <1>9, <1>10, <1>11, PutLevel DEF wputc
<1> QED BY <1>12, <1>13, <1>14 DEF Chars

-----------------------------------------------------------------------------
(* puts and putchar.                                                        *)

\* puts draws a DEL, and does not note that it has drawn text: strings with these
\* characters are another matter.
PlainStrings == Strings \subseteq Seq(Chars \ {"paper", "DEL"})

LEMMA StringsLevel ==
  ASSUME NEW g \in Rect, NEW t \in Tty, NEW s \in Seq(Chars \ {"paper", "DEL"})
  PROVE  Cursor(wputz(g, t, s)) = Cursor(Putchars(g, t, s))
<1>1. s \in Seq(Chars) /\ Len(s) \in Nat
  OBVIOUS
<1>2. PICK u : Steps(TRUE, g, t, s, u) /\ u[Len(s)] = wputz(g, t, s)
  BY <1>1, PutsSteps
<1>3. PICK q : Steps(FALSE, g, t, s, q) /\ q[Len(s)] = Putchars(g, t, s)
  BY <1>1, PutcharSteps
<1> DEFINE S == {k \in 0..Len(s) : u[k] \in Tty /\ q[k] \in Tty /\ Level(u[k], q[k])}
<1>4. 0 \in S
  BY <1>1, <1>2, <1>3 DEF Steps, Level
<1>5. ASSUME NEW k \in 1..Len(s), k - 1 \in S PROVE k \in S
  <2>1. PICK a \in Tty, b \in Tty : a = u[k - 1] /\ b = q[k - 1] /\ Level(a, b)
    BY <1>5
  <2>2. PICK ch \in Chars \ {"paper", "DEL"} : ch = s[k]
    OBVIOUS
  <2>3. u[k] = Char(TRUE, g, a, ch) /\ q[k] = Char(FALSE, g, b, ch)
    BY <1>2, <1>3, <2>1, <2>2 DEF Steps
  <2>4. u[k] \in Tty /\ q[k] \in Tty
    BY <2>3, CharTyped
  <2>5. Level(u[k], q[k])
    <3>1. CASE ch = "text"
      <4>1. u[k] = Fast(g, a) /\ q[k] = Text(g, b)
        BY <2>3, <3>1 DEF Char, wputc
      <4>2. Level(b, a)
        BY <2>1 DEF Level
      <4>3. Level(Text(g, b), Fast(g, a))
        BY <4>2, PutLevel
      <4> QED BY <4>1, <4>3 DEF Level
    <3>2. CASE ch # "text"
      <4>1. u[k] = wputc(g, a, ch) /\ q[k] = wputc(g, b, ch)
        BY <2>3, <3>2 DEF Char
      <4> QED BY <2>1, <4>1, CharLevel
    <3> QED BY <3>1, <3>2
  <2>6. k \in 0..Len(s)
    BY <1>1
  <2> QED BY <2>4, <2>5, <2>6
<1>6. Len(s) \in S
  <2>1. 0..Len(s) \subseteq S
    <3> HIDE DEF S
    <3> QED BY <1>1, <1>4, <1>5, UpTo
  <2> QED BY <1>1, <2>1
<1> QED BY <1>2, <1>3, <1>6 DEF Level, Cursor

\* From wherever the cursor has got to, inside its window or astray, puts leaves it
\* where putchar would, whatever plain string is printed.
THEOREM FastPathTheorem == ASSUME PlainStrings PROVE Spec => []FastPathAgrees
<1>1. Init => ScreenInv /\ CursorInv
  BY FirstScreen, FirstCursors
<1>2. ScreenInv /\ CursorInv /\ [Next]_vars => (ScreenInv /\ CursorInv)'
  BY ScreenStep, CursorStep
<1>3. ScreenInv /\ CursorInv => FastPathAgrees
  <2> SUFFICES ASSUME ScreenInv, CursorInv, NEW n \in Win, NEW s \in Strings
               PROVE  Cursor(wputz(geometry[n], tty[n], s)) = Cursor(Putchars(geometry[n], tty[n], s))
    BY DEF FastPathAgrees, Putchars
  <2>1. PICK t \in Tty, g \in Rect : t = tty[n] /\ g = geometry[n]
    BY DEF CursorInv, ScreenInv, GeometryOK
  <2>2. s \in Seq(Chars \ {"paper", "DEL"})
    BY DEF PlainStrings
  <2> QED BY <2>1, <2>2, StringsLevel
<1> QED BY <1>1, <1>2, <1>3, PTL DEF Spec

-----------------------------------------------------------------------------
(* How a cursor leaves its window.                                          *)

LEMMA AtInside ==
  ASSUME NEW g \in Rect, NEW t \in Tty, NEW r \in Nat, NEW c \in Nat, r < g.h, c <= g.w
  PROVE  Inside(g, At(g, t, r, c))
<1>1. PICK a \in Int : a = Address(g.x, g.y + r) /\ Address(g.x + c, g.y + r) = a + c
  BY InRowOf
<1>2. a + c \in a .. (a + c)
  OBVIOUS
<1>3. PICK u : u = At(g, t, r, c) /\ u.r = r /\ u.c = c /\ u.p = Address(g.x + c, g.y + r)
  BY AtFacts
<1> QED BY <1>1, <1>2, <1>3 DEF Inside

LEMMA LevelInside ==
  ASSUME NEW g \in Rect, NEW t, NEW u, Level(t, u), Inside(g, t)
  PROVE  Inside(g, u)
BY DEF Level, Inside

LEMMA NewLineInside ==
  ASSUME NEW g \in Rect, NEW t \in Tty, g.h > 0
  PROVE  Inside(g, nl(g, t)) /\ Inside(g, nlpure(g, t))
<1>1. PICK b \in Nat : b = Below(g, t.r) /\ b < g.h
  <2>1. t.r \in Nat
    BY DEF Tty
  <2> QED BY <2>1, BelowFacts
<1>2. PICK v : v = At(g, t, b, 0) /\ v.r = b /\ v.c = 0 /\ v.p = Address(g.x, g.y + b) /\ Inside(g, v)
  <2>1. 0 \in Nat /\ 0 <= g.w /\ g.x + 0 = g.x
    BY DEF Rect
  <2> QED BY <1>1, <2>1, AtFacts, AtInside
<1>3. Level(v, nl(g, t)) /\ Level(v, nlpure(g, t))
  BY <1>1, <1>2, NewLine DEF Level
<1> QED BY <1>2, <1>3, LevelInside

\* The last column is the width: past it a new line is begun.
LEMMA AdvanceInside ==
  ASSUME NEW g \in Rect, NEW t \in Tty, Inside(g, t), NEW k \in {0, 1},
         NEW u \in Tty, u.r = t.r, u.c = t.c, u.p = t.p + k
  PROVE  Inside(g, Advance(g, u))
<1>1. PICK r \in Nat, c \in Nat, p \in Int, w \in Nat : r = t.r /\ c = t.c /\ p = t.p /\ w = g.w
  BY DEF Tty, Rect
<1>2. PICK a \in Int : /\ a = Address(g.x, g.y + r) /\ Address(g.x + c, g.y + r) = a + c
                       /\ Address(g.x + (c + 1), g.y + r) = a + (c + 1)
  <2>1. c + 1 \in Nat
    OBVIOUS
  <2> QED BY <2>1, InRowOf
<1>3. r < g.h /\ c <= w /\ a <= p /\ p <= a + c
  BY <1>1, <1>2 DEF Inside
<1>4. CASE c < w
  <2>1. PICK v : v = Advance(g, u) /\ v.r = r /\ v.c = c + 1 /\ v.p = p + k
    BY <1>1, <1>4, AdvanceFacts
  <2>2. p + k \in a .. (a + (c + 1)) /\ c + 1 <= w
    BY <1>3, <1>4
  <2> QED BY <1>1, <1>2, <1>3, <2>1, <2>2 DEF Inside
<1>5. CASE ~(c < w)
  <2>1. Advance(g, u) = nl(g, u)
    BY <1>1, <1>5 DEF Advance
  <2> QED BY <2>1, NewLineInside, InsideHasRows
<1> QED BY <1>4, <1>5

LEMMA PutInside ==
  ASSUME NEW g \in Rect, NEW t \in Tty, Inside(g, t)
  PROVE  Inside(g, Put(g, t)) /\ Inside(g, Text(g, t))
<1>1. PICK p \in Int : p = t.p
  BY DEF Tty
<1>2. PICK v \in Tty : v = Write(t, {p}) /\ v.r = t.r /\ v.c = t.c /\ v.p = p
  BY <1>1, WriteFacts
<1>3. PICK u : u = [v EXCEPT !.p = v.p + 1]
  OBVIOUS
<1>4. u \in Tty /\ u.r = t.r /\ u.c = t.c /\ u.p = p + 1
  <2>1. v.p + 1 \in Int
    BY <1>2
  <2>2. u \in Tty /\ u.r = v.r /\ u.c = v.c /\ u.p = v.p + 1
    BY ONLY <1>3, <2>1, v \in Tty DEF Tty
  <2> QED BY <1>2, <2>2
<1>5. Put(g, t) = Advance(g, u)
  BY <1>1, <1>2, <1>3 DEF Put
<1>6. Inside(g, Put(g, t))
  BY <1>1, <1>4, <1>5, AdvanceInside
<1>7. PICK m \in Tty : m = [t EXCEPT !.text = TRUE] /\ Level(t, m)
  BY MarkFacts DEF Level
<1>8. Level(Put(g, t), Put(g, m)) /\ Text(g, t) = Put(g, m)
  BY <1>7, PutLevel DEF Text
<1> QED BY <1>6, <1>8, LevelInside

LEMMA BackInside ==
  ASSUME NEW g \in Rect, NEW t \in Tty, Inside(g, t)
  PROVE  Inside(g, Back(g, t))
<1>1. PICK r \in Nat, c \in Nat, p \in Int, w \in Nat, h \in Nat : r = t.r /\ c = t.c /\ p = t.p /\ w = g.w /\ h = g.h
  BY DEF Tty, Rect
<1>2. r < h /\ c <= w
  BY <1>1 DEF Inside
<1>3. CASE c > 0
  <2>1. PICK k \in Nat : k = c - 1 /\ k <= w
    BY <1>2, <1>3
  <2>2. Back(g, t) = At(g, t, r, k)
    BY <1>1, <1>3, <2>1 DEF Back, Column
  <2> QED BY <1>1, <1>2, <2>1, <2>2, AtInside
<1>4. CASE ~(c > 0) /\ r > 0
  <2>1. PICK k \in Nat : k = r - 1 /\ k < h
    BY <1>2, <1>4
  <2>2. Back(g, t) = At(g, t, k, w)
    BY <1>1, <1>4, <2>1 DEF Back
  <2>3. w <= g.w
    BY <1>1
  <2> QED BY <1>1, <2>1, <2>2, <2>3, AtInside
<1>5. CASE ~(c > 0) /\ ~(r > 0)
  <2>1. Back(g, t) = updatewinptr(g, t)
    BY <1>1, <1>5 DEF Back
  <2>2. Level(At(g, t, r, c), updatewinptr(g, t))
    <3>1. updatewinptr(g, t).r = r /\ updatewinptr(g, t).c = c /\ updatewinptr(g, t).p = Address(g.x + c, g.y + r)
      BY <1>1 DEF updatewinptr, Tty
    <3> QED BY <3>1, AtFacts DEF Level
  <2> QED BY <1>1, <1>2, <2>1, <2>2, AtInside, LevelInside
<1> QED BY <1>3, <1>4, <1>5

\* A character keeps the cursor in its window, or takes it up from the top row.
Strayed(g, t, u) == Inside(g, u) \/ (t.r = 0 /\ u.r = CharMod - 1)

LEMMA CharInside ==
  ASSUME NEW g \in Rect, NEW t \in Tty, Inside(g, t), NEW ch \in Chars
  PROVE  Strayed(g, t, wputc(g, t, ch))
<1>1. PICK r \in Nat, c \in Nat, p \in Int, w \in Nat, h \in Nat : r = t.r /\ c = t.c /\ p = t.p /\ w = g.w /\ h = g.h
  BY DEF Tty, Rect
<1>2. r < h /\ c <= w /\ h > 0
  BY <1>1 DEF Inside
<1>3. ASSUME NEW k \in {1, 2} PROVE Inside(g, [Write(t, {t.p - k}) EXCEPT !.text = FALSE])
  <2>1. p - k \in Int
    OBVIOUS
  <2>2. PICK s \in Tty : s = Write(t, {p - k}) /\ Level(t, s)
    BY <2>1, WriteFacts DEF Level
  <2>3. Level(t, [s EXCEPT !.text = FALSE])
    BY <2>2, MarkFacts DEF Level
  <2> QED BY <1>1, <2>2, <2>3, LevelInside
<1>4. Inside(g, Ink(g, t)) /\ Inside(g, Paper(g, t))
  BY <1>3, PutInside DEF Ink, Paper
<1>5. Inside(g, Back(g, Text(g, Back(g, t))))
  <2>1. PICK u \in Tty : u = Back(g, t) /\ Inside(g, u)
    BY BackFacts, BackInside
  <2>2. PICK v \in Tty : v = Text(g, u) /\ Inside(g, v)
    BY <2>1, TextFacts, PutInside
  <2> QED BY <2>1, <2>2, BackInside
<1>6. Inside(g, Tab(g, t))
  <2>1. PICK k \in Nat : k = Char8((c \div TabStop + 1) * TabStop)
    <3>1. (c \div TabStop + 1) * TabStop \in Int
      BY Sides
    <3> QED BY <3>1, CharRange
  <2>2. Tab(g, t) = IF k > w THEN nl(g, t) ELSE At(g, t, r, k)
    BY <1>1, <2>1 DEF Tab, Column
  <2> QED BY <1>1, <1>2, <2>2, NewLineInside, AtInside
<1>7. Inside(g, updatewinptr(g, t))
  <2>1. Level(At(g, t, r, c), updatewinptr(g, t))
    <3>1. updatewinptr(g, t).r = r /\ updatewinptr(g, t).c = c /\ updatewinptr(g, t).p = Address(g.x + c, g.y + r)
      BY <1>1 DEF updatewinptr, Tty
    <3> QED BY <3>1, AtFacts DEF Level
  <2> QED BY <1>1, <1>2, <2>1, AtInside, LevelInside
<1>8. Inside(g, FlushLine(g, t)) /\ Inside(g, nl(g, t)) /\ Inside(g, nlpure(g, t))
  BY <1>1, <1>2, <1>7, NewLineInside DEF FlushLine
<1>9. Inside(g, wclreol(g, t))
  <2>1. Level(t, wclreol(g, t))
    BY ClearLevel DEF Level
  <2> QED BY <2>1, LevelInside
<1>10. Inside(g, clnl(g, t))
  <2>1. wclreol(g, t) \in Tty
    BY ClearLevel
  <2> QED BY <1>1, <1>2, <2>1, NewLineInside DEF clnl
<1>11. Inside(g, wclrscr(g, t)) /\ Inside(g, Column(g, t, 0)) /\ Inside(g, wgotoxy(g, t, 0, 0))
  <2>1. 0 \in Nat /\ 0 <= g.w /\ 0 < g.h /\ r < g.h
    BY <1>1, <1>2
  <2>2. Inside(g, At(g, t, 0, 0)) /\ Inside(g, At(g, t, r, 0))
    BY <2>1, AtInside
  <2>3. PICK v \in Tty : v = At(g, t, 0, 0)
    BY <2>1, AtFacts
  <2>4. wclrscr(g, t) = Write(v, Body(g)) /\ Body(g) \subseteq Int
    BY <2>3, BodyCovered DEF wclrscr, Body
  <2>5. Level(v, wclrscr(g, t))
    BY <2>4, WriteFacts DEF Level
  <2>6. wgotoxy(g, t, 0, 0) = v \/ (wgotoxy(g, t, 0, 0) = At(g, t, 0, g.w) /\ g.w = 0)
    BY <1>1, <2>1, <2>3 DEF wgotoxy
  <2> QED BY <1>1, <2>2, <2>3, <2>5, <2>6, LevelInside DEF Column
<1>12. Inside(g, At(g, t, Below(g, t.r), t.c))
  <2>1. PICK b \in Nat : b = Below(g, r) /\ b < h
    BY <1>1, <1>2, BelowFacts
  <2> QED BY <1>1, <1>2, <2>1, AtInside
<1>13. Strayed(g, t, Up(g, t))
  <2>1. PICK b \in Nat : b = Char8(r - 1)
    <3>1. r - 1 \in Int
      OBVIOUS
    <3> QED BY <3>1, CharRange
  <2>2. Up(g, t) = At(g, t, b, c)
    BY <1>1, <1>2, <2>1 DEF Up
  <2>3. CASE r = 0
    <3>1. b = CharMod - 1
      BY <2>1, <2>3, Sides DEF Char8
    <3>2. At(g, t, b, c).r = b
      BY AtFacts
    <3> QED BY <1>1, <2>2, <2>3, <3>1, <3>2 DEF Strayed
  <2>4. CASE r # 0
    <3>1. b <= r - 1
      <4>1. r - 1 \in Nat
        BY <2>4
      <4> QED BY <2>1, <4>1, Sides DEF Char8
    <3> QED BY <1>1, <1>2, <2>2, <3>1, AtInside DEF Strayed
  <2> QED BY <2>3, <2>4
<1>14. Inside(g, Right(g, t)) /\ Inside(g, Advance(g, t))
  <2>1. PICK u : u = [t EXCEPT !.p = p + 1]
    OBVIOUS
  <2>2. u \in Tty /\ u.r = t.r /\ u.c = t.c /\ u.p = p + 1
    BY <2>1 DEF Tty
  <2>3. Right(g, t) = Advance(g, u)
    BY <1>1, <2>1 DEF Right
  <2>4. t.p = t.p + 0
    BY <1>1
  <2> QED BY <1>1, <2>2, <2>3, <2>4, AdvanceInside
<1>15. /\ \A i \in {"text", "ink", "paper", "BS", "DEL", "TAB", "FLSHLN", "NL"} : ch = i => Inside(g, wputc(g, t, ch))
  BY <1>4, <1>5, <1>6, <1>8, PutInside, BackInside DEF wputc
<1>16. \A i \in {"NLPURE", "CLNL", "CLRSCR", "CR", "CLREOL", "HOME"} : ch = i => Inside(g, wputc(g, t, ch))
  BY <1>8, <1>9, <1>10, <1>11 DEF wputc
<1>17. \A i \in {"ESC", "RIGHT", "DOWN"} : ch = i => Inside(g, wputc(g, t, ch))
  BY <1>12, <1>14 DEF wputc
<1>18. ch = "UP" => Strayed(g, t, wputc(g, t, ch))
  BY <1>13 DEF wputc
<1> QED BY <1>15, <1>16, <1>17, <1>18 DEF Chars, Strayed

\* What a step may do to the cursor of a window.
Leaves(n) ==
  \/ Inside(geometry[n], tty[n])'
  \/ geometry[n]' # geometry[n]
  \/ tty[n].r = 0 /\ tty[n]'.r = CharMod - 1
  \/ tty[n]'.r = geometry[n].h

LEMMA PrintLeaves ==
  ASSUME ScreenInv, CursorInv, NEW n \in Win, NEW t \in Tty, Prints(n, t),
         Inside(geometry[n], tty[n]) => Strayed(geometry[n], tty[n], t) \/ t.r = geometry[n].h,
         NEW m \in Win, Inside(geometry[m], tty[m])
  PROVE  Leaves(m)
<1>1. geometry[m]' = geometry[m]
  BY DEF Prints
<1>2. tty'[m] = IF m = n THEN [t EXCEPT !.out = {}] ELSE [tty[m] EXCEPT !.text = t.text]
  BY DEF Prints
<1>3. CASE m = n
  <2>1. Level(t, tty'[m])
    BY <1>2, <1>3 DEF Level, Tty
  <2>2. Inside(geometry[m], t) => Inside(geometry[m], tty'[m])
    BY <2>1 DEF Level, Inside
  <2>3. tty'[m].r = t.r
    BY <2>1 DEF Level
  <2>4. Inside(geometry[m], tty[m])' <=> Inside(geometry[m], tty'[m])
    BY <1>1 DEF Inside
  <2> QED BY <1>1, <1>3, <2>2, <2>3, <2>4 DEF Strayed, Leaves
<1>4. CASE m # n
  <2>1. t.text \in BOOLEAN /\ tty[m] \in Tty
    BY DEF Tty, CursorInv
  <2>2. Level(tty[m], tty'[m])
    BY <1>2, <1>4, <2>1, MarkFacts DEF Level
  <2>3. Inside(geometry[m], tty'[m])
    BY <2>2 DEF Level, Inside
  <2>4. Inside(geometry[m], tty[m])' <=> Inside(geometry[m], tty'[m])
    BY <1>1 DEF Inside
  <2> QED BY <2>3, <2>4 DEF Leaves
<1> QED BY <1>3, <1>4

LEMMA StepLeaves ==
  ASSUME ScreenInv, CursorInv, Next, NEW m \in Win, Shown(m), Shown(m)', Inside(geometry[m], tty[m])
  PROVE  Leaves(m)
<1>1. PICK n \in Win :
        \/ Open(n) \/ winkill(n) \/ Putchar(n) \/ Putcraw(n) \/ Puts(n) \/ Gotoxy(n)
        \/ \E d \in {-1, 1} : mowin(n, d, 0) \/ mowin(n, 0, d)
  BY DEF Next
<1>2. PICK t \in Tty, g \in Rect : t = tty[n] /\ g = geometry[n]
  BY DEF CursorInv, ScreenInv, GeometryOK
<1>3. ASSUME tty'[m] = tty[m], geometry'[m] = geometry[m] PROVE Leaves(m)
  BY <1>3 DEF Leaves, Inside
<1>4. CASE Open(n)
  <2>1. PICK size \in Sizes : window(n, size[1], size[2])
    BY <1>4 DEF Open
  <2>2. \/ UNCHANGED <<geometry, tty>>
        \/ geometry[n].w = 0 /\ \E k : geometry' = [geometry EXCEPT ![n] = k] /\ tty' = [tty EXCEPT ![n] = At(k, @, 0, 0)]
    BY <2>1 DEF window, windraw
  <2>3. m = n => geometry[n].w # 0
    BY DEF Shown
  <2> QED BY <1>3, <2>2, <2>3 DEF ScreenInv, GeometryOK, CursorInv
<1>5. CASE winkill(n)
  <2>1. m # n
    BY <1>5 DEF winkill, Shown, ScreenInv, GeometryOK
  <2> QED BY <1>3, <1>5, <2>1 DEF winkill, ScreenInv, GeometryOK, CursorInv
<1>6. CASE Putchar(n)
  <2>1. PICK ch \in Chars : Prints(n, wputc(g, t, ch))
    BY <1>2, <1>6 DEF Putchar
  <2>2. wputc(g, t, ch) \in Tty /\ (Inside(g, t) => Strayed(g, t, wputc(g, t, ch)))
    BY CharStays, CharInside DEF Stays
  <2> QED BY <1>2, <2>1, <2>2, PrintLeaves
<1>7. CASE Putcraw(n)
  <2>1. PICK u \in Tty : u = Write(t, {t.p}) /\ Level(t, u)
    <3>1. t.p \in Int
      BY DEF Tty
    <3> QED BY <3>1, WriteFacts DEF Level
  <2>2. Prints(n, wputc(g, u, "RIGHT")) /\ "RIGHT" \in Chars
    BY <1>2, <1>7, <2>1 DEF Putcraw, putcraw, Chars
  <2>3. wputc(g, u, "RIGHT") \in Tty /\ (Inside(g, u) => Strayed(g, u, wputc(g, u, "RIGHT")))
    BY <2>2, CharStays, CharInside DEF Stays
  <2>4. Inside(g, t) => Strayed(g, t, wputc(g, u, "RIGHT"))
    BY <2>1, <2>3, LevelInside DEF Level, Strayed
  <2> QED BY <1>2, <2>2, <2>3, <2>4, PrintLeaves
<1>8. CASE Puts(n)
  <2>1. PICK s \in Strings : Prints(n, nl(g, wputz(g, t, s)))
    BY <1>2, <1>8 DEF Puts
  <2>2. wputz(g, t, s) \in Tty
    BY PutsTyped, WindowAssumption
  <2>3. nl(g, wputz(g, t, s)) \in Tty /\ (Inside(g, t) => Strayed(g, t, nl(g, wputz(g, t, s))))
    BY <2>2, NewLine, NewLineInside, InsideHasRows DEF Strayed
  <2> QED BY <1>2, <2>1, <2>3, PrintLeaves
<1>9. CASE Gotoxy(n)
  <2>1. PICK x \in 0..3, y \in 0..3 : Prints(n, wgotoxy(g, t, x, y))
    BY <1>2, <1>9 DEF Gotoxy
  <2>2. PICK h \in Nat, w \in Nat : h = g.h /\ w = g.w
    BY DEF Rect
  <2>3. PICK r \in Nat, c \in Nat : r = (IF y < h THEN y ELSE h) /\ c = (IF x < w THEN x ELSE w)
    OBVIOUS
  <2>4. wgotoxy(g, t, x, y) = At(g, t, r, c)
    BY <2>2, <2>3 DEF wgotoxy
  <2>5. c <= g.w /\ (r < g.h \/ r = g.h)
    BY <2>2, <2>3
  <2>6. At(g, t, r, c) \in Tty /\ At(g, t, r, c).r = r
    <3>1. g \in Rect /\ t \in Tty /\ r \in Nat /\ c \in Nat
      OBVIOUS
    <3> QED BY ONLY <3>1, AtFacts
  <2>7. Strayed(g, t, At(g, t, r, c)) \/ At(g, t, r, c).r = g.h
    BY <2>5, <2>6, AtInside DEF Strayed
  <2> QED BY <1>2, <2>1, <2>4, <2>6, <2>7, PrintLeaves
<1>10. CASE \E d \in {-1, 1} : mowin(n, d, 0) \/ mowin(n, 0, d)
  <2>1. PICK d \in {-1, 1} : mowin(n, d, 0) \/ mowin(n, 0, d)
    BY <1>10
  <2>2. tty' = tty /\ \E k \in {Moved(g, d, 0), Moved(g, 0, d)} : geometry' = [geometry EXCEPT ![n] = k]
    BY <1>2, <2>1 DEF mowin
  <2>3. Moved(g, d, 0) # g /\ Moved(g, 0, d) # g
    <3>1. g.x + d # g.x /\ g.y + d # g.y /\ Moved(g, d, 0).x = g.x + d /\ Moved(g, 0, d).y = g.y + d
      BY DEF Rect, Moved
    <3> QED BY <3>1
  <2>4. CASE m = n
    BY <1>2, <2>2, <2>3, <2>4 DEF ScreenInv, GeometryOK, Leaves
  <2>5. CASE m # n
    BY <1>3, <2>2, <2>5 DEF ScreenInv, GeometryOK
  <2> QED BY <2>4, <2>5
<1> QED BY <1>1, <1>4, <1>5, <1>6, <1>7, <1>8, <1>9, <1>10

\* A cursor leaves its window in three ways only, whatever is printed: the window
\* moves away from under it, it goes up from the top row, where the char r wraps, or
\* gotoxy sends it to the row below the last.
THEOREM StraysTheorem == Spec => StraysOnlyBy
<1>1. Init => ScreenInv /\ CursorInv
  BY FirstScreen, FirstCursors
<1>2. ScreenInv /\ CursorInv /\ [Next]_vars => (ScreenInv /\ CursorInv)'
  BY ScreenStep, CursorStep
<1>3. ScreenInv /\ CursorInv /\ [Next]_vars
        => [\A n \in Win : Shown(n) /\ Shown(n)' /\ Inside(geometry[n], tty[n]) =>
              \/ Inside(geometry[n], tty[n])'
              \/ geometry[n]' # geometry[n]
              \/ tty[n].r = 0 /\ tty[n]'.r = CharMod - 1
              \/ tty[n]'.r = geometry[n].h]_vars
  BY StepLeaves DEF Leaves
<1> QED BY <1>1, <1>2, <1>3, PTL DEF Spec, StraysOnlyBy
=============================================================================
