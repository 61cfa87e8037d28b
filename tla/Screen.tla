------------------------------- MODULE Screen -------------------------------
(***************************************************************************)
(* The windows on the screen: window() places them, mowin() moves them,    *)
(* winkill() erases them, and their programs print into them.  orwin.c     *)
(* keeps no map: what is free is read back from the screen itself, where   *)
(* the gray pattern (126) has not been written over.                       *)
(***************************************************************************)
EXTENDS Terminal, FiniteSets

CONSTANTS Win,          \* slots of wins[], numbered from 1
          Boot,         \* the window main() opens at fixed coordinates, in slot 1
          Sizes,        \* <<w, h>> the others ask for; they are placed automatically
          Strings,      \* what is printed with puts
          Printers,     \* the windows whose programs print
          MaxMoves      \* bound: moves of windows

\* The first window is on the screen and below the menu line.
ASSUME WindowAssumption ==
  /\ Win \subseteq Nat \ {0} /\ 1 \in Win /\ Strings \subseteq Seq(Chars)
  /\ Sizes \subseteq (Nat \ {0}) \X (Nat \ {0})
  /\ Boot \in [x : Nat, y : Nat \ {0}, w : Nat \ {0}, h : Nat \ {0}]
  /\ Boot.x >= 2 /\ Boot.x + Boot.w + 1 < Cols /\ Boot.y + Boot.h <= Rows

VARIABLES nwin,         \* slots taken; they are not used again
          geometry,     \* x, y, w, h of each window; w = 0 until window() has found a place
          status,       \* does a program run in it?
          tty,          \* its cursor
          moves,        \* how many there have been
          spoiled,      \* history: has a program printed outside its window?
          crowded,      \* history: has mowin() or winkill() taken cells of another window?
          screen        \* 0: gray; n: written by window n; "menu": the top line
vars == <<nwin, moves, spoiled, crowded, geometry, status, tty, screen>>

\* Below the last row lies memory that is not screen: never gray.
Cells == 0..(Address(0, Rows + 2) - 1)
Unplaced == [x |-> 0, y |-> 0, w |-> 0, h |-> 0]
Null == -1000           \* an address that is not on the screen
Blank == [r |-> 0, c |-> 0, p |-> Null, text |-> FALSE, out |-> {}]
Painted(cells, n, s) == [a \in Cells |-> IF a \in cells THEN n ELSE s[a]]
Gray(a) == a \in Cells /\ screen[a] = 0

-----------------------------------------------------------------------------
(* window()                                                                 *)

overlapNoGray(x, y, w, h) == x < 3 \/ x + w >= Cols - 5 \/ y < 3
overlap(x, y, w, h) ==
  \/ x < 3 \/ x + w >= Cols - 5 \/ y < 3
  \/ \E a \in Region(x - 3, y - 2, w + 7, h + 2) : ~Gray(a)

\* The placer goes along the rows; past the last one it gives up.
Places(w, h) == {a \in (2..(Cols - 5 - w)) \X (1..(Rows - h)) : ~overlap(a[1], a[2], w, h)}
Before(a, b) == a[2] < b[2] \/ (a[2] = b[2] /\ a[1] < b[1])
Placed(w, h) == CHOOSE a \in Places(w, h) : \A b \in Places(w, h) \ {a} : Before(a, b)

Header(g) == Region(g.x - 2, g.y - 1, g.w + 4, 1)
Shadow(g) == Region(g.x - 1, g.y, g.w + 4, g.h + 1)
Body(g)   == Region(g.x - 2, g.y, g.w + 4, g.h)

Drawn(g) == Header(g) \cup Shadow(g) \cup Body(g)
windraw(n, g) ==
  /\ screen' = Painted(Drawn(g), n, screen)
  /\ tty' = [tty EXCEPT ![n] = At(g, @, 0, 0)]

window(n, w, h) ==
  LET g == [x |-> Placed(w, h)[1], y |-> Placed(w, h)[2], w |-> w, h |-> h]
  IN IF geometry[n].w # 0 \/ Places(w, h) = {} THEN UNCHANGED <<geometry, tty, screen>>
     ELSE geometry' = [geometry EXCEPT ![n] = g] /\ windraw(n, g)

Open(n) ==              \* newwin(), window(-1, -1, w, h, ..), start()
  /\ n = nwin + 1 /\ nwin' = n /\ UNCHANGED <<moves, spoiled, crowded>>
  /\ status' = [status EXCEPT ![n] = TRUE]
  /\ \E size \in Sizes : window(n, size[1], size[2])

\* winkill() erases, and mowin() takes along, more than the window's own header and
\* text: when others are near, cells of theirs.
Shown(n) == status[n] /\ geometry[n].w # 0
Covered(g) == Region(g.x - 2, g.y - 1, g.w + 4, g.h + 1)    \* its header and its body
Takes(n, cells) ==
  crowded' = (crowded \/ \E m \in Win \ {n} : Shown(m) /\ cells \cap Covered(geometry[m]) # {})

\* (without a place x - 2 and y - 1 wrap, off the screen)
Erased(g) == IF g = Unplaced THEN {} ELSE Region(g.x - 2, g.y - 1, g.w + 5, g.h + 3)
winkill(n) ==
  LET g == geometry[n]
  IN /\ status[n]
     /\ screen' = Painted(Erased(g), 0, screen)
     /\ Takes(n, Erased(g))
     /\ status' = [status EXCEPT ![n] = FALSE]
     /\ geometry' = [geometry EXCEPT ![n] = Unplaced]
     /\ tty' = [tty EXCEPT ![n] = [Blank EXCEPT !.text = tty[n].text]]
     /\ UNCHANGED <<nwin, moves, spoiled>>

-----------------------------------------------------------------------------
(* mowin()                                                                  *)

Frame(g) == Region(g.x - 3, g.y - 2, g.w + 8, g.h + 4)
MayLeave(g, dx, dy) ==
  \/ g.x + dx < 3 \/ g.x + g.w + dx >= Cols - 3
  \/ g.y + dy < 2 \/ g.y + g.h + dy >= Rows - 1

\* The row or the column of cells ahead of the frame.
Ahead(g, dx, dy) ==
  IF dy # 0 THEN Region(g.x - 3, IF dy < 0 THEN g.y - 3 ELSE g.y + g.h + 2, g.w + 8, 1)
  ELSE Region(IF dx < 0 THEN g.x - 4 ELSE g.x + g.w + 5, g.y - 2, 1, g.h + 4)
Blocked(g, dx, dy) == \E a \in Ahead(g, dx, dy) : ~Gray(a)

\* memmove row by row, then gray over what the frame left.
MovedFrame(g, dx, dy) ==
  LET by == Address(dx, dy)
      to == {a + by : a \in Frame(g)}
  IN [a \in Cells |-> IF a \in to THEN screen[a - by] ELSE IF a \in Frame(g) THEN 0 ELSE screen[a]]

Moved(g, dx, dy) == [g EXCEPT !.x = g.x + dx, !.y = g.y + dy]
mowin(n, dx, dy) ==
  LET g == geometry[n]
  IN /\ status[n] /\ ~MayLeave(g, dx, dy) /\ ~Blocked(g, dx, dy)
     /\ moves < MaxMoves /\ moves' = moves + 1
     /\ screen' = MovedFrame(g, dx, dy)
     /\ Takes(n, Frame(g))
     /\ geometry' = [geometry EXCEPT ![n] = Moved(g, dx, dy)]
     /\ UNCHANGED <<nwin, spoiled, status, tty>>

-----------------------------------------------------------------------------
(* A program prints: lastcolor is one for all windows.                      *)

Prints(n, t) ==
  /\ screen' = Painted(t.out, n, screen)
  /\ spoiled' = ~(t.out \subseteq Body(geometry[n]))
  /\ tty' = [m \in Win |-> IF m = n THEN [t EXCEPT !.out = {}] ELSE [tty[m] EXCEPT !.text = t.text]]
  /\ UNCHANGED <<nwin, moves, crowded, geometry, status>>
Putchar(n) == n \in Printers /\ status[n] /\ \E ch \in Chars : Prints(n, wputc(geometry[n], tty[n], ch))
Putcraw(n) == n \in Printers /\ status[n] /\ Prints(n, putcraw(geometry[n], tty[n]))
Puts(n) == n \in Printers /\ status[n] /\ \E s \in Strings : Prints(n, nl(geometry[n], wputz(geometry[n], tty[n], s)))
Gotoxy(n) == n \in Printers /\ status[n] /\ \E x, y \in 0..3 : Prints(n, wgotoxy(geometry[n], tty[n], x, y))

MenuLine == Region(0, 0, Cols, 1)
Init ==
  /\ nwin = 1 /\ moves = 0 /\ spoiled = FALSE /\ crowded = FALSE
  /\ geometry = [n \in Win |-> IF n = 1 THEN Boot ELSE Unplaced]
  /\ status = [n \in Win |-> n = 1]
  /\ tty = [n \in Win |-> IF n = 1 THEN At(Boot, Blank, 0, 0) ELSE Blank]
  /\ screen = [a \in Cells |-> IF a \in MenuLine \/ a >= Address(0, Rows) THEN -1
                               ELSE IF a \in Drawn(Boot) THEN 1 ELSE 0]
\* Bound: nothing is followed further once a program has printed outside.
Next == ~spoiled /\ \E n \in Win :
  \/ Open(n) \/ winkill(n) \/ Putchar(n) \/ Putcraw(n) \/ Puts(n) \/ Gotoxy(n)
  \/ \E d \in {-1, 1} : mowin(n, d, 0) \/ mowin(n, 0, d)
Spec == Init /\ [][Next]_vars

-----------------------------------------------------------------------------
\* The bodies of the windows lie on the screen and apart from each other.
Apart ==
  \A n \in Win : Shown(n) =>
    /\ Body(geometry[n]) \subseteq 0..(Address(0, Rows) - 1)
    /\ \A m \in Win \ {n} : Shown(m) => Body(geometry[n]) \cap Body(geometry[m]) = {}

Inside(g, t) ==
  t.r < g.h /\ t.c <= g.w /\ t.p \in Address(g.x, g.y + t.r) .. Address(g.x + t.c, g.y + t.r)
\* From inside its window no character is written outside.
PrintsInside ==
  \A n \in Win : Shown(n) /\ Inside(geometry[n], tty[n]) =>
    \A ch \in Chars : wputc(geometry[n], tty[n], ch).out \subseteq Body(geometry[n])

\* A cursor leaves its window in three ways only: the window moves away from under
\* it, it goes up from the top row, or it is sent below the last row.
StraysOnlyBy ==
  [][\A n \in Win : Shown(n) /\ Shown(n)' /\ Inside(geometry[n], tty[n]) =>
       \/ Inside(geometry[n], tty[n])'
       \/ geometry[n]' # geometry[n]
       \/ tty[n].r = 0 /\ tty[n]'.r = CharMod - 1
       \/ tty[n]'.r = geometry[n].h]_vars

\* puts, three times as fast, leaves the cursor where putchar would.
Cursor(t) == <<t.r, t.c, t.p>>
FastPathAgrees ==
  \A n \in Win, s \in Strings : status[n] =>
    Cursor(wputz(geometry[n], tty[n], s)) =
    Cursor(FoldLeft(LAMBDA t, ch : wputc(geometry[n], t, ch), tty[n], s))

\* A new window is always drawn clear of the others' text, and so are the windows that
\* are moved: none covers another's text, and each shows its own. The screen can stand
\* in for a map of the windows, until a move takes along, or a kill erases, cells of
\* another's header or text.
TextIntact ==
  ~spoiled /\ ~crowded =>
    Apart /\ \A n \in Win : Shown(n) => \A a \in Body(geometry[n]) : screen[a] = n

=============================================================================
