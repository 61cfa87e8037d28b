------------------------------ MODULE Terminal ------------------------------
(***************************************************************************)
(* wputc and wputz of orwin.c, with nl, nlpure and clnl of oric.c: what a  *)
(* character does to the cursor of a window and which cells of the screen  *)
(* are written.                                                            *)
(*                                                                         *)
(* A terminal is a record: row r, column c, address p of the next cell,    *)
(* whether the last character was text (lastcolor), and the cells written. *)
(* A window g has its text in the cells x .. x + w, y .. y + h - 1; one    *)
(* character of paper and one of ink stand before each row.                *)
(***************************************************************************)
EXTENDS Integers, Sequences, SequencesExt

CONSTANTS Cols, Rows,   \* 40, 28
          TabStop,      \* 8
          CharMod       \* 256

ScreenAssumption == Cols \in Nat \ {0} /\ Rows \in Nat \ {0} /\ {TabStop, CharMod} \subseteq Nat \ {0}
ASSUME ScreenAssumption

\* The characters that differ in what they do.
Chars == {"text", "ink", "paper", "BS", "TAB", "FLSHLN", "NL", "NLPURE", "CLRSCR", "CR", "CLREOL",
          "HOME", "CLNL", "ESC", "RIGHT", "DOWN", "UP", "DEL"}

Char8(n) == n % CharMod \* r and c are chars
Address(x, y) == Cols * y + x
Region(x, y, w, h) ==   \* fill(x, y, w, h, ..)
  UNION {Address(x, y + j) .. Address(x + w - 1, y + j) : j \in 0..(h - 1)}

Write(t, cells) == [t EXCEPT !.out = @ \cup cells]
updatewinptr(g, t) == [t EXCEPT !.p = Address(g.x + t.c, g.y + t.r)]
At(g, t, r, c) == updatewinptr(g, [t EXCEPT !.r = r, !.c = c])
Column(g, t, c) == At(g, t, t.r, c)

GotoUnclamped(g, t, x, y) == At(g, t, y, x)
wgotoxy(g, t, x, y) == At(g, t, IF y < g.h THEN y ELSE g.h, IF x < g.w THEN x ELSE g.w)

ClreolPastEnd(g, t) == Write(t, t.p .. (t.p + (g.w - t.c) + 3))
wclreol(g, t) == Write(t, t.p .. (t.p + (g.w - t.c)))

wclrscr(g, t) == Write(At(g, t, 0, 0), Region(g.x - 2, g.y, g.w + 4, g.h))

Below(g, r) == IF Char8(r + 1) >= g.h THEN 0 ELSE Char8(r + 1)
nlpure(g, t) == LET s == At(g, t, Below(g, t.r), 0) IN Write(s, {s.p - 2, s.p - 1})
nl(g, t) == wclreol(g, nlpure(g, t))
clnl(g, t) == nlpure(g, wclreol(g, t))

\* "newline / line wrap?": the last column is w itself.
Advance(g, t) == IF t.c >= g.w THEN nl(g, t) ELSE [t EXCEPT !.c = @ + 1]
Put(g, t) == Advance(g, [Write(t, {t.p}) EXCEPT !.p = @ + 1])

Text(g, t) == Put(g, [t EXCEPT !.text = TRUE])
Ink(g, t) == IF t.c = 0 THEN [Write(t, {t.p - 1}) EXCEPT !.text = FALSE] ELSE Put(g, t)
Paper(g, t) == IF t.c = 0 /\ t.text THEN [Write(t, {t.p - 2}) EXCEPT !.text = FALSE] ELSE Put(g, t)

Back(g, t) ==
  IF t.c > 0 THEN Column(g, t, t.c - 1)
  ELSE IF t.r > 0 THEN At(g, t, t.r - 1, g.w)
  ELSE updatewinptr(g, t)
Tab(g, t) ==
  LET c == Char8((t.c \div TabStop + 1) * TabStop)
  IN IF c > g.w THEN nl(g, t) ELSE Column(g, t, c)
FlushLine(g, t) == IF t.c > 0 THEN updatewinptr(g, t) ELSE nl(g, t)
Up(g, t) == At(g, t, IF t.r >= g.h THEN Char8(g.h - 1) ELSE Char8(t.r - 1), t.c)
Right(g, t) == Advance(g, [t EXCEPT !.p = @ + 1])

wputc(g, t, ch) ==
  CASE ch = "text"   -> Text(g, t)
    [] ch = "ink"    -> Ink(g, t)
    [] ch = "paper"  -> Paper(g, t)
    [] ch = "BS"     -> Back(g, t)
    [] ch = "DEL"    -> Back(g, Text(g, Back(g, t)))
    [] ch = "TAB"    -> Tab(g, t)
    [] ch = "FLSHLN" -> FlushLine(g, t)
    [] ch = "NL"     -> nl(g, t)
    [] ch = "NLPURE" -> nlpure(g, t)
    [] ch = "CLNL"   -> clnl(g, t)
    [] ch = "CLRSCR" -> wclrscr(g, t)
    [] ch = "CR"     -> Column(g, t, 0)
    [] ch = "CLREOL" -> wclreol(g, t)
    [] ch = "HOME"   -> wgotoxy(g, t, 0, 0)
    [] ch = "ESC"    -> Advance(g, t)     \* 25, 26, 27
    [] ch = "RIGHT"  -> Right(g, t)
    [] ch = "DOWN"   -> At(g, t, Below(g, t.r), t.c)
    [] ch = "UP"     -> Up(g, t)
putcraw(g, t) == wputc(g, Write(t, {t.p}), "RIGHT")

\* wputz: text goes to the screen at once, and at the end of a row neither colours
\* are set nor is the next row cleared; what is below 32 is left to wputc.
FastWrapLate(g, t) ==
  LET s == [Write(t, {t.p}) EXCEPT !.p = @ + 1]
  IN IF t.c > g.w THEN At(g, s, Below(g, t.r), 0) ELSE [s EXCEPT !.c = @ + 1]
Fast(g, t) ==
  LET s == [Write(t, {t.p}) EXCEPT !.p = @ + 1]
  IN IF t.c >= g.w THEN At(g, s, Below(g, t.r), 0) ELSE [s EXCEPT !.c = @ + 1]
wputz(g, t, s) ==
  FoldLeft(LAMBDA u, ch : IF ch \in {"text", "DEL"} THEN Fast(g, u) ELSE wputc(g, u, ch), t, s)
=============================================================================
