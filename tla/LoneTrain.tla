------------------------------ MODULE LoneTrain ------------------------------
(***************************************************************************)
(* A train that has no heap: each command answers a text with a text.  It  *)
(* is what can be seen of a train of shell.c, whichever blocks its lines   *)
(* are in.                                                                 *)
(***************************************************************************)
EXTENDS Train

\* What is in flight: a text, a request for the next one, or the end of them.
Text(t) == [is |-> "text", text |-> t]
Request == [is |-> "request", text |-> <<>>]
End     == [is |-> "end", text |-> <<>>]

Answer(s, x) == [state |-> s, line |-> x]

\* Each command as a function of its state and what it is given.
Count(s, x) ==
  LET n    == Int16(s.n + s.d)
      more == (s.d > 0 /\ n <= s.e) \/ (s.d < 0 /\ n >= s.e)
  IN  Answer([s EXCEPT !.n = n], IF more THEN Text(<<n>>) ELSE End)
Select(s, x) == Answer(s, IF x.is = "text" /\ ~Matches(x.text, s.digit) THEN Request ELSE x)
Beginning(s, x) ==
  IF x.is # "text" THEN Answer(s, x)
                   ELSE Answer([s EXCEPT !.n = @ - 1], IF s.n > 0 THEN x ELSE End)
Rest(s, x) == Answer([s EXCEPT !.e = Int16(@ + 1)], IF s.e >= 0 THEN x ELSE Request)
Report(s, x) ==
  IF x.is = "text"
    THEN Answer([f |-> "wc", ln |-> s.ln + 1, wn |-> s.wn + Len(x.text),
                             cn |-> s.cn + Chars(x.text)], Request)
    ELSE Answer(s, IF x = Request THEN End ELSE Text(<<s.ln, s.wn, s.cn>>))

Does(s, x) ==
  CASE s.f = "iota" -> Count(s, x)
    [] s.f = "grep" -> Select(s, x)
    [] s.f = "head" -> Beginning(s, x)
    [] s.f = "tail" -> Answer(s, IF x.is = "text" THEN Request ELSE End)
    [] s.f = "skip" -> Rest(s, x)
    [] s.f = "wc"   -> Report(s, x)
    [] s.f = "teeterminal" -> Answer(s, x)
    [] s.f = "terminal"    -> Answer(s, IF x = End THEN End ELSE Request)

Shown(t) ==
  IF t.cmds[t.loco].f \in {"terminal", "teeterminal"} /\ t.line.is = "text"
    THEN Append(t.shown, [by |-> t.loco, text |-> t.line.text]) ELSE t.shown

Moved(t) ==
  IF AtEnd(t) THEN [t EXCEPT !.line = End]
  ELSE LET a == Does(t.cmds[t.loco], t.line)
       IN  [cmds  |-> [t.cmds EXCEPT ![t.loco] = a.state],
            loco  |-> IF a.line = Request THEN t.loco - 1 ELSE t.loco + 1,
            line  |-> a.line,
            shown |-> Shown(t)]

\* A train that was just set up.
Idle(t) == [t EXCEPT !.line = End]

\* What can be seen of a train in the heap: the text in flight, not the block it is in.
Saw(h, l) == IF l \in Cell THEN [is |-> "text", text |-> h.text[l]]
                           ELSE [is |-> IF l = Null THEN "request" ELSE "end", text |-> <<>>]
View(h, t) == [t EXCEPT !.line = Saw(h, @)]
=============================================================================
