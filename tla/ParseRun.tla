------------------------------ MODULE ParseRun ------------------------------
(***************************************************************************)
(* The parser engine against what its grammars mean. A rule matches as a   *)
(* parsing expression does: its alternatives in order, the first that      *)
(* matches, without looking back; what it emits is what the items on the   *)
(* path that matched emit. The engine gets there with one stack, one code  *)
(* buffer and rollbacks.                                                   *)
(***************************************************************************)
EXTENDS ParseEngine

CONSTANT Sources        \* the token sequences to parse
vars == parseVars

Init == src \in Sources /\ ParseInit
Done == verdict # "running" /\ UNCHANGED vars
\* The grammars compared here have none of the other escapes: those are CompileRun's.
Next == MatchStep \/ Done
\* run() is a loop over step().
Spec == Init /\ [][Next]_vars /\ WF_vars(MatchStep)

-----------------------------------------------------------------------------
(* The meaning of a grammar: Match(r, a, i, m) goes on with item i of       *)
(* alternative a of rule r, where m has the place in the source, the code   *)
(* so far, and whether a commit has been passed; after one, there is no     *)
(* other alternative.                                                       *)

Fail(m) == [m EXCEPT !.ok = FALSE]
NextItem(alt, i) ==     \* past a production
  IF alt[i] # "[" THEN i + 1
  ELSE 1 + CHOOSE j \in i..Len(alt) : alt[j] = "]" /\ \A k \in i..(j - 1) : alt[k] # "]"

RECURSIVE Match(_, _, _, _), Choice(_, _, _)
Choice(r, a, m) ==
  IF a > Len(Grammar[r]) THEN Fail(m)
  ELSE LET n == Match(r, a, 1, m)
       IN IF n.ok \/ n.cut THEN n ELSE Choice(r, a + 1, m)
Match(r, a, i, m) ==
  LET alt == Grammar[r][a]
      item == alt[i]
      on(n) == IF n.ok THEN Match(r, a, NextItem(alt, i), n) ELSE n
  IN IF i > Len(alt) THEN m
     ELSE IF item = "\\<" THEN Choice(r, 1, m)
     ELSE IF item = "\\C" THEN on([m EXCEPT !.cut = TRUE])
     ELSE IF item = "["
          THEN on([m EXCEPT !.code = @ \o SubSeq(alt, i + 1, NextItem(alt, i) - 2)])
     ELSE IF item \in DOMAIN Grammar THEN on(Choice(item, 1, m))
     ELSE IF m.pos < Len(src) /\ src[m.pos + 1] = item THEN on([m EXCEPT !.pos = @ + 1])
     ELSE Fail(m)

Meant == Choice(Start, 1, [ok |-> TRUE, cut |-> FALSE, pos |-> 0, code |-> <<>>])
IsProgram == Meant.ok /\ Meant.pos = Len(src)
Emitted == [i \in DOMAIN Meant.code |-> Ascii[Meant.code[i]]] \o <<Ascii["q"]>>

-----------------------------------------------------------------------------
\* Programs of the grammar are accepted, and compiled to the code of the path
\* that matched: no trace of the paths given up is left.  Without a commit nothing
\* else is accepted (after one the engine goes on with the next alternative from
\* where the commit was).
ProgramsCompile ==
  /\ verdict # "running" /\ IsProgram => verdict = "accept" /\ gen.bin = Emitted
  /\ verdict = "accept" => IsProgram \/ Meant.cut

\* Frames are restored as they were entered: each one's start, code and line
\* are no further than the next one's.
FramesNest ==
  \A i \in 1..(Len(stack) - 1) :
    /\ stack[i].save <= stack[i + 1].save
    /\ stack[i].code_save <= stack[i + 1].code_save
    /\ stack[i + 1].code_save <= Len(gen.bin)
    /\ line_abs + stack[i + 1].save <= Len(src)

\* Every source is judged.
Judged == <>(verdict # "running")
=============================================================================
