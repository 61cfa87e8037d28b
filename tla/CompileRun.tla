----------------------------- MODULE CompileRun -----------------------------
(***************************************************************************)
(* parse.c built with RUN, from source to output: the parser compiles, the *)
(* generator packs what it emitted into an image, and the virtual machine  *)
(* loads and runs that image.                                              *)
(***************************************************************************)
EXTENDS ParseEngine, Ivm

CONSTANTS Cases,        \* sources, each with what it is to print and how it is to end
          Budget        \* steps that a source of the instance may take

VARIABLES meaning,      \* what the source is to print, and how it ends
          steps         \* taken so far
vars == <<parseVars, vmVars, meaning, steps>>

Init ==
  /\ \E c \in Cases : src = c[1] /\ meaning = c[2]
  /\ ParseInit /\ VMInit /\ steps = 0

Compile == ParseStep /\ UNCHANGED <<vmVars, meaning>>
LoadImage == verdict = "accept" /\ Nevm(BuildBlob(gen)) /\ UNCHANGED <<parseVars, meaning>>
Execute == VMStep /\ UNCHANGED <<parseVars, meaning>>

\* How it ended: rejected, run to its end, or stopped by CHKP.
Outcome == IF verdict = "error" THEN "error" ELSE status
Ended == Outcome \in {"error", "done", "badptr"}
Rest == Ended /\ UNCHANGED vars

Next ==
  \/ (Compile \/ LoadImage \/ Execute) /\ steps' = steps + 1
  \/ Rest

Spec == Init /\ [][Next]_vars

-----------------------------------------------------------------------------
\* Through rollbacks, spills, packing and renumbering of constants, a program
\* prints what it says, all of it and nothing else, and what is not a
\* program is not run.  And soon: with no state but an ended one that has no
\* further step, neither the parser nor the machine goes round for ever.
RunsAsWritten ==
  /\ steps <= Budget
  /\ IsPrefix(out, meaning.out)
  /\ Ended => Outcome = meaning.ends /\ out = meaning.out

\* The machine only ever executes a byte that the generator emitted as an
\* op-code: no jump, loop or return lands on an operand.
Starts ==
  LET code == image.code
      after[pc \in 0..Len(code)] ==
        IF pc >= Len(code) THEN {}
        ELSE LET op == code[pc + 1]
                 next == IF op = Code("\"") THEN pc + 2 + Len(TextAt(code, pc + 2))
                         ELSE pc + 1 + OperandCount(op)
             IN {pc} \cup (IF next > Len(code) THEN {} ELSE after[next])
  IN after[0]
OnInstructions == status = "running" => ipc \in Starts

\* Two names that are visible at the same time, and a name and a constant,
\* never share a slot.
SlotsApart ==
  LET cells == {i \in DOMAIN gen.syms : gen.syms[i].kind = "var"}
  IN /\ \A i, j \in cells : i # j => gen.syms[i].address # gen.syms[j].address
     /\ \A i \in cells : ~IsConst(gen, gen.syms[i].address)

=============================================================================
