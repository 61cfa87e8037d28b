-------------------------------- MODULE Focus --------------------------------
(***************************************************************************)
(* Where setfocus(new) of orwin.c leaves the keyboard focus.               *)
(*                                                                         *)
(* The C function walks the window table from `new`, wrapping at both      *)
(* ends, until it meets an open window, and gives up after WIN_MAX + 2     *)
(* assignments.  FocusOf and PrevOf say what the walk computes; Walk is    *)
(* the walk itself, and a run of WindowManager checks that they agree.     *)
(***************************************************************************)
EXTENDS Integers

CONSTANT WinMax     \* WIN_MAX of orwin.h

ASSUME WinMaxAssumption == WinMax \in Nat /\ WinMax >= 3

\* The two range corrections after `wfocus= new`; `new` is a signed char.
Wrap(n, new) == IF new > n THEN 1 ELSE IF new <= 0 THEN n ELSE new

\* The slot visited before slot f when the walk goes upwards round the table.
BeforeUnwrapped(n, f) == f - 1
Before(n, f) == IF f = 1 THEN n ELSE f - 1

Least(S) == CHOOSE s \in S : \A t \in S : s <= t

\* The first open window from slot c on, round the table.
FirstOpen(open, c) ==
  LET ahead == {s \in open : s >= c}
  IN  Least(IF ahead # {} THEN ahead ELSE open)

\* wfocus after setfocus(new), with n windows made and those in `open` alive.
\* With no window alive the hang guard stops the walk after WinMax + 1 moves.
FocusOfAnySlot(n, open, new) == Wrap(n, new)
FocusOf(n, open, new) ==
  IF open # {} THEN FirstOpen(open, Wrap(n, new))
               ELSE ((Wrap(n, new) + WinMax) % n) + 1

\* wprev after setfocus(new): the slot the last `wfocus= new` moved away from.
PrevOf(n, open, focus, new) ==
  IF open # {} /\ Wrap(n, new) \in open
    THEN focus
    ELSE Before(n, FocusOf(n, open, new))

\* if (n++ > WIN_MAX) return;  in pass n of the walk
GiveUpEarly(n) == n > 1
GiveUp(n) == n > WinMax

\* The loop of setfocus: the slots passed, until one is open or the guard stops it.
Walk(n, open, focus, new) ==
  LET slot[k \in 0..WinMax + 1] == IF k = 0 THEN Wrap(n, new) ELSE Wrap(n, slot[k - 1] + 1)
      last == Least({k \in 0..WinMax + 1 : slot[k] \in open \/ GiveUp(k)})
  IN  [wfocus |-> slot[last], wprev |-> IF last = 0 THEN focus ELSE slot[last - 1]]
=============================================================================
