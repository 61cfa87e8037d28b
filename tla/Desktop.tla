------------------------------- MODULE Desktop -------------------------------
(***************************************************************************)
(* The promise of OrWin's desktop, without slots, keys or turns: a set of  *)
(* open windows, at most one of them typed into, one program at a time.    *)
(***************************************************************************)
EXTENDS Integers

CONSTANT Slot

VARIABLES open,    \* the open windows
          focus,   \* the one with the keyboard, 0 if none has it
          busy     \* the window whose program executes, 0 if none, -1 crashed
vars == <<open, focus, busy>>

TypeOK == open \subseteq Slot /\ focus \in open \cup {0} /\ busy \in Slot \cup {0, -1}

Init == open \subseteq Slot /\ focus \in open /\ busy = 0

\* A new window leaves the focus with a window that was open.  Only when none
\* had it may the new one get it, and not even then must one.
OpenWindow(s) ==
  /\ s \notin open
  /\ open' = open \cup {s}
  /\ focus' \in IF focus # 0 THEN open ELSE open \cup {0, s}
  /\ UNCHANGED busy

\* Only the focused window can be closed, and the focus goes to another one.
CloseWindow ==
  /\ focus # 0
  /\ open' = open \ {focus}
  /\ focus' \in IF open' = {} THEN {0} ELSE open'
  /\ UNCHANGED busy

Refocus == focus' \in open /\ UNCHANGED <<open, busy>>

\* Only the program of an open window is called.
Begin(s) == busy = 0 /\ s \in open /\ busy' = s /\ UNCHANGED <<open, focus>>

Finish == busy \in Slot /\ busy' = 0 /\ UNCHANGED <<open, focus>>

\* Typing when no window has the focus.
Crash == busy = 0 /\ focus = 0 /\ busy' = -1 /\ UNCHANGED <<open, focus>>

Next == \/ \E s \in Slot : OpenWindow(s) \/ Begin(s)
        \/ CloseWindow \/ Refocus \/ Finish \/ Crash

Spec == Init /\ [][Next]_vars
=============================================================================
