----------------------------- MODULE StableArray -----------------------------
(***************************************************************************)
(* What darr.c and darena.c promise: an index has one place, found when it *)
(* is first asked for and its own for ever ("permanent element addresses").*)
(***************************************************************************)
EXTENDS Integers

CONSTANTS Index, Place, NoPlace

VARIABLE given      \* the pointers the callers hold, by index

Init == given = [i \in Index |-> NoPlace]

\* The first caller that asks for index i gets a place nobody has.
Give(i) ==
  /\ given[i] = NoPlace
  /\ \E p \in Place : /\ \A k \in Index : given[k] # p
                      /\ given' = [given EXCEPT ![i] = p]

Next == \E i \in Index : Give(i)
Spec == Init /\ [][Next]_given

TypeOK == given \in [Index -> Place \cup {NoPlace}]

\* No two indexes share a place: elements do not overwrite each other.
NoOverlap ==
  \A i, k \in Index : i # k /\ given[i] # NoPlace => given[i] # given[k]
=============================================================================
