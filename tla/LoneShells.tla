------------------------------ MODULE LoneShells ------------------------------
(***************************************************************************)
(* The promise of the shell windows: each is a machine of its own.  A      *)
(* command answers a line with a line, and there is no heap, no cached     *)
(* line and nothing else that two windows have in common.                  *)
(***************************************************************************)
EXTENDS LoneTrain

CONSTANTS Win, MaxRuns   \* as in AppSh

VARIABLES origcmd,       \* by window: its command line
          train,         \* by window: its train, in `line` the text itself
          busy,          \* by window: the train moves
          runs           \* trains set up so far
vars == <<origcmd, train, busy, runs>>

Init ==
  /\ origcmd = [w \in Win |-> <<>>]
  /\ train = [w \in Win |-> Idle(NoTrain)]
  /\ busy = [w \in Win |-> FALSE]
  /\ runs = 0

RunCmd(w, cmdline) ==
  /\ runs < MaxRuns /\ runs' = runs + 1
  /\ \E t \in Parse(cmdline) :
       /\ train' = [train EXCEPT ![w] = Idle(t)]
       /\ busy' = [busy EXCEPT ![w] = IsTrain(t)]

Launch(w) ==
  /\ origcmd[w] = <<>>
  /\ \E c \in CmdLines : origcmd' = [origcmd EXCEPT ![w] = c] /\ RunCmd(w, c)

Rerun(w) == origcmd[w] # <<>> /\ ~busy[w] /\ RunCmd(w, origcmd[w]) /\ UNCHANGED origcmd

Call(w) ==
  /\ busy[w]
  /\ train' = [train EXCEPT ![w] = Moved(@)]
  /\ busy' = [busy EXCEPT ![w] = Moved(train[w]).line # End]
  /\ UNCHANGED <<origcmd, runs>>

Kill(w) ==
  /\ origcmd[w] # <<>>
  /\ origcmd' = [origcmd EXCEPT ![w] = <<>>]
  /\ train' = [train EXCEPT ![w] = Idle(NoTrain)]
  /\ busy' = [busy EXCEPT ![w] = FALSE]
  /\ UNCHANGED runs

Next == \E w \in Win : Launch(w) \/ Rerun(w) \/ Call(w) \/ Kill(w)
Spec == Init /\ [][Next]_vars
=============================================================================
