-------------------------------- MODULE AppSh --------------------------------
(***************************************************************************)
(* The shell windows, app_sh.c: each call of app_sh() runs its window's    *)
(* train a few steps and returns to the window manager.  The heap, and in  *)
(* it the one cached line, is shared by all windows.                       *)
(***************************************************************************)
EXTENDS LoneTrain

CONSTANTS Win,      \* windows that run a shell
          MaxRuns   \* bound: how many trains are set up

VARIABLES origcmd,  \* by window: the command line, <<>> before the window is started
          train,    \* by window: app->train, loco, line, and what was printed
          busy,     \* by window: app->train is not NULL
          heap,     \* the lines and the cache
          runs      \* trains set up so far
vars == <<origcmd, train, busy, heap, runs>>

Init ==
  /\ origcmd = [w \in Win |-> <<>>]
  /\ train = [w \in Win |-> NoTrain]
  /\ busy = [w \in Win |-> FALSE]
  /\ heap = EmptyHeap
  /\ runs = 0

\* run(): parse the command line, the locomotive before the first command.
RunCmd(w, cmdline) ==
  /\ runs < MaxRuns
  /\ \E t \in Parse(cmdline) :
       /\ train' = [train EXCEPT ![w] = t]
       /\ busy' = [busy EXCEPT ![w] = IsTrain(t)]
  /\ runs' = runs + 1
  /\ UNCHANGED heap

\* app_sh's first call in a window.
Launch(w) ==
  /\ origcmd[w] = <<>>
  /\ \E c \in CmdLines : origcmd' = [origcmd EXCEPT ![w] = c] /\ RunCmd(w, c)

\* A key in a window whose train has gone: run the command line again.
Rerun(w) ==
  /\ origcmd[w] # <<>> /\ ~busy[w]
  /\ RunCmd(w, origcmd[w])
  /\ UNCHANGED origcmd

\* A call with a train: do { .. } while(KEEPRUNNING && app->line != EOS && --n).
\* KEEPRUNNING is a bit of the running timer and may end the call after any step, so
\* the action is a call of one step, and a call of several is a sequence of them.
\* A line that is EOS ends the train, wherever the locomotive is, and shellcleanup
\* frees its states.
Call(w) ==
  /\ busy[w] /\ HasRoom(heap)
  /\ LET step == Wtrainstep(train[w], heap)
     IN  /\ train' = [train EXCEPT ![w] = step.train]
         /\ heap' = step.heap
         /\ busy' = [busy EXCEPT ![w] = step.train.line # Eos]
  /\ UNCHANGED <<origcmd, runs>>

\* winkill() frees the APP struct and nothing it points to: the line in flight
\* stays allocated for ever.
Kill(w) ==
  /\ origcmd[w] # <<>>
  /\ origcmd' = [origcmd EXCEPT ![w] = <<>>]
  /\ train' = [train EXCEPT ![w] = NoTrain]
  /\ busy' = [busy EXCEPT ![w] = FALSE]
  /\ UNCHANGED <<heap, runs>>

Next == \E w \in Win : Launch(w) \/ Rerun(w) \/ Call(w) \/ Kill(w)
Spec == Init /\ [][Next]_vars

\* The window manager calls every window that does not wait for a key in its turn.
\* This is WF_vars(Call(w)): Called(w) says when Call(w) is enabled.
Called(w) == busy[w] /\ HasRoom(heap)
FairSpec == Spec /\ \A w \in Win : []<>~Called(w) \/ []<><<Call(w)>>_vars
-----------------------------------------------------------------------------
Held(w) == train[w].line

\* What each window knows of its train: the texts, not the blocks they are in.
Lone == INSTANCE LoneShells WITH train <- [w \in Win |-> View(heap, train[w])]

\* Windows do not see each other: with the one heap and the one cached line behind
\* them, they are shells that have nothing in common.
ImplementsLoneShells == Lone!Spec

\* No two shells hold the same line, none holds the cached one, and a held line was
\* not freed: a disposed line is handed out once.
LinesAreOwned ==
  /\ \A w \in Win : Owned(heap, Held(w))
  /\ \A v, w \in Win : v # w /\ Held(v) \in Cell => Held(v) # Held(w)

\* app_sh() takes the first end of the lines for the end of the train: no command but
\* the first may have lines of its own to add.
OneSource(c) == \A i \in 2..Len(c) : ~Source(c[i])

\* "If go to either end, we're done!": a train that is done has printed all of what
\* its command line means, and before a `head` stopped the stream the beginning of it.
DoneIsComplete ==
  \A w \in Win : ~busy[w] /\ IsTrain(train[w]) =>
    \A i \in Printers(origcmd[w]) :
      /\ IsPrefix(ShownBy(train[w], i), InputOf[origcmd[w]][i])
      /\ origcmd[w][i].f = "terminal" => ShownBy(train[w], i) = InputOf[origcmd[w]][i]

\* Every shell's train ends, whatever the others do, as long as lines can be made.
EveryTrainEnds == \A w \in Win : busy[w] ~> ~busy[w]
=============================================================================
