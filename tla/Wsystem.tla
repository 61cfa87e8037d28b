------------------------------- MODULE Wsystem -------------------------------
(***************************************************************************)
(* wsystem() of shell.c: parse a command line, run its train to the end of *)
(* the rails, clean up; one command line after another, on one heap.       *)
(***************************************************************************)
EXTENDS Train

CONSTANT MaxRuns    \* bound: how many command lines are run

ASSUME RunsAssumption == MaxRuns \in Nat

VARIABLES cmdline,  \* the command line of `train`
          train,    \* its train, and what it printed
          heap,     \* the lines and the cache
          running,  \* inside wrunsystrain
          runs      \* command lines run so far
vars == <<cmdline, train, heap, running, runs>>

Init ==
  /\ cmdline = <<>> /\ train = NoTrain /\ heap = EmptyHeap
  /\ running = FALSE /\ runs = 0

\* wsysparse fails, or the train is set up with zline = EOS.
Start ==
  /\ ~running /\ runs < MaxRuns
  /\ \E c \in CmdLines : cmdline' = c /\ train' \in Parse(c)
  /\ running' = IsTrain(train')
  /\ runs' = runs + 1
  /\ UNCHANGED heap

\* One turn of the loop in wrunsystrain: it ends when the locomotive is at the
\* NULL before or after the train, and shellcleanup frees the states.
StepUntilEos ==
  /\ running /\ HasRoom(heap)
  /\ LET step == Wtrainstep(train, heap)
     IN  train' = step.train /\ heap' = step.heap
  /\ running' = (train'.line # Eos)
  /\ UNCHANGED <<cmdline, runs>>
StepOffTheFront ==
  /\ running /\ HasRoom(heap)
  /\ LET step == Wtrainstep(train, heap)
     IN  train' = step.train /\ heap' = step.heap
  /\ running' = (train'.loco # Len(train'.cmds) + 1)
  /\ UNCHANGED <<cmdline, runs>>
Step ==
  /\ running /\ HasRoom(heap)
  /\ LET step == Wtrainstep(train, heap)
     IN  train' = step.train /\ heap' = step.heap
  /\ running' = ~AtEnd(train')
  /\ UNCHANGED <<cmdline, runs>>

Next == Start \/ Step
Spec == Init /\ [][Next]_vars
FairSpec == Spec /\ WF_vars(Step)

-----------------------------------------------------------------------------
TypeOK ==
  /\ heap \in Heap
  /\ TypeOKTrain(train)
  /\ running \in BOOLEAN /\ runs \in 0..MaxRuns

\* A train that ran to its end printed what the command line means: `terminal` all
\* lines that reach it, `teeterminal` at least as many as went past it, in order
\* (a `head` behind it may stop the stream).
RunsLikeUnix ==
  ~running /\ IsTrain(train) =>
    \A i \in Printers(cmdline) :
      /\ IsPrefix(ShownBy(train, i), InputOf[cmdline][i])
      /\ cmdline[i].f = "terminal" => ShownBy(train, i) = InputOf[cmdline][i]

\* The reuse of disposed lines never overruns a block, and never hands out the line
\* that is in flight.
CacheSound == SoundCache(heap) /\ Owned(heap, train.line)

\* "only a single line passed around": besides the line in flight and the cached one
\* nothing stays allocated, however many command lines are run.  Three commands lose
\* a line: wc, which makes a report while a line is cached, so that lfree forgets one
\* of the two; tail -n, which never puts lines into its ring; and a last command that
\* lets its line run off the rails.
Tidy(c) ==
  \A i \in DOMAIN c : /\ c[i].f # "wc"
                      /\ c[i].f = "tail" => InitTail(c[i]) <= 0
                      /\ i = Len(c) => c[i].f = "terminal"
Lost == Used(heap) \ {train.line, heap.reuse}
LinesAreReturned == [][Tidy(cmdline) => Lost' \subseteq Lost]_vars

\* Every command line comes to an end.
Finishes == running ~> ~running
=============================================================================
