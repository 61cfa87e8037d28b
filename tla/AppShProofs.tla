----------------------------- MODULE AppShProofs -----------------------------
(***************************************************************************)
(* Any number of shell windows with any command lines: the lines have one  *)
(* owner each, and behind the shared heap and cache every window sees a    *)
(* shell that is alone.                                                    *)
(***************************************************************************)
EXTENDS AppSh, TrainProofs

USE LineAssumption, CmdLineAssumption

Apart(t, u) == t.line \in Cell => t.line # u.line

\* What makes ownership inductive: the heap is sound, and a window is rerun with a
\* command line that it was started with.
IInv ==
  /\ SoundHeap(heap)
  /\ train \in [Win -> Trains] /\ busy \in [Win -> BOOLEAN]
  /\ origcmd \in [Win -> CmdLines \cup {<<>>}]
  /\ \A w \in Win : TypeOKTrain(train[w]) /\ Owned(heap, train[w].line)
  /\ \A v, w \in Win : v # w => Apart(train[v], train[w])

LEMMA InitIInv == Init => IInv
<1> SUFFICES ASSUME Init PROVE IInv
  OBVIOUS
<1>1. NoTrain \in Trains /\ NoTrain.line = Eos /\ TypeOKTrain(NoTrain)
  BY NoTrainType DEF TypeOKTrain, Trains
<1> QED
  BY <1>1, EmptyHeapSound, NoLine DEF Init, IInv, Apart

\* A train without a line takes the place of one window's train.
LEMMA NewTrain ==
  ASSUME IInv, NEW w \in Win, NEW t, TypeOKTrain(t), t.line = Eos,
         train' = [train EXCEPT ![w] = t], heap' = heap,
         busy' \in [Win -> BOOLEAN], origcmd' \in [Win -> CmdLines \cup {<<>>}]
  PROVE  IInv'
<1>1. t \in Trains /\ t.line \notin Cell
  BY DEF TypeOKTrain, Trains
<1>2. train' \in [Win -> Trains]
      /\ \A v \in Win : train'[v] = IF v = w THEN t ELSE train[v]
  BY <1>1 DEF IInv
<1> QED
  BY <1>1, <1>2, NoLine DEF IInv, Apart

LEMMA RunCmdIInv ==
  ASSUME IInv, NEW w \in Win, NEW c \in CmdLines, RunCmd(w, c),
         origcmd' \in [Win -> CmdLines \cup {<<>>}]
  PROVE  IInv'
<1>1. PICK t \in Parse(c) : /\ train' = [train EXCEPT ![w] = t]
                            /\ busy' = [busy EXCEPT ![w] = IsTrain(t)]
  BY DEF RunCmd
<1>2. TypeOKTrain(t) /\ t.line = Eos
  BY ParseTrain
<1>3. busy' \in [Win -> BOOLEAN]
  BY <1>1 DEF IInv, IsTrain
<1> QED
  BY <1>1, <1>2, <1>3, NewTrain DEF RunCmd

\* What a step leaves of the window's own line and of those of the others.
LEMMA CallSteps ==
  ASSUME IInv, NEW w \in Win, Call(w)
  PROVE  /\ train[w] \in Trains
         /\ HasRoom(heap) /\ SoundHeap(heap)
         /\ TypeOKTrain(train[w]) /\ Owned(heap, train[w].line)
         /\ heap' = Wtrainstep(train[w], heap).heap /\ SoundHeap(heap')
         /\ train'[w] = Wtrainstep(train[w], heap).train
         /\ TypeOKTrain(train'[w]) /\ Owned(heap', train'[w].line)
         /\ Spares(heap, train[w].line, heap', train'[w].line)
         /\ \A v \in Win \ {w} : train'[v] = train[v]
<1>1. /\ train[w] \in Trains
      /\ HasRoom(heap) /\ SoundHeap(heap)
      /\ TypeOKTrain(train[w]) /\ Owned(heap, train[w].line)
  BY DEF Call, IInv
<1> DEFINE step == Wtrainstep(train[w], heap)
<1>2. TypeOKTrain(step.train) /\ SoundHeap(step.heap) /\ Owned(step.heap, step.train.line)
  BY <1>1, WtrainstepSound
<1>3. Spares(heap, train[w].line, step.heap, step.train.line)
  BY <1>1, WtrainstepSpares
<1>4. heap' = step.heap /\ train' = [train EXCEPT ![w] = step.train]
  BY DEF Call
<1> HIDE DEF step
<1>5. train'[w] = step.train /\ \A v \in Win \ {w} : train'[v] = train[v]
  BY <1>4 DEF IInv
<1> QED
  BY <1>1, <1>2, <1>3, <1>4, <1>5 DEF step

LEMMA CallIInv ==
  ASSUME IInv, NEW w \in Win, Call(w)
  PROVE  IInv'
<1>1. train'[w] \in Trains /\ \A v \in Win : TypeOKTrain(train'[v])
  BY CallSteps DEF TypeOKTrain, Trains, IInv
<1>2. train' \in [Win -> Trains]
  BY <1>1 DEF Call, IInv
<1>3. busy' \in [Win -> BOOLEAN]
  BY DEF Call, IInv
<1>4. ASSUME NEW v \in Win, v # w
      PROVE  /\ Owned(heap', train'[v].line)
             /\ Apart(train'[v], train'[w]) /\ Apart(train'[w], train'[v])
  <2>1. Owned(heap, train[v].line) /\ Apart(train[v], train[w])
    BY <1>4 DEF IInv
  <2>2. train[v].line \in Cell =>
          Owned(heap', train[v].line) /\ train[v].line # train'[w].line
    BY <2>1, CallSteps DEF Spares, Apart
  <2> QED
    BY <1>4, <2>2, CallSteps DEF Apart, Owned
<1>5. \A u, v \in Win : u # v => Apart(train'[u], train'[v])
  BY <1>4, CallSteps DEF IInv
<1>6. origcmd' = origcmd
  BY DEF Call
<1> QED
  BY <1>1, <1>2, <1>3, <1>4, <1>5, <1>6, CallSteps DEF IInv

LEMMA NextIInv == IInv /\ [Next]_vars => IInv'
<1> SUFFICES ASSUME IInv, [Next]_vars PROVE IInv'
  OBVIOUS
<1>1. CASE UNCHANGED vars
  BY <1>1 DEF vars, IInv
<1>2. ASSUME NEW w \in Win, Launch(w) PROVE IInv'
  <2>1. PICK c \in CmdLines : origcmd' = [origcmd EXCEPT ![w] = c] /\ RunCmd(w, c)
    BY <1>2 DEF Launch
  <2>2. origcmd' \in [Win -> CmdLines \cup {<<>>}]
    BY <2>1 DEF IInv
  <2> QED
    BY <2>1, <2>2, RunCmdIInv
<1>3. ASSUME NEW w \in Win, Rerun(w) PROVE IInv'
  <2>1. origcmd[w] \in CmdLines /\ RunCmd(w, origcmd[w]) /\ origcmd' = origcmd
    BY <1>3 DEF Rerun, IInv
  <2>2. origcmd' \in [Win -> CmdLines \cup {<<>>}]
    BY <2>1 DEF IInv
  <2> QED
    BY <2>1, <2>2, RunCmdIInv
<1>4. ASSUME NEW w \in Win, Kill(w) PROVE IInv'
  <2>1. busy' \in [Win -> BOOLEAN] /\ origcmd' \in [Win -> CmdLines \cup {<<>>}]
    BY <1>4 DEF Kill, IInv
  <2> QED
    BY <1>4, <2>1, NewTrain, NoTrainType DEF Kill
<1> QED
  BY <1>1, <1>2, <1>3, <1>4, CallIInv DEF Next

\* However many shells run, are interrupted, run again and are killed: the line a
\* command is given is its window's alone, and neither free nor the next to be
\* handed out (app_sh.c:149, shell.c:279-317).
THEOREM OwnershipTheorem == Spec => []LinesAreOwned
<1>1. IInv => LinesAreOwned
  BY DEF IInv, LinesAreOwned, Held, Apart
<1> QED
  BY InitIInv, NextIInv, <1>1, PTL DEF Spec

-----------------------------------------------------------------------------
(* The refinement: a command answers what it would answer alone.              *)

\* LoneShells reads the same Train as AppSh.
LEMMA SameCommands ==
  /\ \A n : Lone!Int16(n) = Int16(n)
  /\ \A t, d : Lone!Matches(t, d) = Matches(t, d)
  /\ \A t : Lone!Chars(t) = Chars(t)
  /\ \A t : Lone!AtEnd(t) = AtEnd(t)
<1>1. \A n : Lone!Int16(n) = Int16(n)
  BY DEF Lone!Int16, Int16
<1>2. \A t, d : Lone!Matches(t, d) = Matches(t, d)
  <2>1. \A n, d : Lone!Shows(n, d) = Shows(n, d)
    BY Zenon DEF Lone!Shows, Shows
  <2> QED
    BY <2>1, Zenon DEF Lone!Matches, Matches, Lone!ToSet, ToSet
<1>3. \A t : Lone!Chars(t) = Chars(t)
  BY DEF Lone!Chars, Chars, Lone!Chars1, Chars1, Lone!Digits, Digits
<1>4. \A t : Lone!AtEnd(t) = AtEnd(t)
  BY DEF Lone!AtEnd, AtEnd
<1> QED
  BY <1>1, <1>2, <1>3, <1>4

LEMMA SameTrains ==
  /\ Lone!NoTrain = NoTrain
  /\ \A t : Lone!IsTrain(t) = IsTrain(t)
  /\ \A c : Lone!Parse(c) = Parse(c)
<1>1. Lone!NoTrain = NoTrain /\ \A t : Lone!IsTrain(t) = IsTrain(t)
  BY DEF Lone!NoTrain, NoTrain, Lone!IsTrain, IsTrain
<1>2. \A c : Lone!InitCommand(c) = InitCommand(c)
  BY SameCommands DEF Lone!InitCommand, InitCommand, Lone!InitTail, InitTail
<1>3. \A c : Lone!Couple(c) = Couple(c)
  BY <1>1, <1>2 DEF Lone!Couple, Couple
<1>4. \A c : Lone!Fails(c) = Fails(c) /\ Lone!NoArgument(c) = NoArgument(c)
  BY DEF Lone!Fails, Fails, Lone!NoArgument, NoArgument
<1> QED
  BY <1>1, <1>3, <1>4 DEF Lone!Parse, Parse, Lone!Last, Last

LEMMA SameMoves ==
  /\ Lone!Request = Request /\ Lone!End = End
  /\ \A t : Lone!Idle(t) = Idle(t) /\ Lone!Moved(t) = Moved(t)
<1>1. Lone!Request = Request /\ Lone!End = End /\ \A t : Lone!Text(t) = Text(t)
  BY DEF Lone!Request, Request, Lone!End, End, Lone!Text, Text
<1>2. \A s, x : Lone!Answer(s, x) = Answer(s, x)
  BY DEF Lone!Answer, Answer
<1>3. ASSUME NEW s, NEW x PROVE Lone!Does(s, x) = Does(s, x)
  <2>1. Lone!Count(s, x) = Count(s, x)
    BY <1>1, <1>2, SameCommands DEF Lone!Count, Count
  <2>2. Lone!Select(s, x) = Select(s, x)
    BY <1>1, <1>2, SameCommands DEF Lone!Select, Select
  <2>3. Lone!Beginning(s, x) = Beginning(s, x)
    BY <1>1, <1>2 DEF Lone!Beginning, Beginning
  <2>4. Lone!Rest(s, x) = Rest(s, x)
    BY <1>1, <1>2, SameCommands DEF Lone!Rest, Rest
  <2>5. Lone!Report(s, x) = Report(s, x)
    BY <1>1, <1>2, SameCommands DEF Lone!Report, Report
  <2> QED
    BY <1>1, <1>2, <2>1, <2>2, <2>3, <2>4, <2>5 DEF Lone!Does, Does
<1>4. ASSUME NEW t PROVE Lone!Moved(t) = Moved(t)
  <2>1. Lone!Shown(t) = Shown(t)
    BY DEF Lone!Shown, Shown
  <2> QED
    BY <1>1, <1>3, <2>1, SameCommands DEF Lone!Moved, Moved
<1>5. \A t : Lone!Idle(t) = Idle(t)
  BY <1>1 DEF Lone!Idle, Idle
<1> QED
  BY <1>1, <1>4, <1>5

-----------------------------------------------------------------------------
Views == [w \in Win |-> View(heap, train[w])]

LEMMA NoTrainIdle == NoTrain \in Trains /\ NoTrain.line = Eos
BY NoTrainType DEF TypeOKTrain, Trains

LEMMA InitAlone == Init => Lone!Init
<1> SUFFICES ASSUME Init PROVE Lone!Init
  OBVIOUS
<1>1. \A w \in Win : View(heap, train[w]) = Idle(NoTrain)
  BY NoTrainIdle, ViewIdle DEF Init
<1> QED
  BY <1>1, SameTrains, SameMoves DEF Init, Lone!Init

\* A new train in one window, and the heap as it was.
LEMMA NewTrainViews ==
  ASSUME IInv, NEW w \in Win, NEW t \in Trains, t.line = Eos,
         train' = [train EXCEPT ![w] = t], heap' = heap
  PROVE  Views' = [Views EXCEPT ![w] = Idle(t)]
<1>1. \A v \in Win : train'[v] = IF v = w THEN t ELSE train[v]
  BY DEF IInv
<1>2. View(heap, t) = Idle(t)
  BY ViewIdle
<1>3. \A v \in Win : View(heap', train'[v]) = IF v = w THEN Idle(t) ELSE View(heap, train[v])
  BY <1>1, <1>2
<1> QED
  BY <1>3 DEF Views

LEMMA RunCmdAlone ==
  ASSUME IInv, NEW w \in Win, NEW c \in CmdLines, RunCmd(w, c)
  PROVE  Lone!RunCmd(w, c)
<1>1. PICK t \in Parse(c) : /\ train' = [train EXCEPT ![w] = t]
                            /\ busy' = [busy EXCEPT ![w] = IsTrain(t)]
  BY DEF RunCmd
<1>2. t \in Trains /\ t.line = Eos
  BY ParseTrain DEF TypeOKTrain, Trains
<1>3. Views' = [Views EXCEPT ![w] = Idle(t)]
  BY <1>1, <1>2, NewTrainViews DEF RunCmd
<1> QED
  BY <1>1, <1>3, SameTrains, SameMoves DEF RunCmd, Lone!RunCmd, Views

\* A call moves one window's train and is not seen by the others.
LEMMA CallViews ==
  ASSUME IInv, NEW w \in Win, Call(w)
  PROVE  Views' = [Views EXCEPT ![w] = Moved(@)]
<1>1. View(heap', train'[w]) = Moved(View(heap, train[w]))
  BY CallSteps, StepAlone
<1>2. ASSUME NEW v \in Win, v # w
      PROVE  View(heap', train'[v]) = View(heap, train[v])
  <2>1. train'[v] = train[v]
    BY <1>2, CallSteps
  <2>2. train[v].line \in Cell => heap'.text[train[v].line] = heap.text[train[v].line]
    <3>1. Owned(heap, train[v].line) /\ Apart(train[v], train[w])
      BY <1>2 DEF IInv
    <3> QED
      BY <3>1, CallSteps DEF Spares, Apart
  <2>3. Saw(heap', train[v].line) = Saw(heap, train[v].line)
    BY <2>2 DEF Saw
  <2> QED
    BY <2>1, <2>3 DEF View
<1> QED
  BY <1>1, <1>2 DEF Views

LEMMA CallAlone ==
  ASSUME IInv, NEW w \in Win, Call(w)
  PROVE  Lone!Call(w)
<1>1. View(heap', train'[w]) = Moved(View(heap, train[w]))
  BY CallSteps, StepAlone
<1>3. Views' = [Views EXCEPT ![w] = Moved(@)]
  BY CallViews
<1>4. busy' = [busy EXCEPT ![w] = Moved(Views[w]).line # End]
  <2>1. train'[w] \in Trains /\ train'[w].line \in Cell \cup {Null, Eos}
    BY CallSteps DEF TypeOKTrain, Trains
  <2>2. Moved(Views[w]).line = Saw(heap', train'[w].line)
    BY <1>1, <2>1 DEF Views, View, Trains
  <2>3. Moved(Views[w]).line = End <=> train'[w].line = Eos
    BY <2>1, <2>2, SawLine
  <2>4. busy' = [busy EXCEPT ![w] = train'[w].line # Eos]
    BY CallSteps DEF Call
  <2> QED
    BY <2>3, <2>4
<1> QED
  BY <1>3, <1>4, SameMoves DEF Call, Lone!Call, Views

LEMMA NextAlone == IInv /\ [Next]_vars => [Lone!Next]_(Lone!vars)
<1> SUFFICES ASSUME IInv, [Next]_vars PROVE [Lone!Next]_(Lone!vars)
  OBVIOUS
<1>1. CASE UNCHANGED vars
  BY <1>1 DEF vars, Lone!vars
<1>2. ASSUME NEW w \in Win, Launch(w) PROVE Lone!Launch(w)
  BY <1>2, RunCmdAlone DEF Launch, Lone!Launch
<1>3. ASSUME NEW w \in Win, Rerun(w) PROVE Lone!Rerun(w)
  <2>1. origcmd[w] \in CmdLines
    BY <1>3 DEF Rerun, IInv
  <2> QED
    BY <1>3, <2>1, RunCmdAlone DEF Rerun, Lone!Rerun
<1>4. ASSUME NEW w \in Win, Kill(w) PROVE Lone!Kill(w)
  <2>1. Views' = [Views EXCEPT ![w] = Idle(NoTrain)]
    BY <1>4, NoTrainIdle, NewTrainViews DEF Kill
  <2> QED
    BY <1>4, <2>1, SameTrains, SameMoves DEF Kill, Lone!Kill, Views
<1> QED
  BY <1>1, <1>2, <1>3, <1>4, CallAlone DEF Next, Lone!Next

\* Behind the one heap and its cached line every window is a shell of its own: what
\* it reads, answers and prints is what it would if the others did not exist
\* (app_sh.c:149-183, shell.c:271-317).
THEOREM LoneShellsTheorem == Spec => ImplementsLoneShells
BY InitIInv, NextIInv, InitAlone, NextAlone, PTL DEF Spec, ImplementsLoneShells, Lone!Spec

-----------------------------------------------------------------------------
(* A window's command line that is done printed what it means.                 *)

\* What makes it inductive: what a window's commands have not printed yet is in flight
\* or still to come, as long as the train is busy; and no other window changes that.
Done(c, v) == IsTrain(v) /\ Complete(c, v)
Busy(c, v) == IsTrain(v) /\ Piped(c, v) /\ (v.loco = 0 => v.line = Request)
Works ==
  \A w \in Win : /\ busy[w] => origcmd[w] \in CmdLines /\ Busy(origcmd[w], Views[w])
                 /\ ~busy[w] /\ IsTrain(Views[w]) => origcmd[w] \in CmdLines /\ Done(origcmd[w], Views[w])

LEMMA ViewTrain ==
  ASSUME IInv, NEW w \in Win
  PROVE  /\ Views[w] = View(heap, train[w]) /\ train[w] \in Trains
         /\ IsTrain(Views[w]) <=> IsTrain(train[w])
<1>1. train[w] \in Trains
  BY DEF IInv
<1> QED
  BY <1>1, ViewIs DEF Views, IsTrain

LEMMA InitWorks == Init => Works
<1> SUFFICES ASSUME Init PROVE Works
  OBVIOUS
<1>1. IInv
  BY InitIInv
<1>2. ASSUME NEW w \in Win PROVE ~busy[w] /\ ~IsTrain(train[w])
  BY DEF Init, IsTrain, NoTrain
<1> QED
  BY <1>1, <1>2, ViewTrain DEF Works

\* A train that was just set up has all its lines still to come.
LEMMA RunCmdWorks ==
  ASSUME \A c \in CmdLines : Plain(c) /\ OneSource(c), IInv, Works, NEW w \in Win, NEW c \in CmdLines,
         RunCmd(w, c), origcmd' \in [Win -> CmdLines \cup {<<>>}], origcmd'[w] = c,
         \A v \in Win \ {w} : origcmd'[v] = origcmd[v]
  PROVE  Works'
<1>1. PICK t \in Parse(c) : /\ train' = [train EXCEPT ![w] = t]
                            /\ busy' = [busy EXCEPT ![w] = IsTrain(t)]
  BY DEF RunCmd
<1>2. t \in Trains /\ t.line = Eos /\ heap' = heap
  BY ParseTrain DEF TypeOKTrain, Trains, RunCmd
<1>3. Views' = [Views EXCEPT ![w] = Idle(t)]
  BY <1>1, <1>2, NewTrainViews
<1>4. Idle(t) = View(heap, t) /\ (IsTrain(Idle(t)) <=> IsTrain(t))
  BY <1>2, ViewIdle, ViewIs DEF IsTrain
<1>5. IsTrain(t) => Busy(c, Idle(t))
  BY <1>4, ParsePiped DEF Busy
<1>6. /\ busy'[w] = IsTrain(t) /\ Views'[w] = Idle(t)
      /\ \A v \in Win \ {w} : busy'[v] = busy[v] /\ Views'[v] = Views[v]
  BY <1>1, <1>3 DEF IInv, Views
<1>7. origcmd'[w] \in CmdLines /\ ~(~busy'[w] /\ IsTrain(Views'[w]))
      /\ (busy'[w] => Busy(origcmd'[w], Views'[w]))
  BY <1>4, <1>5, <1>6
<1>8. ASSUME NEW v \in Win \ {w}
      PROVE  /\ busy'[v] => origcmd'[v] \in CmdLines /\ Busy(origcmd'[v], Views'[v])
             /\ ~busy'[v] /\ IsTrain(Views'[v]) =>
                  origcmd'[v] \in CmdLines /\ Done(origcmd'[v], Views'[v])
  <2>1. busy'[v] = busy[v] /\ Views'[v] = Views[v] /\ origcmd'[v] = origcmd[v]
    BY <1>6, <1>8
  <2> QED
    BY <1>8, <2>1, Zenon DEF Works
<1> QED
  BY ONLY <1>7, <1>8, Zenon DEF Works

\* A call moves the lines of one window on.
LEMMA CallWorks ==
  ASSUME \A c \in CmdLines : Plain(c) /\ OneSource(c), IInv, Works, NEW w \in Win, Call(w)
  PROVE  Works'
<1>1. /\ Views' = [Views EXCEPT ![w] = Moved(@)] /\ origcmd' = origcmd
      /\ \A v \in Win \ {w} : Views'[v] = Views[v] /\ busy'[v] = busy[v]
  <2>1. Views' = [Views EXCEPT ![w] = Moved(@)]
    BY CallViews
  <2>2. \A v \in Win \ {w} : busy'[v] = busy[v]
    BY DEF Call, IInv
  <2>3. DOMAIN Views = Win /\ origcmd' = origcmd
    BY DEF Call, Views
  <2>4. \A v \in Win \ {w} : Views'[v] = Views[v]
    BY ONLY <2>1, <2>3
  <2> QED
    BY ONLY <2>1, <2>2, <2>3, <2>4
<1>2. PICK c \in CmdLines : c = origcmd[w] /\ busy[w] /\ Busy(c, Views[w])
  BY DEF Works, Call
<1>3. PICK v : v = Views[w] /\ v = View(heap, train[w]) /\ Views'[w] = Moved(v)
  BY <1>1 DEF Views
<1>4. c \in Seq(Command) /\ c # <<>> /\ Plain(c) /\ OneSource(c) /\ Starts(c)
  BY CmdLineAssumption DEF Plain
<1>5. /\ Piped(c, v) /\ IsTrain(v) /\ (v.loco = 0 => v.line = Request)
  BY <1>2, <1>3 DEF Busy
<1>6. busy'[w] <=> Moved(v).line # End
  <2>1. busy'[w] = (train'[w].line # Eos)
    BY CallSteps DEF Call, IInv
  <2>2. train'[w] \in Trains /\ train'[w].line \in Cell \cup {Null, Eos}
    BY CallSteps DEF TypeOKTrain, Trains
  <2>3. Moved(v) = View(heap', train'[w])
    BY <1>3, CallSteps, StepAlone
  <2>4. Moved(v).line = Saw(heap', train'[w].line)
    BY <2>2, <2>3, ViewIs
  <2>5. Saw(heap', train'[w].line) # End <=> train'[w].line # Eos
    BY <2>2, SawLine
  <2> QED
    BY ONLY <2>1, <2>4, <2>5, Zenon
<1>7. IF busy'[w] THEN Busy(c, Moved(v)) ELSE Done(c, Moved(v))
  <2>1. CASE AtEnd(v)
    <3>1. Moved(v) = [v EXCEPT !.line = End] /\ LoneType(v)
      BY <1>5, <2>1 DEF Moved, Piped
    <3>2. Moved(v).line = End /\ Moved(v).shown = v.shown /\ Moved(v).cmds = v.cmds
      BY <3>1 DEF LoneType
    <3>3. Complete(c, v)
      BY <1>4, <1>5, <2>1, EndComplete
    <3>4. Complete(c, Moved(v))
      <4>1. \A i : ShownBy(Moved(v), i) = ShownBy(v, i)
        BY <3>2 DEF ShownBy
      <4> QED
        BY <3>3, <4>1 DEF Complete
    <3> QED
      BY <1>5, <1>6, <3>2, <3>4 DEF Done, IsTrain
  <2>2. CASE ~AtEnd(v)
    <3>1. /\ TypeOKTrain(train[w]) /\ SoundHeap(heap) /\ HasRoom(heap) /\ Owned(heap, train[w].line)
          /\ ~AtEnd(train[w]) /\ train[w] \in Trains
      BY <1>3, <2>2, CallSteps, ViewIs
    <3>2. PICK u : /\ u = Moved(v) /\ Piped(c, u)
                   /\ u.loco = 0 => u.line = Request
                   /\ u.line = End => u.loco > 1
      <4>1. View(Wtrainstep(train[w], heap).heap, Wtrainstep(train[w], heap).train) = Moved(v)
        BY <1>3, <3>1, StepAlone
      <4> QED
        BY <1>3, <1>4, <1>5, <3>1, <4>1, StepPiped
    <3>3. IsTrain(u)
      <4>1. Len(u.cmds) = Len(c)
        BY <3>2 DEF Piped, PipedBy, Faithful
      <4>2. Len(c) # 0 /\ Len(<<>>) = 0
        BY <1>4
      <4> QED
        BY <4>1, <4>2 DEF IsTrain
    <3>4. u.line = End => Complete(c, u)
      <4>1. \A i \in 1..Len(c) : i > 1 => ~Source(c[i])
        BY <1>4 DEF OneSource
      <4> QED
        BY <1>4, <3>2, <4>1, AnsweredComplete
    <3> QED
      BY <1>6, <3>2, <3>3, <3>4 DEF Busy, Done
  <2> QED
    BY <2>1, <2>2
<1>8. Views'[w] = Moved(v) /\ origcmd'[w] = c
  BY <1>1, <1>2, <1>3
<1>9. IsTrain(Moved(v))
  BY <1>7 DEF Busy, Done
<1> QED
  BY <1>1, <1>7, <1>8, <1>9 DEF Works

LEMMA NextWorks ==
  ASSUME \A c \in CmdLines : Plain(c) /\ OneSource(c), IInv, Works, [Next]_vars
  PROVE  Works'
<1>1. CASE UNCHANGED vars
  BY <1>1 DEF vars, Works, Views
<1>2. ASSUME NEW w \in Win, Launch(w) PROVE Works'
  <2>1. PICK c \in CmdLines : origcmd' = [origcmd EXCEPT ![w] = c] /\ RunCmd(w, c)
    BY <1>2 DEF Launch
  <2>2. /\ origcmd' \in [Win -> CmdLines \cup {<<>>}] /\ origcmd'[w] = c
        /\ \A v \in Win \ {w} : origcmd'[v] = origcmd[v]
    BY <2>1 DEF IInv
  <2> QED
    BY <2>1, <2>2, RunCmdWorks
<1>3. ASSUME NEW w \in Win, Rerun(w) PROVE Works'
  <2>1. PICK c \in CmdLines : c = origcmd[w] /\ RunCmd(w, c) /\ origcmd' = origcmd
    BY <1>3 DEF Rerun, IInv
  <2>2. origcmd' \in [Win -> CmdLines \cup {<<>>}]
    BY <2>1 DEF IInv
  <2> QED
    BY <2>1, <2>2, RunCmdWorks
<1>4. ASSUME NEW w \in Win, Kill(w) PROVE Works'
  <2>1. Views' = [Views EXCEPT ![w] = Idle(NoTrain)]
    BY <1>4, NoTrainIdle, NewTrainViews DEF Kill
  <2>2. ~IsTrain(Idle(NoTrain))
    BY DEF IsTrain, Idle, NoTrain
  <2>3. /\ ~busy'[w] /\ Views'[w] = Idle(NoTrain)
        /\ \A v \in Win \ {w} : busy'[v] = busy[v] /\ Views'[v] = Views[v] /\ origcmd'[v] = origcmd[v]
    BY <1>4, <2>1 DEF Kill, IInv, Views
  <2> QED
    BY <2>2, <2>3 DEF Works
<1> QED
  BY <1>1, <1>2, <1>3, <1>4, CallWorks DEF Next

\* However the windows take turns, and whatever lines they leave in the cache: a
\* command line within the reach of the 16-bit counters, and with nothing but its
\* first command to make lines, has printed what it means when its train is gone
\* (app_sh.c:149-183, shell.c:1750-2030).
THEOREM DoneTheorem ==
  ASSUME \A c \in CmdLines : Plain(c) /\ OneSource(c)
  PROVE  Spec => []DoneIsComplete
<1>1. IInv /\ Works /\ [Next]_vars => Works'
  BY NextWorks
<1>2. IInv /\ Works => DoneIsComplete
  <2> SUFFICES ASSUME IInv, Works, NEW w \in Win, ~busy[w], IsTrain(train[w])
               PROVE  \A i \in Printers(origcmd[w]) :
                        /\ IsPrefix(ShownBy(train[w], i), InputOf[origcmd[w]][i])
                        /\ origcmd[w][i].f = "terminal" => ShownBy(train[w], i) = InputOf[origcmd[w]][i]
    BY DEF DoneIsComplete
  <2>1. train[w] \in Trains /\ Views[w] = View(heap, train[w]) /\ IsTrain(Views[w])
    BY ViewTrain
  <2>2. origcmd[w] \in CmdLines /\ Complete(origcmd[w], View(heap, train[w]))
    BY <2>1 DEF Works, Done
  <2> QED
    BY <2>1, <2>2, InputIs
<1> QED
  BY InitIInv, NextIInv, InitWorks, <1>1, <1>2, PTL DEF Spec
=============================================================================
