---------------------------- MODULE WsystemProofs ----------------------------
(***************************************************************************)
(* wsystem() on any heap and any set of command lines: the states keep     *)
(* their types, the line in flight is never the cached one, and no copy    *)
(* overruns a block.                                                       *)
(***************************************************************************)
EXTENDS Wsystem, TrainProofs

USE LineAssumption, CmdLineAssumption, RunsAssumption

IInv == TypeOK /\ CacheSound

LEMMA InitIInv == Init => IInv
<1> SUFFICES ASSUME Init PROVE IInv
  OBVIOUS
<1>1. running \in BOOLEAN /\ runs = 0
  BY Zenon DEF Init
<1>2. runs \in 0..MaxRuns
  BY <1>1
<1>3. train = NoTrain /\ heap = EmptyHeap
  BY Zenon DEF Init
<1> QED
  BY <1>1, <1>2, <1>3, NoTrainType, EmptyHeapSound, NoLine DEF IInv, TypeOK, CacheSound, SoundHeap

LEMMA NextIInv == IInv /\ [Next]_vars => IInv'
<1> SUFFICES ASSUME IInv, [Next]_vars PROVE IInv'
  OBVIOUS
<1>1. ASSUME Start PROVE IInv'
  <2>1. TypeOKTrain(train') /\ train'.line = Eos
    BY <1>1, ParseTrain DEF Start
  <2>2. running' \in BOOLEAN /\ runs' \in 0..MaxRuns
    BY <1>1 DEF Start, IInv, TypeOK, IsTrain
  <2> QED
    BY <1>1, <2>1, <2>2, NoLine DEF Start, IInv, TypeOK, CacheSound
<1>2. ASSUME Step PROVE IInv'
  <2>1. SoundHeap(heap) /\ HasRoom(heap) /\ Owned(heap, train.line) /\ TypeOKTrain(train)
    BY <1>2 DEF Step, IInv, TypeOK, CacheSound, SoundHeap
  <2>2. TypeOKTrain(train') /\ SoundHeap(heap') /\ Owned(heap', train'.line)
    BY <1>2, <2>1, WtrainstepSound DEF Step
  <2>3. running' \in BOOLEAN /\ runs' \in 0..MaxRuns
    BY <1>2 DEF Step, IInv, TypeOK, AtEnd
  <2> QED
    BY <2>2, <2>3 DEF IInv, TypeOK, CacheSound, SoundHeap
<1>3. CASE UNCHANGED vars
  BY <1>3 DEF vars, IInv, TypeOK, CacheSound
<1> QED
  BY <1>1, <1>2, <1>3 DEF Next

\* Whatever command lines are run, in any order and on any heap, the states of the
\* commands, the line in flight and the heap keep their types (shell.c:1750-2030).
THEOREM PipelineTypes == Spec => []TypeOK
<1>1. IInv => TypeOK
  BY DEF IInv
<1> QED
  BY InitIInv, NextIInv, <1>1, PTL DEF Spec

\* lstrdup never writes past the end of a block, and the line that a command is
\* given is neither free nor the next to be handed out (shell.c:279-317).
THEOREM CacheTheorem == Spec => []CacheSound
<1>1. IInv => CacheSound
  BY DEF IInv
<1> QED
  BY InitIInv, NextIInv, <1>1, PTL DEF Spec

-----------------------------------------------------------------------------
(* No line is lost by a tidy command line: while a line is in flight nothing is   *)
(* cached, so that whoever frees the line keeps it for the next lstrdup.          *)

Single(h, l) == l \in Cell => h.reuse = Null
LostOf(h, l) == Used(h) \ {l, h.reuse}

Keeps(s, l, h, r) ==
  /\ r.state.f = s.f
  /\ Single(r.heap, r.line)
  /\ LostOf(r.heap, r.line) \subseteq LostOf(h, l)
  /\ s.f = "terminal" => r.line \notin Cell

\* Disposing of the line and passing none on.
LEMMA LfreeSingle ==
  ASSUME NEW s, NEW l, NEW h, Given(s, l, h), Single(h, l),
         NEW z \in {Null, Eos}
  PROVE  Single(Lfree(h, l), z) /\ LostOf(Lfree(h, l), z) \subseteq LostOf(h, l)
BY LfreeKeeps DEF Given, Single, LostOf

\* iota disposes of the line first, and makes the next from it if it fits.
LEMMA IotaKeeps ==
  ASSUME NEW s, NEW l, NEW h, Given(s, l, h), Single(h, l), s.f = "iota"
  PROVE  Keeps(s, l, h, Iota(s, l, h))
<1> DEFINE n == Int16(s.n + s.d)
           f == Lfree(h, l)
           new == Lstrdup(f, <<n>>)
           more == (s.d > 0 /\ n <= s.e) \/ (s.d < 0 /\ n >= s.e)
<1>1. s \in [f : {"iota"}, n : Int, e : Int, d : Int]
  BY DEF Given, State
<1>2. n \in Int
  BY <1>1, Int16Int
<1> HIDE DEF n
<1>3. [s EXCEPT !.n = n].f = s.f
  BY <1>1
<1>4. SoundHeap(f) /\ Used(f) \subseteq Used(h)
  BY LfreeSound DEF Given
<1>5. HasRoom(f)
  BY <1>4 DEF Given, HasRoom, Used
<1>6. Used(f) \ {f.reuse} \subseteq LostOf(h, l)
  BY LfreeKeeps DEF Given, Single, LostOf
<1>7. Single(f, Eos) /\ LostOf(f, Eos) \subseteq LostOf(h, l)
  BY LfreeSingle
<1> HIDE DEF f
<1>8. /\ Used(new.heap) \ {new.line} \subseteq Used(f) \ {f.reuse}
      /\ new.heap.reuse = Null
  <2>1. <<n>> \in Seq(Int) /\ <<n>> # <<>>
    BY <1>2
  <2> QED
    BY <1>4, <1>5, <2>1, LstrdupSound
<1>9. Single(new.heap, new.line) /\ LostOf(new.heap, new.line) \subseteq LostOf(h, l)
  BY <1>6, <1>8 DEF Single, LostOf
<1> HIDE DEF new
<1>10. Iota(s, l, h) = IF more THEN Result([s EXCEPT !.n = n], new.heap, new.line)
                               ELSE Result([s EXCEPT !.n = n], f, Eos)
  BY DEF Iota, n, f, new
<1>11. s.f # "terminal"
  OBVIOUS
<1> DEFINE t == [s EXCEPT !.n = n]
<1>12. t.f = s.f
  BY <1>3
<1> HIDE DEF t, more
<1>13. Keeps(s, l, h, Result(t, new.heap, new.line))
  BY <1>9, <1>11, <1>12 DEF Keeps, Result
<1>14. Keeps(s, l, h, Result(t, f, Eos))
  BY <1>7, <1>11, <1>12 DEF Keeps, Result
<1> QED
  BY <1>10, <1>13, <1>14 DEF t

LEMMA RunKeeps ==
  ASSUME NEW s, NEW l, NEW h, Given(s, l, h), Single(h, l), s.f \notin {"wc", "tail"}
  PROVE  Keeps(s, l, h, Run(s, l, h))
<1>1. \A z \in {Null, Eos} : Single(Lfree(h, l), z) /\ LostOf(Lfree(h, l), z) \subseteq LostOf(h, l)
  BY LfreeSingle
<1>2. CASE s.f = "iota"
  BY <1>2, IotaKeeps DEF Run
<1>3. CASE s.f = "grep"
  BY <1>1, <1>3 DEF Run, Grep, Keeps, Result
<1>4. CASE s.f = "head"
  <2>1. s \in [f : {"head"}, n : Int]
    BY <1>4 DEF Given, State
  <2>2. [s EXCEPT !.n = @ - 1].f = s.f
    BY <2>1
  <2> QED
    BY <1>1, <1>4, <2>2 DEF Run, Head_, Keeps, Result
<1>5. CASE s.f = "skip"
  <2>1. s \in [f : {"skip"}, e : Int]
    BY <1>5 DEF Given, State
  <2>2. [s EXCEPT !.e = Int16(@ + 1)].f = s.f
    BY <2>1
  <2> QED
    BY <1>1, <1>5, <2>2 DEF Run, Skip, Keeps, Result
<1>6. CASE s.f = "teeterminal"
  BY <1>6 DEF Run, Keeps, Result
<1>7. CASE s.f = "terminal"
  BY <1>1, <1>7 DEF Run, Terminal, Keeps, Result
<1> QED
  BY <1>2, <1>3, <1>4, <1>5, <1>6, <1>7 DEF Given, State

\* The trains of tidy command lines.
Frugal(t) ==
  \A i \in 1..Len(t.cmds) : /\ t.cmds[i].f \notin {"wc", "tail"}
                            /\ i = Len(t.cmds) => t.cmds[i].f = "terminal"

LEMMA FrugalParse ==
  ASSUME NEW c \in CmdLines, NEW t \in Parse(c), Tidy(c)
  PROVE  Frugal(t)
<1>1. CASE t = NoTrain
  BY <1>1 DEF Frugal, NoTrain
<1>2. CASE t # NoTrain
  <2> DEFINE cmds == [i \in 1..Len(c) |-> InitCommand(c[i])]
  <2>1. t = Couple(c) /\ c \in Seq(Command)
    BY <1>2 DEF Parse
  <2>2. t.cmds = cmds
    BY <2>1 DEF Couple, NoTrain
  <2>3. Len(cmds) = Len(c)
    BY <2>1
  <2>4. ASSUME NEW i \in 1..Len(c)
        PROVE  /\ InitCommand(c[i]).f \notin {"wc", "tail"}
               /\ i = Len(c) => InitCommand(c[i]).f = "terminal"
    <3>1. c[i] \in Command
      BY <2>1
    <3>2. /\ c[i].f # "wc" /\ (c[i].f = "tail" => InitTail(c[i]) <= 0)
          /\ i = Len(c) => c[i].f = "terminal"
      BY <2>1 DEF Tidy
    <3>3. c[i].f = "iota" => [c[i] EXCEPT !.n = Int16(@ - c[i].d)].f = "iota"
      BY <3>1 DEF Command
    <3>4. c[i].f = "tail" => ~(InitTail(c[i]) > 0)
      <4>1. c[i].f = "tail" => InitTail(c[i]) \in Int
        BY <3>1 DEF Command, InitTail
      <4> QED
        BY <3>2, <4>1
    <3> QED
      BY <3>1, <3>2, <3>3, <3>4 DEF Command, InitCommand
  <2> QED
    BY <2>2, <2>3, <2>4 DEF Frugal
<1> QED
  BY <1>1, <1>2

LEMMA ParseAtFirst ==
  ASSUME NEW c \in CmdLines, NEW t \in Parse(c), IsTrain(t)
  PROVE  t.loco \in 1..Len(t.cmds)
<1>1. TypeOKTrain(t)
  BY ParseTrain
<1>2. t.loco = 1
  BY DEF Parse, Couple, NoTrain
<1>3. t.cmds \in Seq(State) /\ t.cmds # <<>>
  BY <1>1 DEF TypeOKTrain, IsTrain
<1> QED
  BY <1>2, <1>3

LEMMA WtrainstepKeeps ==
  ASSUME NEW t, NEW h, TypeOKTrain(t), SoundHeap(h), HasRoom(h), Owned(h, t.line),
         Frugal(t), Single(h, t.line), t.loco \in 1..Len(t.cmds)
  PROVE  LET step == Wtrainstep(t, h)
         IN  /\ Frugal(step.train)
             /\ Single(step.heap, step.train.line)
             /\ LostOf(step.heap, step.train.line) \subseteq LostOf(h, t.line)
             /\ AtEnd(step.train) => step.train.line \notin Cell
<1> DEFINE step == Wtrainstep(t, h)
           s == t.cmds[t.loco]
           r == Run(s, t.line, h)
           cmds  == [t.cmds EXCEPT ![t.loco] = r.state]
           loco  == IF r.line = Null THEN t.loco - 1 ELSE t.loco + 1
           shown == IF Prints(s, t.line)
                      THEN Append(t.shown, [by |-> t.loco, text |-> h.text[t.line]])
                      ELSE t.shown
           next  == [cmds |-> cmds, loco |-> loco, line |-> r.line, shown |-> shown]
<1>1. t.cmds \in Seq(State) /\ t.line \in Cell \cup {Null, Eos}
  BY DEF TypeOKTrain
<1>2. step = [train |-> next, heap |-> r.heap]
  <2>1. ~AtEnd(t)
    BY <1>1 DEF AtEnd
  <2> QED
    BY <2>1 DEF Wtrainstep
<1>3. Given(s, t.line, h)
  BY <1>1 DEF Given
<1>4. s.f \notin {"wc", "tail"} /\ (t.loco = Len(t.cmds) => s.f = "terminal")
  BY DEF Frugal
<1>5. Keeps(s, t.line, h, r)
  BY <1>3, <1>4, RunKeeps
<1>6. r.state \in State
  BY <1>3, RunAnswers DEF Answers
<1> HIDE DEF s, r
<1>7. Len(cmds) = Len(t.cmds)
      /\ \A i \in 1..Len(t.cmds) : cmds[i] = IF i = t.loco THEN r.state ELSE t.cmds[i]
  BY <1>1, <1>6
<1> HIDE DEF cmds, shown
<1>8. \A i \in 1..Len(t.cmds) : cmds[i].f = t.cmds[i].f
  BY <1>5, <1>7 DEF Keeps, s
<1>9. Frugal(next)
  BY <1>7, <1>8 DEF Frugal
<1>10. AtEnd(next) => r.line \notin Cell
  <2>1. SUFFICES ASSUME loco \in {0, Len(t.cmds) + 1} PROVE r.line \notin Cell
    BY <1>7 DEF AtEnd
  <2>2. CASE r.line = Null
    BY <2>2
  <2>3. CASE r.line # Null
    <3>1. t.loco = Len(t.cmds)
      BY <1>1, <2>1, <2>3
    <3> QED
      BY <1>4, <1>5, <3>1 DEF Keeps
  <2> QED
    BY <2>2, <2>3
<1>11. /\ Single(r.heap, r.line)
       /\ LostOf(r.heap, r.line) \subseteq LostOf(h, t.line)
  BY <1>5 DEF Keeps
<1>12. next.line = r.line
  OBVIOUS
<1> HIDE DEF next
<1> QED
  BY <1>2, <1>9, <1>10, <1>11, <1>12

\* What tidiness means for the state, and where the locomotive is.
Thrift ==
  /\ Tidy(cmdline) => /\ Frugal(train) /\ Single(heap, train.line)
                      /\ ~running => train.line \notin Cell
  /\ running => train.loco \in 1..Len(train.cmds)

LEMMA InitThrift == Init => Thrift
<1> SUFFICES ASSUME Init PROVE Thrift
  OBVIOUS
<1>1. train = NoTrain /\ ~running
  BY Zenon DEF Init
<1>2. Frugal(NoTrain) /\ NoTrain.line = Eos
  BY DEF Frugal, NoTrain
<1> QED
  BY <1>1, <1>2 DEF Thrift, Single

LEMMA NextThrift ==
  ASSUME IInv, Thrift, [Next]_vars
  PROVE  Thrift' /\ (Tidy(cmdline) => Lost' \subseteq Lost)
<1>1. ASSUME Start PROVE Thrift' /\ (Tidy(cmdline) => Lost' \subseteq Lost)
  <2>1. PICK c \in CmdLines : cmdline' = c /\ train' \in Parse(c)
    BY <1>1 DEF Start
  <2>2. train'.line = Eos /\ heap' = heap /\ ~running /\ running' = IsTrain(train')
    BY <1>1, <2>1, ParseTrain DEF Start
  <2>3. Tidy(cmdline') => Frugal(train')
    BY <2>1, FrugalParse
  <2>4. running' => train'.loco \in 1..Len(train'.cmds)
    BY <2>1, <2>2, ParseAtFirst
  <2>5. Thrift'
    BY <2>2, <2>3, <2>4 DEF Thrift, Single
  <2>6. Tidy(cmdline) => Lost' \subseteq Lost
    BY <2>2 DEF Thrift, Lost, Used
  <2> QED
    BY <2>5, <2>6
<1>2. ASSUME Step PROVE Thrift' /\ (Tidy(cmdline) => Lost' \subseteq Lost)
  <2>1. /\ SoundHeap(heap) /\ HasRoom(heap) /\ Owned(heap, train.line) /\ TypeOKTrain(train)
        /\ train.loco \in 1..Len(train.cmds)
    BY <1>2 DEF Step, IInv, TypeOK, CacheSound, SoundHeap, Thrift
  <2>2. cmdline' = cmdline /\ running' = ~AtEnd(train')
        /\ train' = Wtrainstep(train, heap).train /\ heap' = Wtrainstep(train, heap).heap
    BY <1>2 DEF Step
  <2>3. TypeOKTrain(train')
    BY <2>1, <2>2, WtrainstepSound
  <2>4. running' => train'.loco \in 1..Len(train'.cmds)
    <3>1. running' => ~AtEnd(train')
      BY <2>2, Zenon
    <3>2. /\ train'.loco \in Nat /\ train'.loco <= Len(train'.cmds) + 1
          /\ Len(train'.cmds) \in Nat
      BY <2>3 DEF TypeOKTrain
    <3> QED
      BY <3>1, <3>2 DEF AtEnd
  <2>5. ASSUME Tidy(cmdline)
        PROVE  /\ Frugal(train') /\ Single(heap', train'.line)
               /\ LostOf(heap', train'.line) \subseteq LostOf(heap, train.line)
               /\ ~running' => train'.line \notin Cell
    BY <2>1, <2>2, <2>5, WtrainstepKeeps DEF Thrift
  <2> QED
    BY <2>2, <2>4, <2>5 DEF Thrift, Lost, LostOf
<1>3. CASE UNCHANGED vars
  BY <1>3 DEF vars, Thrift, Lost
<1> QED
  BY <1>1, <1>2, <1>3 DEF Next

\* A command line without wc and tail -n, and with a terminal at its end, loses no
\* line in any state of the heap that other command lines may have left.
THEOREM ReturnTheorem == Spec => LinesAreReturned
<1>1. IInv /\ Thrift /\ [Next]_vars => Thrift'
  BY NextThrift
<1>2. IInv /\ Thrift /\ [Next]_vars => [Tidy(cmdline) => Lost' \subseteq Lost]_vars
  BY NextThrift
<1> QED
  BY InitIInv, NextIInv, InitThrift, <1>1, <1>2, PTL DEF Spec, LinesAreReturned

-----------------------------------------------------------------------------
(* A command line that ran printed what it means.                              *)

\* What makes it inductive: whatever a command has not printed yet is in flight, or
\* still to come out of the commands before it.
Works ==
  IsTrain(train) =>
    /\ cmdline \in CmdLines /\ train \in Trains
    /\ Piped(cmdline, View(heap, train))
    /\ View(heap, train).loco = 0 => View(heap, train).line = Request
    /\ ~running => AtEnd(train)

LEMMA InitWorks == Init => Works
<1> SUFFICES ASSUME Init PROVE Works
  OBVIOUS
<1>1. train = NoTrain
  BY Zenon DEF Init
<1> QED
  BY <1>1 DEF Works, IsTrain, NoTrain

LEMMA NextWorks ==
  ASSUME \A c \in CmdLines : Plain(c), IInv, Thrift, Works, [Next]_vars
  PROVE  Works'
<1>1. ASSUME Start PROVE Works'
  <2>1. PICK c \in CmdLines : cmdline' = c /\ train' \in Parse(c)
    BY <1>1 DEF Start
  <2>2. running' = IsTrain(train')
    BY <1>1 DEF Start
  <2>3. train' \in Trains
    BY <2>1, ParseTrain DEF TypeOKTrain, Trains
  <2>4. IsTrain(train') => Piped(c, View(heap', train')) /\ View(heap', train').loco = 1
    BY <2>1, ParsePiped
  <2> QED
    BY <2>1, <2>2, <2>3, <2>4 DEF Works
<1>2. ASSUME Step PROVE Works'
  <2>1. /\ SoundHeap(heap) /\ HasRoom(heap) /\ Owned(heap, train.line) /\ TypeOKTrain(train)
        /\ train.loco \in 1..Len(train.cmds)
    BY <1>2 DEF Step, IInv, TypeOK, CacheSound, SoundHeap, Thrift
  <2>2. IsTrain(train) /\ ~AtEnd(train)
    BY <2>1 DEF IsTrain, AtEnd, TypeOKTrain
  <2>3. /\ cmdline \in CmdLines /\ cmdline \in Seq(Command) /\ Plain(cmdline)
        /\ Piped(cmdline, View(heap, train))
    BY <2>2 DEF Works
  <2>4. /\ train' = Wtrainstep(train, heap).train /\ heap' = Wtrainstep(train, heap).heap
        /\ cmdline' = cmdline /\ running' = ~AtEnd(train')
    BY <1>2 DEF Step
  <2>5. /\ Piped(cmdline, View(heap', train')) /\ train' \in Trains
        /\ View(heap', train').loco = 0 => View(heap', train').line = Request
    BY <2>1, <2>2, <2>3, <2>4, StepPiped DEF Plain
  <2> QED
    BY <2>3, <2>4, <2>5 DEF Works
<1>3. CASE UNCHANGED vars
  BY <1>3 DEF vars, Works
<1> QED
  BY <1>1, <1>2, <1>3 DEF Next

\* Every command line within the reach of the 16-bit counters, however many commands
\* it has and however long its stream is, prints what it means: each `terminal` all
\* the lines that reach it, in order, each `teeterminal` a beginning of them
\* (shell.c:1750-2030).
THEOREM UnixTheorem ==
  ASSUME \A c \in CmdLines : Plain(c)
  PROVE  Spec => []RunsLikeUnix
<1>1. IInv /\ Thrift /\ [Next]_vars => Thrift'
  BY NextThrift
<1>2. IInv /\ Thrift /\ Works /\ [Next]_vars => Works'
  BY NextWorks
<1>3. Works => RunsLikeUnix
  <2> SUFFICES ASSUME Works, ~running, IsTrain(train)
               PROVE  \A i \in Printers(cmdline) :
                        /\ IsPrefix(ShownBy(train, i), InputOf[cmdline][i])
                        /\ cmdline[i].f = "terminal" => ShownBy(train, i) = InputOf[cmdline][i]
    BY DEF RunsLikeUnix
  <2>1. /\ cmdline \in CmdLines /\ train \in Trains /\ AtEnd(View(heap, train))
        /\ Piped(cmdline, View(heap, train))
        /\ View(heap, train).loco = 0 => View(heap, train).line = Request
    BY ViewIs DEF Works
  <2>2. Complete(cmdline, View(heap, train))
    BY <2>1, EndComplete
  <2> QED
    BY <2>1, <2>2, InputIs
<1> QED
  BY InitIInv, NextIInv, InitThrift, InitWorks, <1>1, <1>2, <1>3, PTL DEF Spec
=============================================================================
