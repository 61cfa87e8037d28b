-------------------------------- MODULE Train --------------------------------
(***************************************************************************)
(* The shell's pipeline, shell.c: a train of commands, one line in flight, *)
(* and a locomotive that goes forward with a line and back without one.    *)
(*                                                                         *)
(* Lines are sequences of numbers, the words of the text: iota makes them, *)
(* wc reports three.  The commands that read files, variables or windows   *)
(* (ls, ps, set, print, varlist, stats, editline, pwd) are left out.       *)
(***************************************************************************)
EXTENDS LineCache

CONSTANT CmdLines   \* the command lines that are run

Command ==
  [f : {"iota"}, n : Int, e : Int, d : Int] \cup [f : {"grep"}, digit : 0..9]
    \cup [f : {"head"}, arg : Int] \cup [f : {"tail"}, arg : Int, plus : BOOLEAN]
    \cup [f : {"wc", "cat", "teeterminal", "terminal"}]

ASSUME CmdLineAssumption == CmdLines \subseteq Seq(Command) \ {<<>>}

\* 16-bit int
Int16(n) == ((n + 32768) % 65536) - 32768

\* What a command keeps from call to call: its APP struct.
State ==
  [f : {"iota"}, n : Int, e : Int, d : Int] \cup [f : {"grep"}, digit : 0..9]
    \cup [f : {"head"}, n : Int] \cup [f : {"tail"}] \cup [f : {"skip"}, e : Int]
    \cup [f : {"wc"}, ln : Int, wn : Int, cn : Int] \cup [f : {"teeterminal", "terminal"}]

\* A command as typed: iota with nextInt's n, e and d; grep with the digit it
\* looks for; head and tail with the number, its sign included, tail with a plus or
\* without.  Its init leaves the state; "cat" always fails (the `haha` return).
InitTail(c) == IF c.plus THEN -10 ELSE -c.arg
InitCommand(c) ==
  CASE c.f = "iota" -> [c EXCEPT !.n = Int16(@ - c.d)]
    [] c.f = "head" -> [f |-> "head", n |-> -c.arg]
    [] c.f = "tail" -> IF InitTail(c) > 0 THEN [f |-> "tail"]
                                          ELSE [f |-> "skip", e |-> InitTail(c)]
    [] c.f = "wc"   -> [f |-> "wc", ln |-> 0, wn |-> 0, cn |-> 0]
    [] OTHER -> c
Fails(c) == c.f = "cat"

\* A train: the states of its commands, the locomotive (0 and Len + 1 are the
\* NULLs at the ends), the line in flight, and what was printed, by whom.
NoTrain == [cmds |-> <<>>, loco |-> 1, line |-> Eos, shown |-> <<>>]
Couple(cmdline) == [NoTrain EXCEPT !.cmds = [i \in 1..Len(cmdline) |-> InitCommand(cmdline[i])]]

\* wsysparse(): every init must succeed.  If the last command has no argument, the
\* bytes after the end of the string are taken for one, and for more commands if
\* they hold a '|': what they are is undefined, and one that is no command fails.
NoArgument(c) == c.f \in {"wc", "teeterminal", "terminal"}
Parse(cmdline) ==
  IF \E i \in 1..Len(cmdline) : Fails(cmdline[i]) THEN {NoTrain}
  ELSE {Couple(cmdline)} \cup {t \in {NoTrain} : NoArgument(Last(cmdline))}

TypeOKTrain(t) ==
  /\ t \in [cmds : Seq(State), loco : Nat, line : Cell \cup {Null, Eos},
            shown : Seq([by : Nat, text : Seq(Int)])]
  /\ t.loco <= Len(t.cmds) + 1

IsTrain(t) == t.cmds # <<>>
AtEnd(t) == t.loco \in {0, Len(t.cmds) + 1}

-----------------------------------------------------------------------------
(* The run method of each command: its new state, the heap, and the line it   *)
(* passes on, Null to go back.                                                *)

Result(s, h, l) == [state |-> s, heap |-> h, line |-> l]

Iota(s, l, h) ==
  LET n    == Int16(s.n + s.d)
      more == (s.d > 0 /\ n <= s.e) \/ (s.d < 0 /\ n >= s.e)
      new  == Lstrdup(Lfree(h, l), <<n>>)
  IN  IF more THEN Result([s EXCEPT !.n = n], new.heap, new.line)
              ELSE Result([s EXCEPT !.n = n], Lfree(h, l), Eos)

\* strstr() of a digit in a printed line.
Shows(n, digit) ==
  \E i \in 0..4 : LET m == IF n < 0 THEN -n ELSE n
                  IN  (i = 0 \/ 10^i <= m) /\ (m \div 10^i) % 10 = digit
Matches(t, digit) == \E n \in ToSet(t) : Shows(n, digit)

GrepForgets(s, l, h) ==
  IF l \in Cell /\ ~Matches(h.text[l], s.digit) THEN Result(s, h, Null)
                                                ELSE Result(s, h, l)
Grep(s, l, h) ==
  IF l \in Cell /\ ~Matches(h.text[l], s.digit)
    THEN Result(s, Lfree(h, l), Null)
    ELSE Result(s, h, l)

\* `if (app->n-- > 0) return zline;` else the consumer is cut off.
HeadOneMore(s, l, h) ==
  IF l \notin Cell THEN Result(s, h, l)
  ELSE IF s.n >= 0 THEN Result([s EXCEPT !.n = @ - 1], h, l)
  ELSE Result([s EXCEPT !.n = @ - 1], Lfree(h, l), Eos)
Head_(s, l, h) ==
  IF l \notin Cell THEN Result(s, h, l)
  ELSE IF s.n > 0 THEN Result([s EXCEPT !.n = @ - 1], h, l)
  ELSE Result([s EXCEPT !.n = @ - 1], Lfree(h, l), Eos)

\* The ring buffer is never filled: the line is neither kept nor freed.
Tail_(s, l, h) == Result(s, h, IF l \in Cell THEN Null ELSE Eos)

\* The end of the stream is skipped like a line, until enough were skipped.
Skip(s, l, h) ==
  IF s.e >= 0 THEN Result([s EXCEPT !.e = Int16(@ + 1)], h, l)
              ELSE Result([s EXCEPT !.e = Int16(@ + 1)], Lfree(h, l), Null)

\* Swallows lines, answers the end of the stream with one line of its own, and
\* ends the stream when that is used up.
Wc(s, l, h) ==
  IF l \in Cell
    THEN Result([f |-> "wc", ln |-> s.ln + 1, wn |-> s.wn + Len(h.text[l]),
                             cn |-> s.cn + Chars(h.text[l])],
                Lfree(h, l), Null)
  ELSE IF l = Null THEN Result(s, h, Eos)
  ELSE LET new == Malloc(h, <<s.ln, s.wn, s.cn>>, 24)
       IN  Result(s, new.heap, new.line)

Terminal(s, l, h) == Result(s, Lfree(h, l), IF l = Eos THEN Eos ELSE Null)

Run(s, l, h) ==
  CASE s.f = "iota" -> Iota(s, l, h)
    [] s.f = "grep" -> Grep(s, l, h)
    [] s.f = "head" -> Head_(s, l, h)
    [] s.f = "tail" -> Tail_(s, l, h)
    [] s.f = "skip" -> Skip(s, l, h)
    [] s.f = "wc"   -> Wc(s, l, h)
    [] s.f = "teeterminal" -> Result(s, h, l)
    [] s.f = "terminal"    -> Terminal(s, l, h)

Prints(s, l) == s.f \in {"terminal", "teeterminal"} /\ l \in Cell

\* wtrainstep(): the command under the locomotive runs.
Wtrainstep(t, h) ==
  IF AtEnd(t) THEN [train |-> [t EXCEPT !.line = Eos], heap |-> h]
  ELSE LET s == t.cmds[t.loco]
           r == Run(s, t.line, h)
       IN  [train |-> [cmds  |-> [t.cmds EXCEPT ![t.loco] = r.state],
                       loco  |-> IF r.line = Null THEN t.loco - 1 ELSE t.loco + 1,
                       line  |-> r.line,
                       shown |-> IF Prints(s, t.line)
                                   THEN Append(t.shown, [by |-> t.loco, text |-> h.text[t.line]])
                                   ELSE t.shown],
            heap |-> r.heap]

-----------------------------------------------------------------------------
(* What a command line means: the lines that flow out of each command.        *)

Counted(c) ==
  LET size == IF c.d > 0 /\ c.n <= c.e THEN (c.e - c.n) \div c.d + 1
              ELSE IF c.d < 0 /\ c.n >= c.e THEN (c.n - c.e) \div (-c.d) + 1 ELSE 0
  IN  [i \in 1..size |-> <<c.n + (i - 1) * c.d>>]
Selected(lines, digit) ==
  LET first[n \in 0..Len(lines)] ==
        IF n = 0 THEN <<>>
        ELSE IF Matches(lines[n], digit) THEN Append(first[n - 1], lines[n]) ELSE first[n - 1]
  IN  first[Len(lines)]
\* Lines, words and characters.
Totals(lines) ==
  LET Add(sum, t) == <<sum[1] + 1, sum[2] + Len(t), sum[3] + Chars(t)>>
      first[n \in 0..Len(lines)] ==
        IF n = 0 THEN <<0, 0, 0>> ELSE Add(first[n - 1], lines[n])
  IN  first[Len(lines)]
FirstN(lines, n) == SubSeq(lines, 1, Min({n, Len(lines)}))
DropN(lines, n)  == SubSeq(lines, n + 1, Len(lines))

\* "+3 means skip 3 lines, -3 means last 3"; `tail 3` skips too.
Meaning(c, lines) ==
  CASE c.f = "iota" -> Counted(c)
    [] c.f = "grep" -> Selected(lines, c.digit)
    [] c.f = "head" -> FirstN(lines, Max({0, -c.arg}))
    [] c.f = "tail" -> IF c.arg < 0 THEN DropN(lines, Max({0, Len(lines) + c.arg}))
                                    ELSE DropN(lines, c.arg)
    [] c.f = "wc" -> <<Totals(lines)>>
    [] c.f = "terminal" -> <<>>
    [] OTHER -> lines

\* Flow(cmdline)[i]: what comes out of the first i commands.
Flow(cmdline) ==
  LET out[i \in 0..Len(cmdline)] == IF i = 0 THEN <<>> ELSE Meaning(cmdline[i], out[i - 1])
  IN  out

\* The command lines that this says something about.  `tail +n` skips ten lines, and
\* `tail -n` swallows all.  A tail takes an end for a line: before any iota or wc it
\* stops the locomotive, which then never reaches the sources behind the tail.  And
\* the 16-bit counters of iota and tail go on at every call, once for each line asked
\* for and once more for each end of the stream that a tail took for a line.
Source(c) == c.f \in {"iota", "wc"}
MinInt == -32768
MaxInt == 32767
Fits(n) == n \in MinInt..MaxInt
Owes(s) == IF s.f = "skip" /\ s.e < 0 THEN -s.e ELSE 0
Owed(cmds) ==
  LET sum[i \in 0..Len(cmds)] == IF i = 0 THEN 0 ELSE sum[i - 1] + Owes(cmds[i])
  IN  sum[Len(cmds)]
Skips(cmdline) == Owed(Couple(cmdline).cmds)
Starts(cmdline) ==
  \A i, j \in DOMAIN cmdline :
    cmdline[i].f = "tail" /\ i < j /\ Source(cmdline[j]) => \E k \in 1..i - 1 : Source(cmdline[k])
Plain(cmdline) ==
  /\ Starts(cmdline)
  /\ \A i \in DOMAIN cmdline :
       LET c == cmdline[i]
       IN  /\ c.f = "iota" => \A m \in 0..Len(Counted(c)) + Skips(cmdline) + 1 : Fits(c.n + (m - 1) * c.d)
           /\ c.f = "tail" => /\ c.arg >= 0 /\ (c.plus => c.arg = 10)
                              /\ Fits(-c.arg)
                              /\ Fits(2 * (Len(Flow(cmdline)[i - 1]) + Skips(cmdline) + 1) - c.arg)

\* What command i of a train is given, by command line.
InputOf == [c \in CmdLines |-> [i \in 1..Len(c) |-> Flow(c)[i - 1]]]

\* What the commands of a train print, and the lines they printed so far.
Printers(cmdline) == {i \in 1..Len(cmdline) : cmdline[i].f \in {"terminal", "teeterminal"}}
PrintedBy(shown, i) ==
  LET own[n \in 0..Len(shown)] ==
        IF n = 0 THEN <<>>
        ELSE IF shown[n].by = i THEN Append(own[n - 1], shown[n].text) ELSE own[n - 1]
  IN  own[Len(shown)]
ShownBy(t, i) == PrintedBy(t.shown, i)
=============================================================================
