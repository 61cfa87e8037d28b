---------------------------- MODULE WindowManager ----------------------------
(***************************************************************************)
(* The window table, the keyboard focus and the scheduler of orwin.c.      *)
(*                                                                         *)
(* One C thread runs everything.  scheduler() polls the keyboard, hands a  *)
(* key to the focused window's program, then gives the next window of the  *)
(* round a turn.  A program is a C function called with its state; while   *)
(* it runs it may poll the keyboard itself (getc), and a FUNCT key found   *)
(* by ANY poll is executed on the spot, so the window table can change     *)
(* under a running program.                                                *)
(*                                                                         *)
(* Slot WinMax is one past the end of the C array wins[WIN_MAX] (slot 0 is *)
(* the menu): the code uses it, and it is kept here as one more entry.     *)
(***************************************************************************)
EXTENDS Focus

CONSTANTS Key, NoKey,   \* keys without the FUNCT bit; wkey == 0
          Double,       \* does main()'s demo open its second window (#define DOUBLE)?
          Launchable,   \* the programs the user starts
          RereadWinp    \* does `winp->ret= (*winp->fun)(..)` load winp after the call?

ASSUME ConstantAssumption ==
  /\ NoKey \notin Key
  /\ Double \in BOOLEAN
  /\ RereadWinp \in BOOLEAN
  /\ Launchable \subseteq {"ascii", "charset", "vi", "sh"}

Slot == 1..WinMax

\* One program per way of using the scheduler: "ascii" never waits (ascii,
\* atmos, clock, heap, snow, spark, zzz), "charset" waits for a key it does not
\* read, "vi" reads one and waits (charedit, echo, vi), "sh" works, ends, waits.
Program == {"ascii", "charset", "vi", "sh"}
NoProgram == "none"

\* What a program's function returns; its init call returns a new state.
Returns(p) == CASE p = "ascii" -> {"null"}
                [] p \in {"charset", "vi"} -> {"waitkey"}
                [] p = "sh" -> {"null", "eos", "waitkey"}
                [] p = "init" -> {"pointer"}

VARIABLES
  nwin, wcur, wfocus, wprev, wkey,          \* the globals of orwin.c
  wnext,   \* the turn the key loop will restore; 0 once it has been
  status, fun, state, ret,                  \* fields of wins[1..WinMax]
  pc,      \* where the C thread is
  run,     \* the window whose program was called, 0 when none is
  code,    \* the program executing ("init" when called without a state)
  path     \* who called it: the key loop or the round-robin turn

table == <<nwin, wcur, wfocus, wprev, status, fun, state, ret>>
calls == <<run, code, path>>
vars  == <<table, wkey, wnext, pc, calls>>

Open == {s \in Slot : status[s]}

TypeOK ==
  /\ nwin \in Slot /\ wcur \in 1..nwin /\ wnext \in 0..nwin
  /\ wfocus \in 1..nwin /\ wprev \in 1..nwin
  /\ wkey \in Key \cup {NoKey}
  /\ status \in [Slot -> BOOLEAN]
  /\ fun \in [Slot -> Program \cup {NoProgram}]
  /\ state \in [Slot -> Program \cup {"null", "event"}]
  /\ ret \in [Slot -> {"null", "waitkey", "eos", "pointer"}]
  /\ pc \in {"poll", "deliver", "turn", "getc", "take", "return", "crash"}
  /\ run \in 0..nwin
  /\ code \in Program \cup {NoProgram, "init"}
  /\ path \in {"key", "turn"}

\* main()'s demo, up to the loop of scheduler(): one or two ascii windows, then
\* the character set, whose window is left with the focus.
Booted == IF Double THEN 3 ELSE 2

Init ==
  /\ nwin = Booted /\ wcur = Booted /\ wfocus = Booted /\ wprev = 1 /\ wnext = 0
  /\ wkey = NoKey
  /\ status = [s \in Slot |-> s <= Booted]
  /\ fun = [s \in Slot |-> IF s < Booted THEN "ascii"
                           ELSE IF s = Booted THEN "charset" ELSE NoProgram]
  /\ state = [s \in Slot |-> IF status[s] THEN fun[s] ELSE "null"]
  /\ ret = [s \in Slot |-> "null"]
  /\ pc = "poll" /\ run = 0 /\ code = NoProgram /\ path = "turn"

-----------------------------------------------------------------------------
(* FUNCT keys: what wkbhit() does to the table, whoever polled. *)

Refocus(new) ==
  /\ wfocus' = FocusOf(nwin, Open, new)
  /\ wprev' = PrevOf(nwin, Open, wfocus, new)
  /\ UNCHANGED <<nwin, wcur, status, fun, state, ret>>

FocusNext == Refocus(wfocus + 1)
FocusPrev == Refocus(wfocus - 1)
FocusLast == Refocus(wprev)

\* FUNCT-0..9, and FUNCT-A..F whose argument is c - ('A' + 10).
FocusGoto == \E d \in (0..9) \cup (-10..-5) : Refocus(d)

\* winkill() clears the focused slot and refocuses; then wkbhit moves on again.
Kill ==
  LET left  == Open \ {wfocus}
      first == FocusOf(nwin, left, wfocus)
  IN  /\ wfocus' = FocusOf(nwin, left, first + 1)
      /\ wprev' = PrevOf(nwin, left, first, first + 1)
      /\ status' = [status EXCEPT ![wfocus] = FALSE]
      /\ fun' = [fun EXCEPT ![wfocus] = NoProgram]
      /\ state' = [state EXCEPT ![wfocus] = "null"]
      /\ ret' = [ret EXCEPT ![wfocus] = "null"]
      /\ UNCHANGED <<nwin, wcur>>

\* newwin(): the next slot becomes current; the focus is set while it is still
\* closed.  A full table changes nothing, and the callers do not look.
NewWin ==
  IF nwin = WinMax
    THEN UNCHANGED <<nwin, wcur, wfocus, wprev>>
    ELSE /\ nwin' = nwin + 1
         /\ wcur' = nwin'
         /\ wfocus' = FocusOf(nwin', Open, nwin')
         /\ wprev' = PrevOf(nwin', Open, wfocus, nwin')

\* start(p) in window s: the program is called with the state found there.  A
\* null state makes it initialise; else its return code ends up as the state.
Start(s, p) ==
  /\ status' = [status EXCEPT ![s] = TRUE]
  /\ fun' = [fun EXCEPT ![s] = p]
  /\ ret' = [ret EXCEPT ![s] = "null"]
  /\ \E r \in Returns(p) :
       state' = [state EXCEPT ![s] = IF state[s] = "null" THEN p
                                     ELSE IF r = "null" THEN "null" ELSE "event"]

\* FUNCT-T, -S, -L, -I, and the program picked in FUNCT-R.
Launch == \E p \in Launchable : NewWin /\ Start(wcur', p)

Funct == FocusNext \/ FocusPrev \/ FocusLast \/ FocusGoto \/ Kill \/ Launch

-----------------------------------------------------------------------------
(* dorun(): calling a program, and its return. *)

\* A closed slot has a null `fun`: the call jumps to address 0.
Call(s, by) ==
  IF fun[s] = NoProgram
    THEN pc' = "crash" /\ UNCHANGED calls
    ELSE /\ run' = s
         /\ path' = by
         /\ code' = IF state[s] = "null" THEN "init" ELSE fun[s]
         /\ pc' = IF code' = "vi" THEN "getc" ELSE "return"

\* The key loop forgets the key and restores the turn.
EndKeyCallKeepsKey == UNCHANGED wkey /\ wcur' = wnext
EndKeyCallLosesTurn == wkey' = NoKey /\ UNCHANGED wcur
EndKeyCall == wkey' = NoKey /\ wcur' = wnext

\* The result is stored in the slot, and control goes back to scheduler().
Return ==
  /\ pc = "return"
  /\ \E r \in Returns(code) : ret' = [ret EXCEPT ![IF RereadWinp THEN wcur ELSE run] = r]
  /\ IF path = "key" THEN EndKeyCall ELSE UNCHANGED <<wkey, wcur>>
  /\ wnext' = 0
  /\ run' = 0 /\ code' = NoProgram /\ path' = "turn" /\ pc' = "poll"
  /\ UNCHANGED <<nwin, wfocus, wprev, status, fun, state>>

(* getc() inside a program: wgetc(wcur), which does not wait. *)

HasKeyNever == FALSE
HasKey == wkey # NoKey /\ wfocus = run

GetcNoKey ==
  /\ pc = "getc" /\ ~HasKey
  /\ wkey' = NoKey /\ pc' = "return"
  /\ UNCHANGED <<table, wnext, calls>>

GetcKey ==
  /\ pc = "getc"
  /\ IF HasKey THEN UNCHANGED wkey ELSE wkey' \in Key
  /\ pc' = "take"
  /\ UNCHANGED <<table, wnext, calls>>

GetcFunct ==
  /\ pc = "getc" /\ ~HasKey
  /\ Funct
  /\ wkey' = NoKey /\ pc' = "return"
  /\ UNCHANGED <<wnext, calls>>

\* wgetc hands the key to the focused window and drops it for any other.
Take ==
  /\ pc = "take"
  /\ wkey' = NoKey /\ pc' = "return"
  /\ UNCHANGED <<table, wnext, calls>>

-----------------------------------------------------------------------------
(* scheduler(): the key loop, then one turn. *)

PollNoKey ==
  /\ pc = "poll"
  /\ pc' = "turn"
  /\ UNCHANGED <<table, wkey, wnext, calls>>

PollKey ==
  /\ pc = "poll"
  /\ wkey' \in Key /\ pc' = "deliver"
  /\ UNCHANGED <<table, wnext, calls>>

PollFunct ==
  /\ pc = "poll"
  /\ Funct
  /\ pc' = "turn"
  /\ UNCHANGED <<wkey, wnext, calls>>

Deliver ==
  /\ pc = "deliver"
  /\ wnext' = wcur /\ wcur' = wfocus
  /\ Call(wfocus, "key")
  /\ UNCHANGED <<nwin, wfocus, wprev, status, fun, state, ret, wkey>>

\* Does the program of window s get a turn?
ReadyThoughWaiting(s) == status[s]
ReadyThoughClosed(s) == ret[s] # "waitkey"
Ready(s) == status[s] /\ ret[s] # "waitkey"

Turn ==
  /\ pc = "turn"
  /\ wcur' = Before(nwin, wcur)
  /\ IF Ready(wcur')
       THEN Call(wcur', "turn")
       ELSE pc' = "poll" /\ UNCHANGED calls
  /\ UNCHANGED <<nwin, wfocus, wprev, status, fun, state, ret, wkey, wnext>>

Next == \/ PollNoKey \/ PollKey \/ PollFunct \/ Deliver \/ Turn
        \/ GetcNoKey \/ GetcKey \/ GetcFunct \/ Take \/ Return

Spec == Init /\ [][Next]_vars

\* The thread never stops, and the user does not hit a key at every single poll.
FairSpec == Spec /\ WF_vars(Next) /\ SF_vars(PollNoKey)
-----------------------------------------------------------------------------
(* What holds. *)

\* status, fun and state of a slot agree: newwin, startline and winkill keep
\* them together through any mix of launches and kills, and a program is handed
\* only a state that its own init call made.  Only a full table breaks the last
\* part: newwin() fails, and startline() reuses the state of a live window.
SlotsConsistent ==
  \A s \in Slot :
    /\ status[s] <=> fun[s] # NoProgram
    /\ ~status[s] => state[s] = "null"
    /\ s > nwin => ~status[s]
    /\ status[s] /\ nwin < WinMax => state[s] = fun[s]

\* A program called with a key is in the focused, open window until it returns:
\* its getc() takes the key without polling, so no FUNCT key runs beneath it.
KeyCallIsUndisturbed == run # 0 /\ path = "key" => run = wfocus /\ run \in Open

\* The key loop and the turn start with no key in hand, and so does the program
\* that gets the turn: no key is delivered twice, or to a program in its turn.
NoStaleKey ==
  pc \in {"poll", "turn"} \/ (path = "turn" /\ pc \in {"getc", "return"}) => wkey = NoKey

\* The scheduler delivers only real keys, and a program called with a key still
\* finds it when it calls getc(), however the call came about; the turn to be
\* restored afterwards is a window's.
KeyCallFindsKey ==
  /\ run # 0 <=> pc \in {"getc", "take", "return"}
  /\ run # 0 => code # NoProgram
  /\ pc = "deliver" => wkey # NoKey
  /\ run # 0 /\ path = "key" => wnext # 0 /\ (pc = "getc" => HasKey)

\* A call with a key is served: until it returns its program is in the focused, open
\* window, no FUNCT key runs beneath it, and the key is still there for its getc().
KeyCallIsServed == KeyCallIsUndisturbed /\ KeyCallFindsKey

\* The inductive invariant of the proofs.
IInv == TypeOK /\ SlotsConsistent /\ KeyCallIsUndisturbed /\ NoStaleKey /\ KeyCallFindsKey

\* Between a key and its delivery nothing moves the focus, and a waiting program
\* is called only in the focused window and with a key in hand; a program that
\* does not wait is called only in an open window.
CallsAreWanted ==
  [][run = 0 /\ run' # 0 =>
       /\ status[run']
       /\ ret[run'] = "waitkey" => run' = wfocus /\ wkey # NoKey]_vars

\* The focus leaves the open windows only when the last of them is killed.
FocusStaysOpen == [][(wfocus \in Open) => (wfocus' \in Open' \/ Open' = {})]_vars

\* As long as some window is open, the focus is on an open one and no key is
\* delivered to a closed slot, whose program is a null pointer.
NoCrashWhileOpen == [](Open # {}) => [](wfocus \in Open /\ pc # "crash")

\* Round robin with interruptions: whatever the keys do, no open window stays ready
\* for its turn for ever without getting it (unless the scheduler has crashed), and
\* none is taken to wait for a key but after a call of its own program.
BusyWindowsRun ==
  /\ \A s \in Slot : []<>(run = s \/ ~status[s] \/ ret[s] = "waitkey" \/ pc = "crash")
  /\ [][\A s \in Slot : ret'[s] = "waitkey" => ret[s] = "waitkey" \/ run = s]_vars

\* The walk of setfocus ends where FocusOf and PrevOf say, on every table that comes
\* up and for every key (an argument beyond 0..WinMax + 1 wraps like the nearest of
\* them): the hang guard never cuts short a walk that an open window would have ended.
\* Every table that a FUNCT key leaves is seen at a later poll.
WalkEndsAtFirstOpen ==
  pc = "poll" => \A new \in 0..(WinMax + 1) :
    Walk(nwin, Open, wfocus, new) =
    [wfocus |-> FocusOf(nwin, Open, new), wprev |-> PrevOf(nwin, Open, wfocus, new)]

-----------------------------------------------------------------------------
(* What the documents say, and the code does not do. *)

\* README: "A process/task is a window (limited to 16)"; wins[] has WIN_MAX entries,
\* the menu's included.
TableFits == nwin < WinMax

-----------------------------------------------------------------------------
\* The desktop the user sees: which windows are open, which one types, which
\* program executes.
Desk == INSTANCE Desktop WITH
  open  <- Open,
  focus <- IF wfocus \in Open THEN wfocus ELSE 0,
  busy  <- IF pc = "crash" THEN -1 ELSE run

ImplementsDesktop == Desk!Spec
=============================================================================
