# OrWin-ATMOS: verification project

OrWin-ATMOS is a window system, shell and compiler for the 6502 (Oric Atmos): up
to 15 programs in windows, run cooperatively by one C thread; "Unix" pipelines
inside a window; a file system format and a word index; and a grammar-driven
compiler for a virtual machine. This directory models the parts of it whose
state is hard to test, checks the models with TLC, and proves with TLAPS what
TLC can only show for small instances, about the window manager, the screen, the
pipelines, the shell windows, the arena, the write buffer and the index.

Line numbers refer to the files of the repository, e.g. `orwin.c:693`.

## 1. The system

| Component | Code | State | Operations | Modules |
|---|---|---|---|---|
| Window table, focus, scheduler, keyboard | `orwin.c` 257-265, 693-737, 770-793, 888-968, 1170-1254 | `wins[]` (`status`, `fun`, `state`, `ret`), `nwin`, `wcur`, `wfocus`, `wprev`, `wkey`, the saved turn `wnext` | `setfocus`, `newwin`, `winkill`, `startline`, `scheduler`, `dorun`, `wkbhit`, `wgetc` | Focus, WindowManager, Desktop |
| Geometry and the terminal in a window | `orwin.c` 400-640, 795-875, 1107-1151, `oric.c` | cursor `r`, `c`, `p`; the rectangle; the screen itself | `wputc`, `wputz`, `nl`, `wgotoxy`, `window`, `overlap`, `mowin`, `winkill` | Terminal, Screen |
| Pipelines | `shell.c` 1-378, 797-945, 1178-1280, 1642-2030 | a train of command states, the locomotive, the line in flight | `wsysparse`, `wtrainstep`, `wrunsystrain`, `wsystem`, the commands | Train, Wsystem |
| Line reuse | `shell.c` 271-317 | `reuse`, `relen`, the heap | `lfree`, `lstrdup` | LineCache |
| Shell windows | `app_sh.c` | `APP` (train, loco, line, origcmd) per window | `app_sh`, `run` | AppSh, LoneTrain, LoneShells |
| Growing arrays | `darr.c`, `darena.c` | blocks, chains, directories, the table of starters | `dptr`, `daptr`, `dapush`, `dfree`, `dafree` | StableArray, Darr, Darena |
| OAFS | `oafs.c` | sorted write buffer, page of 256 bytes | `FSinsert`, `insertlines`, `packpage`, `parsepage`, `parseentry` | Oafs |
| Numbers as bytes | `oaq.c` | - | `OAQ`, `QAO`, `LOAQ` | Oaq, OaqKeys |
| Word index and search | `indexer.c`, `search.c` | bit set, its folded size, the word under way | `index_string`, `fold_index`, `append_index`, `test_bit`, the query | Bitset, Index |
| Compiler | `parse.c`, `ivm-gen.c`, `c.bnf` | stack of frames, byte code, constants, symbols | `step`, the matchers, the productions, `build_blob` | ParseEngine, Gen, CGrammar |
| Virtual machine | `ivm.c` | one memory of slots, the soft heap, `pc`, `fp`, `acc` | `Nevm`, `interpret` | Ivm |
| Everything else | see section 6 | | | - |

How they interact. `main` boots two or three windows and enters `scheduler()`.
The scheduler polls the keyboard (`wkbhit`); FUNCT keys are executed by the poll
itself and change the window table, whoever polled: the scheduler, or a program
calling `getc` in the middle of its turn. A plain key is delivered to the program
of the focused window; then one window of the round robin is called, unless it
answered `WAITKEY` the last time. A program is a C function that must return for
anything else to happen. A shell window is such a program: each call moves its
train a few steps and returns. All shells share one heap, one cached line and the
globals `zline`, `zptr` and `zapp`. What a window looks like is kept nowhere but on
the screen: `window()` and `mowin()` read it back to find out what is free. OAFS
writes numbers with `LOAQ`. The parser drives the generator, whose image the
virtual machine loads.

What is hard, and what correctness means:

* *Window manager.* The table changes under a running program; one global holds
  the key for everybody; `setfocus` walks over closed slots. Correct: the keyboard
  belongs to an open window as long as there is one; a key is delivered once, to
  the window that had the focus; only programs that want to run are called, and
  every one that wants to is called in the end.
* *Screen.* Cursor arithmetic in chars, a fast path that must agree with the slow
  one, and placement by what the screen shows. Correct: a cursor inside its window
  prints inside it; a new window is placed clear of the others, and each shows its
  own text.
* *Pipelines.* Lines go forward, requests go back, and the end of a stream meets
  commands in states their authors did not list. Correct: a command line prints
  what its commands mean; it ends; lines are not lost, reused too early, or
  copied into blocks too small for them; shells do not see each other.
* *Arrays.* Callers keep raw pointers while the structure reorganises itself.
  Correct: an element never moves and shares its bytes with no other.
* *OAFS.* Offsets of 8 bits, keys compressed by their predecessor, keys freed while
  they are still compared with. Correct: what was inserted can be read from the
  pages, once. Its numbers compare as their bytes do.
* *Index.* The bit set is halved until it is dense, and asked by masking. Correct:
  what was marked is found, at every size.
* *Compiler.* Code is emitted while an alternative is still being tried, and rolled
  back; constants grow down towards the variables' slots; addresses are packed
  and renumbered. Correct: a program prints what C says it prints, and what is no
  program is not run.

## 2. The models

### Focus, WindowManager, Desktop

`Focus` gives `setfocus` (`orwin.c:693`) twice: as the walk of the C loop with its
hang guard (`Walk`), and by where it lands (`FocusOf`, `PrevOf`). The window
manager uses the second; `WalkEndsAtFirstOpen` compares the two on every table
that comes up, and `WalkIsFocusOf` proves them equal on all.

State of `WindowManager`: the C globals and the four fields of `wins[]` that
control flow depends on, and `pc`, `run`, `code`, `path`: where the only thread
is, whose program it executes, and who called it.

| Action | Code |
|---|---|
| `PollNoKey`, `PollKey`, `PollFunct` | `wkbhit()` from `scheduler` |
| `Deliver` | the key loop of `scheduler`, up to the call in `dorun` |
| `Turn` | the round-robin part of `scheduler` |
| `GetcNoKey`, `GetcKey`, `GetcFunct`, `Take` | `wgetc()` from a program |
| `Return` | the end of `dorun`, and of the key loop if it called |
| `Funct` (`FocusNext` .. `Kill`, `Launch`) | the FUNCT keys of `wkbhit` |

Abstractions: programs are grouped by how they use the scheduler (never wait /
wait without reading / read and wait / the shell); drawing is left to `Screen`;
memory does not run out; `wnext` is forgotten (0) once it has been restored, where
the code leaves a dead value; a `getc` reached from `startline`'s call in a full
table is taken to find no key. Slot `WinMax` is one past the end of the C array.
The code uses it; the model keeps it as an ordinary entry so that what follows can
be studied, and `table_fits` shows that it is reached. Undefined behaviour:
`winp->ret= (*winp->fun)(..)` may load `winp` before or after the call; the
constant `RereadWinp` is the compiler's choice. The proofs cover both.

`Desktop` is the abstract desktop: open windows, the focus, the program executing.
The focus leaves the open windows only when the last is closed; only programs of
open windows run; only typing into nothing crashes. `ImplementsDesktop` maps the
slots onto it; the mapping is checked and proved.

### Terminal, Screen

`Terminal` has one operator per control character of `wputc`, with `wputz`'s
shortcut next to it; characters that do the same are one. A terminal is its row
and column (chars), the address it writes to next, and the cells it wrote; whether
text was drawn last (`lastcolor`) is one variable for all windows, as in the code. `Screen`
has the windows as rectangles on one map of cells, each holding the number of the
window that wrote it: `overlap()` asks that map whether a cell is gray, `mowin()`
moves a rectangle of it, `winkill()` grays one. Windows are opened as `apprun` does,
without coordinates; only `main`'s first one has fixed ones.
Two history variables: `spoiled` says that a program has printed outside its window,
and nothing is followed further then; `crowded`, that a move's frame or the area a kill
erases has reached the header or the text of another window (`Takes`). Opening a window
never sets it: that `overlap()` keeps new windows off the others' text is what
`TextIntact` asks.

### LineCache, Train, LoneTrain, Wsystem, AppSh, LoneShells

`LineCache` is the heap of lines with `lfree` and `lstrdup`. A block remembers
how much it was allocated for, so that a copy that does not fit is visible.
`Train` has one operator per command, each the whole body of the C function:
new command state, new heap, and the line passed on (`Null` to go back).
`Wtrainstep` runs the command under the locomotive. Lines are sequences of
numbers, which is what `iota` and `wc` produce; `strlen` is computed from them, as
it decides whether a block is reused. The parser is modelled by what it accepts
and leaves (`InitCommand`, with `nextInt`'s reading of the sign, `Parse`), and
its step past the end of the string, when the last command has no argument, by
the nondeterministic failure of the parse. What would follow if the bytes there
spell a further valid command is left out.

`Flow` says what a command line *means*, independently of trains: the list of
lines that leaves each command. `Plain` says of which command lines that is meant: it
leaves out what section 3 lists as disagreements. `Wsystem` runs command lines one after the other
to the end of the rails (`wrunsystrain`). `AppSh` runs one train per window, with
keys that rerun the command and `winkill` at any point between calls. `app_sh` makes
one to ten steps a call, until the line is EOS or KEEPRUNNING, a bit of the running
timer, ends it. The action is a call of one step: nothing in a longer call looks at
how many there were, so it is a sequence of calls of one step, and every state between
them is one the timer could have stopped in. `LoneTrain` is a train as it can be seen
from outside: each command a function from a text to a text, and in flight the text itself,
with no heap and no cache. `LoneShells` is what the shell windows promise: a
`LoneTrain` each, and nothing in common. `ImplementsLoneShells`
maps the train of each window onto it by looking up what its line says; the mapping is
checked and proved.
Allocation never fails in these modules: a
step needs a free block (`HasRoom`).

### StableArray, Darr, Darena

`StableArray` is what both C modules promise: an index gets a place when it is
first asked for and keeps it, and no other index gets it. `Darr` follows the
recursion of `dptr` into directories of directories; `Darena` follows `daptr`
with its current block, the doubling and joining of the table and the walk along
the chain, `local` being unsigned. `calloc` fails when the blocks are used up, with
the structure left as the code leaves it. `Dfree` and `Dafree` end the array, `freed`
records it. For `Darr`, `FreedOnce` says exactly which blocks are lost by that; for
`Darena`, that none is freed twice, and none lost while the table was never doubled.

### Oafs, Oaq, OaqKeys

`Oafs` reads a file of lines into the sorted buffer and packs the buffer into
pages, one entry per action: header, entry, an empty key passed over, the end of
a page. Offsets wrap at `PageSize` as chars do at 256. Freed keys are recorded in
order. `memcmp` is the library's: it answers the difference of the bytes, and the
code keeps that in a signed char; keys are ASCII. Pages are read twice, both times along
the offsets that one entry gives of the next (`Chain`). `EntryAt` is the comment "ENTRY
LAYOUT" (396-415): key, timestamp and data, given where `<dataoffset>` is. What
`packpage` writes there is one less (582), so that `Layout` adds one (`Dataoffset`).
`ParseEntryKey` and `ParseEntryData` take the byte as it is, as `parseentry` does, and
`ParsePage` and `ParsedData` go along with `parsepage`; what comes of the one byte is
said by `PagesHold` and in section 3. `full` is a history variable: the
page was filled to its last byte, so that the offset is 0 again. The printed statistics are
left out.

`Oaq` has the encodings as operators on words and on longs (four bytes, since TLC's
numbers have 32 bits with a sign); `LOAQ` answers a set, as the negation of the least
long overflows. `OaqKeys` writes two keys of several numbers with them and reads
the first back. `MCOafs` runs either module.

### Bitset, Index

`Bitset` marks hashes, folds, and answers; the hashes are arbitrary. `Index` walks
over a text as `index_string` does, with the three hashes computed as in the code
(fewer bits), and over a query as `search.c` does; `UsesBitset` says that it does
nothing to the bits that `Bitset` does not allow. One index per file; the scores of
fragments and the display are left out.

### Gen, ParseEngine, CGrammar, Ivm, ParseRun, CompileRun, CPrograms

`ParseEngine` is `parse.c`'s matcher: a stack of frames, each with the alternative
being tried and everything it restores when that fails (`Mark`, `Rewind`), one
action per kind of item. Sources are sequences of tokens; white space is not seen.
The generator is one record (`Gen`), so that what a rollback restores, and what it
does not, is explicit. `CGrammar` is the whole of `c.bnf` but for the rules `W` and
`J` (lines 181, 182), which nothing refers to; families of productions that differ in
an operator or a bound are written once with a parameter. `Ivm` loads the image and
executes the op-codes that the grammar emits, with `CHKP`'s checks.

`ParseRun` compares the engine with what a parsing expression grammar means
(`Match`, `Choice`), on grammars
without names, numbers and texts. `CompileRun` composes the three: source to output.
`CPrograms` has programs as trees, their tokens, and `Meaning`: what C says they
print. They, and some two hundred more of the same shapes, were also compiled and run with
the repository's own `parse.c`, and print exactly that.

## 3. The runs

### Passing

| Run | Shows | Bounds |
|---|---|---|
| `window_manager` | types; a key is delivered once, to the focused program, which finds it; only programs that want a call are called; the focus stays on an open window; every window that does not wait gets its turn; the walk of `setfocus` ends where the model says; refinement of `Desktop` | 4 slots, one key, a program that polls: two windows to switch between, one to kill, a full table |
| `screen` | a cursor in its window prints in it; it leaves in three ways only; the fast path agrees with the slow one; a new window is placed clear of the others' text and each shows its own, until a move or a kill takes cells of another | 17 by 11 cells, 3 windows of which one prints, one move: a place must be looked for, the screen fills up, a kill makes room again, and a moved window stands where another was |
| `wsystem` | pipelines print what they mean and end; the cache overruns no block; no line is lost but by the commands that `Tidy` excludes | all pairs of 16 command lines over 1- to 3-digit numbers: texts of different length are what the cache tells apart |
| `shells` | refinement of `LoneShells`: two shells on one heap are two shells alone; lines have one owner, streams that are done are complete, every train ends | 2 command lines in 2 windows, the same or different ones, 3 trains: one shell rerun or started again beside another, with lines of one to three characters in the one cache |
| `darena` | filled in order, elements never move or overlap, NULL only when memory is full; ending it frees no block twice | 4 entries of 2 elements, 3 doublings and the end of memory |
| `darr` | in any order, places are permanent and distinct; what ending it frees | 4 accesses around every boundary of three directory levels |
| `index` | what was marked is found at every size, no quoted phrase is missed, the indexer is a `Bitset` | 32 bytes folded down to 2, hashes of 8 bits, all texts of five characters of a small alphabet and some longer |
| `oafs` | pages say what was packed, by the layout from the corrected offset; `parsepage` reads the keys of pages without data, and data with the timestamp in front; all in order, nothing twice or lost; keys freed once and not while compared with; every flush ends; words read back; encoded keys sort as their numbers | pages of 16 bytes (two or three entries fill one; some end on its last byte, and on the last but one), a buffer of 3, files of 4 lines: flushes in the middle, at the end and of part of the buffer. Every 16-bit word with its successor; all keys of two out of ten words, of two out of fifteen longs, chosen around the changes of form |
| `compile` | each program prints what it says and soon ends, what is no program is rejected, only op-codes are executed, slots of visible names differ | 155 programs of 1 to 10 statements, and ten texts that are none, with each production that means what C means; 6000 steps, more than any of them needs; one nested choice for every operator and every form of loop: what it is nested in makes no difference to the code |
| `parse` | accepted exactly if the grammar's expression matches, with the code of the path that matched; frames nest; every source is judged | every source of up to 5 tokens under 5 grammars (tail calls, common starts, nesting, commits, nesting deeper than the stack of 6) |

Some definitions have a variant in front of them that differs as a plausible bug
would (`EndKeyCallKeepsKey`, `LfreeWithNul`, `WalkTooFar`, ..). No behaviour uses
it; PROJECT.json says which property fails when it takes the definition's place.

`CHECK_DEADLOCK FALSE` is given where the system really stops: a crash ends the
window manager; pipelines, shells, arrays, files, queries and moves end when the
bound on them is reached. `compile` and `parse` check deadlock: an ended program
stutters on purpose, any other state must have a step.

### Fairness

* `FairSpec` of WindowManager: `WF(Next)`, the thread never stops, and
  `SF(PollNoKey)`, infinitely many polls find no key. The repository's README
  (346-351) says that a user who types fast enough monopolises the machine, so
  without the second nothing is promised to the other windows.
* Wsystem, ParseRun and the flush of Oafs: weak fairness of the loop's own step; one
  thread.
* AppSh: weak fairness of each window's calls, which is what `BusyWindowsRun`
  shows the scheduler gives a window that returned 0. It is written out (`Called`
  says when a call is enabled), which spares TLC computing every step twice.

`BusyWindowsRun` holds for a build whose `dorun` does not reload `winp` after the
call. With `RereadWinp = TRUE` and four slots it fails: a program that polls may
launch another from its `getc`, and its own WAITKEY is then stored into the slot of
the new window (`orwin.c:773`), which is taken to wait for a key it never asked for.
The safety properties and the refinement hold for both.

### Violations: where the code and its documentation disagree

| Run | Finding |
|---|---|
| `table_fits` | `newwin` hands out slot `WIN_MAX` of an array of `WIN_MAX` |
| `lost_inits` | initialisers of globals are emitted with the first op-code of `main`, into the alternative that is being tried for its first statement; if that is given up, they are dropped with it and not emitted again. They survive where the first alternative that emits anything matches |

PROJECT.json quotes the lines. The models show more, which has no run of its own;
the passing runs leave these cases out, or their properties name them.

Windows:

* A key typed after the last window was killed calls the null program of a closed
  slot; `orwin.c:1242` expects an idle loop (`Deliver`, `Call`).
* `setfocus` sets `wprev` once per slot it skips, so that FUNCT-ESC goes to a closed
  slot's neighbour (`PrevOf`); FUNCT-P next to a closed slot bounces back
  (`FocusPrev`); FUNCT-K moves on twice (`Kill`).
* A key typed while an unfocused program polls is dropped (`GetcKey`, `Take`).
* FUNCT-K under a program that polls frees the state that program is still using.
* "No Overlapping terminals" (README:41, 393): `winkill` grays one row more than the
  window had, and `mowin` takes along cells of its neighbours; after that a new window
  is placed over another. Without `~crowded`, `TextIntact` is violated. `overlap()`
  (`orwin.c:796`, "requires all gray") does not look at the row below the new window,
  where its shadow is drawn: over the header of a window that is there, never over text.
* `mowin` leaves the pointer of the program where the window was; KEYUP in row 0
  makes the row 255; `wgotoxy` allows row `h`. All last until the next newline. An
  ESC and the codes 25 to 27 advance the column and not the pointer; `wputz` draws DEL
  and does not clear the line it wraps to (README:173); CTRL-X clears the other half of
  the line than `orwin.h` says. A window without a place keeps width 0 and a null
  pointer.

Pipelines:

* `tail -N` prints nothing: the ring is never filled (`shell.c:1266`); `tail +2` skips
  ten lines (`InitTail`: the sign hides the number).
* In a window `wc` never reports behind another command (`app_sh.c:172`): EOS ends the
  train first, and so does an `iota` there make no lines (`OneSource`).
* A tail before an `iota` takes the end it starts with for a line and goes back; the
  train is over before the `iota` was called (`Starts`).
* `lfree` forgets a line no longer than the cached one; only the report of `wc` meets
  that case, which is why `Tidy` excludes it. A last command other than `terminal`
  lets its line run off the rails. Killing a shell loses its line in flight.
* `app_sh.c:168` says of a train "also crashes if run a second time". Trains are run a
  second time here (`Rerun`, `Launch`), and on what is modelled, states of commands, lines
  and cache, the second run goes like the first. What is abstracted can still crash it: the
  parser steps past the end of the string whenever the last command has no argument
  (`shell.c:1839`), which is every time in a window, where app_sh adds ` |terminal`, and
  may write behind it.
* 16-bit counters: `iota` up to 32767 never ends (`shell.c:1201`), `tail` starts
  skipping again after 32768 calls (1255). `wsysparse` does not compare with
  `MAX_TRAIN` (1897); the states of the first commands are lost if a later one
  fails (1919); `shellcleanup` of an empty train runs off the front (1796).

Arrays: an arena filled out of order answers NULL with memory to spare
(`darena.c:196`); `dfree` loses the groups behind directory pointers, `dafree` all
but the first block of each entry.

OAFS: the END marker of a page filled up to its last byte lands on the first (`oafs.c:624`).
Where the last byte is used too, the offset is 0 again, the room `256-z` a whole page
(562), and the next entry goes over the header: this was found by trying to prove that pages
hold, and the bounds of the run were then chosen so that it happens. `PagesHold` excepts
both. `dataoff` is where the last byte of the key is (582), and not, as ENTRY LAYOUT and
`parseentry` have it, where the timestamp is: every entry with data is parsed with the
timestamp byte in front of its data (`PagesHold` says so). `parseentry` also counts the
length of such a key from `dataoff` instead of from the entry (308), so that its keys, and
what the next entry takes from them, come back wrong; only of pages without data does
`PagesHold` say that `parsepage` reads the keys. An entry longer than a page is flushed
for ever; `parsepage` takes the entry index in the header for the next sector; `memcmp` kept in a signed char misorders keys with bytes above
127; empty keys are never freed.

OAQ: the longs 0xff00..0xffff get the codes of -256..-1 (`oaq.c:840`); the least long gets
the code of 0 where its negation wraps; the table promises two bytes up to 30,719, the
code stops at 28,671. `QAOL` decodes through the pointer it cleared, `StrOAQ` and
`QAOStr` do not match each other; nothing calls them.

Index: a file indexed twice gets two bit sets, and one whose size is no power of two is
read from the wrong place.

Compiler:

* `for(i=N;i--;)` and its kin (`c.bnf:84-90`, "body runs N times for N>0") run no pass;
  so does `for(i=7;i<43;i++)` (56-58), which stores an accumulator nobody loaded; 95 and
  97 step before the body; `for(i=0;i;i--)` jumps to a wild address (`ivm.c:1370`).
* `a << (b)` computes `b << a` (215); `x >> (y)` is rejected; there is no precedence.
* `sizeof x` goes by the type last matched anywhere. `puts(x)` emits the slot as an
  op-code, which it is below 32 only. Some `printf`s print another argument than
  the one asked for.
* A call of a function among its own arguments overwrites its frame. Packing renumbers
  the first of two operands of `(` and `)` only, and does not know the length of `j`
  and `m`. After a commit a failing rule goes on behind it, and a
  failure of the root is not told from an unfinished line (`run` looks for 0,
  `step` answers -1).

## 4. What is proved

For every table size (`WinMax`), every set of keys and launchable programs, both
compiler choices, and one or two windows at boot:

* `WindowManagerProofs` begins with `setfocus`: `FocusOf` always answers a slot of the
  table, and an open one if there is any (`FocusOfInRange`). `WalkIsFocusOf` shows that
  the C loop, which counts its steps and sets `wprev` on the way, computes `FocusOf` and
  `PrevOf`; the invariant then gives `WalkTheorem`: the guard against hanging cuts
  no walk short that an open window would end.
* Of the scheduler, `IInv` is inductive (`Invariance`). It is the conjunction
  of the type, the agreement of the slots (`SlotsConsistent`) and what is known of
  the key: the type alone is not inductive, since `Return` stores through `wcur` or
  `run` and restores `wnext`, which must be slots at that moment
  (`KeyCallFindsKey`), and a focus change in `getc` is harmless only because a
  program called with a key never polls (`NoStaleKey`, `KeyCallIsUndisturbed`). The
  operations on the table are proved once (`TableOK` lemmas: each FUNCT key keeps the
  table's part of the invariant) and reused for the scheduler's polls and for
  `getc`. From it: `TypeCorrect`, `SlotsCorrect`, `NoStaleKeyTheorem`,
  `KeyCallServed`, and the action properties `FocusTheorem` (which the run has as a
  consequence of the refinement) and `CallsTheorem`.
* `DesktopTheorem` is the refinement of `Desktop` (initial states, and each action to a
  step or a stutter); with it `NoCrashTheorem`.

The assumptions are those named in the modules: `ConstantAssumption`, and
`WinMax` at least 3 (the boot demo fits; the code has 16).

For every set of blocks and every set of command lines built from the commands
that are modelled (`CmdLineAssumption`):

* `TrainProofs` begins with the cache: `lfree` and `lstrdup` keep the heap sound (`LfreeSound`,
  `LstrdupSound`), given that their caller owns the line it disposes of, and that a
  block is to be had. `LfreeKeeps`: with nothing cached, lfree forgets no line.
* Of the trains, one lemma says what any command answers (`RunAnswers`), one lifts
  it to a step of the locomotive; two more say that a step leaves every line that
  somebody else owns where it is and as it reads (`RunSpares`, `WtrainstepSpares`).
* `WsystemProofs`: the invariant is `TypeOK /\ CacheSound`; ownership
  of the line in flight is what makes the soundness of the cache inductive. Results:
  `PipelineTypes`, `CacheTheorem`.
* `ReturnTheorem`, that tidy command lines lose no line, needs more: while a line is
  in flight nothing is cached (`Single`), no command of the train is one that loses
  lines and the last is a `terminal` (`Frugal`), and between command lines no line is
  in flight (`Thrift`).
* `AppShProofs`, for every number of windows: a held line is neither free, nor cached,
  nor held by another window (`OwnershipTheorem`). With that, a step of one window can
  disturb no other: each command answers in the common heap what it answers alone
  (`RunAlone`, `StepAlone`), and `Spares` keeps the texts of the rest. Together they
  are the refinement, `LoneShellsTheorem`.
* What pipelines print: `UnixTheorem` (`RunsLikeUnix`) and `DoneTheorem`
  (`DoneIsComplete`). Both are proved of the train without its heap, `LoneTrain`, and
  carried to the trains in the heap by `StepAlone`. In the middle of a run it
  is not a list of what was printed that is right or wrong, but the whole train: `Piped`
  says that there are lines still to come out of each command (`out`), that each command
  in its present state yields just these from what it awaits (`Flows`, `Yields`), and
  that what a terminal printed, the line in flight to it and what is still to come to it
  are together what the command line says flows into it (`Faithful`). One lemma
  per command (`CountServes` .. `ShowServes`) says that whatever it is given it answers
  with the first of the lines that it yields; `MovedPiped` that a step moves that line
  on, `CoupledPiped` that a train that was just set up yields what its command line
  means. At either end of the rails nothing is awaited (`EndComplete`): the end of the
  lines went past (`Ended`), or a line was asked for and no source was left
  to make one (`Supplied`). In a window the first end ends the train
  wherever it is (`AnsweredComplete`).

  The hypotheses are about the command lines, which the runs' all satisfy
  (`AllArePlain`, `StreamsArePlain`). `Plain`: the counters of `iota` and `tail` stay within 16
  bits, with one more call for each line that a tail takes an end for; no `tail -n`, no
  `tail +n` but with ten; and no tail before the first source (`Starts`).
  Both what a tail costs and where it may stand came out of the proof: a tail counts an
  end as a line and asks for another, so that the sources before it go one step
  further for each (`Owed`), and before any source it turns the locomotive off the front
  while a source behind it was never called: `tail 1|iota 1 3|terminal` prints nothing. `OneSource`,
  for windows: no command but the first makes lines. An `iota` or a `wc` behind another
  command is not called any more when the lines before it ended.

For every chain of sizes that halve, and texts and queries of any length
(`BitsetAssumption`, `IndexAssumption`: characters are 1 to 255, and the number of
hash values is the number of bits):

* `IndexProofs` begins with the bit set, `FoundTheorem`. A position masked with half the
  size is the position masked with the whole, less the half if it was in the upper one
  (`Halving`); so folding moves every set bit to where the searcher looks next. The
  invariant is the type and that every marked hash has its bit at the present size.
* `UsesTheorem`, the refinement: what `index_string` marks are hashes that the set has
  room for, which is a matter of the three hash functions (`UnigramIsHash`,
  `BigramIsHash`, `TrigramIsHash`), themselves folds of characters and of bits.
* `NothingMissedTheorem`, for every text and every quotation of it. The indexer and the
  searcher keep only a start, a length that wraps at 256 and the last hash, and
  `Words` knows nothing of these; `Read(s)` joins them. It is the words of `s` after each
  of its characters, and `Cursor` says that the length kept is that of the word under way,
  wrapped: so a word has one hash, `HashOf`, wherever it stands and in whatever case
  (`HashOfSpelt`, `SameUnigram`), that of as many letters as the length counts; a word of 256
  letters, or 512, has none and is passed over by both (`Counted`, `Latest`). While
  the text is read, all words, pairs and fragments behind the place are marked
  (`Marking`); of a query that quotes it, each word that ends is the next one of the
  text (`QuotedWord`), after the same word, and spelt with the same letters.

For every screen, window sizes and number of windows (`ScreenAssumption`,
`WindowAssumption`: the first window lies on the screen, as `main`'s does):

* `ScreenProofs`: `TextIntactTheorem`. That windows are apart is not inductive: what
  keeps a new window off the others is only that their cells are not gray. The invariant
  (`ScreenInv`) says that the text of a window on show holds that window's number and its
  header is not gray (`Shows`), until a program prints astray or a move or a kill takes
  cells of another; disjointness follows, because a cell holds one number. A new window is
  drawn where all was gray, but for the last row of its shadow (`DrawnClear`): text there
  would have its own header or text in the row above (`BodyCovered`), which was gray. The
  rest of the work is in `mowin`, which carries a frame to where it may lie over its old
  place.
* `PrintsInsideTheorem`, `StraysTheorem`: one lemma per control character of `wputc`,
  first for what it may write, then for where it leaves the cursor. A string is a fold;
  `wputz` reads the column only where `wputc` would have wrapped, which is
  `FastPathTheorem`, by comparing the two from each position of the string on. It
  has a hypothesis, `PlainStrings`: with a DEL or a paper colour the two differ (see
  the list above), in the code as well.

For every number of entries, block size, memory and range of indexes, with dapush and
every access less than a block past the highest index (`StepsWithinBlock`; the code's
blocks have at least four elements, so that callers who only append satisfy it):

* `DarenaProofs`: the chains are contiguous, but that is not inductive, nor does it
  say which chain a block is on. The invariant gives the whole table in closed form:
  blocks were allocated in the order of their offsets, so entry `j` holds those from
  `j * m` on, as many as there are, where `m` is a block count that every joining
  doubles (`Table`, `Ordered`). One lemma says that joining takes `Table(m, n)` to
  `Table(2 * m, n)`, one that the walk appends exactly the next block, or none when
  memory is full. Then every pointer given out is `PlaceOf` its index, which makes
  `PlacesTheorem`, the refinement of `StableArray`, and `NullTheorem`, immediate;
  `FreedTheorem` is read off the same table. Without the hypothesis, `NullMeansFull`
  fails (section 3).
* `PlacesApart`: no two elements of a `StableArray` share a place; so it is for
  `Darr` too, as far as its refinement is model-checked.

For pages of any size, any lines and files:

* `OafsProofs`: every key is in exactly one of four places: still to be packed
  (`Waiting`), held by `packpage` as the key it compares with or the one that names the
  page (`Held`), freed, or not read yet (`OwnedOnce`). This gives `FreedOnceTheorem`
  without any hypothesis. That none is *lost*, `KeysFreedTheorem`, needs that each line
  fits on a page (`LinesFit`); a longer one is flushed for ever.
* `PagesInOrderTheorem` has a hypothesis, that keys are ASCII (`LinesAscii`): for other
  bytes `memcmp`'s answer may change its sign in the signed char (`oafs.c:493`).
  `GoesBefore` then decides a linear order of keys (`Before`), `Place` is where
  the sorted buffer admits the new one, behind its equals (`PlaceBetween`), and so the
  buffer stays sorted. For the pages the invariant is that those of the flush, one after
  the other, are the buffer up to `next` without the empty keys (`PackedInOrder`); that
  part needs no hypothesis.
* `PagesHoldTheorem` has the hypotheses that a line fits a page (`LinesFit`), or what it
  needs would wrap at 256 as well, and that keys are shorter than 128 (`LinesShort`;
  "limited to like 80 chars (or TODO: 127?)", `oafs.c:388`), or the shared prefix might
  set the bit that marks a deleted entry. An entry then ends on the page. What is true of a finished page is not
  inductive. `PageAtHand` says of the page under way where each entry packed so far stands
  and that it is `Written` there byte by byte, that what follows is 0, and that `pkey` is the
  last of them. An entry written at the end leaves the others alone (`StandsMore`); a page
  on which entries stand reads back as these (`StandsReads`): the walk along the offsets finds
  their places (`ChainIs`), and at each place, given the key before, the layout gets the
  key, the timestamp and the data (`EntryReads`), and parseentry the key if there is no data,
  and what it makes of the data (`ParseReads`). Of pages filled to the end
  the theorem says nothing.
* For the codes of numbers (`OaqKeysAssumption`: any set of words, of longs, and any
  number of fields): each code is determined by its first byte as to its length, so none
  is the start of another (`OAQ`, `LOAQ` separately, each by the forms of the code), and
  two codes compare at their first difference as their numbers do. `OaqInv` says where in a
  key each code stands and that reading is between two of them. From it
  `WordsReadBackTheorem` and `KeysSortTheorem`: two keys differ first within the codes of
  the first numbers that differ.

Induction over data: the library's induction theorems cannot be instantiated, but a
fold or a recursive function on a finite domain can be unfolded once, and what holds of
all its values is then proved from a least counterexample (`LeastOf`, from the
well-foundedness of `<`). Folds of strings, the hashes and words of a text, the doublings
of the arena, the walk of `setfocus`, the meaning of a command line and the reading of a page are proved in
this way.

Model-checked only:

* Liveness: `BusyWindowsRun`, `Finishes`, `EveryTrainEnds`, `FlushEnds`, `Judged`.
* `Darr`, whose directories are directories: RECURSIVE operators, as in the compiler, its
  grammar and its machine.

## 5. Plan

Done, in this order because everything else runs inside the first: the window
manager, its abstraction and its proofs; pipelines; arrays; the terminal and the
screen; OAFS pages and OAQ; the index and its proof; the compiler and its machine;
the shell windows as shells alone, and the proof; the proofs of the screen, the arena,
the write buffer and its pages, the number codes, the index and what pipelines print. Next:

1. *Composition* of AppSh with WindowManager: the shell as a program of the
   table, so that `Kill` and the calls come from the scheduler.
2. *Shell parser and variables*: `wsysparse` on the text with `MAX_TRAIN`, the named
   variables, `stats` (which divides by the number of lines and takes the median of 32
   samples whatever their number), `editline` with WAITKEY.
3. *Reading a grammar* (`load_bnf` in `parse.c`): `CGrammar` is written by hand, and
   could be compared with what the loader makes of the lines of `c.bnf`.
4. *gloat16*: rounding and order of the 16-bit floats against exact fractions.

## 6. Not modelled

* The look of windows: borders, titles, colours, the statistics line. No control flow
  depends on them.
* Named variables, `stats`, `ls`, `ps`, `pwd`, `editline`: see the plan. Which window
  programs exist and what they draw: only how they use the scheduler.
* Of `ivm.c`, the instructions that no production of `c.bnf` emits (lists, atoms,
  dictionaries), tracing and listing. Of `parse.c`, reading the grammar, white space
  and comments, error messages, peephole options, and the interactive loop.
* `tpi.c`, `tpi-new.c`: the recursive-descent predecessors of `parse.c`, each with
  a grammar of its own. `ivm-loadcompile.c`, `ivm-print.c`, `livm.c`, `tp.c`: listings.
* `gloat16.c`: arithmetic, see the plan. `leb128.c`, `QAOL`, `SOAQ` and the string
  encodings of `oaq.c`: no caller.
* `app_heap.c`, `himem.c`, `malloc-trace.c`: walk the allocator's lists.
* `app_www.c`, `qr.c`, `qputs.c`, `fillins.c` (but `fill`), `getline.c`: formatting.
* Platform files: registers; they appear as keys and as cells. `include/`: third-party
  headers. `Play/`, `OLD/`, free-standing programs: experiments and superseded
  versions. The disk image builders: batch conversions.
