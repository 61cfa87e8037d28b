------------------------------ MODULE LineCache ------------------------------
(***************************************************************************)
(* lfree() and lstrdup() of shell.c: the lines of all pipelines live in    *)
(* the heap, and one disposed line is kept for the next lstrdup.  The      *)
(* cache is global: every shell window shares it.                          *)
(*                                                                         *)
(* A line says a sequence of numbers, the words of its text; the commands  *)
(* tell lines apart by nothing else.                                       *)
(***************************************************************************)
EXTENDS Integers, Sequences, SequencesExt

CONSTANTS Cell,     \* heap blocks a line can live in
          Null, Eos \* the pointers that are no lines: NULL and EOS

ASSUME LineAssumption == Null \notin Cell /\ Eos \notin Cell /\ Null # Eos

Digits(n) == IF n < 10 THEN 1 ELSE IF n < 100 THEN 2 ELSE IF n < 1000 THEN 3
             ELSE IF n < 10000 THEN 4 ELSE 5
Chars1(n) == IF n < 0 THEN 1 + Digits(-n) ELSE Digits(n)
\* strlen() of a line, which is one number, or three with spaces between.
Chars(t) == IF Len(t) = 1 THEN Chars1(t[1])
                          ELSE Chars1(t[1]) + 1 + Chars1(t[2]) + 1 + Chars1(t[3])

\* The heap: for each block what it says (a free block says nothing) and the
\* characters it was allocated for; the disposed line kept in `reuse`, and its
\* length when it was disposed of.
Free == <<>>
EmptyHeap == [text  |-> [c \in Cell |-> Free], room |-> [c \in Cell |-> 0],
              reuse |-> Null, relen |-> 0]

Used(h) == {c \in Cell : h.text[c] # Free}
HasRoom(h) == Used(h) # Cell

\* free() of the cached block, if there is one.
FreeReuse(h) == IF h.reuse \in Cell THEN [h EXCEPT !.text[h.reuse] = Free] ELSE h

Malloc(h, t, room) ==
  LET c == CHOOSE c \in Cell \ Used(h) : TRUE
  IN  [heap |-> [h EXCEPT !.text[c] = t, !.room[c] = room], line |-> c]

\* lfree(line): the longer of this line and the cached one is kept; a line that
\* is not longer is neither kept nor freed.
LfreeWithNul(h, line) ==
  IF line \in Cell /\ (h.reuse = Null \/ Chars(h.text[line]) > h.relen)
    THEN [FreeReuse(h) EXCEPT !.reuse = line, !.relen = Chars(h.text[line]) + 1]
    ELSE h
Lfree(h, line) ==
  IF line \in Cell /\ (h.reuse = Null \/ Chars(h.text[line]) > h.relen)
    THEN [FreeReuse(h) EXCEPT !.reuse = line, !.relen = Chars(h.text[line])]
    ELSE h

\* lstrdup(s): the cached line if s fits what it said, else a new one.
Uncache(h) == [h EXCEPT !.reuse = Null, !.relen = 0]
LstrdupKeepsCache(h, t) ==
  IF Chars(t) <= h.relen /\ h.relen # 0
    THEN [heap |-> [h EXCEPT !.text[h.reuse] = t], line |-> h.reuse]
    ELSE Malloc(Uncache(FreeReuse(h)), t, Chars(t))
Lstrdup(h, t) ==
  IF Chars(t) <= h.relen /\ h.relen # 0
    THEN [heap |-> Uncache([h EXCEPT !.text[h.reuse] = t]), line |-> h.reuse]
    ELSE Malloc(Uncache(FreeReuse(h)), t, Chars(t))

-----------------------------------------------------------------------------
Heap == [text : [Cell -> Seq(Int)], room : [Cell -> Nat],
         reuse : Cell \cup {Null}, relen : Nat]

\* The cache holds a block that is not free, with room for every text it accepts,
\* and no line outgrew its block: lstrdup copies without asking for the size.
SoundCache(h) ==
  /\ h.reuse # Null => h.reuse \in Used(h) /\ h.relen <= h.room[h.reuse]
  /\ h.relen # 0 => h.reuse # Null
  /\ \A c \in Used(h) : Chars(h.text[c]) <= h.room[c]

\* A line somebody holds was not freed and is not the one kept for reuse.
Owned(h, line) == line \in Cell => line \in Used(h) /\ line # h.reuse
=============================================================================
