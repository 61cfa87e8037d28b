----------------------------- MODULE TrainProofs -----------------------------
(***************************************************************************)
(* lfree() and lstrdup() keep the heap sound, for every number of blocks   *)
(* and every text: the reuse of a line needs no size but relen.  On this   *)
(* rests what wsysparse and one step of a train leave, whatever the        *)
(* command; and on that wsystem() and the shell windows.                   *)
(*                                                                         *)
(* The second half is about what is printed.  Seen without the heap, each  *)
(* command answers with the first of the lines that it still yields, and a *)
(* step moves one line on: what a command printed, what is in flight to it *)
(* and what is still to come to it are together what flows into it.        *)
(***************************************************************************)
EXTENDS LoneTrain, SequenceTheorems, WellFoundedInduction, TLAPS

USE LineAssumption

-----------------------------------------------------------------------------
(* lfree and lstrdup.                                                       *)

SoundHeap(h) == h \in Heap /\ SoundCache(h)

\* A printed number has at most six characters, a report at most twenty.
LEMMA CharsRange == \A t : Chars(t) \in Nat /\ Chars(t) > 0 /\ Chars(t) <= 20
<1>1. \A n : Chars1(n) \in 1..6
  BY DEF Chars1, Digits
<1> QED
  BY <1>1 DEF Chars

\* free() of the cached block leaves the other lines as they were.
LEMMA FreeReuseHeap ==
  ASSUME NEW h, SoundHeap(h)
  PROVE  /\ FreeReuse(h) \in Heap
         /\ FreeReuse(h).room = h.room
         /\ \A c \in Cell : c # h.reuse => FreeReuse(h).text[c] = h.text[c]
         /\ h.reuse \in Cell => FreeReuse(h).text[h.reuse] = Free
         /\ Used(FreeReuse(h)) = Used(h) \ {h.reuse}
<1>1. Free \in Seq(Int)
  BY DEF Free
<1>2. CASE h.reuse \in Cell
  <2>1. FreeReuse(h) = [h EXCEPT !.text[h.reuse] = Free]
    BY <1>2 DEF FreeReuse
  <2>2. h.text \in [Cell -> Seq(Int)]
    BY DEF SoundHeap, Heap
  <2>3. FreeReuse(h).text = [h.text EXCEPT ![h.reuse] = Free] /\ FreeReuse(h).room = h.room
    BY <2>1 DEF SoundHeap, Heap
  <2>4. FreeReuse(h) \in Heap
    BY <1>1, <1>2, <2>1, <2>2 DEF SoundHeap, Heap
  <2> QED
    BY <1>2, <2>2, <2>3, <2>4 DEF Used
<1>3. CASE h.reuse \notin Cell
  BY <1>3 DEF FreeReuse, Used, SoundHeap, Heap
<1> QED
  BY <1>2, <1>3

\* lfree() of a line that its caller owns keeps the heap sound and allocates nothing.
LEMMA LfreeSound ==
  ASSUME NEW h, NEW l, SoundHeap(h), Owned(h, l)
  PROVE  /\ SoundHeap(Lfree(h, l))
         /\ Used(Lfree(h, l)) \subseteq Used(h)
<1>1. CASE Lfree(h, l) = h
  BY <1>1
<1>2. CASE Lfree(h, l) # h
  <2> DEFINE f == FreeReuse(h)
             g == [f EXCEPT !.reuse = l, !.relen = Chars(h.text[l])]
  <2>1. l \in Cell /\ Lfree(h, l) = g
    BY <1>2 DEF Lfree
  <2>2. l \in Used(h) /\ l # h.reuse
    BY <2>1 DEF Owned
  <2>3. f \in Heap /\ f.room = h.room /\ Used(f) = Used(h) \ {h.reuse}
        /\ \A c \in Cell : c # h.reuse => f.text[c] = h.text[c]
    BY FreeReuseHeap
  <2>4. Chars(h.text[l]) \in Nat
    BY CharsRange
  <2>5. g \in Heap /\ g.text = f.text /\ g.room = h.room /\ g.reuse = l
        /\ g.relen = Chars(h.text[l])
    BY <2>1, <2>3, <2>4 DEF Heap
  <2>6. Used(g) = Used(f)
    BY <2>5 DEF Used
  <2>7. \A c \in Used(h) : c \in Cell /\ Chars(h.text[c]) <= h.room[c]
    BY DEF SoundHeap, SoundCache, Used
  <2>8. SoundCache(g)
    <3>1. g.reuse \in Used(g) /\ g.relen <= g.room[g.reuse]
      BY <2>1, <2>2, <2>3, <2>5, <2>6, <2>7
    <3>2. \A c \in Used(g) : Chars(g.text[c]) <= g.room[c]
      BY <2>3, <2>5, <2>6, <2>7
    <3> QED
      BY <2>1, <2>5, <3>1, <3>2 DEF SoundCache
  <2> QED
    BY <2>1, <2>3, <2>5, <2>6, <2>8 DEF SoundHeap
<1> QED
  BY <1>1, <1>2

\* With nothing cached, lfree keeps the line it is given: none is forgotten.
LEMMA LfreeKeeps ==
  ASSUME NEW h, NEW l, SoundHeap(h), Owned(h, l), l \in Cell => h.reuse = Null
  PROVE  Used(Lfree(h, l)) \ {Lfree(h, l).reuse} \subseteq Used(h) \ {l, h.reuse}
<1>1. CASE l \in Cell
  <2> DEFINE g == [h EXCEPT !.reuse = l, !.relen = Chars(h.text[l])]
  <2>1. Lfree(h, l) = g
    BY <1>1 DEF Lfree, FreeReuse
  <2>2. g.reuse = l /\ g.text = h.text
    BY DEF SoundHeap, Heap
  <2>3. Used(g) = Used(h)
    BY <2>2 DEF Used
  <2> QED
    BY <1>1, <2>1, <2>2, <2>3 DEF Used
<1>2. CASE l \notin Cell
  BY <1>2 DEF Lfree, Used
<1> QED
  BY <1>1, <1>2

\* A new line is a block nobody uses, and as large as was asked for.
LEMMA MallocSound ==
  ASSUME NEW h, SoundHeap(h), HasRoom(h),
         NEW t \in Seq(Int), t # <<>>, NEW room \in Nat, Chars(t) <= room
  PROVE  LET m == Malloc(h, t, room)
         IN  /\ SoundHeap(m.heap) /\ m.line \in Cell /\ Owned(m.heap, m.line)
             /\ Used(m.heap) = Used(h) \cup {m.line} /\ m.heap.reuse = h.reuse
<1> DEFINE c == CHOOSE c \in Cell \ Used(h) : TRUE
           g == [h EXCEPT !.text[c] = t, !.room[c] = room]
<1>1. Used(h) \subseteq Cell
  BY DEF Used
<1>2. c \in Cell /\ c \notin Used(h)
  BY <1>1 DEF HasRoom
<1> HIDE DEF c
<1>3. h.text \in [Cell -> Seq(Int)] /\ h.room \in [Cell -> Nat]
      /\ h.reuse \in Cell \cup {Null} /\ h.relen \in Nat
  BY DEF SoundHeap, Heap
<1>4. /\ g \in Heap
      /\ g.text = [h.text EXCEPT ![c] = t] /\ g.room = [h.room EXCEPT ![c] = room]
      /\ g.reuse = h.reuse /\ g.relen = h.relen
  BY <1>2 DEF SoundHeap, Heap
<1>5. Used(g) = Used(h) \cup {c}
  BY <1>2, <1>3, <1>4 DEF Used, Free
<1>6. c # h.reuse
  BY <1>2 DEF SoundHeap, SoundCache
<1>7. SoundCache(g)
  <2>1. g.reuse # Null => g.reuse \in Used(g) /\ g.relen <= g.room[g.reuse]
    BY <1>3, <1>4, <1>5, <1>6 DEF SoundHeap, SoundCache
  <2>2. g.relen # 0 => g.reuse # Null
    BY <1>4 DEF SoundHeap, SoundCache
  <2>3. \A b \in Used(g) : Chars(g.text[b]) <= g.room[b]
    BY <1>1, <1>2, <1>3, <1>4, <1>5 DEF SoundHeap, SoundCache
  <2> QED
    BY <2>1, <2>2, <2>3 DEF SoundCache
<1>8. Malloc(h, t, room) = [heap |-> g, line |-> c]
  BY DEF Malloc, c
<1>9. SoundHeap(g) /\ Owned(g, c) /\ Used(g) = Used(h) \cup {c} /\ g.reuse = h.reuse
  BY <1>2, <1>4, <1>5, <1>6, <1>7 DEF SoundHeap, Owned
<1> HIDE DEF g
<1> QED
  BY <1>2, <1>8, <1>9

\* lstrdup() with a block to spare: the line it answers is the caller's alone, and
\* its text fits, whether it is the cached block or a new one, and nothing is lost.
LEMMA LstrdupSound ==
  ASSUME NEW h, SoundHeap(h), HasRoom(h), NEW t \in Seq(Int), t # <<>>
  PROVE  LET d == Lstrdup(h, t)
         IN  /\ SoundHeap(d.heap) /\ d.line \in Cell /\ Owned(d.heap, d.line)
             /\ Used(d.heap) \ {d.line} \subseteq Used(h) \ {h.reuse}
             /\ d.heap.reuse = Null
<1>1. Chars(t) \in Nat /\ Chars(t) > 0
  BY CharsRange, Zenon
<1>2. CASE Chars(t) <= h.relen /\ h.relen # 0
  <2> DEFINE g == Uncache([h EXCEPT !.text[h.reuse] = t])
  <2>1. /\ h.reuse \in Cell /\ h.reuse \in Used(h) /\ h.relen <= h.room[h.reuse]
        /\ h.relen \in Nat /\ h.room \in [Cell -> Nat] /\ h.text \in [Cell -> Seq(Int)]
    BY <1>2 DEF SoundHeap, SoundCache, Heap
  <2>2. /\ g \in Heap
        /\ g.text = [h.text EXCEPT ![h.reuse] = t] /\ g.room = h.room
        /\ g.reuse = Null /\ g.relen = 0
    BY <2>1 DEF SoundHeap, Heap, Uncache
  <2>3. Used(g) = Used(h)
    BY <2>1, <2>2 DEF Used, Free
  <2>4. Chars(t) <= h.room[h.reuse] /\ h.room[h.reuse] \in Nat
    BY <1>1, <1>2, <2>1
  <2>5. \A b \in Used(g) : Chars(g.text[b]) <= g.room[b]
    BY <2>1, <2>2, <2>3, <2>4 DEF SoundHeap, SoundCache, Used
  <2>6. SoundHeap(g) /\ Owned(g, h.reuse)
    BY <2>1, <2>2, <2>3, <2>5 DEF SoundHeap, SoundCache, Owned
  <2>7. Lstrdup(h, t) = [heap |-> g, line |-> h.reuse]
    BY <1>2 DEF Lstrdup
  <2> HIDE DEF g
  <2> QED
    BY <2>1, <2>2, <2>3, <2>6, <2>7
<1>3. CASE ~(Chars(t) <= h.relen /\ h.relen # 0)
  <2> DEFINE f == FreeReuse(h)
             g == Uncache(f)
  <2>1. /\ f \in Heap /\ f.room = h.room /\ Used(f) = Used(h) \ {h.reuse}
        /\ \A c \in Cell : c # h.reuse => f.text[c] = h.text[c]
    BY FreeReuseHeap
  <2>2. /\ g \in Heap /\ g.text = f.text /\ g.room = f.room
        /\ g.reuse = Null /\ g.relen = 0
    BY <2>1 DEF Heap, Uncache
  <2>3. Used(g) = Used(h) \ {h.reuse}
    BY <2>1, <2>2 DEF Used
  <2>4. SoundHeap(g)
    BY <2>1, <2>2, <2>3 DEF SoundHeap, SoundCache, Used
  <2>5. HasRoom(g)
    BY <2>3 DEF HasRoom, Used
  <2>6. Lstrdup(h, t) = Malloc(g, t, Chars(t))
    BY <1>3 DEF Lstrdup
  <2> HIDE DEF g
  <2> QED
    BY <1>1, <2>2, <2>3, <2>4, <2>5, <2>6, MallocSound
<1> QED
  BY <1>2, <1>3

\* A new line says what it was made from.
LEMMA MallocText ==
  ASSUME NEW h, SoundHeap(h), HasRoom(h), NEW t, NEW room
  PROVE  LET m == Malloc(h, t, room) IN m.line \in Cell /\ m.heap.text[m.line] = t
<1> DEFINE c == CHOOSE c \in Cell \ Used(h) : TRUE
           g == [h EXCEPT !.text[c] = t, !.room[c] = room]
<1>1. Malloc(h, t, room) = [heap |-> g, line |-> c]
  BY DEF Malloc
<1>2. Used(h) \subseteq Cell
  BY DEF Used
<1>3. c \in Cell
  BY <1>2 DEF HasRoom
<1> HIDE DEF c
<1>4. h.text \in [Cell -> Seq(Int)] /\ g.text = [h.text EXCEPT ![c] = t]
  BY DEF SoundHeap, Heap
<1> HIDE DEF g
<1> QED
  BY <1>1, <1>3, <1>4

LEMMA LstrdupText ==
  ASSUME NEW h, SoundHeap(h), HasRoom(h), NEW t \in Seq(Int), t # <<>>
  PROVE  LET d == Lstrdup(h, t) IN d.heap.text[d.line] = t
<1>1. CASE Chars(t) <= h.relen /\ h.relen # 0
  <2> DEFINE g == Uncache([h EXCEPT !.text[h.reuse] = t])
  <2>1. h.reuse \in Cell /\ h.text \in [Cell -> Seq(Int)]
    BY <1>1 DEF SoundHeap, SoundCache, Heap, Used
  <2>2. g.text = [h.text EXCEPT ![h.reuse] = t]
    BY DEF SoundHeap, Heap, Uncache
  <2>3. Lstrdup(h, t) = [heap |-> g, line |-> h.reuse]
    BY <1>1 DEF Lstrdup
  <2> HIDE DEF g
  <2> QED
    BY <2>1, <2>2, <2>3
<1>2. CASE ~(Chars(t) <= h.relen /\ h.relen # 0)
  <2> DEFINE g == Uncache(FreeReuse(h))
  <2>1. /\ FreeReuse(h) \in Heap /\ FreeReuse(h).room = h.room
        /\ Used(FreeReuse(h)) = Used(h) \ {h.reuse}
        /\ \A c \in Cell : c # h.reuse => FreeReuse(h).text[c] = h.text[c]
    BY FreeReuseHeap
  <2>2. /\ g \in Heap /\ g.text = FreeReuse(h).text /\ g.room = h.room
        /\ g.reuse = Null /\ g.relen = 0
    BY <2>1 DEF Uncache, Heap
  <2>3. Used(g) = Used(h) \ {h.reuse}
    BY <2>1, <2>2 DEF Used
  <2>4. SoundHeap(g) /\ HasRoom(g)
    BY <2>1, <2>2, <2>3 DEF SoundHeap, SoundCache, Used, HasRoom
  <2>5. Lstrdup(h, t) = Malloc(g, t, Chars(t))
    BY <1>2 DEF Lstrdup
  <2> HIDE DEF g
  <2> QED
    BY <2>4, <2>5, MallocText
<1> QED
  BY <1>1, <1>2

-----------------------------------------------------------------------------
(* What the owner of line l does to the heap, going from h to g with line m:  *)
(* lines owned by others keep their text, are not freed, and are not its own. *)

Spares(h, l, g, m) ==
  \A b \in Cell : Owned(h, b) /\ b # l =>
    Owned(g, b) /\ b # m /\ g.text[b] = h.text[b]

LEMMA LfreeSpares ==
  ASSUME NEW h, NEW l, SoundHeap(h), Owned(h, l), NEW z, z \notin Cell
  PROVE  Spares(h, l, Lfree(h, l), z)
<1>1. CASE Lfree(h, l) = h
  BY <1>1 DEF Spares
<1>2. CASE Lfree(h, l) # h
  <2> DEFINE f == FreeReuse(h)
             g == [f EXCEPT !.reuse = l, !.relen = Chars(h.text[l])]
  <2>1. l \in Cell /\ Lfree(h, l) = g
    BY <1>2 DEF Lfree
  <2>2. f \in Heap /\ Used(f) = Used(h) \ {h.reuse}
        /\ \A c \in Cell : c # h.reuse => f.text[c] = h.text[c]
    BY FreeReuseHeap
  <2>3. g.text = f.text /\ g.reuse = l
    BY <2>2 DEF Heap
  <2>4. Used(g) = Used(f)
    BY <2>3 DEF Used
  <2> QED
    BY <2>1, <2>2, <2>3, <2>4 DEF Spares, Owned
<1> QED
  BY <1>1, <1>2

LEMMA MallocSpares ==
  ASSUME NEW h, SoundHeap(h), HasRoom(h), NEW t, t # <<>>, NEW room
  PROVE  LET m == Malloc(h, t, room)
         IN  \A l : Spares(h, l, m.heap, m.line)
<1> DEFINE c == CHOOSE c \in Cell \ Used(h) : TRUE
           g == [h EXCEPT !.text[c] = t, !.room[c] = room]
<1>1. Used(h) \subseteq Cell
  BY DEF Used
<1>2. c \in Cell /\ c \notin Used(h)
  BY <1>1 DEF HasRoom
<1> HIDE DEF c
<1>3. g.text = [h.text EXCEPT ![c] = t] /\ g.reuse = h.reuse /\ h.text \in [Cell -> Seq(Int)]
  BY <1>2 DEF SoundHeap, Heap
<1>4. Used(g) = Used(h) \cup {c}
  BY <1>2, <1>3 DEF Used, Free
<1>5. Malloc(h, t, room) = [heap |-> g, line |-> c]
  BY DEF Malloc, c
<1>6. \A l : Spares(h, l, g, c)
  BY <1>2, <1>3, <1>4 DEF Spares, Owned
<1> HIDE DEF g
<1> QED
  BY <1>5, <1>6

\* The cached block that lstrdup writes over is nobody's line.
LEMMA LstrdupSpares ==
  ASSUME NEW h, SoundHeap(h), HasRoom(h), NEW t \in Seq(Int), t # <<>>
  PROVE  LET d == Lstrdup(h, t)
         IN  \A l : Spares(h, l, d.heap, d.line)
<1>1. Chars(t) \in Nat /\ Chars(t) > 0
  BY CharsRange, Zenon
<1>2. CASE Chars(t) <= h.relen /\ h.relen # 0
  <2> DEFINE g == Uncache([h EXCEPT !.text[h.reuse] = t])
  <2>1. h.reuse \in Cell /\ h.reuse \in Used(h) /\ h.text \in [Cell -> Seq(Int)]
    BY <1>2 DEF SoundHeap, SoundCache, Heap
  <2>2. g.text = [h.text EXCEPT ![h.reuse] = t] /\ g.reuse = Null
    BY <2>1 DEF SoundHeap, Heap, Uncache
  <2>3. Used(g) = Used(h)
    BY <2>1, <2>2 DEF Used, Free
  <2>4. \A l : Spares(h, l, g, h.reuse)
    BY <2>1, <2>2, <2>3 DEF Spares, Owned
  <2>5. Lstrdup(h, t) = [heap |-> g, line |-> h.reuse]
    BY <1>2 DEF Lstrdup
  <2> HIDE DEF g
  <2> QED
    BY <2>4, <2>5
<1>3. CASE ~(Chars(t) <= h.relen /\ h.relen # 0)
  <2> DEFINE f == FreeReuse(h)
             g == Uncache(f)
             m == Malloc(g, t, Chars(t))
  <2>1. /\ f \in Heap /\ f.room = h.room /\ Used(f) = Used(h) \ {h.reuse}
        /\ \A c \in Cell : c # h.reuse => f.text[c] = h.text[c]
    BY FreeReuseHeap
  <2>2. /\ g \in Heap /\ g.text = f.text /\ g.room = f.room
        /\ g.reuse = Null /\ g.relen = 0
    BY <2>1 DEF Heap, Uncache
  <2>3. Used(g) = Used(h) \ {h.reuse}
    BY <2>1, <2>2 DEF Used
  <2>4. SoundHeap(g) /\ HasRoom(g)
    BY <2>1, <2>2, <2>3 DEF SoundHeap, SoundCache, Used, HasRoom
  <2>5. Lstrdup(h, t) = m
    BY <1>3 DEF Lstrdup
  <2>6. \A b \in Cell : Owned(h, b) => Owned(g, b) /\ g.text[b] = h.text[b]
    BY <2>1, <2>2, <2>3 DEF Owned
  <2> HIDE DEF g
  <2>7. \A l : Spares(g, l, m.heap, m.line)
    BY <2>4, MallocSpares
  <2> HIDE DEF m
  <2>8. ASSUME NEW l, NEW b \in Cell, Owned(h, b), b # l
        PROVE  b # m.line /\ Owned(m.heap, b) /\ m.heap.text[b] = h.text[b]
    <3>1. Owned(g, b) /\ g.text[b] = h.text[b]
      BY <2>6, <2>8
    <3>2. b # m.line /\ Owned(m.heap, b) /\ m.heap.text[b] = g.text[b]
      BY <2>7, <2>8, <3>1 DEF Spares
    <3> QED BY <3>1, <3>2
  <2> QED
    BY <2>5, <2>8 DEF Spares
<1> QED
  BY <1>2, <1>3

-----------------------------------------------------------------------------
(* Commands and trains.                                                     *)

USE CmdLineAssumption

\* What a command is given, and what it must answer.
Given(s, l, h) ==
  /\ s \in State /\ SoundHeap(h) /\ HasRoom(h)
  /\ l \in Cell \cup {Null, Eos} /\ Owned(h, l)
Answers(r) ==
  /\ r.state \in State /\ SoundHeap(r.heap)
  /\ r.line \in Cell \cup {Null, Eos} /\ Owned(r.heap, r.line)

LEMMA Int16Int == \A n \in Int : Int16(n) \in Int
BY DEF Int16

\* Passing no line on: there is nothing to own.
LEMMA NoLine ==
  ASSUME NEW h, NEW l \in {Null, Eos}
  PROVE  Owned(h, l)
BY DEF Owned

LEMMA IotaAnswers ==
  ASSUME NEW s, NEW l, NEW h, Given(s, l, h), s.f = "iota"
  PROVE  Answers(Iota(s, l, h))
<1> DEFINE n == Int16(s.n + s.d)
           f == Lfree(h, l)
           new == Lstrdup(f, <<n>>)
           more == (s.d > 0 /\ n <= s.e) \/ (s.d < 0 /\ n >= s.e)
<1>1. s \in [f : {"iota"}, n : Int, e : Int, d : Int]
  BY DEF Given, State
<1>2. n \in Int
  BY <1>1, Int16Int
<1> HIDE DEF n
<1>3. [s EXCEPT !.n = n] \in State
  BY <1>1, <1>2 DEF State
<1>4. SoundHeap(f) /\ Used(f) \subseteq Used(h)
  BY LfreeSound DEF Given
<1>5. HasRoom(f)
  BY <1>4 DEF Given, HasRoom, Used
<1> HIDE DEF f
<1>6. SoundHeap(new.heap) /\ new.line \in Cell /\ Owned(new.heap, new.line)
  <2>1. <<n>> \in Seq(Int) /\ <<n>> # <<>>
    BY <1>2
  <2> QED
    BY <1>4, <1>5, <2>1, LstrdupSound
<1> HIDE DEF new
<1>7. Iota(s, l, h) = IF more THEN Result([s EXCEPT !.n = n], new.heap, new.line)
                              ELSE Result([s EXCEPT !.n = n], f, Eos)
  BY DEF Iota, n, f, new
<1> QED
  BY <1>3, <1>4, <1>6, <1>7, NoLine DEF Answers, Result

\* wc reports in 24 bytes what never takes more than 20.
LEMMA WcAnswers ==
  ASSUME NEW s, NEW l, NEW h, Given(s, l, h), s.f = "wc"
  PROVE  Answers(Wc(s, l, h))
<1>1. s \in [f : {"wc"}, ln : Int, wn : Int, cn : Int]
  BY DEF Given, State
<1>2. CASE l \in Cell
  <2>1. Chars(h.text[l]) \in Nat
    BY CharsRange, Zenon
  <2>2. Len(h.text[l]) \in Nat
    BY <1>2 DEF Given, SoundHeap, Heap
  <2> DEFINE words == Len(h.text[l])
             chars == Chars(h.text[l])
             t == [f |-> "wc", ln |-> s.ln + 1, wn |-> s.wn + words, cn |-> s.cn + chars]
  <2> HIDE DEF words, chars
  <2>3. t \in State
    <3>1. words \in Int /\ chars \in Int
      BY <2>1, <2>2 DEF words, chars
    <3>2. t \in [f : {"wc"}, ln : Int, wn : Int, cn : Int]
      BY <1>1, <3>1
    <3> QED
      BY <3>2 DEF State
  <2>4. SoundHeap(Lfree(h, l))
    BY LfreeSound DEF Given
  <2>5. Wc(s, l, h) = Result(t, Lfree(h, l), Null)
    BY <1>2 DEF Wc, words, chars
  <2> HIDE DEF t
  <2> QED
    BY <2>3, <2>4, <2>5, NoLine DEF Answers, Result
<1>3. CASE l = Null
  BY <1>3, NoLine DEF Wc, Answers, Result, Given
<1>4. CASE l \notin Cell /\ l # Null
  <2> DEFINE report == <<s.ln, s.wn, s.cn>>
             new == Malloc(h, report, 24)
  <2>1. report \in Seq(Int) /\ report # <<>>
    BY <1>1
  <2>2. Chars(report) <= 24
    <3>1. Chars(report) \in Nat /\ Chars(report) <= 20
      BY CharsRange, Zenon
    <3> QED
      BY <3>1
  <2> HIDE DEF report
  <2>3. SoundHeap(new.heap) /\ new.line \in Cell /\ Owned(new.heap, new.line)
    BY <2>1, <2>2, MallocSound DEF Given
  <2> HIDE DEF new
  <2>4. Wc(s, l, h) = Result(s, new.heap, new.line)
    BY <1>4 DEF Wc, new, report
  <2> QED
    BY <2>3, <2>4 DEF Answers, Result, Given
<1> QED
  BY <1>2, <1>3, <1>4

\* Whatever command is under the locomotive.
LEMMA RunAnswers ==
  ASSUME NEW s, NEW l, NEW h, Given(s, l, h)
  PROVE  Answers(Run(s, l, h))
<1>1. SoundHeap(Lfree(h, l))
  BY LfreeSound DEF Given
<1>2. CASE s.f = "iota"
  BY <1>2, IotaAnswers DEF Run
<1>3. CASE s.f = "grep"
  BY <1>1, <1>3, NoLine DEF Run, Grep, Answers, Given, Result
<1>4. CASE s.f = "head"
  <2>1. s \in [f : {"head"}, n : Int]
    BY <1>4 DEF Given, State
  <2>2. [s EXCEPT !.n = @ - 1] \in State
    BY <2>1 DEF State
  <2> QED
    BY <1>1, <1>4, <2>2, NoLine DEF Run, Head_, Answers, Given, Result
<1>5. CASE s.f = "tail"
  BY <1>5, NoLine DEF Run, Tail_, Answers, Given, Result
<1>6. CASE s.f = "skip"
  <2>1. s \in [f : {"skip"}, e : Int]
    BY <1>6 DEF Given, State
  <2>2. [s EXCEPT !.e = Int16(@ + 1)] \in State
    BY <2>1, Int16Int DEF State
  <2> QED
    BY <1>1, <1>6, <2>2, NoLine DEF Run, Skip, Answers, Given, Result
<1>7. CASE s.f = "wc"
  BY <1>7, WcAnswers DEF Run
<1>8. CASE s.f = "teeterminal"
  BY <1>8 DEF Run, Answers, Given, Result
<1>9. CASE s.f = "terminal"
  BY <1>1, <1>9, NoLine DEF Run, Terminal, Answers, Given, Result
<1> QED
  BY <1>2, <1>3, <1>4, <1>5, <1>6, <1>7, <1>8, <1>9 DEF Given, State

-----------------------------------------------------------------------------
(* Trains. *)

LEMMA InitCommandState ==
  ASSUME NEW c \in Command, ~Fails(c)
  PROVE  InitCommand(c) \in State
<1>1. CASE c.f = "iota"
  <2>1. c \in [f : {"iota"}, n : Int, e : Int, d : Int]
    BY <1>1 DEF Command
  <2>2. [c EXCEPT !.n = Int16(@ - c.d)] \in State
    BY <2>1, Int16Int DEF State
  <2> QED
    BY <1>1, <2>2 DEF InitCommand
<1>2. CASE c.f = "head"
  <2>1. c \in [f : {"head"}, arg : Int]
    BY <1>2 DEF Command
  <2>2. [f |-> "head", n |-> -c.arg] \in State
    BY <2>1 DEF State
  <2> QED
    BY <1>2, <2>2 DEF InitCommand
<1>3. CASE c.f = "tail"
  <2>1. c \in [f : {"tail"}, arg : Int, plus : BOOLEAN]
    BY <1>3 DEF Command
  <2>2. InitTail(c) \in Int
    BY <2>1 DEF InitTail
  <2>3. [f |-> "tail"] \in State /\ [f |-> "skip", e |-> InitTail(c)] \in State
    BY <2>2 DEF State
  <2> QED
    BY <1>3, <2>3 DEF InitCommand
<1>4. CASE c.f = "wc"
  <2>1. [f |-> "wc", ln |-> 0, wn |-> 0, cn |-> 0] \in State
    BY DEF State
  <2> QED
    BY <1>4, <2>1 DEF InitCommand
<1>5. CASE c.f \in {"grep", "teeterminal", "terminal"}
  <2>1. c \in State
    BY <1>5 DEF Command, State
  <2> QED
    BY <1>5, <2>1 DEF InitCommand
<1> QED
  BY <1>1, <1>2, <1>3, <1>4, <1>5 DEF Command, Fails

LEMMA NoTrainType == TypeOKTrain(NoTrain) /\ NoTrain.line = Eos
<1>1. <<>> \in Seq(State) /\ Len(<<>>) = 0 /\ <<>> \in Seq([by : Nat, text : Seq(Int)])
  OBVIOUS
<1> QED
  BY <1>1 DEF TypeOKTrain, NoTrain

\* What wsysparse leaves is a train with no line in flight, or none.
LEMMA ParseTrain ==
  ASSUME NEW c \in CmdLines, NEW t \in Parse(c)
  PROVE  TypeOKTrain(t) /\ t.line = Eos
<1>2. CASE t = NoTrain
  BY <1>2, NoTrainType
<1>3. CASE t # NoTrain
  <2>1. t = Couple(c) /\ \A i \in 1..Len(c) : ~Fails(c[i])
    BY <1>3 DEF Parse
  <2> DEFINE cmds == [i \in 1..Len(c) |-> InitCommand(c[i])]
  <2>2. c \in Seq(Command)
    OBVIOUS
  <2>3. cmds \in Seq(State) /\ Len(cmds) = Len(c)
    BY <2>1, <2>2, InitCommandState
  <2>4. t = [cmds |-> cmds, loco |-> 1, line |-> Eos, shown |-> <<>>]
    BY <2>1 DEF Couple, NoTrain
  <2> QED
    BY <2>2, <2>3, <2>4 DEF TypeOKTrain
<1> QED
  BY <1>2, <1>3

\* One step of the locomotive.
LEMMA WtrainstepSound ==
  ASSUME NEW t, NEW h, TypeOKTrain(t), SoundHeap(h), HasRoom(h), Owned(h, t.line)
  PROVE  LET step == Wtrainstep(t, h)
         IN  TypeOKTrain(step.train) /\ SoundHeap(step.heap) /\ Owned(step.heap, step.train.line)
<1> DEFINE step == Wtrainstep(t, h)
<1>1. CASE AtEnd(t)
  <2> DEFINE e == [t EXCEPT !.line = Eos]
  <2>1. TypeOKTrain(e) /\ e.line = Eos
    BY DEF TypeOKTrain
  <2>2. step = [train |-> e, heap |-> h]
    BY <1>1 DEF Wtrainstep
  <2> HIDE DEF e
  <2> QED
    BY <2>1, <2>2, NoLine
<1>2. CASE ~AtEnd(t)
  <2> DEFINE s == t.cmds[t.loco]
             r == Run(s, t.line, h)
  <2>1. t.loco \in 1..Len(t.cmds) /\ t.cmds \in Seq(State)
    BY <1>2 DEF TypeOKTrain, AtEnd
  <2>2. s \in State
    BY <2>1
  <2>3. Answers(r)
    BY <2>2, RunAnswers DEF Given, TypeOKTrain
  <2> DEFINE cmds  == [t.cmds EXCEPT ![t.loco] = r.state]
             loco  == IF r.line = Null THEN t.loco - 1 ELSE t.loco + 1
             shown == IF Prints(s, t.line)
                        THEN Append(t.shown, [by |-> t.loco, text |-> h.text[t.line]])
                        ELSE t.shown
             next  == [cmds |-> cmds, loco |-> loco, line |-> r.line, shown |-> shown]
  <2>4. step = [train |-> next, heap |-> r.heap]
    BY <1>2 DEF Wtrainstep
  <2>5. cmds \in Seq(State) /\ Len(cmds) = Len(t.cmds)
    BY <2>1, <2>3 DEF Answers
  <2>6. loco \in Nat /\ loco <= Len(t.cmds) + 1
    BY <2>1
  <2>7. shown \in Seq([by : Nat, text : Seq(Int)])
    <3>1. t.shown \in Seq([by : Nat, text : Seq(Int)]) /\ t.loco \in Nat
      BY DEF TypeOKTrain
    <3>2. t.line \in Cell => h.text[t.line] \in Seq(Int)
      BY DEF SoundHeap, Heap
    <3>3. Prints(s, t.line) => t.line \in Cell
      BY DEF Prints
    <3>4. CASE Prints(s, t.line)
      <4>1. [by |-> t.loco, text |-> h.text[t.line]] \in [by : Nat, text : Seq(Int)]
        BY <3>1, <3>2, <3>3, <3>4
      <4> HIDE DEF s
      <4> QED
        BY <3>1, <3>4, <4>1
    <3>5. CASE ~Prints(s, t.line)
      BY <3>1, <3>5
    <3> QED
      BY <3>4, <3>5
  <2> HIDE DEF r, cmds, loco, shown
  <2>8. TypeOKTrain(next) /\ next.line = r.line
    BY <2>3, <2>5, <2>6, <2>7 DEF Answers, TypeOKTrain
  <2> HIDE DEF next
  <2> QED
    BY <2>3, <2>4, <2>8 DEF Answers
<1> QED
  BY <1>1, <1>2

LEMMA EmptyHeapSound == SoundHeap(EmptyHeap)
<1>1. Free \in Seq(Int)
  BY DEF Free
<1>2. Used(EmptyHeap) = {}
  BY DEF Used, EmptyHeap
<1> QED
  BY <1>1, <1>2 DEF SoundHeap, EmptyHeap, Heap, SoundCache

-----------------------------------------------------------------------------
(* A step of one train spares the lines of all others. *)

LEMMA IotaSpares ==
  ASSUME NEW s, NEW l, NEW h, Given(s, l, h), s.f = "iota"
  PROVE  LET r == Iota(s, l, h) IN Spares(h, l, r.heap, r.line)
<1> DEFINE n == Int16(s.n + s.d)
           f == Lfree(h, l)
           new == Lstrdup(f, <<n>>)
           more == (s.d > 0 /\ n <= s.e) \/ (s.d < 0 /\ n >= s.e)
           state == [s EXCEPT !.n = n]
<1>1. s \in [f : {"iota"}, n : Int, e : Int, d : Int]
  BY DEF Given, State
<1>2. n \in Int
  BY <1>1, Int16Int
<1> HIDE DEF n
<1>3. SoundHeap(f) /\ HasRoom(f)
  BY LfreeSound DEF Given, HasRoom, Used
<1>4. Spares(h, l, f, Eos) /\ Spares(h, l, f, Null)
  BY LfreeSpares DEF Given
<1> HIDE DEF f
<1>5. \A k : Spares(f, k, new.heap, new.line)
  <2>1. <<n>> \in Seq(Int) /\ <<n>> # <<>>
    BY <1>2
  <2> QED
    BY <1>3, <2>1, LstrdupSpares
<1> HIDE DEF new
<1>6. Spares(h, l, new.heap, new.line)
  BY <1>4, <1>5 DEF Spares
<1>7. Iota(s, l, h) = IF more THEN Result(state, new.heap, new.line)
                              ELSE Result(state, f, Eos)
  BY DEF Iota, n, f, new
<1> HIDE DEF state, more
<1> QED
  BY <1>4, <1>6, <1>7 DEF Result

LEMMA RunSpares ==
  ASSUME NEW s, NEW l, NEW h, Given(s, l, h)
  PROVE  LET r == Run(s, l, h) IN Spares(h, l, r.heap, r.line)
<1>1. \A z \in {Null, Eos} : Spares(h, l, Lfree(h, l), z) /\ Spares(h, l, h, z)
  BY LfreeSpares DEF Given, Spares
<1>2. Spares(h, l, h, l)
  BY DEF Spares
<1>3. CASE s.f = "iota"
  BY <1>3, IotaSpares DEF Run
<1>4. CASE s.f = "grep"
  BY <1>1, <1>2, <1>4 DEF Run, Grep, Result
<1>5. CASE s.f = "head"
  BY <1>1, <1>2, <1>5 DEF Run, Head_, Result
<1>6. CASE s.f = "tail"
  BY <1>1, <1>6 DEF Run, Tail_, Result
<1>7. CASE s.f = "skip"
  BY <1>1, <1>2, <1>7 DEF Run, Skip, Result
<1>8. CASE s.f = "wc"
  <2> DEFINE report == <<s.ln, s.wn, s.cn>>
             new == Malloc(h, report, 24)
             t == [f |-> "wc", ln |-> s.ln + 1, wn |-> s.wn + Len(h.text[l]),
                               cn |-> s.cn + Chars(h.text[l])]
  <2>1. report # <<>>
    OBVIOUS
  <2> HIDE DEF report
  <2>2. Spares(h, l, new.heap, new.line)
    BY <2>1, MallocSpares DEF Given
  <2> HIDE DEF new
  <2>3. Run(s, l, h) = IF l \in Cell THEN Result(t, Lfree(h, l), Null)
                       ELSE IF l = Null THEN Result(s, h, Eos)
                       ELSE Result(s, new.heap, new.line)
    BY <1>8 DEF Run, Wc, new, report
  <2> HIDE DEF t
  <2> QED
    BY <1>1, <2>2, <2>3 DEF Result
<1>9. CASE s.f = "teeterminal"
  BY <1>2, <1>9 DEF Run, Result
<1>10. CASE s.f = "terminal"
  BY <1>1, <1>10 DEF Run, Terminal, Result
<1> QED
  BY <1>3, <1>4, <1>5, <1>6, <1>7, <1>8, <1>9, <1>10 DEF Given, State

LEMMA WtrainstepSpares ==
  ASSUME NEW t, NEW h, TypeOKTrain(t), SoundHeap(h), HasRoom(h), Owned(h, t.line)
  PROVE  LET step == Wtrainstep(t, h)
         IN  Spares(h, t.line, step.heap, step.train.line)
<1> DEFINE step == Wtrainstep(t, h)
<1>1. CASE AtEnd(t)
  <2>1. step.heap = h /\ step.train.line = Eos
    BY <1>1 DEF Wtrainstep, TypeOKTrain
  <2> QED
    BY <2>1 DEF Spares
<1>2. CASE ~AtEnd(t)
  <2> DEFINE s == t.cmds[t.loco]
             r == Run(s, t.line, h)
  <2>1. t.loco \in 1..Len(t.cmds) /\ t.cmds \in Seq(State)
    BY <1>2 DEF TypeOKTrain, AtEnd
  <2>2. Given(s, t.line, h)
    BY <2>1 DEF Given, TypeOKTrain
  <2>3. Spares(h, t.line, r.heap, r.line)
    BY <2>2, RunSpares
  <2>4. step.heap = r.heap /\ step.train.line = r.line
    BY <1>2 DEF Wtrainstep
  <2> QED
    BY <2>3, <2>4
<1> QED
  BY <1>1, <1>2

-----------------------------------------------------------------------------
(* What can be seen of a train does not depend on the heap that it is in: a       *)
(* command answers what it would answer if it were alone.                         *)

Trains == [cmds : Seq(State), loco : Nat, line : Cell \cup {Null, Eos},
           shown : Seq([by : Nat, text : Seq(Int)])]

SawAnswer(r) == [state |-> r.state, line |-> Saw(r.heap, r.line)]

\* A line in the heap, and what is seen of it.
LEMMA SawText ==
  ASSUME NEW h, NEW l \in Cell
  PROVE  /\ Saw(h, l) = Text(h.text[l])
         /\ Saw(h, l).is = "text" /\ Saw(h, l).text = h.text[l]
         /\ Saw(h, l) # Request /\ Saw(h, l) # End
BY DEF Saw, Text, Request, End

\* NULL and EOS are seen as such.
LEMMA SawNone ==
  ASSUME NEW h
  PROVE  /\ Saw(h, Null) = Request /\ Saw(h, Eos) = End
         /\ Request # End
         /\ Request.is # "text" /\ End.is # "text"
BY DEF Saw, Request, End

\* Which line it is can be told from what is seen of it.
LEMMA SawLine ==
  ASSUME NEW h, NEW l \in Cell \cup {Null, Eos}
  PROVE  /\ Saw(h, l).is = "text" <=> l \in Cell
         /\ Saw(h, l) = Request <=> l = Null
         /\ Saw(h, l) = End <=> l = Eos
BY SawText, SawNone

\* iota disposes of the line it is given and answers with a text of its own.
LEMMA IotaAlone ==
  ASSUME NEW s, NEW l, NEW h, Given(s, l, h), s.f = "iota"
  PROVE  SawAnswer(Iota(s, l, h)) = Does(s, Saw(h, l))
<1> DEFINE n == Int16(s.n + s.d)
           f == Lfree(h, l)
           new == Lstrdup(f, <<n>>)
           more == (s.d > 0 /\ n <= s.e) \/ (s.d < 0 /\ n >= s.e)
           state == [s EXCEPT !.n = n]
<1>1. s \in [f : {"iota"}, n : Int, e : Int, d : Int]
  BY DEF Given, State
<1>2. <<n>> \in Seq(Int) /\ <<n>> # <<>>
  BY <1>1, Int16Int
<1>3. SoundHeap(f) /\ HasRoom(f)
  BY LfreeSound DEF Given, HasRoom, Used
<1>4. new.line \in Cell /\ new.heap.text[new.line] = <<n>>
  BY <1>2, <1>3, LstrdupSound, LstrdupText
<1>5. Iota(s, l, h) = IF more THEN Result(state, new.heap, new.line)
                              ELSE Result(state, f, Eos)
  BY DEF Iota
<1>6. Does(s, Saw(h, l)) = [state |-> state, line |-> IF more THEN Text(<<n>>) ELSE End]
  BY DEF Does, Count, Answer
<1> HIDE DEF n, f, new, more, state
<1>7. Saw(new.heap, new.line) = Text(<<n>>) /\ Saw(f, Eos) = End
  BY <1>4, SawText, SawNone
<1> QED
  BY <1>5, <1>6, <1>7 DEF SawAnswer, Result

\* wc reads the line before it disposes of it.
LEMMA WcAlone ==
  ASSUME NEW s, NEW l, NEW h, Given(s, l, h), s.f = "wc"
  PROVE  SawAnswer(Wc(s, l, h)) = Does(s, Saw(h, l))
<1> DEFINE report == <<s.ln, s.wn, s.cn>>
           new == Malloc(h, report, 24)
           counted == [f |-> "wc", ln |-> s.ln + 1, wn |-> s.wn + Len(Saw(h, l).text),
                                   cn |-> s.cn + Chars(Saw(h, l).text)]
<1>1. l \in Cell \cup {Null, Eos} /\ SoundHeap(h) /\ HasRoom(h)
  BY DEF Given
<1>2. Wc(s, l, h) = IF l \in Cell THEN Result(counted, Lfree(h, l), Null)
                    ELSE IF l = Null THEN Result(s, h, Eos)
                    ELSE Result(s, new.heap, new.line)
  BY SawText DEF Wc
<1>3. Does(s, Saw(h, l)) =
        IF Saw(h, l).is = "text" THEN [state |-> counted, line |-> Request]
        ELSE [state |-> s, line |-> IF Saw(h, l) = Request THEN End
                                                                ELSE Text(report)]
  BY DEF Does, Report, Answer
<1> HIDE DEF report
<1>4. new.line \in Cell /\ new.heap.text[new.line] = report
  BY <1>1, MallocText
<1> HIDE DEF new, counted
<1>5. /\ Saw(new.heap, new.line) = Text(report)
      /\ Saw(h, Eos) = End /\ Saw(Lfree(h, l), Null) = Request
  BY <1>4, SawText, SawNone
<1>6. /\ Saw(h, l).is = "text" <=> l \in Cell
      /\ Saw(h, l) = Request <=> l = Null
  BY <1>1, SawLine
<1> QED
  BY <1>2, <1>3, <1>5, <1>6 DEF SawAnswer, Result

\* Every command answers what it would answer alone.
LEMMA RunAlone ==
  ASSUME NEW s, NEW l, NEW h, Given(s, l, h)
  PROVE  SawAnswer(Run(s, l, h)) = Does(s, Saw(h, l))
<1>1. l \in Cell \cup {Null, Eos}
  BY DEF Given
<1>2. /\ \A g : Saw(g, Null) = Request /\ Saw(g, Eos) = End
      /\ l \in Cell => Saw(h, l).is = "text" /\ Saw(h, l).text = h.text[l]
      /\ l \notin Cell => Saw(h, l).is # "text"
      /\ Saw(h, l) = End <=> l = Eos
  BY <1>1, SawText, SawNone, SawLine
<1>3. CASE s.f = "iota"
  BY <1>3, IotaAlone DEF Run
<1>4. CASE s.f = "grep"
  BY <1>2, <1>4 DEF Run, Grep, Result, SawAnswer, Does, Select, Answer
<1>5. CASE s.f = "head"
  BY <1>2, <1>5 DEF Run, Head_, Result, SawAnswer, Does, Beginning, Answer
<1>6. CASE s.f = "tail"
  BY <1>2, <1>6 DEF Run, Tail_, Result, SawAnswer, Does, Answer
<1>7. CASE s.f = "skip"
  BY <1>2, <1>7 DEF Run, Skip, Result, SawAnswer, Does, Rest, Answer
<1>8. CASE s.f = "wc"
  BY <1>8, WcAlone DEF Run
<1>9. CASE s.f = "teeterminal"
  BY <1>9 DEF Run, Result, SawAnswer, Does, Answer
<1>10. CASE s.f = "terminal"
  BY <1>2, <1>10 DEF Run, Terminal, Result, SawAnswer, Does, Answer
<1> QED
  BY <1>3, <1>4, <1>5, <1>6, <1>7, <1>8, <1>9, <1>10 DEF Given, State

\* A step of a train in the common heap is the step of a train that is alone.
LEMMA StepAlone ==
  ASSUME NEW t \in Trains, NEW h, TypeOKTrain(t), SoundHeap(h), HasRoom(h), Owned(h, t.line)
  PROVE  LET step == Wtrainstep(t, h)
         IN  View(step.heap, step.train) = Moved(View(h, t))
<1> DEFINE step == Wtrainstep(t, h)
           v == View(h, t)
<1>1. /\ v = [cmds |-> t.cmds, loco |-> t.loco, line |-> Saw(h, t.line), shown |-> t.shown]
      /\ AtEnd(v) = AtEnd(t)
  BY DEF View, Trains, AtEnd
<1>2. CASE AtEnd(t)
  <2>1. step.heap = h /\ step.train = [cmds |-> t.cmds, loco |-> t.loco, line |-> Eos, shown |-> t.shown]
    BY <1>2 DEF Wtrainstep, Trains
  <2>2. Moved(v) = [cmds |-> t.cmds, loco |-> t.loco, line |-> End, shown |-> t.shown]
    <3>1. AtEnd(v)
      BY <1>1, <1>2
    <3>2. Moved(v) = [v EXCEPT !.line = End]
      BY <3>1 DEF Moved
    <3> QED
      BY <1>1, <3>2
  <2>3. Saw(h, Eos) = End
    BY SawNone
  <2> QED
    BY <2>1, <2>2, <2>3 DEF View
<1>3. CASE ~AtEnd(t)
  <2> DEFINE s == t.cmds[t.loco]
             r == Run(s, t.line, h)
             a == Does(s, Saw(h, t.line))
             cmds == [t.cmds EXCEPT ![t.loco] = r.state]
             loco == IF r.line = Null THEN t.loco - 1 ELSE t.loco + 1
             shown == IF Prints(s, t.line)
                        THEN Append(t.shown, [by |-> t.loco, text |-> h.text[t.line]])
                        ELSE t.shown
  <2>1. t.loco \in 1..Len(t.cmds) /\ t.cmds \in Seq(State)
    BY <1>3 DEF TypeOKTrain, AtEnd
  <2>2. Given(s, t.line, h)
    BY <2>1 DEF Given, TypeOKTrain
  <2>3. a = [state |-> r.state, line |-> Saw(r.heap, r.line)]
    BY <2>2, RunAlone DEF SawAnswer
  <2>4. r.line \in Cell \cup {Null, Eos}
    BY <2>2, RunAnswers DEF Answers
  <2>5. a.line = Request <=> r.line = Null
    <3> HIDE DEF r, a
    <3> QED BY <2>3, <2>4, SawLine
  <2>6. Shown(v) = shown
    <3>1. Saw(h, t.line).is = "text" <=> t.line \in Cell
      BY <2>2, SawLine DEF Given
    <3>2. t.line \in Cell => Saw(h, t.line).text = h.text[t.line]
      BY SawText
    <3>3. v.cmds[v.loco] = s /\ v.line = Saw(h, t.line) /\ v.shown = t.shown /\ v.loco = t.loco
      BY <1>1
    <3> HIDE DEF v, s
    <3> QED
      BY <3>1, <3>2, <3>3 DEF Shown, Prints
  <2>7. step = [train |-> [cmds |-> cmds, loco |-> loco, line |-> r.line, shown |-> shown],
                heap |-> r.heap]
    BY <1>3 DEF Wtrainstep
  <2>8. Moved(v) = [cmds  |-> [t.cmds EXCEPT ![t.loco] = a.state],
                         loco  |-> IF a.line = Request THEN t.loco - 1 ELSE t.loco + 1,
                         line  |-> a.line, shown |-> Shown(v)]
    BY <1>1, <1>3 DEF Moved
  <2> HIDE DEF s, r, a, v, step, shown
  <2>9. Moved(v) = [cmds |-> cmds, loco |-> loco, line |-> Saw(r.heap, r.line), shown |-> shown]
    BY <2>3, <2>5, <2>6, <2>8
  <2> HIDE DEF cmds, loco
  <2>10. View(step.heap, step.train)
           = [cmds |-> cmds, loco |-> loco, line |-> Saw(r.heap, r.line), shown |-> shown]
    BY <2>7 DEF View
  <2> QED
    BY <2>9, <2>10 DEF v, step
<1> QED
  BY <1>2, <1>3

\* A train without a line looks the same in every heap.
LEMMA ViewIdle ==
  ASSUME NEW t \in Trains, t.line = Eos, NEW h
  PROVE  View(h, t) = Idle(t)
BY SawNone DEF View, Idle

-----------------------------------------------------------------------------
(* Recursion over the places of a sequence.                                 *)

HIDE LineAssumption

\* Every set of numbers that is not empty has a least one.
LEMMA LeastOf ==
  ASSUME NEW S, S \subseteq Nat, S # {}
  PROVE  \E i \in S : \A k \in S : i <= k
<1>1. PICK i \in S : \A k \in S : ~ (<<k, i>> \in OpToRel(<, Nat))
  BY WFMin, NatLessThanWellFounded
<1>2. ASSUME NEW k \in S, k < i PROVE FALSE
  <2>1. <<k, i>> \in {ss \in Nat \X Nat : ss[1] < ss[2]}
    BY <1>2
  <2> QED BY <1>1, <2>1 DEF OpToRel
<1> QED BY <1>2

\* What holds of 0, and of each number up to m if of the one before, holds up to m.
LEMMA UpTo ==
  ASSUME NEW m \in Nat, NEW S, 0 \in S, \A k \in 1..m : k - 1 \in S => k \in S
  PROVE  0..m \subseteq S
<1> DEFINE Bad == {k \in 0..m : k \notin S}
<1> SUFFICES ASSUME Bad # {} PROVE FALSE
  OBVIOUS
<1>1. PICK k \in Bad : \A i \in Bad : k <= i
  <2>1. Bad \subseteq Nat
    OBVIOUS
  <2> HIDE DEF Bad
  <2> QED BY <2>1, LeastOf
<1>2. k \in Nat /\ k # 0 /\ k <= m /\ k \notin S
  OBVIOUS
<1>3. k \in 1..m /\ k - 1 \in 0..m /\ ~(k <= k - 1)
  BY ONLY <1>2, m \in Nat
<1>4. k - 1 \in S
  BY <1>1, <1>3
<1> QED BY <1>2, <1>3, <1>4

\* From one place to the next by a step that stays in V.
Grown(n, b, step, f) == f[0] = b /\ \A i \in 1..n : f[i] = step[<<i, f[i - 1]>>]

\* A recursive function over the places of a sequence is there.
LEMMA Recursion ==
  ASSUME NEW n \in Nat, NEW V, NEW b \in V, NEW step \in [(1..n) \X V -> V]
  PROVE  \E f \in [0..n -> V] : Grown(n, b, step, f)
<1> DEFINE S == {m \in 0..n : \E f \in [0..m -> V] : Grown(m, b, step, f)}
<1>1. 0 \in S
  <2> DEFINE f == [i \in 0..0 |-> b]
  <2>1. f \in [0..0 -> V] /\ f[0] = b
    OBVIOUS
  <2>2. Grown(0, b, step, f)
    BY <2>1 DEF Grown
  <2> HIDE DEF f
  <2> QED BY <2>1, <2>2
<1>2. ASSUME NEW m \in 1..n, m - 1 \in S PROVE m \in S
  <2>1. PICK f \in [0..m - 1 -> V] : Grown(m - 1, b, step, f)
    BY <1>2
  <2> DEFINE g == [i \in 0..m |-> IF i = m THEN step[<<m, f[m - 1]>>] ELSE f[i]]
  <2>2. m \in Nat /\ m \in 1..n /\ m - 1 \in 0..m - 1 /\ m \in 0..m /\ m \in 0..n
    OBVIOUS
  <2>3. f[m - 1] \in V /\ step[<<m, f[m - 1]>>] \in V
    BY <2>2
  <2>4. g \in [0..m -> V]
    BY <2>2, <2>3
  <2>5. g[m] = step[<<m, f[m - 1]>>] /\ \A i \in 0..m - 1 : g[i] = f[i]
    BY <2>2
  <2>6. Grown(m, b, step, g)
    <3>1. g[0] = b
      BY <2>1, <2>5, <2>2 DEF Grown
    <3>2. ASSUME NEW i \in 1..m PROVE g[i] = step[<<i, g[i - 1]>>]
      <4>1. CASE i = m
        BY <2>2, <2>5, <4>1
      <4>2. CASE i # m
        <5>1. i \in 1..m - 1 /\ i - 1 \in 0..m - 1 /\ i \in 0..m - 1
          BY ONLY <4>2, <2>2, i \in 1..m
        <5> QED BY <2>1, <2>5, <5>1 DEF Grown
      <4> QED BY <4>1, <4>2
    <3> HIDE DEF g
    <3> QED BY <3>1, <3>2 DEF Grown
  <2> HIDE DEF g
  <2> QED BY <2>2, <2>4, <2>6
<1>3. 0..n \subseteq S
  <2> HIDE DEF S
  <2> QED BY <1>1, <1>2, UpTo
<1> QED BY <1>3

\* A recursive function stays in the set that its step stays in.
LEMMA Typed ==
  ASSUME NEW n \in Nat, NEW V, NEW step \in [(1..n) \X V -> V], NEW f,
         f[0] \in V, \A i \in 1..n : f[i - 1] \in V => f[i] = step[<<i, f[i - 1]>>]
  PROVE  \A i \in 0..n : f[i] \in V
<1> DEFINE S == {i \in 0..n : f[i] \in V}
<1>1. 0 \in S
  OBVIOUS
<1>2. ASSUME NEW k \in 1..n, k - 1 \in S PROVE k \in S
  <2>1. k \in 0..n /\ f[k - 1] \in V
    BY <1>2
  <2>2. step[<<k, f[k - 1]>>] \in V
    BY <2>1
  <2> QED BY <2>1, <2>2
<1>3. 0..n \subseteq S
  <2> HIDE DEF S
  <2> QED BY <1>1, <1>2, UpTo
<1> QED BY <1>3

-----------------------------------------------------------------------------
(* What the recursive definitions of Train say, step by step.                *)

Lines == Seq(Seq(Int))

\* What grep selects, line by line.
LEMMA SelectedSteps ==
  ASSUME NEW lines \in Lines, NEW digit
  PROVE  \E f \in [0..Len(lines) -> Lines] :
           /\ f[0] = <<>>
           /\ \A n \in 1..Len(lines) :
                f[n] = IF Matches(lines[n], digit) THEN Append(f[n - 1], lines[n]) ELSE f[n - 1]
           /\ Selected(lines, digit) = f[Len(lines)]
<1> DEFINE m == Len(lines)
           step == [p \in (1..m) \X Lines |->
                      IF Matches(lines[p[1]], digit) THEN Append(p[2], lines[p[1]]) ELSE p[2]]
           Is(g) == g = [n \in 0..m |-> IF n = 0 THEN <<>>
                                        ELSE IF Matches(lines[n], digit) THEN Append(g[n - 1], lines[n])
                                        ELSE g[n - 1]]
           f == CHOOSE g : Is(g)
<1>1. m \in Nat /\ <<>> \in Lines /\ \A n \in 1..m : lines[n] \in Seq(Int)
  BY DEF Lines
<1>2. step \in [(1..m) \X Lines -> Lines]
  <2>1. ASSUME NEW n \in 1..m, NEW v \in Lines PROVE Append(v, lines[n]) \in Lines
    BY <1>1 DEF Lines
  <2> QED BY <2>1
<1>3. \A n \in 1..m, v \in Lines :
        step[<<n, v>>] = IF Matches(lines[n], digit) THEN Append(v, lines[n]) ELSE v
  OBVIOUS
<1> HIDE DEF m, step
<1>4. PICK g \in [0..m -> Lines] : Grown(m, <<>>, step, g)
  BY <1>1, <1>2, Recursion
<1>5. Is(g)
  <2>1. \A n \in 1..m : g[n - 1] \in Lines
    BY <1>1, <1>4
  <2>2. ASSUME NEW n \in 0..m
        PROVE  g[n] = IF n = 0 THEN <<>>
                      ELSE IF Matches(lines[n], digit) THEN Append(g[n - 1], lines[n]) ELSE g[n - 1]
    <3>1. n = 0 \/ n \in 1..m
      BY <1>1
    <3>2. CASE n = 0
      BY <1>4, <3>2 DEF Grown
    <3>3. CASE n \in 1..m
      <4>1. g[n] = step[<<n, g[n - 1]>>] /\ n # 0
        BY <1>4, <3>3 DEF Grown
      <4>2. PICK v \in Lines : v = g[n - 1]
        BY <2>1, <3>3
      <4>3. step[<<n, v>>] = IF Matches(lines[n], digit) THEN Append(v, lines[n]) ELSE v
        BY <1>3, <3>3
      <4>4. g[n] = IF Matches(lines[n], digit) THEN Append(v, lines[n]) ELSE v
        BY <4>1, <4>2, <4>3
      <4> QED BY <4>1, <4>2, <4>4
    <3> QED BY <3>1, <3>2, <3>3
  <2> QED BY <1>4, <2>2
<1>6. Is(f)
  BY <1>5, Zenon
<1>7. Selected(lines, digit) = f[m]
  BY DEF Selected, m
<1> HIDE DEF f
<1>8. f[0] = <<>> /\ \A n \in 1..m :
        f[n] = IF Matches(lines[n], digit) THEN Append(f[n - 1], lines[n]) ELSE f[n - 1]
  <2>1. 0 \in 0..m /\ \A n \in 1..m : n \in 0..m /\ n # 0
    BY <1>1
  <2>2. f[0] = <<>>
    BY <1>6, <2>1
  <2>3. ASSUME NEW n \in 1..m
        PROVE  f[n] = IF Matches(lines[n], digit) THEN Append(f[n - 1], lines[n]) ELSE f[n - 1]
    BY <1>6, <2>1
  <2> QED BY <2>2, <2>3
<1>9. \A n \in 0..m : f[n] \in Lines
  <2>1. \A n \in 1..m : f[n - 1] \in Lines => f[n] = step[<<n, f[n - 1]>>]
    BY <1>3, <1>8
  <2>2. f[0] \in Lines
    BY <1>1, <1>8
  <2>3. m \in Nat
    BY <1>1
  <2> QED BY ONLY <1>2, <2>1, <2>2, <2>3, Typed
<1>10. f \in [0..m -> Lines]
  BY <1>6, <1>9
<1> QED BY <1>7, <1>8, <1>10 DEF m

Sum == Int \X Int \X Int
Plus(v, t) == <<v[1] + 1, v[2] + Len(t), v[3] + Chars(t)>>
\* Lines, words and characters, line by line.
LEMMA TotalsSteps ==
  ASSUME NEW lines \in Lines
  PROVE  \E f \in [0..Len(lines) -> Sum] :
           /\ f[0] = <<0, 0, 0>>
           /\ \A n \in 1..Len(lines) : f[n] = Plus(f[n - 1], lines[n])
           /\ Totals(lines) = f[Len(lines)]
<1> DEFINE m == Len(lines)
           step == [p \in (1..m) \X Sum |-> Plus(p[2], lines[p[1]])]
           Is(g) == g = [n \in 0..m |-> IF n = 0 THEN <<0, 0, 0>> ELSE Plus(g[n - 1], lines[n])]
           f == CHOOSE g : Is(g)
<1>1. m \in Nat /\ <<0, 0, 0>> \in Sum /\ \A n \in 1..m : lines[n] \in Seq(Int)
  BY DEF Lines, Sum
<1>2. step \in [(1..m) \X Sum -> Sum]
  <2>1. ASSUME NEW n \in 1..m, NEW v \in Sum PROVE Plus(v, lines[n]) \in Sum
    <3>1. Chars(lines[n]) \in Int /\ Len(lines[n]) \in Int
      BY <1>1, CharsRange
    <3>2. v[1] \in Int /\ v[2] \in Int /\ v[3] \in Int
      BY DEF Sum
    <3>3. PICK p, q, r, l, c \in Int : /\ p = v[1] /\ q = v[2] /\ r = v[3]
                                      /\ l = Len(lines[n]) /\ c = Chars(lines[n])
      BY <3>1, <3>2, Zenon
    <3>4. Plus(v, lines[n]) = <<p + 1, q + l, r + c>>
      BY <3>3, Zenon DEF Plus
    <3> QED BY ONLY <3>4 DEF Sum
  <2> QED BY <2>1
<1>3. \A n \in 1..m, v \in Sum : step[<<n, v>>] = Plus(v, lines[n])
  OBVIOUS
<1> HIDE DEF m, step
<1>4. PICK g \in [0..m -> Sum] : Grown(m, <<0, 0, 0>>, step, g)
  BY <1>1, <1>2, Recursion
<1>5. Is(g)
  <2>1. \A n \in 1..m : g[n - 1] \in Sum
    BY <1>1, <1>4
  <2>2. ASSUME NEW n \in 0..m
        PROVE  g[n] = IF n = 0 THEN <<0, 0, 0>> ELSE Plus(g[n - 1], lines[n])
    <3>1. n = 0 \/ n \in 1..m
      BY <1>1
    <3>2. CASE n = 0
      BY <1>4, <3>2 DEF Grown
    <3>3. CASE n \in 1..m
      <4>1. g[n] = step[<<n, g[n - 1]>>] /\ n # 0
        BY <1>4, <3>3 DEF Grown
      <4> QED BY <1>3, <2>1, <3>3, <4>1
    <3> QED BY <3>1, <3>2, <3>3
  <2> QED BY <1>4, <2>2
<1>6. Is(f)
  BY <1>5
<1>7. Totals(lines) = f[m]
  BY DEF Totals, Plus, m
<1> HIDE DEF f
<1>8. f[0] = <<0, 0, 0>> /\ \A n \in 1..m : f[n] = Plus(f[n - 1], lines[n])
  <2>1. 0 \in 0..m /\ \A n \in 1..m : n \in 0..m /\ n # 0
    BY <1>1
  <2>2. f[0] = <<0, 0, 0>>
    BY <1>6, <2>1
  <2>3. ASSUME NEW n \in 1..m
        PROVE  f[n] = Plus(f[n - 1], lines[n])
    BY <1>6, <2>1
  <2> QED BY <2>2, <2>3
<1>9. \A n \in 0..m : f[n] \in Sum
  <2>1. \A n \in 1..m : f[n - 1] \in Sum => f[n] = step[<<n, f[n - 1]>>]
    BY <1>3, <1>8
  <2>2. f[0] \in Sum
    BY <1>1, <1>8
  <2>3. m \in Nat
    BY <1>1
  <2> QED BY ONLY <1>2, <2>1, <2>2, <2>3, Typed
<1>10. f \in [0..m -> Sum]
  BY <1>6, <1>9
<1> QED BY <1>7, <1>8, <1>10 DEF m

Printed == [by : Nat, text : Seq(Int)]
Kept(v, p, i) == IF p.by = i THEN Append(v, p.text) ELSE v
\* What one command printed, line by line.
LEMMA ShownSteps ==
  ASSUME NEW t, t.shown \in Seq(Printed), NEW i
  PROVE  \E f \in [0..Len(t.shown) -> Lines] :
           /\ f[0] = <<>>
           /\ \A n \in 1..Len(t.shown) : f[n] = Kept(f[n - 1], t.shown[n], i)
           /\ ShownBy(t, i) = f[Len(t.shown)]
<1> DEFINE m == Len(t.shown)
           step == [p \in (1..m) \X Lines |-> Kept(p[2], t.shown[p[1]], i)]
           Is(g) == g = [n \in 0..m |-> IF n = 0 THEN <<>> ELSE Kept(g[n - 1], t.shown[n], i)]
           f == CHOOSE g : Is(g)
<1>1. m \in Nat /\ <<>> \in Lines /\ \A n \in 1..m : t.shown[n] \in Printed
  BY DEF Lines
<1>2. step \in [(1..m) \X Lines -> Lines]
  <2>1. ASSUME NEW n \in 1..m, NEW v \in Lines PROVE Kept(v, t.shown[n], i) \in Lines
    <3>1. t.shown[n] \in Printed
      BY <1>1
    <3> QED BY <3>1 DEF Lines, Printed, Kept
  <2> QED BY <2>1
<1>3. \A n \in 1..m, v \in Lines : step[<<n, v>>] = Kept(v, t.shown[n], i)
  OBVIOUS
<1> HIDE DEF m, step
<1>4. PICK g \in [0..m -> Lines] : Grown(m, <<>>, step, g)
  BY <1>1, <1>2, Recursion
<1>5. Is(g)
  <2>1. \A n \in 1..m : g[n - 1] \in Lines
    BY <1>1, <1>4
  <2>2. ASSUME NEW n \in 0..m
        PROVE  g[n] = IF n = 0 THEN <<>> ELSE Kept(g[n - 1], t.shown[n], i)
    <3>1. n = 0 \/ n \in 1..m
      BY <1>1
    <3>2. CASE n = 0
      BY <1>4, <3>2 DEF Grown
    <3>3. CASE n \in 1..m
      <4>1. g[n] = step[<<n, g[n - 1]>>] /\ n # 0
        BY <1>4, <3>3 DEF Grown
      <4> QED BY <1>3, <2>1, <3>3, <4>1
    <3> QED BY <3>1, <3>2, <3>3
  <2> QED BY <1>4, <2>2
<1>6. Is(f)
  BY <1>5
<1>7. ShownBy(t, i) = f[m]
  BY DEF ShownBy, PrintedBy, Kept, m
<1> HIDE DEF f
<1>8. f[0] = <<>> /\ \A n \in 1..m : f[n] = Kept(f[n - 1], t.shown[n], i)
  <2>1. 0 \in 0..m /\ \A n \in 1..m : n \in 0..m /\ n # 0
    BY <1>1
  <2>2. f[0] = <<>>
    BY <1>6, <2>1
  <2>3. ASSUME NEW n \in 1..m
        PROVE  f[n] = Kept(f[n - 1], t.shown[n], i)
    BY <1>6, <2>1
  <2> QED BY <2>2, <2>3
<1>9. \A n \in 0..m : f[n] \in Lines
  <2>1. \A n \in 1..m : f[n - 1] \in Lines => f[n] = step[<<n, f[n - 1]>>]
    BY <1>3, <1>8
  <2>2. f[0] \in Lines
    BY <1>1, <1>8
  <2>3. m \in Nat
    BY <1>1
  <2> QED BY ONLY <1>2, <2>1, <2>2, <2>3, Typed
<1>10. f \in [0..m -> Lines]
  BY <1>6, <1>9
<1> QED BY <1>7, <1>8, <1>10 DEF m

\* The lines that the tails of a train have still to skip, command by command.
LEMMA OwedSteps ==
  ASSUME NEW cmds \in Seq(State)
  PROVE  \E f \in [0..Len(cmds) -> Nat] :
           /\ f[0] = 0
           /\ \A n \in 1..Len(cmds) : f[n] = f[n - 1] + Owes(cmds[n])
           /\ Owed(cmds) = f[Len(cmds)]
<1> DEFINE m == Len(cmds)
           step == [p \in (1..m) \X Nat |-> p[2] + Owes(cmds[p[1]])]
           Is(g) == g = [n \in 0..m |-> IF n = 0 THEN 0 ELSE g[n - 1] + Owes(cmds[n])]
           f == CHOOSE g : Is(g)
<1>1. m \in Nat /\ 0 \in Nat /\ \A n \in 1..m : cmds[n] \in State
  OBVIOUS
<1>2. step \in [(1..m) \X Nat -> Nat]
  <2>1. ASSUME NEW n \in 1..m, NEW v \in Nat PROVE v + Owes(cmds[n]) \in Nat
    <3>1. Owes(cmds[n]) \in Nat
      <4>1. cmds[n] \in State
        BY <1>1
      <4>2. cmds[n].f = "skip" => cmds[n].e \in Int
        BY <4>1 DEF State
      <4> QED BY <4>2 DEF Owes
    <3> QED BY <3>1
  <2> QED BY <2>1
<1>3. \A n \in 1..m, v \in Nat : step[<<n, v>>] = v + Owes(cmds[n])
  OBVIOUS
<1> HIDE DEF m, step
<1>4. PICK g \in [0..m -> Nat] : Grown(m, 0, step, g)
  BY <1>1, <1>2, Recursion
<1>5. Is(g)
  <2>1. \A n \in 1..m : g[n - 1] \in Nat
    BY <1>1, <1>4
  <2>2. ASSUME NEW n \in 0..m
        PROVE  g[n] = IF n = 0 THEN 0 ELSE g[n - 1] + Owes(cmds[n])
    <3>1. n = 0 \/ n \in 1..m
      BY <1>1
    <3>2. CASE n = 0
      BY <1>4, <3>2 DEF Grown
    <3>3. CASE n \in 1..m
      <4>1. g[n] = step[<<n, g[n - 1]>>] /\ n # 0
        BY <1>4, <3>3 DEF Grown
      <4> QED BY <1>3, <2>1, <3>3, <4>1
    <3> QED BY <3>1, <3>2, <3>3
  <2> QED BY <1>4, <2>2
<1>6. Is(f)
  BY <1>5
<1>7. Owed(cmds) = f[m]
  BY DEF Owed, m
<1> HIDE DEF f
<1>8. f[0] = 0 /\ \A n \in 1..m : f[n] = f[n - 1] + Owes(cmds[n])
  <2>1. 0 \in 0..m /\ \A n \in 1..m : n \in 0..m /\ n # 0
    BY <1>1
  <2>2. f[0] = 0
    BY <1>6, <2>1
  <2>3. ASSUME NEW n \in 1..m
        PROVE  f[n] = f[n - 1] + Owes(cmds[n])
    BY <1>6, <2>1
  <2> QED BY <2>2, <2>3
<1>9. \A n \in 0..m : f[n] \in Nat
  <2>1. \A n \in 1..m : f[n - 1] \in Nat => f[n] = step[<<n, f[n - 1]>>]
    BY <1>3, <1>8
  <2>2. f[0] \in Nat
    BY <1>1, <1>8
  <2>3. m \in Nat
    BY <1>1
  <2> QED BY ONLY <1>2, <2>1, <2>2, <2>3, Typed
<1>10. f \in [0..m -> Nat]
  BY <1>6, <1>9
<1> QED BY <1>7, <1>8, <1>10 DEF m

-----------------------------------------------------------------------------
(* One line more.                                                           *)

\* Lines after lines.
LEMMA Joined ==
  ASSUME NEW a \in Lines, NEW b \in Lines
  PROVE  /\ a \o b \in Lines /\ Len(a \o b) = Len(a) + Len(b)
         /\ \A i \in 1..Len(a) + Len(b) :
              (a \o b)[i] = IF i <= Len(a) THEN a[i] ELSE b[i - Len(a)]
<1> DEFINE S == Seq(Int)
<1>1. a \in Seq(S) /\ b \in Seq(S) /\ Lines = Seq(S)
  BY DEF Lines
<1> HIDE DEF S, Lines
<1>2. /\ a \o b \in Seq(S) /\ Len(a \o b) = Len(a) + Len(b)
      /\ \A i \in 1..Len(a) + Len(b) :
           (a \o b)[i] = IF i <= Len(a) THEN a[i] ELSE b[i - Len(a)]
  BY ONLY <1>1, ConcatProperties, Zenon
<1> QED BY <1>1, <1>2

\* A line put before others.
LEMMA OneMore ==
  ASSUME NEW x \in Seq(Int), NEW lines \in Lines
  PROVE  /\ <<x>> \o lines \in Lines /\ Len(<<x>> \o lines) = Len(lines) + 1
         /\ (<<x>> \o lines)[1] = x
         /\ \A i \in 1..Len(lines) : (<<x>> \o lines)[i + 1] = lines[i]
<1>1. <<x>> \in Lines /\ Len(<<x>>) = 1 /\ <<x>>[1] = x
  BY DEF Lines
<1>2. Len(lines) \in Nat
  BY DEF Lines
<1>3. /\ <<x>> \o lines \in Lines /\ Len(<<x>> \o lines) = 1 + Len(lines)
      /\ \A i \in 1..1 + Len(lines) :
           (<<x>> \o lines)[i] = IF i <= 1 THEN <<x>>[i] ELSE lines[i - 1]
  BY <1>1, Joined
<1>4. (<<x>> \o lines)[1] = x
  BY <1>1, <1>2, <1>3
<1>5. ASSUME NEW i \in 1..Len(lines) PROVE (<<x>> \o lines)[i + 1] = lines[i]
  <2>1. i + 1 \in 1..1 + Len(lines) /\ ~(i + 1 <= 1) /\ (i + 1) - 1 = i
    BY <1>2
  <2> QED BY <1>3, <2>1
<1> QED BY <1>2, <1>3, <1>4, <1>5

\* Lines, and none.
LEMMA NoLines ==
  /\ <<>> \in Lines /\ Len(<<>>) = 0
  /\ \A lines \in Lines : lines \o <<>> = lines /\ <<>> \o lines = lines /\ Len(lines) \in Nat
  /\ \A lines \in Lines : Len(lines) = 0 => lines = <<>>
  /\ \A a, b \in Lines : a \o b \in Lines /\ Len(a \o b) = Len(a) + Len(b)
<1>1. <<>> \in Lines /\ Len(<<>>) = 0
  BY DEF Lines
<1>2. \A lines \in Lines : lines \o <<>> = lines /\ <<>> \o lines = lines
  BY ConcatEmptySeq, Zenon DEF Lines
<1>3. \A lines \in Lines : Len(lines) \in Nat /\ (Len(lines) = 0 => lines = <<>>)
  BY EmptySeq DEF Lines
<1>4. \A a, b \in Lines : a \o b \in Lines /\ Len(a \o b) = Len(a) + Len(b)
  BY Joined
<1> QED BY <1>1, <1>2, <1>3, <1>4

\* grep of one line more: that line, if it matches, and what it selects of the others.
LEMMA SelectedMore ==
  ASSUME NEW x \in Seq(Int), NEW lines \in Lines, NEW digit
  PROVE  Selected(<<x>> \o lines, digit)
           = IF Matches(x, digit) THEN <<x>> \o Selected(lines, digit) ELSE Selected(lines, digit)
<1> DEFINE all == <<x>> \o lines
           m == Len(lines)
           first(r) == IF Matches(x, digit) THEN <<x>> \o r ELSE r
<1>1. /\ all \in Lines /\ Len(all) = m + 1 /\ all[1] = x
      /\ \A i \in 1..m : all[i + 1] = lines[i]
  BY OneMore
<1>2. m \in Nat /\ \A i \in 1..m : lines[i] \in Seq(Int)
  BY DEF Lines
<1>3. PICK f \in [0..m -> Lines] :
        /\ f[0] = <<>>
        /\ \A n \in 1..m : f[n] = IF Matches(lines[n], digit) THEN Append(f[n - 1], lines[n]) ELSE f[n - 1]
        /\ Selected(lines, digit) = f[m]
  BY SelectedSteps
<1> HIDE DEF all
<1>4. PICK g \in [0..Len(all) -> Lines] :
        /\ g[0] = <<>>
        /\ \A n \in 1..Len(all) : g[n] = IF Matches(all[n], digit) THEN Append(g[n - 1], all[n]) ELSE g[n - 1]
        /\ Selected(all, digit) = g[Len(all)]
  BY <1>1, SelectedSteps
<1> HIDE DEF m
<1> DEFINE S == {i \in 0..m : g[i + 1] = first(f[i])}
<1>5. 0 \in S
  <2>1. 1 \in 1..m + 1 /\ 0 \in 0..m /\ 0 + 1 = 1 /\ 1 - 1 = 0
    BY <1>2
  <2>2. g[1] = IF Matches(x, digit) THEN Append(<<>>, x) ELSE <<>>
    BY <1>1, <1>4, <2>1
  <2>3. first(f[0]) = IF Matches(x, digit) THEN <<x>> ELSE <<>>
    <3>1. <<x>> \o <<>> = <<x>>
      BY NoLines DEF Lines
    <3> QED BY <1>3, <3>1
  <2> QED BY <2>1, <2>2, <2>3
<1>6. ASSUME NEW i \in 1..m, i - 1 \in S PROVE i \in S
  <2>1. /\ i \in 0..m /\ i + 1 \in 1..m + 1 /\ i - 1 \in 0..m
        /\ (i + 1) - 1 = i /\ (i - 1) + 1 = i
    BY <1>2
  <2>2. g[i] = first(f[i - 1])
    BY <1>6, <2>1
  <2>3. g[i + 1] = IF Matches(lines[i], digit) THEN Append(g[i], lines[i]) ELSE g[i]
    BY <1>1, <1>4, <2>1
  <2>4. f[i] = IF Matches(lines[i], digit) THEN Append(f[i - 1], lines[i]) ELSE f[i - 1]
    BY <1>3
  <2>5. f[i - 1] \in Lines /\ lines[i] \in Seq(Int)
    BY <1>2, <1>3, <2>1
  <2>6. Append(<<x>> \o f[i - 1], lines[i]) = <<x>> \o Append(f[i - 1], lines[i])
    <3>1. PICK v : v = f[i - 1]
      OBVIOUS
    <3>2. PICK y : y = lines[i]
      OBVIOUS
    <3>3. v \in Seq(Seq(Int)) /\ y \in Seq(Int)
      BY <2>5, <3>1, <3>2 DEF Lines
    <3>4. Append(<<x>> \o v, y) = <<x>> \o Append(v, y)
      BY ONLY <3>3, x \in Seq(Int)
    <3> QED BY <3>1, <3>2, <3>4
  <2>7. g[i + 1] = first(f[i])
    BY <2>2, <2>3, <2>4, <2>6
  <2> HIDE DEF first
  <2> QED BY <2>1, <2>7
<1>7. m \in S
  <2>1. 0..m \subseteq S
    <3> HIDE DEF S
    <3> QED BY <1>2, <1>5, <1>6, UpTo
  <2> QED BY <1>2, <2>1
<1>8. g[m + 1] = first(f[m])
  BY <1>7
<1> QED BY <1>1, <1>3, <1>4, <1>8 DEF all

LEMMA SelectedLines ==
  ASSUME NEW lines \in Lines, NEW digit
  PROVE  Selected(lines, digit) \in Lines /\ (lines = <<>> => Selected(lines, digit) = <<>>)
<1>1. PICK f \in [0..Len(lines) -> Lines] : f[0] = <<>> /\ Selected(lines, digit) = f[Len(lines)]
  BY SelectedSteps
<1>2. Len(lines) \in 0..Len(lines)
  BY NoLines
<1> QED BY <1>1, <1>2, NoLines

\* wc of one line more.
LEMMA TotalsMore ==
  ASSUME NEW x \in Seq(Int), NEW lines \in Lines
  PROVE  LET all == Totals(<<x>> \o lines)
             rest == Totals(lines)
         IN  all = <<1 + rest[1], Len(x) + rest[2], Chars(x) + rest[3]>> /\ rest \in Sum
<1> DEFINE all == <<x>> \o lines
           m == Len(lines)
           With(r) == <<1 + r[1], Len(x) + r[2], Chars(x) + r[3]>>
<1>1. /\ all \in Lines /\ Len(all) = m + 1 /\ all[1] = x
      /\ \A i \in 1..m : all[i + 1] = lines[i]
  BY OneMore
<1>2. m \in Nat /\ \A i \in 1..m : lines[i] \in Seq(Int)
  BY DEF Lines
<1>3. PICK f \in [0..m -> Sum] :
        /\ f[0] = <<0, 0, 0>>
        /\ \A n \in 1..m : f[n] = Plus(f[n - 1], lines[n])
        /\ Totals(lines) = f[m]
  BY TotalsSteps
<1> HIDE DEF all
<1>4. PICK g \in [0..Len(all) -> Sum] :
        /\ g[0] = <<0, 0, 0>>
        /\ \A n \in 1..Len(all) : g[n] = Plus(g[n - 1], all[n])
        /\ Totals(all) = g[Len(all)]
  BY <1>1, TotalsSteps
<1> HIDE DEF m
<1>5. Len(x) \in Int /\ Chars(x) \in Int
  BY CharsRange
<1> DEFINE S == {i \in 0..m : g[i + 1] = With(f[i])}
<1>6. 0 \in S
  <2>1. 1 \in 1..m + 1 /\ 0 \in 0..m /\ 0 + 1 = 1 /\ 1 - 1 = 0
    BY <1>2
  <2>2. g[1] = Plus(<<0, 0, 0>>, x)
    BY <1>1, <1>4, <2>1
  <2>3. Plus(<<0, 0, 0>>, x) = With(<<0, 0, 0>>)
    BY <1>5 DEF Plus
  <2> QED BY <1>3, <2>1, <2>2, <2>3
<1>7. ASSUME NEW i \in 1..m, i - 1 \in S PROVE i \in S
  <2>1. /\ i \in 0..m /\ i + 1 \in 1..m + 1 /\ i - 1 \in 0..m
        /\ (i + 1) - 1 = i /\ (i - 1) + 1 = i
    BY <1>2
  <2>2. g[i] = With(f[i - 1])
    BY <1>7, <2>1
  <2>3. g[i + 1] = Plus(g[i], lines[i])
    BY <1>1, <1>4, <2>1
  <2>4. f[i] = Plus(f[i - 1], lines[i])
    BY <1>3
  <2>5. Plus(With(f[i - 1]), lines[i]) = With(Plus(f[i - 1], lines[i]))
    <3>1. PICK r : r = f[i - 1]
      OBVIOUS
    <3>2. r[1] \in Int /\ r[2] \in Int /\ r[3] \in Int
      BY <1>3, <2>1, <3>1 DEF Sum
    <3>3. Len(lines[i]) \in Int /\ Chars(lines[i]) \in Int
      BY <1>2, CharsRange
    <3>4. PICK a, b, c, d : a = Len(lines[i]) /\ b = Chars(lines[i]) /\ c = Len(x) /\ d = Chars(x)
      OBVIOUS
    <3>5. /\ (1 + r[1]) + 1 = 1 + (r[1] + 1)
          /\ (c + r[2]) + a = c + (r[2] + a)
          /\ (d + r[3]) + b = d + (r[3] + b)
      <4>1. a \in Int /\ b \in Int /\ c \in Int /\ d \in Int
        BY <1>5, <3>3, <3>4
      <4>2. PICK u, v, w : u = r[1] /\ v = r[2] /\ w = r[3]
        OBVIOUS
      <4>3. u \in Int /\ v \in Int /\ w \in Int
        BY <3>2, <4>2
      <4>4. (1 + u) + 1 = 1 + (u + 1) /\ (c + v) + a = c + (v + a) /\ (d + w) + b = d + (w + b)
        BY ONLY <4>1, <4>3
      <4> QED BY <4>2, <4>4
    <3> QED BY <3>1, <3>4, <3>5 DEF Plus
  <2>6. g[i + 1] = With(f[i])
    BY <2>2, <2>3, <2>4, <2>5
  <2> HIDE DEF With
  <2> QED BY <2>1, <2>6
<1>8. m \in S
  <2>1. 0..m \subseteq S
    <3> HIDE DEF S
    <3> QED BY <1>2, <1>6, <1>7, UpTo
  <2> QED BY <1>2, <2>1
<1>9. g[m + 1] = With(f[m]) /\ f[m] \in Sum
  BY <1>2, <1>3, <1>8
<1> QED BY <1>1, <1>3, <1>4, <1>9 DEF all

LEMMA NoTotals == Totals(<<>>) = <<0, 0, 0>> /\ \A lines \in Lines : Totals(lines) \in Sum
<1>1. ASSUME NEW lines \in Lines
      PROVE  Totals(lines) \in Sum /\ (lines = <<>> => Totals(lines) = <<0, 0, 0>>)
  <2>1. PICK f \in [0..Len(lines) -> Sum] : f[0] = <<0, 0, 0>> /\ Totals(lines) = f[Len(lines)]
    BY TotalsSteps
  <2>2. Len(lines) \in 0..Len(lines)
    BY NoLines
  <2> QED BY <2>1, <2>2
<1> QED BY <1>1, NoLines

\* What was printed when one line more is printed.
LEMMA ShownMore ==
  ASSUME NEW t, t.shown \in Seq(Printed), NEW p \in Printed, NEW u, u.shown = Append(t.shown, p),
         NEW i
  PROVE  ShownBy(u, i) = Kept(ShownBy(t, i), p, i)
<1> DEFINE m == Len(t.shown)
<1>1. m \in Nat /\ u.shown \in Seq(Printed) /\ Len(u.shown) = m + 1 /\ u.shown[m + 1] = p
      /\ \A n \in 1..m : u.shown[n] = t.shown[n]
  OBVIOUS
<1>2. PICK f \in [0..m -> Lines] :
        /\ f[0] = <<>> /\ \A n \in 1..m : f[n] = Kept(f[n - 1], t.shown[n], i)
        /\ ShownBy(t, i) = f[m]
  BY ShownSteps
<1>3. PICK g \in [0..Len(u.shown) -> Lines] :
        /\ g[0] = <<>> /\ \A n \in 1..Len(u.shown) : g[n] = Kept(g[n - 1], u.shown[n], i)
        /\ ShownBy(u, i) = g[Len(u.shown)]
  BY <1>1, ShownSteps
<1> HIDE DEF m
<1> DEFINE S == {n \in 0..m : g[n] = f[n]}
<1>4. 0 \in S
  BY <1>1, <1>2, <1>3
<1>5. ASSUME NEW n \in 1..m, n - 1 \in S PROVE n \in S
  <2>1. n \in 0..m /\ n \in 1..m + 1
    BY <1>1
  <2>2. g[n] = Kept(g[n - 1], t.shown[n], i) /\ f[n] = Kept(f[n - 1], t.shown[n], i)
    BY <1>1, <1>2, <1>3, <2>1
  <2> QED BY <1>5, <2>1, <2>2
<1>6. m \in S
  <2>1. 0..m \subseteq S
    <3> HIDE DEF S
    <3> QED BY <1>1, <1>4, <1>5, UpTo
  <2> QED BY <1>1, <2>1
<1>7. m + 1 \in 1..m + 1 /\ (m + 1) - 1 = m
  BY <1>1
<1>8. g[m + 1] = Kept(g[m], p, i)
  BY <1>1, <1>3, <1>7
<1> QED BY <1>1, <1>2, <1>3, <1>6, <1>8

LEMMA ShownLines ==
  ASSUME NEW t, t.shown \in Seq(Printed), NEW i
  PROVE  ShownBy(t, i) \in Lines /\ (t.shown = <<>> => ShownBy(t, i) = <<>>)
<1>1. PICK f \in [0..Len(t.shown) -> Lines] : f[0] = <<>> /\ ShownBy(t, i) = f[Len(t.shown)]
  BY ShownSteps
<1>2. Len(t.shown) \in 0..Len(t.shown) /\ (t.shown = <<>> => Len(t.shown) = 0)
  OBVIOUS
<1> QED BY <1>1, <1>2

LEMMA OwesNat == \A s \in State : Owes(s) \in Nat
<1>1. ASSUME NEW s \in State PROVE Owes(s) \in Nat
  <2>1. s.f = "skip" => s.e \in Int
    BY DEF State
  <2> QED BY <2>1 DEF Owes
<1> QED BY <1>1

\* One command of a train goes on, and the others stay as they are.
LEMMA OwedMore ==
  ASSUME NEW cmds \in Seq(State), NEW k \in 1..Len(cmds), NEW s \in State
  PROVE  /\ Owed(cmds) \in Nat
         /\ Owed([cmds EXCEPT ![k] = s]) = Owed(cmds) - Owes(cmds[k]) + Owes(s)
<1> DEFINE next == [cmds EXCEPT ![k] = s]
           m == Len(cmds)
<1>1. /\ m \in Nat /\ next \in Seq(State) /\ Len(next) = m /\ k \in 1..m
      /\ \A i \in 1..m : next[i] = IF i = k THEN s ELSE cmds[i]
  OBVIOUS
<1>2. \A i \in 1..m : Owes(cmds[i]) \in Nat
  BY OwesNat
<1>3. PICK f \in [0..m -> Nat] :
        /\ f[0] = 0 /\ \A n \in 1..m : f[n] = f[n - 1] + Owes(cmds[n])
        /\ Owed(cmds) = f[m]
  BY OwedSteps
<1> HIDE DEF next
<1>4. PICK g \in [0..Len(next) -> Nat] :
        /\ g[0] = 0 /\ \A n \in 1..Len(next) : g[n] = g[n - 1] + Owes(next[n])
        /\ Owed(next) = g[Len(next)]
  BY <1>1, OwedSteps
<1> HIDE DEF m
<1> DEFINE S == {n \in 0..m : g[n] = IF n < k THEN f[n] ELSE f[n] - Owes(cmds[k]) + Owes(s)}
<1>5. 0 \in S
  BY <1>1, <1>3, <1>4
<1>6. ASSUME NEW n \in 1..m, n - 1 \in S PROVE n \in S
  <2>1. n \in 0..m /\ n - 1 \in 0..m
    BY <1>1
  <2>2. PICK a, b, c, d, o, q : /\ a = f[n] /\ b = f[n - 1] /\ c = g[n] /\ d = g[n - 1]
                                /\ o = Owes(cmds[k]) /\ q = Owes(s)
    OBVIOUS
  <2>3. a \in Int /\ b \in Int /\ c \in Int /\ d \in Int /\ o \in Int /\ q \in Int
    BY <1>1, <1>2, <1>3, <1>4, <2>1, <2>2, OwesNat
  <2>4. d = IF n - 1 < k THEN b ELSE b - o + q
    BY <1>6, <2>2
  <2>5. CASE n = k
    <3>1. a = b + o /\ c = d + q
      BY <1>1, <1>3, <1>4, <2>2, <2>5
    <3>2. n - 1 < k /\ ~(n < k)
      BY <2>5
    <3>3. c = a - o + q
      BY <2>3, <2>4, <3>1, <3>2
    <3> QED BY <2>1, <2>2, <3>2, <3>3
  <2>6. CASE n # k
    <3>1. PICK e : e = Owes(cmds[n])
      OBVIOUS
    <3>2. a = b + e /\ c = d + e /\ e \in Int
      <4>1. g[n] = g[n - 1] + Owes(next[n]) /\ next[n] = cmds[n]
        BY <1>1, <1>4, <2>6
      <4>2. f[n] = f[n - 1] + Owes(cmds[n]) /\ Owes(cmds[n]) \in Int
        BY <1>2, <1>3
      <4> QED BY <2>2, <3>1, <4>1, <4>2
    <3>3. n - 1 < k <=> n < k
      BY <1>1, <2>6
    <3>4. c = IF n < k THEN a ELSE a - o + q
      BY <2>3, <2>4, <3>2, <3>3
    <3> QED BY <2>1, <2>2, <3>4
  <2> QED BY <2>5, <2>6
<1>7. m \in S
  <2>1. 0..m \subseteq S
    <3> HIDE DEF S
    <3> QED BY <1>1, <1>5, <1>6, UpTo
  <2> QED BY <1>1, <2>1
<1>8. ~(m < k) /\ f[m] \in Nat
  BY <1>1, <1>3
<1> QED BY <1>1, <1>3, <1>4, <1>7, <1>8 DEF next

-----------------------------------------------------------------------------
(* What the commands make of one line more.                                  *)

LEMMA MinOf == \A a, b \in Int : Min({a, b}) = IF a <= b THEN a ELSE b
<1>1. ASSUME NEW a \in Int, NEW b \in Int PROVE Min({a, b}) = IF a <= b THEN a ELSE b
  <2>1. \E x \in {a, b} : \A y \in {a, b} : x <= y
    <3>1. a <= b \/ b <= a
      OBVIOUS
    <3> QED BY <3>1
  <2>2. PICK x : x = Min({a, b})
    OBVIOUS
  <2>3. x \in {a, b} /\ \A y \in {a, b} : x <= y
    BY <2>1, <2>2 DEF Min
  <2> QED BY <2>2, <2>3
<1> QED BY <1>1

LEMMA MaxOf == \A a, b \in Int : Max({a, b}) = IF a <= b THEN b ELSE a
<1>1. ASSUME NEW a \in Int, NEW b \in Int PROVE Max({a, b}) = IF a <= b THEN b ELSE a
  <2>1. \E x \in {a, b} : \A y \in {a, b} : x >= y
    <3>1. a >= b \/ b >= a
      OBVIOUS
    <3> QED BY <3>1
  <2>2. PICK x : x = Max({a, b})
    OBVIOUS
  <2>3. x \in {a, b} /\ \A y \in {a, b} : x >= y
    BY <2>1, <2>2 DEF Max
  <2> QED BY <2>2, <2>3
<1> QED BY <1>1

\* head and tail of some lines, and of none.
LEMMA FirstNLines ==
  ASSUME NEW lines \in Lines, NEW n \in Nat
  PROVE  /\ FirstN(lines, n) \in Lines
         /\ Len(FirstN(lines, n)) = IF n <= Len(lines) THEN n ELSE Len(lines)
         /\ \A i \in 1..Len(FirstN(lines, n)) : FirstN(lines, n)[i] = lines[i]
<1> DEFINE m == IF n <= Len(lines) THEN n ELSE Len(lines)
<1>1. Len(lines) \in Nat /\ m \in Nat /\ m <= Len(lines)
  BY NoLines
<1>2. FirstN(lines, n) = SubSeq(lines, 1, m)
  BY <1>1, MinOf DEF FirstN
<1> HIDE DEF m
<1>3. \A i \in 1..m : lines[i] \in Seq(Int)
  BY <1>1 DEF Lines
<1>4. /\ SubSeq(lines, 1, m) \in Lines
      /\ Len(SubSeq(lines, 1, m)) = m
      /\ \A i \in 1..m : SubSeq(lines, 1, m)[i] = lines[i]
  BY <1>1, <1>3 DEF Lines
<1> QED BY <1>2, <1>4 DEF m

LEMMA DropNLines ==
  ASSUME NEW lines \in Lines, NEW n \in Nat
  PROVE  /\ DropN(lines, n) \in Lines
         /\ Len(DropN(lines, n)) = IF n <= Len(lines) THEN Len(lines) - n ELSE 0
         /\ \A i \in 1..Len(DropN(lines, n)) : DropN(lines, n)[i] = lines[n + i]
<1>1. Len(lines) \in Nat
  BY NoLines
<1>2. \A i \in n + 1..Len(lines) : lines[i] \in Seq(Int)
  BY <1>1 DEF Lines
<1>3. PICK m \in Nat : m = Len(lines)
  BY <1>1
<1>4. /\ SubSeq(lines, n + 1, m) \in Seq(Seq(Int))
      /\ Len(SubSeq(lines, n + 1, m)) = IF n + 1 <= m THEN m - (n + 1) + 1 ELSE 0
      /\ \A i \in 1..m - (n + 1) + 1 : SubSeq(lines, n + 1, m)[i] = lines[(n + 1) + i - 1]
  <2>1. PICK k : k = n + 1
    OBVIOUS
  <2>2. k \in Int /\ m \in Int /\ \A i \in k..m : lines[i] \in Seq(Int)
    BY <1>2, <1>3, <2>1
  <2>3. /\ SubSeq(lines, k, m) \in Seq(Seq(Int))
        /\ Len(SubSeq(lines, k, m)) = IF k <= m THEN m - k + 1 ELSE 0
        /\ \A i \in 1..m - k + 1 : SubSeq(lines, k, m)[i] = lines[k + i - 1]
    BY ONLY <2>2, SubSeqProperties
  <2> QED BY <2>1, <2>3
<1>5. Len(SubSeq(lines, n + 1, m)) = IF n <= m THEN m - n ELSE 0
  BY <1>4
<1>6. ASSUME NEW i \in 1..Len(SubSeq(lines, n + 1, m)) PROVE SubSeq(lines, n + 1, m)[i] = lines[n + i]
  <2>1. i \in 1..m - (n + 1) + 1 /\ (n + 1) + i - 1 = n + i
    BY <1>5
  <2> QED BY <1>4, <2>1
<1> QED BY <1>3, <1>4, <1>5, <1>6 DEF DropN, Lines

LEMMA SameLines ==
  ASSUME NEW a \in Lines, NEW b \in Lines, Len(a) = Len(b), \A i \in 1..Len(a) : a[i] = b[i]
  PROVE  a = b
BY SeqEqual DEF Lines

\* head of one line more.
LEMMA FirstNMore ==
  ASSUME NEW x \in Seq(Int), NEW lines \in Lines, NEW n \in Nat
  PROVE  /\ n > 0 => FirstN(<<x>> \o lines, n) = <<x>> \o FirstN(lines, n - 1)
         /\ FirstN(lines, 0) = <<>> /\ FirstN(<<>>, n) = <<>>
<1>1. FirstN(lines, 0) = <<>> /\ FirstN(<<>>, n) = <<>>
  <2>1. Len(lines) \in Nat /\ <<>> \in Lines /\ Len(<<>>) = 0
    BY NoLines
  <2>2. FirstN(lines, 0) \in Lines /\ Len(FirstN(lines, 0)) = 0
    BY <2>1, FirstNLines
  <2>3. FirstN(<<>>, n) \in Lines /\ Len(FirstN(<<>>, n)) = 0
    BY <2>1, FirstNLines
  <2> QED BY <2>2, <2>3, NoLines
<1>2. ASSUME n > 0 PROVE FirstN(<<x>> \o lines, n) = <<x>> \o FirstN(lines, n - 1)
  <2> DEFINE all == <<x>> \o lines
             rest == FirstN(lines, n - 1)
             a == FirstN(all, n)
             b == <<x>> \o rest
  <2>1. n - 1 \in Nat /\ Len(lines) \in Nat
    BY <1>2, NoLines
  <2>2. /\ all \in Lines /\ Len(all) = Len(lines) + 1 /\ all[1] = x
        /\ \A i \in 1..Len(lines) : all[i + 1] = lines[i]
    BY OneMore
  <2>3. /\ rest \in Lines /\ Len(rest) = IF n - 1 <= Len(lines) THEN n - 1 ELSE Len(lines)
        /\ \A i \in 1..Len(rest) : rest[i] = lines[i]
    BY <2>1, FirstNLines
  <2> HIDE DEF all
  <2>4. /\ a \in Lines /\ Len(a) = IF n <= Len(all) THEN n ELSE Len(all)
        /\ \A i \in 1..Len(a) : a[i] = all[i]
    BY <2>2, FirstNLines
  <2> HIDE DEF a, rest
  <2>5. /\ b \in Lines /\ Len(b) = Len(rest) + 1 /\ b[1] = x
        /\ \A i \in 1..Len(rest) : b[i + 1] = rest[i]
    BY <2>3, OneMore
  <2> HIDE DEF b
  <2>6. Len(a) = Len(b) /\ Len(rest) \in Nat /\ Len(rest) <= Len(lines)
    BY <2>1, <2>2, <2>3, <2>4, <2>5
  <2>7. ASSUME NEW i \in 1..Len(a) PROVE a[i] = b[i]
    <3>1. CASE i = 1
      BY <2>2, <2>4, <2>5, <3>1
    <3>2. CASE i # 1
      <4>1. i - 1 \in 1..Len(rest) /\ (i - 1) + 1 = i /\ i - 1 \in 1..Len(lines)
        BY <2>1, <2>5, <2>6, <3>2
      <4>2. all[(i - 1) + 1] = lines[i - 1]
        BY <2>2, <4>1
      <4>3. b[(i - 1) + 1] = rest[i - 1] /\ rest[i - 1] = lines[i - 1]
        BY <2>3, <2>5, <4>1
      <4> QED BY <2>4, <4>1, <4>2, <4>3
    <3> QED BY <3>1, <3>2
  <2> QED BY <2>4, <2>5, <2>6, <2>7, SameLines DEF a, all, b, rest
<1> QED BY <1>1, <1>2

\* tail of one line more.
LEMMA DropNMore ==
  ASSUME NEW x \in Seq(Int), NEW lines \in Lines, NEW n \in Nat
  PROVE  /\ n > 0 => DropN(<<x>> \o lines, n) = DropN(lines, n - 1)
         /\ DropN(lines, 0) = lines /\ DropN(<<>>, n) = <<>>
<1>1. DropN(lines, 0) = lines /\ DropN(<<>>, n) = <<>>
  <2>1. Len(lines) \in Nat /\ <<>> \in Lines /\ Len(<<>>) = 0
    BY NoLines
  <2>2. /\ DropN(lines, 0) \in Lines /\ Len(DropN(lines, 0)) = Len(lines)
        /\ \A i \in 1..Len(lines) : DropN(lines, 0)[i] = lines[i]
    BY <2>1, DropNLines
  <2>3. DropN(<<>>, n) \in Lines /\ Len(DropN(<<>>, n)) = 0
    BY <2>1, DropNLines
  <2> QED BY <2>2, <2>3, NoLines, SameLines
<1>2. ASSUME n > 0 PROVE DropN(<<x>> \o lines, n) = DropN(lines, n - 1)
  <2> DEFINE all == <<x>> \o lines
             a == DropN(all, n)
             b == DropN(lines, n - 1)
  <2>1. n - 1 \in Nat /\ Len(lines) \in Nat
    BY <1>2, NoLines
  <2>2. /\ all \in Lines /\ Len(all) = Len(lines) + 1
        /\ \A i \in 1..Len(lines) : all[i + 1] = lines[i]
    BY OneMore
  <2> HIDE DEF all
  <2>3. /\ a \in Lines /\ Len(a) = IF n <= Len(all) THEN Len(all) - n ELSE 0
        /\ \A i \in 1..Len(a) : a[i] = all[n + i]
    BY <2>2, DropNLines
  <2>4. /\ b \in Lines /\ Len(b) = IF n - 1 <= Len(lines) THEN Len(lines) - (n - 1) ELSE 0
        /\ \A i \in 1..Len(b) : b[i] = lines[n - 1 + i]
    BY <2>1, DropNLines
  <2> HIDE DEF a, b
  <2>5. Len(a) = Len(b)
    BY <2>1, <2>2, <2>3, <2>4
  <2>6. ASSUME NEW i \in 1..Len(a) PROVE a[i] = b[i]
    <3>1. n - 1 + i \in 1..Len(lines) /\ (n - 1 + i) + 1 = n + i
      BY <1>2, <2>1, <2>2, <2>3
    <3> QED BY <2>2, <2>3, <2>4, <2>5, <3>1
  <2> QED BY <2>3, <2>4, <2>5, <2>6, SameLines DEF a, all, b
<1> QED BY <1>1, <1>2

-----------------------------------------------------------------------------
(* iota. *)

Iotas == [f : {"iota"}, n : Int, e : Int, d : Int]
More(c) == (c.d > 0 /\ c.n <= c.e) \/ (c.d < 0 /\ c.n >= c.e)
Size(c) == IF c.d > 0 /\ c.n <= c.e THEN (c.e - c.n) \div c.d + 1
           ELSE IF c.d < 0 /\ c.n >= c.e THEN (c.n - c.e) \div (-c.d) + 1 ELSE 0

\* Division, one step down.
LEMMA DivNext ==
  ASSUME NEW a \in Nat, NEW d \in Int, d > 0
  PROVE  a \div d \in Nat /\ (a - d) \div d = a \div d - 1 /\ (a < d => a \div d = 0)
<1>1. a \div d \in Nat
  OBVIOUS
<1>2. (a - d) \div d = a \div d - 1
  OBVIOUS
<1>3. a < d => a \div d = 0
  OBVIOUS
<1> QED BY <1>1, <1>2, <1>3

\* What iota counts is a number, and what it counts from the next number on.
LEMMA SizeMore ==
  ASSUME NEW c \in Iotas, NEW n, n = c.n + c.d, NEW b, b = [c EXCEPT !.n = n]
  PROVE  /\ b \in Iotas /\ Size(c) \in Nat
         /\ Size(c) = IF More(c) THEN Size(b) + 1 ELSE 0
<1>1. c.n \in Int /\ c.e \in Int /\ c.d \in Int
  BY DEF Iotas
<1>2. b \in Iotas /\ b.n = c.n + c.d /\ b.e = c.e /\ b.d = c.d
  BY <1>1 DEF Iotas
<1>3. PICK p, q, d \in Int : p = c.n /\ q = c.e /\ d = c.d
  BY <1>1
<1>4. CASE d > 0 /\ p <= q
  <2>1. Size(c) = (q - p) \div d + 1 /\ More(c)
    BY <1>3, <1>4 DEF Size, More
  <2>2. Size(b) = IF p + d <= q THEN (q - (p + d)) \div d + 1 ELSE 0
    BY <1>2, <1>3, <1>4 DEF Size
  <2>3. PICK a \in Nat : a = q - p
    BY <1>4
  <2>4. a - d = q - (p + d) /\ (p + d <= q <=> ~(a < d))
    BY <1>4, <2>3
  <2>5. a \div d \in Nat /\ (a - d) \div d = a \div d - 1 /\ (a < d => a \div d = 0)
    BY <1>4, DivNext
  <2>6. Size(c) = a \div d + 1 /\ Size(b) = IF a < d THEN 0 ELSE (a - d) \div d + 1
    BY <2>1, <2>2, <2>3, <2>4
  <2>7. PICK m \in Nat : m = a \div d /\ m - 1 = (a - d) \div d /\ (a < d => m = 0)
    BY <2>5
  <2>8. Size(c) = m + 1 /\ Size(b) = IF a < d THEN 0 ELSE (m - 1) + 1
    BY ONLY <2>6, <2>7
  <2>9. Size(c) = Size(b) + 1 /\ Size(c) \in Nat
    BY <2>7, <2>8
  <2> QED BY <1>2, <2>1, <2>9
<1>5. CASE d < 0 /\ p >= q
  <2>1. Size(c) = (p - q) \div (-d) + 1 /\ More(c)
    BY <1>3, <1>5 DEF Size, More
  <2>2. Size(b) = IF p + d >= q THEN ((p + d) - q) \div (-d) + 1 ELSE 0
    BY <1>2, <1>3, <1>5 DEF Size
  <2>3. PICK a \in Nat : a = p - q
    BY <1>5
  <2>4. PICK k \in Int : k = -d
    OBVIOUS
  <2>5. a - k = (p + d) - q /\ (p + d >= q <=> ~(a < k)) /\ k > 0
    BY <1>5, <2>3, <2>4
  <2>6. a \div k \in Nat /\ (a - k) \div k = a \div k - 1 /\ (a < k => a \div k = 0)
    BY <2>5, DivNext
  <2>7. Size(c) = a \div k + 1 /\ Size(b) = IF a < k THEN 0 ELSE (a - k) \div k + 1
    BY <2>1, <2>2, <2>3, <2>4, <2>5
  <2>8. PICK m \in Nat : m = a \div k /\ m - 1 = (a - k) \div k /\ (a < k => m = 0)
    BY <2>6
  <2>9. Size(c) = m + 1 /\ Size(b) = IF a < k THEN 0 ELSE (m - 1) + 1
    BY ONLY <2>7, <2>8
  <2>10. Size(c) = Size(b) + 1 /\ Size(c) \in Nat
    BY <2>8, <2>9
  <2> QED BY <1>2, <2>1, <2>10
<1>6. CASE ~(d > 0 /\ p <= q) /\ ~(d < 0 /\ p >= q)
  <2>1. Size(c) = 0 /\ ~More(c)
    BY <1>3, <1>6 DEF Size, More
  <2> QED BY <1>2, <2>1
<1> QED BY <1>4, <1>5, <1>6

\* iota counts as many lines as there are steps between its ends.
\* A function on the places up to m is a sequence of length m.
LEMMA PlacedSeq ==
  ASSUME NEW S, NEW m \in Nat, NEW list \in [1..m -> S]
  PROVE  list \in Seq(S) /\ Len(list) = m
<1>1. list \in Seq(S)
  BY SeqDef
<1>2. PICK k \in Nat : k = Len(list) /\ DOMAIN list = 1..k
  BY <1>1, LenProperties
<1>3. DOMAIN list = 1..m
  OBVIOUS
<1>4. \A i \in Int : i \in 1..k <=> i \in 1..m
  BY ONLY <1>2, <1>3, Zenon
<1>5. k = m
  <2>1. CASE k < m
    BY <1>4, <2>1, m \in Int
  <2>2. CASE m < k
    BY <1>4, <2>2, k \in Int
  <2> QED BY <2>1, <2>2
<1> QED BY <1>1, <1>2, <1>5

\* iota's count, as lines.
LEMMA CountedLines ==
  ASSUME NEW c \in Iotas
  PROVE  /\ Counted(c) \in Lines /\ Len(Counted(c)) = Size(c) /\ Size(c) \in Nat
         /\ \A i \in 1..Size(c) : Counted(c)[i] = <<c.n + (i - 1) * c.d>>
<1>1. Size(c) \in Nat
  BY SizeMore
<1>2. Counted(c) = [i \in 1..Size(c) |-> <<c.n + (i - 1) * c.d>>]
  BY DEF Counted, Size
<1>3. PICK m \in Nat : m = Size(c)
  BY <1>1
<1>4. ASSUME NEW i \in 1..m PROVE <<c.n + (i - 1) * c.d>> \in Seq(Int)
  <2>1. c.n + (i - 1) * c.d \in Int
    BY DEF Iotas
  <2> QED BY <2>1
<1> DEFINE list == [i \in 1..m |-> <<c.n + (i - 1) * c.d>>]
<1>5. list \in [1..m -> Seq(Int)]
  BY <1>4
<1>6. \A i \in 1..m : list[i] = <<c.n + (i - 1) * c.d>>
  OBVIOUS
<1>7. Counted(c) = list
  BY <1>2, <1>3
<1> HIDE DEF list
<1>8. list \in Seq(Seq(Int)) /\ Len(list) = m
  <2>1. PICK S : S = Seq(Int)
    OBVIOUS
  <2>2. m \in Nat /\ list \in [1..m -> S]
    BY <1>5, <2>1, Zenon
  <2>3. list \in Seq(S) /\ Len(list) = m
    BY ONLY <2>2, PlacedSeq, Zenon
  <2> QED BY ONLY <2>1, <2>3, Zenon
<1> QED BY <1>3, <1>6, <1>7, <1>8 DEF Lines

\* iota's next number, and what follows it.
LEMMA CountedMore ==
  ASSUME NEW c \in Iotas, NEW n, n = c.n + c.d, NEW b, b = [c EXCEPT !.n = n]
  PROVE  /\ More(c) => Counted(c) = <<<<c.n>>>> \o Counted(b) /\ <<c.n>> \in Seq(Int)
         /\ ~More(c) => Counted(c) = <<>>
         /\ b \in Iotas /\ Counted(b) \in Lines
<1>1. b \in Iotas /\ Size(c) \in Nat /\ Size(c) = IF More(c) THEN Size(b) + 1 ELSE 0
  BY SizeMore
<1>2. /\ Counted(c) \in Lines /\ Len(Counted(c)) = Size(c)
      /\ \A i \in 1..Size(c) : Counted(c)[i] = <<c.n + (i - 1) * c.d>>
  BY CountedLines
<1>3. /\ Counted(b) \in Lines /\ Len(Counted(b)) = Size(b) /\ Size(b) \in Nat
      /\ \A i \in 1..Size(b) : Counted(b)[i] = <<b.n + (i - 1) * b.d>>
  BY <1>1, CountedLines
<1>4. ~More(c) => Counted(c) = <<>>
  BY <1>1, <1>2, NoLines
<1>5. c.n \in Int /\ c.d \in Int /\ b.n = c.n + c.d /\ b.d = c.d /\ <<c.n>> \in Seq(Int)
  BY DEF Iotas
<1>6. ASSUME More(c) PROVE Counted(c) = <<<<c.n>>>> \o Counted(b)
  <2>1. PICK x \in Seq(Int) : x = <<c.n>>
    BY <1>5
  <2>2. PICK a \in Lines : a = <<x>> \o Counted(b)
    BY <1>3, OneMore
  <2>3. /\ Len(a) = Len(Counted(b)) + 1 /\ a[1] = x
        /\ \A i \in 1..Len(Counted(b)) : a[i + 1] = Counted(b)[i]
    BY <1>3, <2>2, OneMore
  <2>4. Len(a) = Size(c) /\ Size(c) = Size(b) + 1
    BY <1>1, <1>3, <1>6, <2>3
  <2>5. ASSUME NEW i \in 1..Size(c) PROVE a[i] = Counted(c)[i]
    <3>1. Counted(c)[i] = <<c.n + (i - 1) * c.d>>
      BY <1>2
    <3>2. CASE i = 1
      <4>1. c.n + (i - 1) * c.d = c.n
        BY <1>5, <3>2
      <4> QED BY <2>1, <2>3, <3>1, <3>2, <4>1
    <3>3. CASE i # 1
      <4>1. PICK j \in 1..Size(b) : j + 1 = i
        <5>1. i - 1 \in 1..Size(b) /\ (i - 1) + 1 = i
          BY <1>1, <1>3, <2>4, <3>3
        <5> QED BY <5>1
      <4>2. a[i] = <<b.n + (j - 1) * b.d>>
        BY <1>3, <2>3, <4>1
      <4>3. b.n + (j - 1) * b.d = c.n + (i - 1) * c.d
        <5>1. PICK p, d, k \in Int : p = c.n /\ d = c.d /\ k = j
          BY <1>3, <1>5
        <5>2. (p + d) + (k - 1) * d = p + ((k + 1) - 1) * d
          OBVIOUS
        <5> QED BY <1>5, <4>1, <5>1, <5>2
      <4> QED BY <3>1, <4>2, <4>3
    <3> QED BY <3>2, <3>3
  <2> QED BY <1>2, <2>1, <2>2, <2>4, <2>5, SameLines
<1> QED BY <1>1, <1>3, <1>4, <1>5, <1>6


-----------------------------------------------------------------------------
(* What flows out of a command from now on, if `lines` flow into it; wc is over   *)
(* once it has reported.                                                          *)

Yields(s, over, lines) ==
  CASE s.f = "iota" -> Counted([s EXCEPT !.n = @ + s.d])
    [] s.f = "grep" -> Selected(lines, s.digit)
    [] s.f = "head" -> IF s.n > 0 THEN FirstN(lines, s.n) ELSE <<>>
    [] s.f = "skip" -> IF s.e < 0 THEN DropN(lines, -s.e) ELSE lines
    [] s.f = "wc"   -> IF over THEN <<>>
                       ELSE LET sum == Totals(lines)
                            IN  <<<<s.ln + sum[1], s.wn + sum[2], s.cn + sum[3]>>>>
    [] s.f = "terminal" -> <<>>
    [] OTHER -> lines

\* Commands turn lines into lines.
LEMMA MeaningLines ==
  ASSUME NEW c \in Command, NEW lines \in Lines
  PROVE  Meaning(c, lines) \in Lines
<1>0. Len(lines) \in Nat /\ <<>> \in Lines
  BY NoLines
<1>1. CASE c.f = "iota"
  <2>1. c \in Iotas
    BY <1>1 DEF Command, Iotas
  <2> QED BY <1>1, <2>1, CountedLines DEF Meaning
<1>2. CASE c.f = "grep"
  BY <1>2, SelectedLines DEF Meaning
<1>3. CASE c.f = "head"
  <2>1. c.arg \in Int
    BY <1>3 DEF Command
  <2>2. Max({0, -c.arg}) \in Nat
    <3>1. PICK a \in Int : a = -c.arg
      BY <2>1
    <3>2. Max({0, a}) = IF 0 <= a THEN a ELSE 0
      BY MaxOf
    <3> QED BY <3>1, <3>2
  <2> QED BY <1>3, <2>2, FirstNLines DEF Meaning
<1>4. CASE c.f = "tail"
  <2>1. c.arg \in Int
    BY <1>4 DEF Command
  <2>2. c.arg >= 0 => DropN(lines, c.arg) \in Lines
    BY <2>1, DropNLines
  <2>3. Max({0, Len(lines) + c.arg}) \in Nat
    <3>1. PICK a \in Int : a = Len(lines) + c.arg
      BY <1>0, <2>1
    <3>2. Max({0, a}) = IF 0 <= a THEN a ELSE 0
      BY MaxOf
    <3> QED BY <3>1, <3>2
  <2>4. DropN(lines, Max({0, Len(lines) + c.arg})) \in Lines
    BY <2>3, DropNLines
  <2> QED BY <1>4, <2>1, <2>2, <2>4 DEF Meaning
<1>5. CASE c.f = "wc"
  <2>1. Totals(lines) \in Sum
    BY NoTotals
  <2>2. Totals(lines) \in Seq(Int)
    <3>1. PICK p, q, r \in Int : Totals(lines) = <<p, q, r>>
      BY <2>1 DEF Sum
    <3>2. <<p, q, r>> \in Seq(Int)
      OBVIOUS
    <3> QED BY <3>1, <3>2
  <2> QED BY <1>5, <2>2 DEF Meaning, Lines
<1>6. CASE c.f \in {"cat", "teeterminal", "terminal"}
  BY <1>0, <1>6 DEF Meaning
<1>7. c.f \in {"iota", "grep", "head", "tail", "wc", "cat", "teeterminal", "terminal"}
  BY DEF Command
<1> QED BY <1>1, <1>2, <1>3, <1>4, <1>5, <1>6, <1>7

\* What a command line means, command by command.
LEMMA FlowSteps ==
  ASSUME NEW c \in Seq(Command)
  PROVE  \E f \in [0..Len(c) -> Lines] :
           /\ f[0] = <<>>
           /\ \A n \in 1..Len(c) : f[n] = Meaning(c[n], f[n - 1])
           /\ Flow(c) = f
<1> DEFINE m == Len(c)
           step == [p \in (1..m) \X Lines |-> Meaning(c[p[1]], p[2])]
           Is(g) == g = [n \in 0..m |-> IF n = 0 THEN <<>> ELSE Meaning(c[n], g[n - 1])]
           f == CHOOSE g : Is(g)
<1>1. m \in Nat /\ <<>> \in Lines /\ \A n \in 1..m : c[n] \in Command
  BY NoLines
<1>2. step \in [(1..m) \X Lines -> Lines]
  <2>1. ASSUME NEW n \in 1..m, NEW v \in Lines PROVE Meaning(c[n], v) \in Lines
    <3>1. c[n] \in Command
      BY <1>1
    <3> QED BY <3>1, MeaningLines
  <2> QED BY <2>1
<1>3. \A n \in 1..m, v \in Lines : step[<<n, v>>] = Meaning(c[n], v)
  OBVIOUS
<1> HIDE DEF m, step
<1>4. PICK g \in [0..m -> Lines] : Grown(m, <<>>, step, g)
  BY <1>1, <1>2, Recursion
<1>5. Is(g)
  <2>1. \A n \in 1..m : g[n - 1] \in Lines
    BY <1>1, <1>4
  <2>2. ASSUME NEW n \in 0..m
        PROVE  g[n] = IF n = 0 THEN <<>> ELSE Meaning(c[n], g[n - 1])
    <3>1. n = 0 \/ n \in 1..m
      BY <1>1
    <3>2. CASE n = 0
      BY <1>4, <3>2 DEF Grown
    <3>3. CASE n \in 1..m
      <4>1. g[n] = step[<<n, g[n - 1]>>] /\ n # 0
        BY <1>4, <3>3 DEF Grown
      <4> QED BY <1>3, <2>1, <3>3, <4>1
    <3> QED BY <3>1, <3>2, <3>3
  <2> QED BY <1>4, <2>2
<1>6. Is(f)
  BY <1>5
<1>7. Flow(c) = f
  BY DEF Flow, m
<1> HIDE DEF f
<1>8. f[0] = <<>> /\ \A n \in 1..m : f[n] = Meaning(c[n], f[n - 1])
  <2>1. 0 \in 0..m /\ \A n \in 1..m : n \in 0..m /\ n # 0
    BY <1>1
  <2>2. f[0] = <<>>
    BY <1>6, <2>1
  <2>3. ASSUME NEW n \in 1..m
        PROVE  f[n] = Meaning(c[n], f[n - 1])
    BY <1>6, <2>1
  <2> QED BY <2>2, <2>3
<1>9. \A n \in 0..m : f[n] \in Lines
  <2>1. \A n \in 1..m : f[n - 1] \in Lines => f[n] = step[<<n, f[n - 1]>>]
    BY <1>3, <1>8
  <2>2. f[0] \in Lines
    BY <1>1, <1>8
  <2>3. m \in Nat
    BY <1>1
  <2> QED BY ONLY <1>2, <2>1, <2>2, <2>3, Typed
<1>10. f \in [0..m -> Lines]
  BY <1>6, <1>9
<1> QED BY <1>7, <1>8, <1>10 DEF m

\* So does a command line, after each of its commands.
LEMMA FlowLines ==
  ASSUME NEW c \in Seq(Command)
  PROVE  /\ Flow(c) \in [0..Len(c) -> Lines] /\ Flow(c)[0] = <<>>
         /\ \A i \in 1..Len(c) : Flow(c)[i] = Meaning(c[i], Flow(c)[i - 1])
BY FlowSteps

-----------------------------------------------------------------------------
(* One command asked: what it answers, and what will still flow out of it.       *)

Items == {Request, End} \cup {Text(w) : w \in Seq(Int)}
Texts(x) == IF x.is = "text" THEN <<x.text>> ELSE <<>>

\* What is in flight is one of three things.
LEMMA Item ==
  ASSUME NEW x \in Items
  PROVE  \/ x = Request /\ x # End /\ x.is # "text" /\ Texts(x) = <<>>
         \/ x = End /\ x # Request /\ x.is # "text" /\ Texts(x) = <<>>
         \/ /\ x.is = "text" /\ x # Request /\ x # End /\ x.text \in Seq(Int) /\ x = Text(x.text)
            /\ Texts(x) = <<x.text>>
<1>1. Request.is = "request" /\ End.is = "end"
  BY DEF Request, End
<1>2. CASE x = Request
  BY <1>1, <1>2 DEF Texts
<1>3. CASE x = End
  BY <1>1, <1>3 DEF Texts
<1>4. CASE x # Request /\ x # End
  <2>1. PICK w \in Seq(Int) : x = Text(w)
    BY <1>4 DEF Items
  <2>2. x.is = "text" /\ x.text = w
    BY <2>1 DEF Text
  <2> QED BY <1>4, <2>1, <2>2 DEF Texts
<1> QED BY <1>2, <1>3, <1>4

LEMMA ItemsAre ==
  /\ Request \in Items /\ End \in Items /\ Request # End
  /\ Texts(Request) = <<>> /\ Texts(End) = <<>> /\ Request.is # "text" /\ End.is # "text"
  /\ \A w \in Seq(Int) : /\ Text(w) \in Items /\ Text(w).is = "text" /\ Text(w).text = w
                         /\ Text(w) # Request /\ Text(w) # End /\ Texts(Text(w)) = <<w>>
<1>1. Request \in Items /\ End \in Items /\ \A w \in Seq(Int) : Text(w) \in Items
  BY DEF Items
<1>2. Request.is = "request" /\ End.is = "end" /\ \A w : Text(w).is = "text" /\ Text(w).text = w
  BY DEF Request, End, Text
<1> QED BY <1>1, <1>2 DEF Texts

\* What is asked of a command that is no tail, and when its counters fit.
Asked(s, x, rest) ==
  /\ s \in State /\ s.f # "tail" /\ x \in Items /\ rest \in Lines
  /\ x = End => rest = <<>>
  /\ s.f = "iota" => Fits(s.n + s.d)
  /\ s.f = "skip" => Fits(s.e + 1) /\ (x = Request => s.e >= 0)

\* It answers with the first line that it yields, if it has one yet.
Serves(s, x, rest, a) ==
  /\ a.state \in State /\ a.state.f = s.f /\ a.line \in Items
  /\ Yields(a.state, a.line # Request, rest) \in Lines
  /\ Yields(s, x = Request, Texts(x) \o rest)
       = Texts(a.line) \o Yields(a.state, a.line # Request, rest)
  /\ a.line = End => Yields(a.state, a.line # Request, rest) = <<>>

\* How it is moved by what it is given.
Behaves(s, x, a) ==
  /\ s.f = "iota" => a.state.n = s.n + s.d /\ a.state.d = s.d
  /\ s.f = "skip" => a.state.e = s.e + 1 /\ a.line = IF s.e >= 0 THEN x ELSE Request
  /\ s.f = "terminal" => a.line.is # "text" /\ (a.line = End => x = End)
  /\ a.line.is = "text" => x.is = "text" \/ Source(s)
  /\ a.line = Request => \/ x.is = "text" /\ s.f # "iota"
                         \/ x = Request /\ ~Source(s)
                         \/ x = End /\ s.f = "skip" /\ s.e < 0

LEMMA Bounds == MinInt \in Int /\ MaxInt \in Int
BY DEF MinInt, MaxInt

LEMMA FitsIs == \A n : Fits(n) <=> n \in Int /\ MinInt <= n /\ n <= MaxInt
<1>1. PICK a, b \in Int : a = MinInt /\ b = MaxInt
  BY Bounds
<1>2. \A n : n \in a..b <=> n \in Int /\ a <= n /\ n <= b
  OBVIOUS
<1> QED BY <1>1, <1>2 DEF Fits

LEMMA Mod == ASSUME NEW k \in Int, NEW m \in Int, 0 <= k, k < m PROVE k % m = k
OBVIOUS

\* A number that fits is not changed by the 16 bits it is kept in.
LEMMA Int16Fits == \A n : Fits(n) => n \in Int /\ Int16(n) = n
<1>1. ASSUME NEW n, Fits(n) PROVE n \in Int /\ Int16(n) = n
  <2>1. n \in Int /\ MinInt <= n /\ n <= MaxInt
    BY <1>1, FitsIs
  <2>2. PICK w, m \in Int : w = 32768 /\ m = 65536
    OBVIOUS
  <2>3. MinInt = -w /\ MaxInt = w - 1 /\ m = w + w
    BY <2>2 DEF MinInt, MaxInt
  <2>4. PICK k \in Int : k = n + w
    BY <2>1
  <2>5. 0 <= k /\ k < m /\ n = k - w
    BY <2>1, <2>2, <2>3, <2>4
  <2>6. k % m = k
    BY <2>5, Mod
  <2>7. Int16(n) = ((n + w) % m) - w
    BY <2>2 DEF Int16
  <2> QED BY <2>1, <2>4, <2>5, <2>6, <2>7
<1> QED BY <1>1

\* iota, which makes the lines it answers with.
LEMMA CountServes ==
  ASSUME NEW s, NEW x, NEW rest, Asked(s, x, rest), s.f = "iota"
  PROVE  Serves(s, x, rest, Does(s, x)) /\ Behaves(s, x, Does(s, x))
<1> DEFINE n == s.n + s.d
           b == [s EXCEPT !.n = n]
           next == [b EXCEPT !.n = n + s.d]
           a == Does(s, x)
<1>1. s \in Iotas /\ s.d \in Int /\ s.n \in Int /\ n \in Int
  BY DEF Asked, State, Iotas
<1>2. b \in Iotas /\ b.n = n /\ b.d = s.d /\ b.e = s.e /\ b.f = "iota" /\ b \in State
  BY <1>1 DEF Iotas, State
<1>3. a = Answer(b, IF More(b) THEN Text(<<n>>) ELSE End)
  BY <1>2, Int16Fits DEF Does, Count, Asked, More
<1>4. Yields(s, x = Request, Texts(x) \o rest) = Counted(b)
  BY <1>1 DEF Yields
<1>5. \A over : Yields(b, over, rest) = Counted(next)
  <2>1. [b EXCEPT !.n = @ + b.d] = next
    BY <1>2
  <2> QED BY <1>2, <2>1 DEF Yields
<1> HIDE DEF b
<1>6. /\ More(b) => Counted(b) = <<<<n>>>> \o Counted(next) /\ <<n>> \in Seq(Int)
      /\ ~More(b) => Counted(b) = <<>>
      /\ next \in Iotas /\ Counted(next) \in Lines
  <2>1. n + s.d = b.n + b.d
    BY <1>2
  <2> QED BY <1>2, <2>1, CountedMore
<1>7. a.state = b /\ a.line = IF More(b) THEN Text(<<n>>) ELSE End
  BY <1>3 DEF Answer
<1>8. CASE More(b)
  <2>1. a.line = Text(<<n>>) /\ Texts(a.line) = <<<<n>>>> /\ a.line \in Items /\ a.line # Request /\ a.line # End
    BY <1>6, <1>7, <1>8, ItemsAre
  <2>2. Serves(s, x, rest, a)
    BY <1>2, <1>4, <1>5, <1>6, <1>7, <1>8, <2>1 DEF Serves
  <2> QED BY <1>2, <1>7, <2>1, <2>2 DEF Behaves, Source
<1>9. CASE ~More(b)
  <2>1. a.line = End /\ Texts(a.line) = <<>> /\ a.line \in Items /\ a.line # Request /\ a.line.is # "text"
    BY <1>7, <1>9, ItemsAre
  <2>2. Counted(next) = <<>>
    <3>1. PICK p, q, d \in Int : p = n /\ q = b.e /\ d = s.d
      BY <1>1, <1>2 DEF Iotas
    <3>2. next.n = p + d /\ next.e = q /\ next.d = d
      BY <1>2, <3>1 DEF Iotas
    <3>3. ~More(next)
      BY <1>2, <1>9, <3>1, <3>2 DEF More
    <3> QED BY <1>6, <3>3, CountedMore
  <2>3. <<>> \o <<>> = <<>>
    BY NoLines
  <2>4. Serves(s, x, rest, a)
    BY <1>2, <1>4, <1>5, <1>6, <1>7, <1>9, <2>1, <2>2, <2>3 DEF Serves
  <2> QED BY <1>2, <1>7, <2>1, <2>4 DEF Behaves, Source
<1> QED BY <1>8, <1>9

\* grep, which passes a line on or asks for another.
LEMMA SelectServes ==
  ASSUME NEW s, NEW x, NEW rest, Asked(s, x, rest), s.f = "grep"
  PROVE  Serves(s, x, rest, Does(s, x)) /\ Behaves(s, x, Does(s, x))
<1> DEFINE a == Does(s, x)
           over == Selected(rest, s.digit)
<1>1. s \in State /\ x \in Items /\ rest \in Lines /\ ~Source(s)
  BY DEF Asked, Source
<1>2. a.state = s /\ a.line = IF x.is = "text" /\ ~Matches(x.text, s.digit) THEN Request ELSE x
  BY DEF Does, Select, Answer
<1>3. \A b, lines : Yields(s, b, lines) = Selected(lines, s.digit)
  BY DEF Yields
<1>4. over \in Lines /\ (rest = <<>> => over = <<>>)
  BY <1>1, SelectedLines
<1>5. CASE x.is = "text"
  <2>1. /\ x.text \in Seq(Int) /\ Texts(x) = <<x.text>> /\ x # End /\ x # Request
    BY <1>1, <1>5, Item
  <2>2. Selected(<<x.text>> \o rest, s.digit)
          = IF Matches(x.text, s.digit) THEN <<x.text>> \o over ELSE over
    BY <1>1, <2>1, SelectedMore
  <2>3. <<>> \o over = over
    BY <1>4, NoLines
  <2> HIDE DEF over
  <2>4. Yields(s, x = Request, Texts(x) \o rest)
          = IF Matches(x.text, s.digit) THEN <<x.text>> \o over ELSE over
    BY <1>3, <2>1, <2>2
  <2>5. /\ Yields(a.state, a.line # Request, rest) = over
        /\ a.state \in State /\ a.state.f = s.f /\ a.line \in Items /\ a.line # End
    BY <1>1, <1>2, <1>3, <2>1, ItemsAre DEF over
  <2>6. Texts(a.line) = IF Matches(x.text, s.digit) THEN <<x.text>> ELSE <<>>
    BY <1>2, <1>5, <2>1, ItemsAre
  <2>7. Serves(s, x, rest, a)
    BY <1>4, <2>3, <2>4, <2>5, <2>6 DEF Serves
  <2> QED BY <1>1, <1>2, <1>5, <2>1, <2>7, ItemsAre DEF Behaves, Source
<1>6. CASE x.is # "text"
  <2>1. a.line = x /\ Texts(x) = <<>> /\ <<>> \o rest = rest /\ <<>> \o over = over
    BY <1>1, <1>2, <1>4, <1>6, Item, NoLines
  <2>2. x = End => over = <<>>
    BY <1>4 DEF Asked
  <2> HIDE DEF over
  <2>3. /\ Yields(a.state, a.line # Request, rest) = over
        /\ Yields(s, x = Request, Texts(x) \o rest) = over
    BY <1>2, <1>3, <2>1 DEF over
  <2>4. Serves(s, x, rest, a)
    BY <1>1, <1>2, <1>4, <2>1, <2>2, <2>3 DEF Serves
  <2> QED BY <1>1, <1>2, <1>6, <2>1, <2>4 DEF Behaves, Source
<1> QED BY <1>5, <1>6

\* head, which passes a line on or ends them.
LEMMA BeginningServes ==
  ASSUME NEW s, NEW x, NEW rest, Asked(s, x, rest), s.f = "head"
  PROVE  Serves(s, x, rest, Does(s, x)) /\ Behaves(s, x, Does(s, x))
<1> DEFINE a == Does(s, x)
           b == [s EXCEPT !.n = @ - 1]
<1>1. /\ s \in State /\ s \in [f : {"head"}, n : Int] /\ x \in Items /\ rest \in Lines /\ ~Source(s)
      /\ <<>> \in Lines /\ <<>> \o <<>> = <<>>
  BY NoLines DEF Asked, Source, State
<1>2. PICK n \in Int : n = s.n
  BY <1>1
<1>3. b \in State /\ b.f = "head" /\ b.n = n - 1
  BY <1>1, <1>2 DEF State
<1>4. \A over, lines : /\ Yields(s, over, lines) = IF n > 0 THEN FirstN(lines, n) ELSE <<>>
                       /\ Yields(b, over, lines) = IF n - 1 > 0 THEN FirstN(lines, n - 1) ELSE <<>>
  BY <1>2, <1>3 DEF Yields
<1> HIDE DEF b
<1>5. CASE x.is = "text"
  <2>1. /\ x.text \in Seq(Int) /\ Texts(x) = <<x.text>> /\ x # End /\ x # Request
    BY <1>1, <1>5, Item
  <2>2. a.state = b /\ a.line = IF n > 0 THEN x ELSE End
    BY <1>2, <1>5 DEF Does, Beginning, Answer, b
  <2>3. CASE n > 0
    <3>1. n \in Nat /\ n - 1 \in Nat
      BY <2>3
    <3>2. /\ FirstN(<<x.text>> \o rest, n) = <<x.text>> \o FirstN(rest, n - 1)
          /\ FirstN(rest, 0) = <<>> /\ FirstN(rest, n - 1) \in Lines
      <4>1. FirstN(<<x.text>> \o rest, n) = <<x.text>> \o FirstN(rest, n - 1)
        BY <1>1, <2>1, <2>3, <3>1, FirstNMore
      <4>2. FirstN(rest, 0) = <<>>
        <5>1. FirstN(rest, 0) \in Lines /\ Len(FirstN(rest, 0)) = 0
          BY <1>1, NoLines, FirstNLines
        <5> QED BY ONLY <5>1, NoLines
      <4>3. FirstN(rest, n - 1) \in Lines
        BY <1>1, <3>1, FirstNLines
      <4> QED BY ONLY <4>1, <4>2, <4>3
    <3>3. Yields(b, TRUE, rest) = FirstN(rest, n - 1) /\ Yields(s, FALSE, Texts(x) \o rest) = <<x.text>> \o FirstN(rest, n - 1)
      <4>1. n - 1 > 0 \/ n - 1 = 0
        BY <3>1
      <4> QED BY <1>4, <2>1, <2>3, <3>2, <4>1
    <3>4. a.line = x
      BY <2>2, <2>3
    <3>5. (x = Request) = FALSE /\ (a.line # Request) = TRUE
      BY <2>1, <3>4
    <3>6. Serves(s, x, rest, a)
      BY <1>1, <1>3, <2>1, <2>2, <3>2, <3>3, <3>4, <3>5 DEF Serves
    <3>7. s.f # "iota" /\ s.f # "skip" /\ s.f # "terminal"
      OBVIOUS
    <3> QED BY ONLY <1>5, <3>4, <3>6, <3>7, Zenon DEF Behaves
  <2>4. CASE ~(n > 0)
    <3>1. ~(n - 1 > 0)
      BY <2>4
    <3>2. a.line = End /\ a.line \in Items /\ a.line # Request /\ Texts(a.line) = <<>> /\ a.line.is # "text"
      BY <2>2, <2>4, ItemsAre
    <3>3. \A over, lines : Yields(s, over, lines) = <<>> /\ Yields(b, over, lines) = <<>>
      BY <1>4, <2>4, <3>1
    <3>4. Serves(s, x, rest, a)
      <4> DEFINE left == Yields(a.state, a.line # Request, rest)
      <4>1. left = <<>> /\ Yields(s, x = Request, Texts(x) \o rest) = <<>>
        <5>1. \A over : Yields(a.state, over, rest) = <<>>
          BY <2>2, <3>3, Zenon
        <5> QED BY <3>3, <5>1, Zenon
      <4>2. a.state \in State /\ a.state.f = s.f /\ left \in Lines /\ Texts(a.line) \o left = <<>>
        BY <1>1, <1>3, <2>2, <3>2, <4>1
      <4> QED BY ONLY <3>2, <4>1, <4>2, Zenon DEF Serves
    <3>5. s.f # "iota" /\ s.f # "skip" /\ s.f # "terminal"
      OBVIOUS
    <3> QED BY ONLY <1>5, <3>2, <3>4, <3>5, Zenon DEF Behaves
  <2> QED BY <2>3, <2>4
<1>6. CASE x.is # "text"
  <2>1. a.state = s /\ a.line = x /\ Texts(x) = <<>> /\ <<>> \o rest = rest
    BY <1>1, <1>6, Item, NoLines DEF Does, Beginning, Answer
  <2>2. PICK y \in Lines : \A over : Yields(s, over, rest) = y
    <3>1. n > 0 => FirstN(rest, n) \in Lines
      BY <1>1, FirstNLines
    <3> QED BY <1>1, <1>4, <3>1
  <2>3. x = End => y = <<>>
    <3>1. ASSUME n > 0 PROVE FirstN(<<>>, n) = <<>>
      <4>1. n \in Nat /\ <<>> \in Seq(Int)
        BY <3>1
      <4> QED BY <1>1, <4>1, FirstNMore
    <3> QED BY <1>4, <2>2, <3>1 DEF Asked
  <2>4. <<>> \o y = y
    BY NoLines
  <2>5. Serves(s, x, rest, a)
    BY <1>1, <2>1, <2>2, <2>3, <2>4 DEF Serves
  <2> QED BY <1>1, <1>6, <2>1, <2>5 DEF Behaves
<1> QED BY <1>5, <1>6

\* tail, which takes ends for lines while it skips.
LEMMA RestServes ==
  ASSUME NEW s, NEW x, NEW rest, Asked(s, x, rest), s.f = "skip"
  PROVE  Serves(s, x, rest, Does(s, x)) /\ Behaves(s, x, Does(s, x))
<1> DEFINE a == Does(s, x)
           b == [s EXCEPT !.e = s.e + 1]
<1>1. /\ s \in State /\ s \in [f : {"skip"}, e : Int] /\ x \in Items /\ rest \in Lines /\ ~Source(s)
      /\ <<>> \in Lines /\ <<>> \o <<>> = <<>> /\ <<>> \o rest = rest
  BY NoLines DEF Asked, Source, State
<1>2. PICK e \in Int : e = s.e
  BY <1>1
<1>3. b \in State /\ b.f = "skip" /\ b.e = e + 1
  BY <1>1, <1>2 DEF State
<1>4. \A over, lines : /\ Yields(s, over, lines) = IF e < 0 THEN DropN(lines, -e) ELSE lines
                       /\ Yields(b, over, lines) = IF e + 1 < 0 THEN DropN(lines, -(e + 1)) ELSE lines
  BY <1>2, <1>3 DEF Yields
<1>5. a.state = b /\ a.line = IF e >= 0 THEN x ELSE Request
  <2>1. Int16(s.e + 1) = s.e + 1
    BY Int16Fits DEF Asked
  <2> QED BY <1>2, <2>1 DEF Does, Rest, Answer
<1> HIDE DEF b
<1>6. CASE e >= 0
  <2>1. \A over, lines : Yields(s, over, lines) = lines /\ Yields(b, over, lines) = lines
    BY <1>4, <1>6
  <2>2. a.line = x
    BY <1>5, <1>6
  <2>3. x = End => rest = <<>>
    BY DEF Asked
  <2>10. /\ Yields(s, x = Request, Texts(x) \o rest) = Texts(x) \o rest
         /\ Yields(a.state, a.line # Request, rest) = rest
    BY <1>5, <2>1, Zenon
  <2>4. Serves(s, x, rest, a)
    BY <1>1, <1>3, <1>5, <2>2, <2>3, <2>10 DEF Serves
  <2>5. x.is = "text" \/ x = Request \/ x = End
    BY <1>1, Item
  <2>6. x = Request \/ x = End => x.is # "text"
    BY ItemsAre
  <2>7. End # Request
    BY ItemsAre
  <2>8. x.is = "text" => x # Request
    BY ItemsAre
  <2>9. Behaves(s, x, a)
    BY <1>1, <1>2, <1>3, <1>5, <1>6, <2>2, <2>8 DEF Behaves
  <2> QED BY <2>4, <2>9
<1>7. CASE e < 0
  <2>1. PICK n \in Nat : n = -e /\ n > 0 /\ n - 1 = -(e + 1) /\ n - 1 \in Nat
    BY <1>7
  <2>2. \A over, lines : /\ Yields(s, over, lines) = DropN(lines, n)
                         /\ lines \in Lines => Yields(b, over, lines) = DropN(lines, n - 1)
    <3>1. \A lines \in Lines : DropN(lines, 0) = lines
      <4>1. ASSUME NEW lines \in Lines PROVE DropN(lines, 0) = lines
        BY <2>1, <1>1, DropNMore, ItemsAre, <<>> \in Seq(Int)
      <4> QED BY <4>1
    <3>2. e + 1 < 0 \/ n - 1 = 0
      BY <1>7, <2>1
    <3> QED BY <1>4, <1>7, <2>1, <3>1, <3>2
  <2>3. a.line = Request /\ Texts(a.line) = <<>> /\ a.line \in Items /\ a.line # End
    BY <1>2, <1>5, <1>7, ItemsAre
  <2>4. DropN(rest, n - 1) \in Lines /\ <<>> \o DropN(rest, n - 1) = DropN(rest, n - 1)
    BY <1>1, <2>1, DropNLines, NoLines
  <2>5. DropN(Texts(x) \o rest, n) = DropN(rest, n - 1)
    <3>1. x # Request
      BY <1>2, <1>7 DEF Asked
    <3>2. CASE x = End
      <4>1. Texts(x) = <<>> /\ rest = <<>>
        BY <3>2, ItemsAre DEF Asked
      <4>2. <<>> \in Seq(Int)
        OBVIOUS
      <4>3. DropN(<<>>, n) = <<>> /\ DropN(<<>>, n - 1) = <<>>
        BY <1>1, <2>1, <4>2, DropNMore
      <4> QED BY <1>1, <4>1, <4>3
    <3>3. CASE x # End
      <4>1. x.text \in Seq(Int) /\ Texts(x) = <<x.text>>
        BY <1>1, <3>1, <3>3, Item
      <4> QED BY <1>1, <2>1, <4>1, DropNMore
    <3> QED BY <3>2, <3>3
  <2>9. /\ Yields(s, x = Request, Texts(x) \o rest) = DropN(rest, n - 1)
        /\ Yields(a.state, a.line # Request, rest) = DropN(rest, n - 1)
    <3>1. Yields(s, x = Request, Texts(x) \o rest) = DropN(Texts(x) \o rest, n)
      BY <2>2, Zenon
    <3>2. Yields(b, a.line # Request, rest) = DropN(rest, n - 1)
      BY <1>1, <2>2, Zenon
    <3> QED BY <1>5, <2>5, <3>1, <3>2, Zenon
  <2>6. Serves(s, x, rest, a)
    BY <1>1, <1>3, <1>5, <2>3, <2>4, <2>9 DEF Serves
  <2>7. x.is = "text" \/ x = End
    BY <1>1, <1>2, <1>7, Item DEF Asked
  <2>8. Behaves(s, x, a)
    <3>1. a.line.is # "text"
      BY <2>3, ItemsAre
    <3> QED BY <1>1, <1>2, <1>3, <1>5, <1>7, <2>3, <2>7, <3>1 DEF Behaves
  <2> QED BY <2>6, <2>8
<1> QED BY <1>6, <1>7

\* wc, which reports at the end and only once.
LEMMA ReportServes ==
  ASSUME NEW s, NEW x, NEW rest, Asked(s, x, rest), s.f = "wc"
  PROVE  Serves(s, x, rest, Does(s, x)) /\ Behaves(s, x, Does(s, x))
<1> DEFINE a == Does(s, x)
           Said(b, lines) == <<b.ln + Totals(lines)[1], b.wn + Totals(lines)[2], b.cn + Totals(lines)[3]>>
<1>1. /\ s \in State /\ s \in [f : {"wc"}, ln : Int, wn : Int, cn : Int] /\ x \in Items /\ rest \in Lines
      /\ Source(s) /\ <<>> \in Lines /\ <<>> \o <<>> = <<>> /\ \A lines \in Lines : <<>> \o lines = lines
  BY NoLines DEF Asked, Source, State
<1>2. ASSUME NEW b, b.f = "wc", NEW lines
      PROVE  Yields(b, TRUE, lines) = <<>> /\ Yields(b, FALSE, lines) = <<Said(b, lines)>>
  BY <1>2 DEF Yields
<1>3. ASSUME NEW b \in [f : {"wc"}, ln : Int, wn : Int, cn : Int], NEW lines \in Lines
      PROVE  <<Said(b, lines)>> \in Lines
  <2>1. Totals(lines) \in Sum
    BY NoTotals
  <2>2. PICK p, q, r \in Int : p = b.ln + Totals(lines)[1] /\ q = b.wn + Totals(lines)[2]
                               /\ r = b.cn + Totals(lines)[3]
    BY <2>1 DEF Sum
  <2>3. <<p, q, r>> \in Seq(Int)
    OBVIOUS
  <2> QED BY <2>2, <2>3 DEF Lines
<1>4. CASE x.is = "text"
  <2> DEFINE b == [f |-> "wc", ln |-> s.ln + 1, wn |-> s.wn + Len(x.text), cn |-> s.cn + Chars(x.text)]
  <2>1. /\ x.text \in Seq(Int) /\ Texts(x) = <<x.text>> /\ x # End /\ x # Request
    BY <1>1, <1>4, Item
  <2>2. a.state = b /\ a.line = Request
    BY <1>4 DEF Does, Report, Answer
  <2>3. Len(x.text) \in Int /\ Chars(x.text) \in Int
    BY <2>1, CharsRange
  <2>4. b \in [f : {"wc"}, ln : Int, wn : Int, cn : Int] /\ b \in State /\ b.f = "wc"
    BY <1>1, <2>3 DEF State
  <2>5. Said(s, <<x.text>> \o rest) = Said(b, rest)
    <3> DEFINE all == Totals(<<x.text>> \o rest)
               sum == Totals(rest)
    <3>1. all = <<1 + sum[1], Len(x.text) + sum[2], Chars(x.text) + sum[3]>> /\ sum \in Sum
      BY <1>1, <2>1, TotalsMore
    <3>2. PICK p, q, r, l, w, c, m, n \in Int :
            /\ p = sum[1] /\ q = sum[2] /\ r = sum[3] /\ l = s.ln /\ w = s.wn /\ c = s.cn
            /\ m = Len(x.text) /\ n = Chars(x.text)
      BY <1>1, <2>3, <3>1 DEF Sum
    <3>3. all[1] = 1 + p /\ all[2] = m + q /\ all[3] = n + r
      <4>1. all = <<1 + p, m + q, n + r>>
        BY ONLY <3>1, <3>2, Zenon
      <4> HIDE DEF all
      <4> QED BY ONLY <4>1
    <3>4. b.ln = l + 1 /\ b.wn = w + m /\ b.cn = c + n
      BY <3>2
    <3> HIDE DEF b, all, sum
    <3>5. l + all[1] = b.ln + p /\ w + all[2] = b.wn + q /\ c + all[3] = b.cn + r
      BY <3>3, <3>4
    <3> QED BY <3>2, <3>5 DEF all, sum
  <2> HIDE DEF b
  <2>6. /\ Yields(s, FALSE, Texts(x) \o rest) = <<Said(s, <<x.text>> \o rest)>>
        /\ Yields(b, FALSE, rest) = <<Said(b, rest)>>
    BY <1>2, <2>1, <2>4
  <2>7. <<Said(b, rest)>> \in Lines
    BY <1>1, <1>3, <2>4
  <2> HIDE DEF Said
  <2>8. a.line \in Items /\ a.line # End /\ Texts(a.line) = <<>> /\ a.line.is # "text"
    BY <2>2, ItemsAre
  <2>9. (x = Request) = FALSE /\ (a.line # Request) = FALSE
    BY <2>1, <2>2
  <2>11. /\ Yields(s, x = Request, Texts(x) \o rest) = <<Said(b, rest)>>
         /\ Yields(a.state, a.line # Request, rest) = <<Said(b, rest)>>
    <3>1. Yields(s, x = Request, Texts(x) \o rest) = Yields(s, FALSE, Texts(x) \o rest)
      BY ONLY <2>9, Zenon
    <3>2. Yields(a.state, a.line # Request, rest) = Yields(b, FALSE, rest)
      BY ONLY <2>2, <2>9, Zenon
    <3> QED BY <2>5, <2>6, <3>1, <3>2, Zenon
  <2>12. PICK y \in Lines : y = <<Said(b, rest)>>
    BY <2>7
  <2>13. <<>> \o y = y
    BY NoLines
  <2> HIDE DEF a
  <2>14. a.state \in State /\ a.state.f = s.f /\ a.line \in Items /\ a.line # End
    BY <2>2, <2>4, <2>8
  <2>15. /\ Yields(a.state, a.line # Request, rest) = y
         /\ Yields(s, x = Request, Texts(x) \o rest) = Texts(a.line) \o y
    BY <2>8, <2>11, <2>12, <2>13, Zenon
  <2>10. Serves(s, x, rest, a)
    BY ONLY <2>12, <2>14, <2>15 DEF Serves
  <2> QED BY <1>1, <1>4, <2>2, <2>8, <2>10 DEF Behaves, a
<1>5. CASE x = Request
  <2>1. a.state = s /\ a.line = End /\ Texts(x) = <<>> /\ End \in Items /\ End # Request /\ Texts(End) = <<>> /\ End.is # "text"
    BY <1>5, ItemsAre DEF Does, Report, Answer
  <2>2. (x = Request) = TRUE /\ (a.line # Request) = TRUE
    BY <1>5, <2>1
  <2>3. \A lines : Yields(s, TRUE, lines) = <<>>
    BY <1>2
  <2>5. Yields(s, x = Request, Texts(x) \o rest) = <<>> /\ Yields(s, a.line # Request, rest) = <<>>
    BY <2>2, <2>3, Zenon
  <2>4. Serves(s, x, rest, a)
    BY <1>1, <2>1, <2>5 DEF Serves
  <2> QED BY <1>1, <2>1, <2>4 DEF Behaves
<1>6. CASE x = End
  <2> DEFINE w == <<s.ln, s.wn, s.cn>>
  <2>1. a.state = s /\ a.line = Text(w) /\ Texts(x) = <<>> /\ x # Request /\ rest = <<>>
    BY <1>6, ItemsAre DEF Does, Report, Answer, Asked
  <2>2. w \in Seq(Int)
    <3>1. PICK p, q, r \in Int : p = s.ln /\ q = s.wn /\ r = s.cn
      BY <1>1
    <3>2. <<p, q, r>> \in Seq(Int)
      OBVIOUS
    <3> QED BY <3>1, <3>2
  <2>3. Said(s, <<>>) = w
    <3>1. Totals(<<>>) = <<0, 0, 0>>
      BY NoTotals
    <3>2. Totals(<<>>)[1] = 0 /\ Totals(<<>>)[2] = 0 /\ Totals(<<>>)[3] = 0
      BY <3>1
    <3>3. s.ln + 0 = s.ln /\ s.wn + 0 = s.wn /\ s.cn + 0 = s.cn
      BY <1>1
    <3> QED BY <3>2, <3>3
  <2>4. Yields(s, FALSE, Texts(x) \o rest) = <<w>> /\ \A lines : Yields(s, TRUE, lines) = <<>>
    <3>1. Texts(x) \o rest = <<>>
      BY <1>1, <2>1
    <3>2. Yields(s, FALSE, <<>>) = <<Said(s, <<>>)>>
      BY <1>2
    <3>3. \A lines : Yields(s, TRUE, lines) = <<>>
      BY <1>2
    <3> QED BY <2>3, <3>1, <3>2, <3>3
  <2> HIDE DEF w, Said
  <2>5. /\ Text(w) \in Items /\ Text(w).is = "text" /\ Text(w) # Request /\ Text(w) # End
        /\ Texts(Text(w)) = <<w>>
    BY <2>2, ItemsAre
  <2>6. (x = Request) = FALSE /\ (a.line # Request) = TRUE
    BY <2>1, <2>5
  <2>7. <<w>> \o <<>> = <<w>>
    <3>1. <<w>> \in Lines
      BY <2>2 DEF Lines
    <3> QED BY <3>1, NoLines
  <2>8. Serves(s, x, rest, a)
    BY <1>1, <2>1, <2>4, <2>5, <2>6, <2>7 DEF Serves
  <2> QED BY <1>1, <2>1, <2>5, <2>8 DEF Behaves
<1> QED BY <1>1, <1>4, <1>5, <1>6, Item

\* terminal and teeterminal, which print what they are given.
LEMMA ShowServes ==
  ASSUME NEW s, NEW x, NEW rest, Asked(s, x, rest), s.f \in {"terminal", "teeterminal"}
  PROVE  Serves(s, x, rest, Does(s, x)) /\ Behaves(s, x, Does(s, x))
<1> DEFINE a == Does(s, x)
<1>1. /\ s \in State /\ x \in Items /\ rest \in Lines /\ ~Source(s) /\ <<>> \in Lines /\ <<>> \o <<>> = <<>>
      /\ Request \in Items /\ End \in Items /\ Request # End /\ Texts(Request) = <<>> /\ Texts(End) = <<>>
      /\ Request.is # "text" /\ End.is # "text"
  BY NoLines, ItemsAre DEF Asked, Source
<1>2. CASE s.f = "terminal"
  <2>1. a.state = s /\ a.line = IF x = End THEN End ELSE Request
    BY <1>2 DEF Does, Answer
  <2>2. Yields(s, x = Request, Texts(x) \o rest) = <<>> /\ Yields(s, a.line # Request, rest) = <<>>
    BY <1>2 DEF Yields
  <2>3. Serves(s, x, rest, a)
    BY <1>1, <2>1, <2>2 DEF Serves
  <2>4. x # Request /\ x # End => x.is = "text"
    BY <1>1, Item
  <2>5. Behaves(s, x, a)
    BY <1>1, <1>2, <2>1, <2>4 DEF Behaves
  <2> QED BY <2>3, <2>5
<1>3. CASE s.f = "teeterminal"
  <2>1. a.state = s /\ a.line = x
    BY <1>3 DEF Does, Answer
  <2>2. Yields(s, x = Request, Texts(x) \o rest) = Texts(x) \o rest /\ Yields(s, a.line # Request, rest) = rest
    BY <1>3 DEF Yields
  <2>3. Serves(s, x, rest, a)
    BY <1>1, <2>1, <2>2 DEF Serves, Asked
  <2>4. Behaves(s, x, a)
    BY <1>1, <1>3, <2>1 DEF Behaves
  <2> QED BY <2>3, <2>4
<1> QED BY <1>2, <1>3

\* Whatever a command is given, it answers with the first line that it yields.
LEMMA DoesServes ==
  ASSUME NEW s, NEW x, NEW rest, Asked(s, x, rest)
  PROVE  Serves(s, x, rest, Does(s, x)) /\ Behaves(s, x, Does(s, x))
<1>1. s.f \in {"iota", "grep", "head", "skip", "wc", "teeterminal", "terminal"}
  BY DEF Asked, State
<1> QED
  BY <1>1, CountServes, SelectServes, BeginningServes, RestServes, ReportServes, ShowServes

-----------------------------------------------------------------------------
(* A train at work: each command has printed what the lines in flight and still   *)
(* to come do not hold, of what its command line means.                           *)

LoneType(t) ==
  /\ t \in [cmds : Seq(State), loco : Nat, line : Items, shown : Seq(Printed)]
  /\ t.loco <= Len(t.cmds) + 1

Beyond(t, i)   == t.loco > i \/ (t.loco = i /\ t.line = Request)
Arriving(t, i) == IF t.loco = i THEN Texts(t.line) ELSE <<>>
Awaits(t, out, i) == Arriving(t, i) \o out[i - 1]
One(b) == IF b THEN 1 ELSE 0

\* Nothing is asked of command i any more, unless a tail takes the end for a line.
Past(t, i) == \/ t.loco > i /\ t.line = End
              \/ \E j \in 1..Len(t.cmds) : j > i /\ Source(t.cmds[j]) /\ Beyond(t, j)
Left(t, i) == Owed(t.cmds) + One(~Past(t, i))

SameKind(c, s) == s.f = IF c.f = "tail" THEN "skip" ELSE c.f

Flows(t, out) ==
  /\ out \in [0..Len(t.cmds) -> Lines] /\ out[0] = <<>>
  /\ \A i \in 1..Len(t.cmds) : out[i] = Yields(t.cmds[i], Beyond(t, i), Awaits(t, out, i))
Ended(t, out) ==
  /\ t.line = End => out[t.loco - 1] = <<>>
  /\ \A i \in 1..Len(t.cmds) : t.cmds[i].f = "terminal" /\ t.loco > i => Awaits(t, out, i) = <<>>
Supplied(t) ==
  /\ t.line = Request => \/ \E k \in 1..Len(t.cmds) : k <= t.loco /\ Source(t.cmds[k])
                         \/ \A k \in 1..Len(t.cmds) : ~Source(t.cmds[k])
  /\ t.line.is = "text" => \E k \in 1..Len(t.cmds) : k < t.loco /\ Source(t.cmds[k])
Fitting(t, out) ==
  \A i \in 1..Len(t.cmds) :
    LET s == t.cmds[i]
    IN  /\ s.f = "iota" => \A m \in 0..Len(out[i]) + Left(t, i) : Fits(s.n + m * s.d)
        /\ s.f = "skip" => /\ s.e >= MinInt /\ (Beyond(t, i) => s.e >= 0)
                           /\ s.e + 2 * (Len(Awaits(t, out, i)) + Left(t, i)) + One(Beyond(t, i)) <= MaxInt
Faithful(c, t, out) ==
  /\ Len(t.cmds) = Len(c) /\ \A i \in 1..Len(c) : SameKind(c[i], t.cmds[i])
  /\ \A i \in Printers(c) : ShownBy(t, i) \o Awaits(t, out, i) = Flow(c)[i - 1]

PipedBy(c, t, out) == Flows(t, out) /\ Ended(t, out) /\ Supplied(t) /\ Fitting(t, out) /\ Faithful(c, t, out)
Piped(c, t) == LoneType(t) /\ \E out \in [0..Len(t.cmds) -> Lines] : PipedBy(c, t, out)

\* A line in flight, and the lines behind it.
Ahead(x, lines) == Texts(x) \o lines

\* One turn of the command under the locomotive, which answers a.
Turn(t, out, a, u, flow) ==
  /\ LoneType(t) /\ t.loco \in 1..Len(t.cmds) /\ Flows(t, out)
  /\ Serves(t.cmds[t.loco], t.line, out[t.loco - 1], a) /\ Behaves(t.cmds[t.loco], t.line, a)
  /\ u.cmds = [t.cmds EXCEPT ![t.loco] = a.state] /\ u.line = a.line
  /\ u.loco = IF a.line = Request THEN t.loco - 1 ELSE t.loco + 1
  /\ flow = [out EXCEPT ![t.loco] = Yields(a.state, a.line # Request, out[t.loco - 1])]

\* A turn changes the state of one command.
LEMMA TurnCommands ==
  ASSUME NEW t, NEW out, NEW a, NEW u, NEW flow, Turn(t, out, a, u, flow), NEW k, k = t.loco,
         NEW n, n = Len(t.cmds)
  PROVE  /\ n \in Nat /\ k \in 1..n /\ k \in Int /\ k - 1 \in 0..n /\ k \in 0..n
         /\ t.cmds \in Seq(State) /\ u.cmds \in Seq(State) /\ Len(u.cmds) = n
         /\ t.cmds[k] \in State /\ a.state \in State /\ u.cmds[k] = a.state
         /\ \A i \in 1..n : i # k => u.cmds[i] = t.cmds[i]
         /\ \A i \in 1..n : u.cmds[i].f = t.cmds[i].f
         /\ t.line \in Items /\ a.line \in Items /\ u.line = a.line
         /\ u.loco = IF a.line = Request THEN k - 1 ELSE k + 1
<1>1. /\ t.cmds \in Seq(State) /\ t.line \in Items /\ n \in Nat /\ k \in 1..n
      /\ a.state \in State /\ a.line \in Items /\ a.state.f = t.cmds[k].f
      /\ u.cmds = [t.cmds EXCEPT ![k] = a.state]
  BY DEF Turn, LoneType, Serves
<1>2. k \in Int /\ k - 1 \in 0..n /\ k \in 0..n
  BY <1>1
<1>3. /\ u.cmds \in Seq(State) /\ Len(u.cmds) = n /\ u.cmds[k] = a.state
      /\ \A i \in 1..n : i # k => u.cmds[i] = t.cmds[i]
  BY <1>1
<1>4. \A i \in 1..n : u.cmds[i].f = t.cmds[i].f
  BY <1>1, <1>3
<1>5. u.line = a.line /\ u.loco = IF a.line = Request THEN k - 1 ELSE k + 1
  BY DEF Turn
<1>6. t.cmds[k] \in State
  BY <1>1
<1> QED BY <1>1, <1>2, <1>3, <1>4, <1>5, <1>6

\* It changes what will come out of that command and of no other.
LEMMA TurnFlow ==
  ASSUME NEW t, NEW out, NEW a, NEW u, NEW flow, Turn(t, out, a, u, flow), NEW k, k = t.loco,
         NEW n, n = Len(t.cmds)
  PROVE  /\ out \in [0..n -> Lines] /\ flow \in [0..n -> Lines] /\ flow[0] = <<>>
         /\ flow[k] = Yields(a.state, a.line # Request, out[k - 1])
         /\ \A i \in 0..n : i # k => flow[i] = out[i]
         /\ out[k - 1] \in Lines /\ flow[k] \in Lines
<1>1. out \in [0..n -> Lines] /\ out[0] = <<>>
  BY DEF Turn, Flows
<1>2. flow = [out EXCEPT ![k] = Yields(a.state, a.line # Request, out[k - 1])]
  BY DEF Turn
<1>3. n \in Nat /\ k \in 1..n /\ k - 1 \in 0..n /\ k \in 0..n /\ k # 0 /\ 0 \in 0..n
  <2>1. n \in Nat /\ k \in 1..n /\ k - 1 \in 0..n /\ k \in 0..n
    BY TurnCommands
  <2> QED BY <2>1
<1>4. Yields(a.state, a.line # Request, out[k - 1]) \in Lines
  BY DEF Turn, Serves
<1>5. PICK y \in Lines : y = Yields(a.state, a.line # Request, out[k - 1])
  BY <1>4
<1>6. flow = [out EXCEPT ![k] = y]
  BY <1>2, <1>5
<1>7. flow \in [0..n -> Lines] /\ flow[k] = y /\ \A i \in 0..n : i # k => flow[i] = out[i]
  BY <1>1, <1>3, <1>6
<1> QED BY <1>1, <1>3, <1>5, <1>7

\* The line in flight goes from what the command awaits to what the next awaits.
LEMMA TurnAwaits ==
  ASSUME NEW t, NEW out, NEW a, NEW u, NEW flow, Turn(t, out, a, u, flow), NEW k, k = t.loco,
         NEW n, n = Len(t.cmds)
  PROVE  /\ Awaits(t, out, k) = Ahead(t.line, out[k - 1]) /\ Awaits(u, flow, k) = out[k - 1]
         /\ \A i \in 1..n : i # k => Awaits(u, flow, i) = Awaits(t, out, i)
         /\ \A i \in 1..n : Awaits(t, out, i) \in Lines /\ Awaits(u, flow, i) \in Lines
         /\ out[k] = Ahead(a.line, flow[k])
         /\ (Beyond(t, k) <=> t.line = Request) /\ (Beyond(u, k) <=> a.line # Request)
         /\ \A i \in 1..n : i # k => (Beyond(u, i) <=> Beyond(t, i))
<1>1. /\ n \in Nat /\ k \in 1..n /\ k \in Int /\ k - 1 \in 0..n /\ k \in 0..n
      /\ t.line \in Items /\ a.line \in Items /\ u.line = a.line
      /\ u.loco = IF a.line = Request THEN k - 1 ELSE k + 1
  BY TurnCommands
<1>2. /\ out \in [0..n -> Lines] /\ flow \in [0..n -> Lines]
      /\ flow[k] = Yields(a.state, a.line # Request, out[k - 1])
      /\ \A i \in 0..n : i # k => flow[i] = out[i]
      /\ out[k - 1] \in Lines
  BY TurnFlow
<1>3. /\ \A lines \in Lines : <<>> \o lines = lines
      /\ Texts(Request) = <<>> /\ Texts(t.line) \in Lines /\ Texts(a.line) \in Lines
  <2>1. \A x \in Items : Texts(x) \in Lines
    <3>1. ASSUME NEW x \in Items PROVE Texts(x) \in Lines
      <4>1. \A w \in Seq(Int) : <<w>> \in Lines
        BY DEF Lines
      <4> QED BY <4>1, Item, NoLines
    <3> QED BY <3>1
  <2> QED BY <1>1, <2>1, NoLines, ItemsAre
<1>4. (Beyond(t, k) <=> t.line = Request) /\ (Beyond(u, k) <=> a.line # Request)
  <2>1. ~(k > k) /\ ~(k - 1 > k) /\ k - 1 # k /\ k + 1 > k
    BY <1>1
  <2> QED BY <1>1, <2>1 DEF Beyond
<1>5. \A i \in 1..n : i # k => (Beyond(u, i) <=> Beyond(t, i))
  <2>1. ASSUME NEW i \in 1..n, i # k PROVE Beyond(u, i) <=> Beyond(t, i)
    <3>1. CASE a.line = Request
      <4>1. (k - 1 > i \/ k - 1 = i) <=> k > i
        BY <1>1, <2>1
      <4> QED BY <1>1, <2>1, <3>1, <4>1 DEF Beyond
    <3>2. CASE a.line # Request
      <4>1. k + 1 > i <=> k > i
        BY <1>1, <2>1
      <4> QED BY <1>1, <2>1, <3>2, <4>1 DEF Beyond
    <3> QED BY <3>1, <3>2
  <2> QED BY <2>1
<1>6. out[k] = Texts(a.line) \o flow[k]
  <2>1. out[k] = Yields(t.cmds[k], Beyond(t, k), Awaits(t, out, k))
    BY <1>1 DEF Turn, Flows
  <2>2. Awaits(t, out, k) = Texts(t.line) \o out[k - 1]
    BY DEF Awaits, Arriving
  <2>3. Yields(t.cmds[k], t.line = Request, Texts(t.line) \o out[k - 1])
          = Texts(a.line) \o Yields(a.state, a.line # Request, out[k - 1])
    BY DEF Turn, Serves
  <2>4. Beyond(t, k) = (t.line = Request)
    BY <1>4 DEF Beyond
  <2> QED BY <1>2, <2>1, <2>2, <2>3, <2>4, Zenon
<1>7. Awaits(t, out, k) = Texts(t.line) \o out[k - 1] /\ Awaits(u, flow, k) = out[k - 1]
  <2>1. u.loco # k /\ flow[k - 1] = out[k - 1]
    BY <1>1, <1>2
  <2> QED BY <1>2, <1>3, <2>1 DEF Awaits, Arriving
<1>8. ASSUME NEW i \in 1..n, i # k PROVE Awaits(u, flow, i) = Awaits(t, out, i)
  <2>1. i - 1 \in 0..n
    BY <1>1
  <2>2. out[i - 1] \in Lines
    BY <1>2, <2>1
  <2>3. Awaits(t, out, i) = out[i - 1]
    BY <1>3, <1>8, <2>2 DEF Awaits, Arriving
  <2>4. CASE i - 1 = k
    <3>1. Awaits(u, flow, i) = IF a.line = Request THEN <<>> \o flow[k] ELSE Texts(a.line) \o flow[k]
      <4>1. i = k + 1 /\ k - 1 # i
        BY <1>1, <2>4
      <4>2. Arriving(u, i) = IF a.line = Request THEN <<>> ELSE Texts(a.line)
        BY <1>1, <4>1 DEF Arriving
      <4> QED BY <2>4, <4>2 DEF Awaits
    <3> QED BY <1>3, <1>6, <2>3, <2>4, <3>1
  <2>5. CASE i - 1 # k
    <3>1. flow[i - 1] = out[i - 1]
      BY <1>2, <2>1, <2>5
    <3>2. u.loco = i => a.line = Request
      BY <1>1, <2>5
    <3>3. Arriving(u, i) = <<>>
      BY <1>1, <1>3, <3>2 DEF Arriving
    <3> QED BY <1>3, <2>2, <2>3, <3>1, <3>3 DEF Awaits
  <2> QED BY <2>4, <2>5
<1>9. ASSUME NEW i \in 1..n PROVE Awaits(t, out, i) \in Lines
  <2>1. i - 1 \in 0..n
    BY <1>1
  <2>2. out[i - 1] \in Lines /\ Arriving(t, i) \in Lines
    BY <1>2, <1>3, <2>1, NoLines DEF Arriving
  <2> QED BY <2>2, NoLines DEF Awaits
<1>10. ASSUME NEW i \in 1..n PROVE Awaits(u, flow, i) \in Lines
  BY <1>2, <1>7, <1>8, <1>9
<1> QED BY <1>4, <1>5, <1>6, <1>7, <1>8, <1>9, <1>10 DEF Ahead

\* Each command still yields what flows out of it.
LEMMA TurnFlows ==
  ASSUME NEW t, NEW out, NEW a, NEW u, NEW flow, Turn(t, out, a, u, flow)
  PROVE  Flows(u, flow)
<1>1. PICK k, n : k = t.loco /\ n = Len(t.cmds)
  OBVIOUS
<1>2. /\ Len(u.cmds) = n /\ n \in Nat /\ u.cmds[k] = a.state
      /\ \A i \in 1..n : i # k => u.cmds[i] = t.cmds[i]
  BY <1>1, TurnCommands
<1>3. /\ flow \in [0..n -> Lines] /\ flow[0] = <<>>
      /\ flow[k] = Yields(a.state, a.line # Request, out[k - 1])
      /\ \A i \in 0..n : i # k => flow[i] = out[i]
  BY <1>1, TurnFlow
<1>4. /\ Awaits(u, flow, k) = out[k - 1] /\ (Beyond(u, k) <=> a.line # Request)
      /\ \A i \in 1..n : i # k => Awaits(u, flow, i) = Awaits(t, out, i) /\ (Beyond(u, i) <=> Beyond(t, i))
  <2>1. Awaits(u, flow, k) = out[k - 1] /\ (Beyond(u, k) <=> a.line # Request)
    BY <1>1, TurnAwaits
  <2>2. \A i \in 1..n : i # k => Awaits(u, flow, i) = Awaits(t, out, i)
    BY <1>1, TurnAwaits
  <2>3. \A i \in 1..n : i # k => (Beyond(u, i) <=> Beyond(t, i))
    BY <1>1, TurnAwaits
  <2> QED BY <2>1, <2>2, <2>3
<1>5. ASSUME NEW i \in 1..n PROVE flow[i] = Yields(u.cmds[i], Beyond(u, i), Awaits(u, flow, i))
  <2>1. CASE i = k
    <3>1. Beyond(u, k) = (a.line # Request)
      BY <1>4 DEF Beyond
    <3> QED BY <1>2, <1>3, <1>4, <2>1, <3>1, Zenon
  <2>2. CASE i # k
    <3>1. Beyond(u, i) = Beyond(t, i)
      BY <1>4, <2>2 DEF Beyond
    <3>2. out[i] = Yields(t.cmds[i], Beyond(t, i), Awaits(t, out, i))
      BY <1>1 DEF Turn, Flows
    <3>3. i \in 0..n
      BY <1>2
    <3>4. flow[i] = out[i] /\ u.cmds[i] = t.cmds[i] /\ Awaits(u, flow, i) = Awaits(t, out, i)
      BY <1>2, <1>3, <1>4, <2>2, <3>3
    <3> QED BY <3>1, <3>2, <3>4, Zenon
  <2> QED BY <2>1, <2>2
<1> QED BY <1>2, <1>3, <1>5 DEF Flows

\* Where the end of the lines went past, nothing is left to come.
LEMMA TurnEnded ==
  ASSUME NEW t, NEW out, NEW a, NEW u, NEW flow, Turn(t, out, a, u, flow), Ended(t, out)
  PROVE  Ended(u, flow)
<1>1. PICK k, n : k = t.loco /\ n = Len(t.cmds)
  OBVIOUS
<1>2. /\ Len(u.cmds) = n /\ n \in Nat /\ k \in 1..n /\ \A i \in 1..n : u.cmds[i].f = t.cmds[i].f
      /\ a.line \in Items /\ u.line = a.line /\ u.loco = IF a.line = Request THEN k - 1 ELSE k + 1
  BY <1>1, TurnCommands
<1>3. flow[k] = Yields(a.state, a.line # Request, out[k - 1])
  BY <1>1, TurnFlow
<1>4. Awaits(u, flow, k) = out[k - 1] /\ \A i \in 1..n : i # k => Awaits(u, flow, i) = Awaits(t, out, i)
  BY <1>1, TurnAwaits
<1>5. /\ a.line = End => Yields(a.state, a.line # Request, out[k - 1]) = <<>>
      /\ t.cmds[k].f = "terminal" => a.line.is # "text" /\ (a.line = End => t.line = End)
  BY <1>1 DEF Turn, Serves, Behaves
<1>6. u.line = End => flow[u.loco - 1] = <<>>
  <2>1. a.line = End => u.loco - 1 = k
    BY <1>2, ItemsAre
  <2> QED BY <1>2, <1>3, <1>5, <2>1
<1>7. ASSUME NEW i \in 1..n, u.cmds[i].f = "terminal", u.loco > i PROVE Awaits(u, flow, i) = <<>>
  <2>1. CASE i = k
    <3>1. a.line # Request
      BY <1>2, <1>7, <2>1
    <3>2. a.line = End
      BY <1>2, <1>5, <1>7, <2>1, <3>1, Item
    <3> QED BY <1>1, <1>2, <1>4, <1>5, <1>7, <2>1, <3>2 DEF Ended
  <2>2. CASE i # k
    <3>1. t.loco > i
      BY <1>1, <1>2, <1>7, <2>2
    <3> QED BY <1>1, <1>2, <1>4, <1>7, <2>2, <3>1 DEF Ended
  <2> QED BY <2>1, <2>2
<1> QED BY <1>2, <1>6, <1>7 DEF Ended

\* No tail stands before the first source of the train.
Ordered(t) ==
  \A i, j \in 1..Len(t.cmds) :
    t.cmds[i].f = "skip" /\ i < j /\ Source(t.cmds[j]) => \E k \in 1..Len(t.cmds) : k < i /\ Source(t.cmds[k])

\* A request finds a source before it, if the train has one.
LEMMA TurnSupplied ==
  ASSUME NEW t, NEW out, NEW a, NEW u, NEW flow, Turn(t, out, a, u, flow), Supplied(t), Ordered(t)
  PROVE  Supplied(u)
<1>1. PICK k, n : k = t.loco /\ n = Len(t.cmds)
  OBVIOUS
<1>2. /\ Len(u.cmds) = n /\ n \in Nat /\ k \in 1..n /\ \A i \in 1..n : u.cmds[i].f = t.cmds[i].f
      /\ a.line \in Items /\ u.line = a.line /\ u.loco = IF a.line = Request THEN k - 1 ELSE k + 1
  BY <1>1, TurnCommands
<1>3. \A i \in 1..n : Source(u.cmds[i]) <=> Source(t.cmds[i])
  BY <1>2 DEF Source
<1>4. /\ a.line.is = "text" => t.line.is = "text" \/ Source(t.cmds[k])
      /\ a.line = Request => \/ t.line.is = "text" /\ t.cmds[k].f # "iota"
                             \/ t.line = Request /\ ~Source(t.cmds[k])
                             \/ t.line = End /\ t.cmds[k].f = "skip" /\ t.cmds[k].e < 0
  BY <1>1 DEF Turn, Behaves
<1>5. ASSUME a.line.is = "text" PROVE \E i \in 1..n : i < u.loco /\ Source(u.cmds[i])
  <2>1. u.loco = k + 1
    BY <1>2, <1>5, ItemsAre
  <2>2. CASE t.line.is = "text"
    <3>1. PICK i \in 1..n : i < k /\ Source(t.cmds[i])
      BY <1>1, <2>2 DEF Supplied
    <3>2. i < k + 1
      BY <1>2, <3>1
    <3> QED BY <1>3, <2>1, <3>1, <3>2
  <2>3. CASE Source(t.cmds[k])
    <3>1. k < k + 1
      BY <1>2
    <3> QED BY <1>2, <1>3, <2>1, <2>3, <3>1
  <2> QED BY <1>4, <1>5, <2>2, <2>3
<1>6. ASSUME a.line = Request
      PROVE  (\E i \in 1..n : i <= u.loco /\ Source(u.cmds[i])) \/ \A i \in 1..n : ~Source(u.cmds[i])
  <2>1. u.loco = k - 1
    BY <1>2, <1>6
  <2>2. \A i \in 1..n : i < k => i <= k - 1
    BY <1>2
  <2>3. CASE t.line.is = "text"
    <3>1. PICK i \in 1..n : i < k /\ Source(t.cmds[i])
      BY <1>1, <2>3 DEF Supplied
    <3> QED BY <1>3, <2>1, <2>2, <3>1
  <2>4. CASE t.line = Request /\ ~Source(t.cmds[k])
    <3>1. (\E i \in 1..n : i <= k /\ Source(t.cmds[i])) \/ \A i \in 1..n : ~Source(t.cmds[i])
      BY <1>1, <2>4 DEF Supplied
    <3>2. \A i \in 1..n : i <= k /\ Source(t.cmds[i]) => i < k
      BY <1>2, <2>4
    <3> QED BY <1>3, <2>1, <2>2, <3>1, <3>2
  <2>5. CASE t.cmds[k].f = "skip"
    <3>1. ~Source(t.cmds[k])
      BY <2>5 DEF Source
    <3>2. CASE \E i \in 1..n : k < i /\ Source(t.cmds[i])
      <4>1. PICK i \in 1..n : i < k /\ Source(t.cmds[i])
        BY <1>1, <1>2, <2>5, <3>2 DEF Ordered
      <4> QED BY <1>3, <2>1, <2>2, <4>1
    <3>3. CASE ~\E i \in 1..n : k < i /\ Source(t.cmds[i])
      <4>1. \A i \in 1..n : Source(t.cmds[i]) => i < k
        BY <1>2, <3>1, <3>3
      <4> QED BY <1>3, <2>1, <2>2, <4>1
    <3> QED BY <3>2, <3>3
  <2> QED BY <1>4, <1>6, <2>3, <2>4, <2>5
<1> QED BY <1>2, <1>5, <1>6 DEF Supplied

\* What the tails still skip is what they skipped less the line that one takes.
LEMMA TurnOwed ==
  ASSUME NEW t, NEW out, NEW a, NEW u, NEW flow, Turn(t, out, a, u, flow), NEW k, k = t.loco
  PROVE  /\ Owed(t.cmds) \in Nat /\ Owed(u.cmds) \in Nat
         /\ Owed(u.cmds) = IF t.cmds[k].f = "skip" /\ t.cmds[k].e < 0
                           THEN Owed(t.cmds) - 1 ELSE Owed(t.cmds)
<1>1. PICK n : n = Len(t.cmds)
  OBVIOUS
<1>2. /\ t.cmds \in Seq(State) /\ u.cmds \in Seq(State) /\ k \in 1..n /\ t.cmds[k] \in State
      /\ a.state \in State
  BY <1>1, TurnCommands
<1>3. u.cmds = [t.cmds EXCEPT ![k] = a.state] /\ a.state.f = t.cmds[k].f
      /\ (t.cmds[k].f = "skip" => a.state.e = t.cmds[k].e + 1)
  BY DEF Turn, Serves, Behaves
<1>4. Owed(t.cmds) \in Nat /\ Owed(u.cmds) = Owed(t.cmds) - Owes(t.cmds[k]) + Owes(a.state)
  <2>1. PICK cmds \in Seq(State), s \in State : cmds = t.cmds /\ s = a.state
    BY <1>2
  <2>2. k \in 1..Len(cmds) /\ u.cmds = [cmds EXCEPT ![k] = s]
    BY <1>1, <1>2, <1>3, <2>1
  <2>3. Owed(cmds) \in Nat /\ Owed([cmds EXCEPT ![k] = s]) = Owed(cmds) - Owes(cmds[k]) + Owes(s)
    BY <2>2, OwedMore
  <2> QED BY <2>1, <2>2, <2>3
<1>5. Owed(u.cmds) \in Nat
  <2>1. k \in 1..Len(u.cmds)
    BY <1>1, <1>2, <1>3
  <2> QED BY <1>2, <2>1, OwedMore
<1>6. CASE t.cmds[k].f = "skip"
  <2>1. PICK e \in Int : e = t.cmds[k].e
    BY <1>2, <1>6 DEF State
  <2>2. Owes(t.cmds[k]) = IF e < 0 THEN -e ELSE 0
    BY <1>6, <2>1 DEF Owes
  <2>3. Owes(a.state) = IF e + 1 < 0 THEN -(e + 1) ELSE 0
    BY <1>3, <1>6, <2>1 DEF Owes
  <2>4. PICK o \in Nat : o = Owed(t.cmds)
    BY <1>4
  <2>5. Owed(u.cmds) = IF e < 0 THEN o - 1 ELSE o
    <3>1. CASE e < 0
      <4>1. Owes(t.cmds[k]) = -e /\ Owes(a.state) = -(e + 1)
        BY <2>2, <2>3, <3>1
      <4> QED BY <1>4, <2>4, <3>1, <4>1
    <3>2. CASE ~(e < 0)
      <4>1. Owes(t.cmds[k]) = 0 /\ Owes(a.state) = 0
        BY <2>2, <2>3, <3>2
      <4> QED BY <1>4, <2>4, <3>2, <4>1
    <3> QED BY <3>1, <3>2
  <2> QED BY ONLY <1>4, <1>5, <1>6, <2>1, <2>4, <2>5
<1>7. CASE t.cmds[k].f # "skip"
  <2>1. Owes(t.cmds[k]) = 0 /\ Owes(a.state) = 0
    BY <1>3, <1>7 DEF Owes
  <2>2. PICK o \in Nat : o = Owed(t.cmds)
    BY <1>4
  <2>3. Owed(u.cmds) = o - 0 + 0
    BY <1>4, <2>1, <2>2
  <2>4. Owed(u.cmds) = Owed(t.cmds)
    BY <2>2, <2>3
  <2> QED BY ONLY <1>4, <1>5, <1>7, <2>4
<1> QED BY <1>6, <1>7

LEMMA LeftNow ==
  ASSUME NEW t, t.cmds \in Seq(State), NEW k \in 1..Len(t.cmds), k = t.loco
  PROVE  Left(t, k) = Owed(t.cmds) + 1 /\ Owed(t.cmds) \in Nat
<1>1. Owed(t.cmds) \in Nat
  <2>1. t.cmds[k] \in State
    OBVIOUS
  <2> QED BY <2>1, OwedMore
<1>2. \A j \in 1..Len(t.cmds) : j > k => ~Beyond(t, j)
  BY DEF Beyond
<1>3. ~Past(t, k)
  BY <1>2 DEF Past
<1> QED BY <1>1, <1>3 DEF Left, One

\* How often a command may be called without a line does not grow.
LEMMA TurnLeft ==
  ASSUME NEW t, NEW out, NEW a, NEW u, NEW flow, Turn(t, out, a, u, flow), NEW k, k = t.loco,
         NEW n, n = Len(t.cmds)
  PROVE  /\ \A i \in 1..n : Left(t, i) \in Nat /\ Left(u, i) \in Nat /\ Left(u, i) <= Left(t, i)
         /\ Left(t, k) = Owed(t.cmds) + 1
         /\ Left(u, k) = Owed(u.cmds) + IF a.line = End THEN 0 ELSE 1
<1>1. /\ Len(u.cmds) = n /\ n \in Nat /\ k \in 1..n /\ \A i \in 1..n : u.cmds[i].f = t.cmds[i].f
      /\ t.cmds \in Seq(State) /\ t.line \in Items
      /\ a.line \in Items /\ u.line = a.line /\ u.loco = IF a.line = Request THEN k - 1 ELSE k + 1
  BY TurnCommands
<1>2. /\ (Beyond(t, k) <=> t.line = Request) /\ (Beyond(u, k) <=> a.line # Request)
      /\ \A i \in 1..n : i # k => (Beyond(u, i) <=> Beyond(t, i))
  BY TurnAwaits
<1>3. /\ Owed(t.cmds) \in Nat /\ Owed(u.cmds) \in Nat /\ Owed(u.cmds) <= Owed(t.cmds)
      /\ t.cmds[k].f = "skip" /\ t.cmds[k].e < 0 => Owed(u.cmds) = Owed(t.cmds) - 1
  BY TurnOwed
<1>4. \A i \in 1..n : Source(u.cmds[i]) <=> Source(t.cmds[i])
  BY <1>1 DEF Source
<1>5. /\ a.line.is = "text" => t.line.is = "text" \/ Source(t.cmds[k])
      /\ a.line = Request => \/ t.line.is = "text" /\ t.cmds[k].f # "iota"
                             \/ t.line = Request /\ ~Source(t.cmds[k])
                             \/ t.line = End /\ t.cmds[k].f = "skip" /\ t.cmds[k].e < 0
  BY DEF Turn, Behaves
<1>6. \A j \in 1..n : Source(t.cmds[j]) /\ Beyond(t, j) => Source(u.cmds[j]) /\ Beyond(u, j)
  <2>1. Source(t.cmds[k]) /\ t.line = Request => a.line # Request
    BY <1>5, ItemsAre
  <2> QED BY <1>2, <1>4, <2>1
<1>7. \A i \in 1..n : Left(t, i) \in Nat /\ Left(u, i) \in Nat
  BY <1>3 DEF Left, One
<1>8. Left(t, k) = Owed(t.cmds) + 1
  BY <1>1, LeftNow
<1>9. Left(u, k) = Owed(u.cmds) + IF a.line = End THEN 0 ELSE 1
  <2>1. \A j \in 1..n : j > k => ~Beyond(u, j)
    BY <1>1 DEF Beyond
  <2>2. u.loco > k <=> a.line # Request
    BY <1>1
  <2>3. Past(u, k) <=> a.line = End
    BY <1>1, <2>1, <2>2, ItemsAre DEF Past
  <2> QED BY <2>3 DEF Left, One
<1>10. ASSUME NEW i \in 1..n, i # k PROVE Left(u, i) <= Left(t, i)
  <2>1. CASE Past(t, i) => Past(u, i)
    BY <1>3, <2>1 DEF Left, One
  <2>2. CASE Past(t, i) /\ ~Past(u, i)
    <3>1. ~\E j \in 1..n : j > i /\ Source(t.cmds[j]) /\ Beyond(t, j)
      BY <1>1, <1>6, <2>2 DEF Past
    <3>2. t.loco > i /\ t.line = End
      BY <2>2, <3>1 DEF Past
    <3>3. k > i
      BY <3>2
    <3>4. a.line # End
      BY <1>1, <2>2, <3>3, ItemsAre DEF Past
    <3>5. ~(Source(t.cmds[k]) /\ a.line # Request)
      BY <1>1, <1>2, <1>4, <2>2, <3>3 DEF Past
    <3>6. t.line.is # "text" /\ t.line # Request
      BY <3>2, ItemsAre
    <3>7. a.line = Request
      BY <1>1, <1>5, <3>4, <3>5, <3>6, Item
    <3>8. Owed(u.cmds) = Owed(t.cmds) - 1
      BY <1>3, <1>5, <3>6, <3>7
    <3> QED BY <1>3, <2>2, <3>8 DEF Left, One
  <2> QED BY <2>1, <2>2
<1>11. Left(u, k) <= Left(t, k)
  BY <1>3, <1>8, <1>9
<1> QED BY <1>7, <1>8, <1>9, <1>10, <1>11

\* The length of the lines, with the one in flight.
LEMMA AheadLen ==
  ASSUME NEW x \in Items, NEW lines \in Lines
  PROVE  /\ Ahead(x, lines) \in Lines /\ Len(lines) \in Nat
         /\ Len(Ahead(x, lines)) = Len(lines) + IF x.is = "text" THEN 1 ELSE 0
<1>1. CASE x.is = "text"
  <2>1. x.text \in Seq(Int) /\ Texts(x) = <<x.text>>
    BY <1>1, Item
  <2> QED BY <1>1, <2>1, OneMore, NoLines DEF Ahead
<1>2. CASE x.is # "text"
  <2>1. Texts(x) = <<>>
    BY <1>2, Item
  <2> QED BY <1>2, <2>1, NoLines DEF Ahead
<1> QED BY <1>1, <1>2

\* The counters of the commands that are not called still fit.
LEMMA TurnFitsOther ==
  ASSUME NEW t, NEW out, NEW a, NEW u, NEW flow, Turn(t, out, a, u, flow), Fitting(t, out),
         NEW i \in 1..Len(t.cmds), i # t.loco, NEW s, s = u.cmds[i]
  PROVE  /\ s.f = "iota" => \A m \in 0..Len(flow[i]) + Left(u, i) : Fits(s.n + m * s.d)
         /\ s.f = "skip" => /\ s.e >= MinInt /\ (Beyond(u, i) => s.e >= 0)
                            /\ s.e + 2 * (Len(Awaits(u, flow, i)) + Left(u, i)) + One(Beyond(u, i)) <= MaxInt
<1>1. PICK k, n : k = t.loco /\ n = Len(t.cmds)
  OBVIOUS
<1>2. n \in Nat /\ s = t.cmds[i] /\ s \in State /\ i \in 0..n
  <2>1. /\ n \in Nat /\ u.cmds \in Seq(State) /\ Len(u.cmds) = n /\ \A j \in 1..n : j # k => u.cmds[j] = t.cmds[j]
    BY <1>1, TurnCommands
  <2> QED BY <1>1, <2>1
<1>3. flow[i] = out[i] /\ out[i] \in Lines
  <2>1. out \in [0..n -> Lines] /\ \A j \in 0..n : j # k => flow[j] = out[j]
    BY <1>1, TurnFlow
  <2> QED BY <1>1, <1>2, <2>1
<1>4. Awaits(u, flow, i) = Awaits(t, out, i) /\ (Beyond(u, i) <=> Beyond(t, i)) /\ Awaits(t, out, i) \in Lines
  <2>1. \A j \in 1..n : j # k => Awaits(u, flow, j) = Awaits(t, out, j)
    BY <1>1, TurnAwaits
  <2>2. \A j \in 1..n : j # k => (Beyond(u, j) <=> Beyond(t, j))
    BY <1>1, TurnAwaits
  <2>3. \A j \in 1..n : Awaits(t, out, j) \in Lines
    BY <1>1, TurnAwaits
  <2> QED BY <1>1, <2>1, <2>2, <2>3
<1>5. Left(t, i) \in Nat /\ Left(u, i) \in Nat /\ Left(u, i) <= Left(t, i)
  BY <1>1, TurnLeft
<1>6. CASE s.f = "iota"
  <2>1. \A m \in 0..Len(out[i]) + Left(t, i) : Fits(s.n + m * s.d)
    BY <1>2, <1>6 DEF Fitting
  <2>2. PICK l, p, q \in Nat : l = Len(out[i]) /\ p = Left(t, i) /\ q = Left(u, i)
    BY <1>3, <1>5, NoLines
  <2>3. \A m \in 0..l + q : m \in 0..l + p
    BY <1>5, <2>2
  <2> QED BY <1>3, <1>6, <2>1, <2>2, <2>3
<1>7. CASE s.f = "skip"
  <2>1. /\ s.e >= MinInt /\ (Beyond(t, i) => s.e >= 0)
        /\ s.e + 2 * (Len(Awaits(t, out, i)) + Left(t, i)) + One(Beyond(t, i)) <= MaxInt
    BY <1>2, <1>7 DEF Fitting
  <2>2. PICK l, p, q, b \in Nat : l = Len(Awaits(t, out, i)) /\ p = Left(t, i) /\ q = Left(u, i)
                                /\ b = One(Beyond(t, i))
    BY <1>4, <1>5, NoLines DEF One
  <2>3. PICK e \in Int : e = s.e
    BY <1>2, <1>7 DEF State
  <2>4. One(Beyond(u, i)) = b
    BY <1>4, <2>2 DEF One
  <2>5. e + 2 * (l + q) + b <= MaxInt
    <3>1. e + 2 * (l + p) + b <= MaxInt /\ q <= p
      BY <1>5, <2>1, <2>2, <2>3
    <3> QED BY <3>1, Bounds
  <2> QED BY <1>4, <1>7, <2>1, <2>2, <2>3, <2>4, <2>5
<1> QED BY <1>6, <1>7

\* So does that of iota, which went one step on.
LEMMA TurnFitsIota ==
  ASSUME NEW t, NEW out, NEW a, NEW u, NEW flow, Turn(t, out, a, u, flow), Fitting(t, out),
         NEW k, k = t.loco, t.cmds[k].f = "iota"
  PROVE  \A m \in 0..Len(flow[k]) + Left(u, k) : Fits(a.state.n + m * a.state.d)
<1>1. PICK n : n = Len(t.cmds)
  OBVIOUS
<1>2. /\ n \in Nat /\ k \in 1..n /\ k \in 0..n /\ t.cmds[k] \in State /\ a.line \in Items
  BY <1>1, TurnCommands
<1>3. PICK p, d \in Int : p = t.cmds[k].n /\ d = t.cmds[k].d /\ a.state.n = p + d /\ a.state.d = d
  <2>1. t.cmds[k].n \in Int /\ t.cmds[k].d \in Int
    BY <1>2 DEF State
  <2>2. a.state.n = t.cmds[k].n + t.cmds[k].d /\ a.state.d = t.cmds[k].d
    BY DEF Turn, Behaves
  <2> QED BY <2>1, <2>2
<1>4. flow[k] \in Lines /\ out[k] = Ahead(a.line, flow[k])
  <2>1. flow[k] \in Lines
    BY <1>1, TurnFlow
  <2>2. out[k] = Ahead(a.line, flow[k])
    BY <1>1, TurnAwaits
  <2> QED BY <2>1, <2>2
<1>5. PICK l \in Nat : l = Len(flow[k]) /\ Len(out[k]) = l + IF a.line.is = "text" THEN 1 ELSE 0
  BY <1>2, <1>4, AheadLen
<1>6. a.line = End => l = 0
  <2>1. a.line = End => flow[k] = <<>>
    <3>1. flow[k] = Yields(a.state, a.line # Request, out[k - 1])
      BY <1>1, TurnFlow
    <3> QED BY <3>1 DEF Turn, Serves
  <2> QED BY <1>5, <2>1, NoLines
<1>7. a.line = End \/ a.line.is = "text"
  <2>1. a.line # Request
    BY DEF Turn, Behaves, Source
  <2> QED BY <1>2, <2>1, Item
<1>8. /\ Left(t, k) = Owed(t.cmds) + 1
      /\ Left(u, k) = Owed(u.cmds) + IF a.line = End THEN 0 ELSE 1
  BY <1>1, TurnLeft
<1>9. Owed(t.cmds) \in Nat /\ Owed(u.cmds) = Owed(t.cmds)
  BY TurnOwed
<1>10. PICK o \in Nat : o = Owed(t.cmds)
  BY <1>9
<1>11. \A m \in 0..l + Left(u, k) : m \in Int /\ m + 1 \in 0..Len(out[k]) + Left(t, k)
  <2>1. CASE a.line = End
    <3>1. a.line.is # "text" /\ l = 0
      BY <1>6, <2>1, ItemsAre
    <3>2. Left(u, k) = o /\ Left(t, k) = o + 1 /\ Len(out[k]) = 0
      BY <1>5, <1>8, <1>9, <1>10, <2>1, <3>1
    <3> QED BY <3>1, <3>2
  <2>2. CASE a.line # End
    <3>1. Left(u, k) = o + 1 /\ Left(t, k) = o + 1 /\ Len(out[k]) = l + 1
      BY <1>5, <1>7, <1>8, <1>9, <1>10, <2>2
    <3> QED BY <3>1
  <2> QED BY <2>1, <2>2
<1>12. \A m \in 0..Len(out[k]) + Left(t, k) : Fits(p + m * d)
  BY <1>1, <1>2, <1>3 DEF Fitting
<1>13. ASSUME NEW m \in 0..Len(flow[k]) + Left(u, k) PROVE Fits(a.state.n + m * a.state.d)
  <2>1. m \in Int /\ m + 1 \in 0..Len(out[k]) + Left(t, k)
    BY <1>5, <1>11
  <2>2. Fits(p + (m + 1) * d)
    BY <1>12, <2>1
  <2>3. p + (m + 1) * d = (p + d) + m * d
    <3>1. (m + 1) * d = d + m * d
      BY <2>1
    <3>2. PICK w \in Int : w = m * d
      BY <2>1
    <3> QED BY <3>1, <3>2
  <2> QED BY <1>3, <2>2, <2>3
<1> QED BY <1>13

\* So does that of tail, which went one line on.
LEMMA TurnFitsSkip ==
  ASSUME NEW t, NEW out, NEW a, NEW u, NEW flow, Turn(t, out, a, u, flow), Fitting(t, out),
         NEW k, k = t.loco, t.cmds[k].f = "skip", NEW s, s = a.state
  PROVE  /\ s.e >= MinInt /\ (Beyond(u, k) => s.e >= 0)
         /\ s.e + 2 * (Len(Awaits(u, flow, k)) + Left(u, k)) + One(Beyond(u, k)) <= MaxInt
<1>1. PICK n : n = Len(t.cmds)
  OBVIOUS
<1>2. /\ n \in Nat /\ k \in 1..n /\ t.cmds[k] \in State /\ a.line \in Items /\ t.line \in Items
  BY <1>1, TurnCommands
<1>3. PICK e \in Int : e = t.cmds[k].e
  BY <1>2 DEF State
<1>4. s.e = e + 1 /\ a.line = IF e >= 0 THEN t.line ELSE Request
  BY <1>3 DEF Turn, Behaves
<1>5. out[k - 1] \in Lines
  BY <1>1, TurnFlow
<1>6. Awaits(t, out, k) = Ahead(t.line, out[k - 1]) /\ Awaits(u, flow, k) = out[k - 1]
  BY <1>1, TurnAwaits
<1>7. (Beyond(t, k) <=> t.line = Request) /\ (Beyond(u, k) <=> a.line # Request)
  BY <1>1, TurnAwaits
<1>8. PICK l \in Nat : l = Len(out[k - 1]) /\ Len(Awaits(t, out, k)) = l + IF t.line.is = "text" THEN 1 ELSE 0
  BY <1>2, <1>5, <1>6, AheadLen
<1>9. /\ Left(t, k) = Owed(t.cmds) + 1
      /\ Left(u, k) = Owed(u.cmds) + IF a.line = End THEN 0 ELSE 1
  BY <1>1, TurnLeft
<1>10. /\ Owed(t.cmds) \in Nat /\ Owed(u.cmds) \in Nat
       /\ Owed(u.cmds) = IF e < 0 THEN Owed(t.cmds) - 1 ELSE Owed(t.cmds)
  BY <1>3, TurnOwed
<1>11. PICK o \in Nat : o = Owed(t.cmds)
  BY <1>10
<1>12. /\ e >= MinInt /\ (Beyond(t, k) => e >= 0)
       /\ e + 2 * (Len(Awaits(t, out, k)) + Left(t, k)) + One(Beyond(t, k)) <= MaxInt
  BY <1>1, <1>2, <1>3 DEF Fitting
<1>13. PICK p, q \in Int : p = MinInt /\ q = MaxInt
  BY Bounds
<1>14. s.e >= MinInt
  BY <1>4, <1>12, <1>13
<1>15. CASE e < 0
  <2>1. a.line = Request /\ ~Beyond(t, k) /\ ~Beyond(u, k) /\ a.line # End
    BY <1>4, <1>7, <1>12, <1>15, ItemsAre
  <2>2. Left(u, k) = o /\ Left(t, k) = o + 1 /\ One(Beyond(t, k)) = 0 /\ One(Beyond(u, k)) = 0
    BY <1>9, <1>10, <1>11, <1>15, <2>1 DEF One
  <2>3. t.line # Request
    BY <1>7, <2>1
  <2>4. (e + 1) + 2 * (l + o) <= q
    <3>1. PICK z \in Nat : z = Len(Awaits(t, out, k)) /\ z >= l
      <4>1. CASE t.line.is = "text"
        BY <1>8, <4>1
      <4>2. CASE t.line.is # "text"
        BY <1>8, <4>2
      <4> QED BY <4>1, <4>2
    <3>2. e + 2 * (z + (o + 1)) + 0 <= q
      BY <1>12, <1>13, <2>2, <3>1
    <3> QED BY <3>1, <3>2
  <2>5. s.e + 2 * (Len(Awaits(u, flow, k)) + Left(u, k)) + One(Beyond(u, k)) <= MaxInt
    <3>1. (e + 1) + 2 * (l + o) + 0 <= q
      BY <2>4
    <3> QED BY <1>4, <1>6, <1>8, <1>13, <2>2, <3>1
  <2> QED BY <1>14, <2>1, <2>5
<1>16. CASE e >= 0
  <2>1. a.line = t.line /\ Owed(u.cmds) = o /\ s.e >= 0
    BY <1>4, <1>10, <1>11, <1>16
  <2>2. CASE t.line.is = "text"
    <3>1. a.line # End /\ a.line # Request
      BY <2>1, <2>2, ItemsAre
    <3>2. /\ Left(u, k) = o + 1 /\ Left(t, k) = o + 1 /\ One(Beyond(t, k)) = 0 /\ One(Beyond(u, k)) = 1
          /\ Len(Awaits(t, out, k)) = l + 1
      BY <1>7, <1>8, <1>9, <1>11, <2>1, <2>2, <3>1 DEF One
    <3>3. e + 2 * ((l + 1) + (o + 1)) + 0 <= q
      BY <1>12, <1>13, <3>2
    <3>4. (e + 1) + 2 * (l + (o + 1)) + 1 <= q
      BY <3>3
    <3> QED BY <1>4, <1>6, <1>8, <1>13, <1>14, <2>1, <3>2, <3>4
  <2>3. CASE t.line = Request
    <3>1. a.line # End /\ t.line.is # "text"
      BY <2>1, <2>3, ItemsAre
    <3>2. /\ Left(u, k) = o + 1 /\ Left(t, k) = o + 1 /\ One(Beyond(t, k)) = 1 /\ One(Beyond(u, k)) = 0
          /\ Len(Awaits(t, out, k)) = l
      BY <1>7, <1>8, <1>9, <1>11, <2>1, <2>3, <3>1 DEF One
    <3>3. e + 2 * (l + (o + 1)) + 1 <= q
      BY <1>12, <1>13, <3>2
    <3>4. (e + 1) + 2 * (l + (o + 1)) + 0 <= q
      BY <3>3
    <3> QED BY <1>4, <1>6, <1>8, <1>13, <1>14, <2>1, <3>2, <3>4
  <2>4. CASE t.line = End
    <3>1. a.line = End /\ a.line # Request /\ t.line.is # "text"
      BY <2>1, <2>4, ItemsAre
    <3>2. /\ Left(u, k) = o /\ Left(t, k) = o + 1 /\ One(Beyond(t, k)) = 0 /\ One(Beyond(u, k)) = 1
          /\ Len(Awaits(t, out, k)) = l
      BY <1>7, <1>8, <1>9, <1>11, <2>1, <2>4, <3>1 DEF One
    <3>3. e + 2 * (l + (o + 1)) + 0 <= q
      BY <1>12, <1>13, <3>2
    <3>4. (e + 1) + 2 * (l + o) + 1 <= q
      BY <3>3
    <3> QED BY <1>4, <1>6, <1>8, <1>13, <1>14, <2>1, <3>2, <3>4
  <2> QED BY <1>2, <2>2, <2>3, <2>4, Item
<1> QED BY <1>15, <1>16

\* So do all of them.
LEMMA TurnFitting ==
  ASSUME NEW t, NEW out, NEW a, NEW u, NEW flow, Turn(t, out, a, u, flow), Fitting(t, out)
  PROVE  Fitting(u, flow)
<1>1. PICK k, n : k = t.loco /\ n = Len(t.cmds)
  OBVIOUS
<1>2. /\ Len(u.cmds) = n /\ k \in 1..n /\ u.cmds[k] = a.state /\ u.cmds[k].f = t.cmds[k].f
  BY <1>1, TurnCommands
<1> DEFINE Good(i, s) ==
             /\ s.f = "iota" => \A m \in 0..Len(flow[i]) + Left(u, i) : Fits(s.n + m * s.d)
             /\ s.f = "skip" => /\ s.e >= MinInt /\ (Beyond(u, i) => s.e >= 0)
                                /\ s.e + 2 * (Len(Awaits(u, flow, i)) + Left(u, i)) + One(Beyond(u, i)) <= MaxInt
<1>3. ASSUME NEW i \in 1..n PROVE Good(i, u.cmds[i])
  <2>1. PICK s : s = u.cmds[i]
    OBVIOUS
  <2>2. CASE i # k
    <3>1. Good(i, s)
      BY ONLY <1>1, <2>1, <2>2, i \in 1..n, Turn(t, out, a, u, flow), Fitting(t, out), TurnFitsOther
    <3> QED BY <2>1, <3>1
  <2>3. CASE i = k
    <3>1. s = a.state /\ s.f = t.cmds[k].f
      BY <1>2, <2>1, <2>3
    <3>2. s.f = "iota" => \A m \in 0..Len(flow[k]) + Left(u, k) : Fits(s.n + m * s.d)
      BY <1>1, <3>1, TurnFitsIota
    <3>3. s.f = "skip" => /\ s.e >= MinInt /\ (Beyond(u, k) => s.e >= 0)
                          /\ s.e + 2 * (Len(Awaits(u, flow, k)) + Left(u, k)) + One(Beyond(u, k)) <= MaxInt
      BY <1>1, <3>1, TurnFitsSkip
    <3> QED BY <2>1, <2>3, <3>2, <3>3
  <2> QED BY <2>2, <2>3
<1> QED BY <1>2, <1>3 DEF Fitting

\* A line is printed at the end of what was printed.
LEMMA JoinLines ==
  ASSUME NEW a \in Lines, NEW b \in Lines, NEW x \in Seq(Int)
  PROVE  Append(a, x) \in Lines /\ Append(a, x) \o b = a \o (<<x>> \o b)
<1>1. a \in Seq(Seq(Int)) /\ b \in Seq(Seq(Int)) /\ <<x>> \in Seq(Seq(Int))
  BY DEF Lines
<1>2. Append(a, x) = a \o <<x>>
  BY <1>1, AppendIsConcat
<1>3. (a \o <<x>>) \o b = a \o (<<x>> \o b)
  BY <1>1, ConcatAssociative
<1> QED BY <1>1, <1>2, <1>3 DEF Lines

\* What was printed and what is awaited make up together what flows in, as before.
LEMMA TurnFaithful ==
  ASSUME NEW t, NEW out, NEW a, NEW u, NEW flow, Turn(t, out, a, u, flow), u.shown = Shown(t),
         NEW c, Faithful(c, t, out)
  PROVE  Faithful(c, u, flow)
<1>1. PICK k, n : k = t.loco /\ n = Len(t.cmds)
  OBVIOUS
<1>2. /\ Len(u.cmds) = n /\ n \in Nat /\ k \in 1..n /\ \A i \in 1..n : u.cmds[i].f = t.cmds[i].f
      /\ t.line \in Items
  BY <1>1, TurnCommands
<1>3. /\ Len(c) = n /\ \A i \in 1..n : SameKind(c[i], t.cmds[i])
      /\ \A i \in Printers(c) : ShownBy(t, i) \o Awaits(t, out, i) = Flow(c)[i - 1]
      /\ Printers(c) \subseteq 1..n
  BY <1>1 DEF Faithful, Printers
<1>4. /\ Awaits(t, out, k) = Ahead(t.line, out[k - 1]) /\ Awaits(u, flow, k) = out[k - 1]
  BY <1>1, TurnAwaits
<1>5. \A i \in 1..n : i # k => Awaits(u, flow, i) = Awaits(t, out, i)
  BY <1>1, TurnAwaits
<1>6. out[k - 1] \in Lines
  BY <1>1, TurnFlow
<1>7. t.shown \in Seq(Printed) /\ \A i : ShownBy(t, i) \in Lines
  <2>1. t.shown \in Seq(Printed)
    BY DEF Turn, LoneType
  <2> QED BY <2>1, ShownLines
<1>8. \A i \in 1..n : SameKind(c[i], u.cmds[i])
  BY <1>2, <1>3 DEF SameKind
<1>9. ASSUME NEW i \in Printers(c) PROVE ShownBy(u, i) \o Awaits(u, flow, i) = Flow(c)[i - 1]
  <2>0. i \in 1..n
    BY <1>3
  <2>1. CASE t.cmds[k].f \in {"terminal", "teeterminal"} /\ t.line.is = "text"
    <3>1. t.line.text \in Seq(Int) /\ Texts(t.line) = <<t.line.text>>
      BY <1>2, <2>1, Item
    <3>2. PICK p : p = [by |-> k, text |-> t.line.text]
      OBVIOUS
    <3>3. p \in Printed /\ p.by = k /\ p.text = t.line.text
      BY <1>2, <3>1, <3>2 DEF Printed
    <3>4. u.shown = Append(t.shown, p)
      BY <1>1, <2>1, <3>2 DEF Shown
    <3>5. ShownBy(u, i) = Kept(ShownBy(t, i), p, i)
      BY <1>7, <3>3, <3>4, ShownMore
    <3>6. CASE i = k
      <4>1. ShownBy(u, i) = Append(ShownBy(t, i), t.line.text)
        BY <3>3, <3>5, <3>6 DEF Kept
      <4>2. Append(ShownBy(t, i), t.line.text) \o out[k - 1] = ShownBy(t, i) \o (<<t.line.text>> \o out[k - 1])
        BY <1>6, <1>7, <3>1, JoinLines
      <4>3. Awaits(t, out, i) = <<t.line.text>> \o out[k - 1]
        BY <1>4, <3>1, <3>6 DEF Ahead
      <4>4. ShownBy(t, i) \o Awaits(t, out, i) = Flow(c)[i - 1]
        BY <1>3
      <4>5. Awaits(u, flow, i) = out[k - 1]
        BY <1>4, <3>6
      <4> QED BY ONLY <4>1, <4>2, <4>3, <4>4, <4>5, Zenon
    <3>7. CASE i # k
      <4>1. ShownBy(u, i) = ShownBy(t, i)
        BY <3>3, <3>5, <3>7 DEF Kept
      <4>2. Awaits(u, flow, i) = Awaits(t, out, i)
        BY <1>5, <2>0, <3>7
      <4>3. ShownBy(t, i) \o Awaits(t, out, i) = Flow(c)[i - 1]
        BY <1>3
      <4> QED BY ONLY <4>1, <4>2, <4>3, Zenon
    <3> QED BY <3>6, <3>7
  <2>2. CASE ~(t.cmds[k].f \in {"terminal", "teeterminal"} /\ t.line.is = "text")
    <3>1. ShownBy(u, i) = ShownBy(t, i)
      <4>1. u.shown = t.shown
        BY <1>1, <2>2 DEF Shown
      <4> QED BY <4>1 DEF ShownBy
    <3>2. Awaits(u, flow, i) = Awaits(t, out, i)
      <4>1. CASE i = k
        <5>1. t.cmds[k].f \in {"terminal", "teeterminal"}
          BY <1>3, <2>0, <4>1 DEF SameKind, Printers
        <5>2. Texts(t.line) = <<>>
          BY <1>2, <2>2, <5>1, Item
        <5>3. <<>> \o out[k - 1] = out[k - 1]
          BY <1>6, NoLines
        <5> QED BY <1>4, <4>1, <5>2, <5>3 DEF Ahead
      <4>2. CASE i # k
        BY <1>5, <2>0, <4>2
      <4> QED BY <4>1, <4>2
    <3>3. ShownBy(t, i) \o Awaits(t, out, i) = Flow(c)[i - 1]
      BY <1>3
    <3> QED BY ONLY <3>1, <3>2, <3>3, Zenon
  <2> QED BY <2>1, <2>2
<1> QED BY <1>2, <1>3, <1>8, <1>9 DEF Faithful

\* A train has its tails and sources where its command line has them.
LEMMA FaithfulOrdered ==
  ASSUME NEW c \in Seq(Command), Starts(c), NEW t, NEW out, Faithful(c, t, out)
  PROVE  Ordered(t)
<1>1. Len(t.cmds) = Len(c) /\ \A i \in 1..Len(c) : SameKind(c[i], t.cmds[i])
  BY DEF Faithful
<1>2. \A i \in 1..Len(c) : c[i].f # "skip"
  <2>1. \A b \in Command : b.f # "skip"
    BY DEF Command
  <2> QED BY <2>1
<1>3. \A i \in 1..Len(c) : /\ t.cmds[i].f = "skip" <=> c[i].f = "tail"
                           /\ Source(t.cmds[i]) <=> Source(c[i])
  BY <1>1, <1>2 DEF SameKind, Source
<1>4. ASSUME NEW i \in 1..Len(c), NEW j \in 1..Len(c), c[i].f = "tail", i < j, Source(c[j])
      PROVE  \E k \in 1..Len(c) : k < i /\ Source(c[k])
  <2>1. DOMAIN c = 1..Len(c)
    OBVIOUS
  <2>2. PICK k \in 1..i - 1 : Source(c[k])
    BY <1>4, <2>1 DEF Starts
  <2>3. k \in 1..Len(c) /\ k < i
    BY <2>2
  <2> QED BY <2>2, <2>3
<1> QED BY <1>1, <1>3, <1>4 DEF Ordered

\* The command under the locomotive is asked what it can answer.
LEMMA AskedNow ==
  ASSUME NEW c \in Seq(Command), NEW t, NEW out, LoneType(t), PipedBy(c, t, out), NEW k \in 1..Len(t.cmds), k = t.loco
  PROVE  Asked(t.cmds[k], t.line, out[k - 1])
<1>1. PICK n \in Nat : n = Len(t.cmds)
  BY DEF LoneType
<1>2. /\ t.cmds \in Seq(State) /\ t.cmds[k] \in State /\ t.line \in Items /\ k \in 1..n /\ k - 1 \in 0..n /\ k \in 0..n
  BY <1>1 DEF LoneType
<1>3. out[k - 1] \in Lines /\ out[k] \in Lines
  BY <1>1, <1>2 DEF PipedBy, Flows
<1>4. t.cmds[k].f # "tail"
  BY <1>1 DEF PipedBy, Faithful, SameKind
<1>5. t.line = End => out[k - 1] = <<>>
  BY DEF PipedBy, Ended
<1>6. Left(t, k) = Owed(t.cmds) + 1 /\ Owed(t.cmds) \in Nat
  BY <1>2, LeftNow
<1>7. t.cmds[k].f = "iota" => Fits(t.cmds[k].n + t.cmds[k].d)
  <2>1. ASSUME t.cmds[k].f = "iota" PROVE Fits(t.cmds[k].n + t.cmds[k].d)
    <3>1. \A m \in 0..Len(out[k]) + Left(t, k) : Fits(t.cmds[k].n + m * t.cmds[k].d)
      BY <2>1 DEF PipedBy, Fitting
    <3>2. 1 \in 0..Len(out[k]) + Left(t, k)
      BY <1>3, <1>6, NoLines
    <3>3. 1 * t.cmds[k].d = t.cmds[k].d
      BY <1>2, <2>1 DEF State
    <3> QED BY <3>1, <3>2, <3>3
  <2> QED BY <2>1
<1>8. ASSUME t.cmds[k].f = "skip" PROVE Fits(t.cmds[k].e + 1) /\ (t.line = Request => t.cmds[k].e >= 0)
  <2>1. PICK e \in Int : e = t.cmds[k].e
    BY <1>2, <1>8 DEF State
  <2>2. /\ e >= MinInt /\ (Beyond(t, k) => e >= 0)
        /\ e + 2 * (Len(Awaits(t, out, k)) + Left(t, k)) + One(Beyond(t, k)) <= MaxInt
    BY <1>8, <2>1 DEF PipedBy, Fitting
  <2>3. PICK l \in Nat : l = Len(Awaits(t, out, k))
    <3>1. Texts(t.line) \in Lines
      <4>1. \A w \in Seq(Int) : <<w>> \in Lines
        BY DEF Lines
      <4> QED BY <1>2, <4>1, Item, NoLines
    <3>2. Awaits(t, out, k) = Texts(t.line) \o out[k - 1]
      BY DEF Awaits, Arriving
    <3> QED BY <1>3, <3>1, <3>2, NoLines
  <2>4. PICK o, b \in Nat : o = Owed(t.cmds) /\ b = One(Beyond(t, k))
    BY <1>6 DEF One
  <2>5. PICK p, q \in Int : p = MinInt /\ q = MaxInt
    BY Bounds
  <2>6. e + 2 * (l + (o + 1)) + b <= q /\ e >= p
    BY <1>6, <2>2, <2>3, <2>4, <2>5
  <2>7. p <= e + 1 /\ e + 1 <= q
    BY <2>6
  <2>8. t.line = Request => Beyond(t, k)
    BY DEF Beyond
  <2> QED BY <2>1, <2>2, <2>5, <2>7, <2>8, FitsIs
<1> QED BY <1>2, <1>3, <1>4, <1>5, <1>7, <1>8 DEF Asked

\* A step of the train moves lines on, and neither makes nor loses one.
LEMMA MovedPiped ==
  ASSUME NEW c \in Seq(Command), Starts(c), NEW t, Piped(c, t), ~AtEnd(t)
  PROVE  Piped(c, Moved(t))
<1>1. LoneType(t)
  BY DEF Piped
<1>2. PICK out \in [0..Len(t.cmds) -> Lines] : PipedBy(c, t, out)
  BY DEF Piped
<1>3. PICK n \in Nat : n = Len(t.cmds)
  BY <1>1 DEF LoneType
<1>4. PICK k \in 1..n : k = t.loco
  <2>1. t.loco \in Nat /\ t.loco <= n + 1
    BY <1>1, <1>3 DEF LoneType
  <2> QED BY <1>3, <2>1 DEF AtEnd
<1> DEFINE rest == out[k - 1]
           a == Does(t.cmds[k], t.line)
           u == Moved(t)
           flow == [out EXCEPT ![k] = Yields(a.state, a.line # Request, rest)]
<1>5. Asked(t.cmds[k], t.line, rest)
  BY <1>1, <1>2, <1>3, <1>4, AskedNow
<1>6. Serves(t.cmds[k], t.line, rest, a) /\ Behaves(t.cmds[k], t.line, a)
  BY <1>5, DoesServes
<1>7. /\ u.cmds = [t.cmds EXCEPT ![k] = a.state] /\ u.line = a.line /\ u.shown = Shown(t)
      /\ u.loco = IF a.line = Request THEN k - 1 ELSE k + 1
      /\ u = [cmds |-> u.cmds, loco |-> u.loco, line |-> u.line, shown |-> u.shown]
  BY <1>4 DEF Moved
<1> HIDE DEF a, u
<1>8. Turn(t, out, a, u, flow)
  BY <1>1, <1>2, <1>3, <1>4, <1>6, <1>7 DEF Turn, PipedBy
<1>9. /\ u.cmds \in Seq(State) /\ Len(u.cmds) = n /\ a.line \in Items
  BY <1>3, <1>4, <1>8, TurnCommands
<1>10. LoneType(u)
  <2>1. u.loco \in Nat /\ u.loco <= n + 1
    BY <1>4, <1>7
  <2>2. u.shown \in Seq(Printed)
    <3>1. t.shown \in Seq(Printed) /\ t.line \in Items
      BY <1>1 DEF LoneType
    <3>2. CASE t.cmds[k].f \in {"terminal", "teeterminal"} /\ t.line.is = "text"
      <4>1. t.line.text \in Seq(Int)
        BY <3>1, <3>2, Item
      <4>2. PICK p : p = [by |-> k, text |-> t.line.text]
        OBVIOUS
      <4>3. p \in Printed
        BY <1>3, <1>4, <4>1, <4>2 DEF Printed
      <4>4. u.shown = Append(t.shown, p)
        BY <1>4, <1>7, <3>2, <4>2 DEF Shown
      <4> QED BY <3>1, <4>3, <4>4
    <3>3. CASE ~(t.cmds[k].f \in {"terminal", "teeterminal"} /\ t.line.is = "text")
      BY <1>4, <1>7, <3>1, <3>3 DEF Shown
    <3> QED BY <3>2, <3>3
  <2>3. PICK w, x, y, z : w = u.cmds /\ x = u.loco /\ y = u.line /\ z = u.shown
    OBVIOUS
  <2>4. w \in Seq(State) /\ x \in Nat /\ y \in Items /\ z \in Seq(Printed)
    BY <1>7, <1>9, <2>1, <2>2, <2>3
  <2>5. u = [cmds |-> w, loco |-> x, line |-> y, shown |-> z]
    BY <1>7, <2>3
  <2>6. u \in [cmds : Seq(State), loco : Nat, line : Items, shown : Seq(Printed)]
    BY <2>4, <2>5
  <2> QED BY <1>9, <2>1, <2>6 DEF LoneType
<1> HIDE DEF flow
<1>11. Flows(u, flow)
  BY <1>8, TurnFlows
<1>12. Ended(u, flow)
  BY <1>2, <1>8, TurnEnded DEF PipedBy
<1>13. Supplied(u)
  <2>1. Ordered(t)
    BY <1>2, FaithfulOrdered DEF PipedBy
  <2> QED BY <1>2, <1>8, <2>1, TurnSupplied DEF PipedBy
<1>14. Fitting(u, flow)
  BY <1>2, <1>8, TurnFitting DEF PipedBy
<1>15. Faithful(c, u, flow)
  BY <1>2, <1>7, <1>8, TurnFaithful DEF PipedBy
<1>16. flow \in [0..Len(u.cmds) -> Lines]
  BY <1>11 DEF Flows
<1> QED BY <1>10, <1>11, <1>12, <1>13, <1>14, <1>15, <1>16 DEF Piped, PipedBy, u

-----------------------------------------------------------------------------
(* A train that was just set up yields what its command line means.              *)

\* A command that was just set up yields what it means.
LEMMA InitYields ==
  ASSUME NEW c \in Command, ~Fails(c), NEW lines \in Lines, NEW s, s = InitCommand(c),
         c.f = "iota" => Fits(c.n - c.d),
         c.f = "tail" => c.arg >= 0 /\ (c.plus => c.arg = 10)
  PROVE  /\ Yields(s, FALSE, lines) = Meaning(c, lines)
         /\ s \in State /\ SameKind(c, s)
         /\ c.f = "iota" => s.n = c.n - c.d /\ s.d = c.d /\ Meaning(c, lines) = Counted(c)
         /\ c.f = "tail" => s.f = "skip" /\ s.e = -c.arg
<1>0. s \in State
  BY InitCommandState
<1>1. CASE c.f = "iota"
  <2>1. c \in Iotas /\ c.n \in Int /\ c.d \in Int
    BY <1>1 DEF Command, Iotas
  <2>2. PICK n \in Int : n = c.n - c.d /\ Int16(c.n - c.d) = n
    BY <1>1, <2>1, Int16Fits
  <2>3. s = [c EXCEPT !.n = n]
    BY <1>1, <2>2 DEF InitCommand
  <2>4. s.n = n /\ s.d = c.d /\ s.f = "iota" /\ n + c.d = c.n
    BY <2>1, <2>2, <2>3 DEF Iotas
  <2>5. [s EXCEPT !.n = s.n + s.d] = c
    BY <2>1, <2>3, <2>4 DEF Iotas
  <2>6. Yields(s, FALSE, lines) = Counted(c)
    BY <2>4, <2>5 DEF Yields
  <2>7. Meaning(c, lines) = Counted(c)
    BY <1>1 DEF Meaning
  <2> QED BY <1>0, <1>1, <2>2, <2>4, <2>6, <2>7 DEF SameKind
<1>2. CASE c.f = "grep"
  <2>1. s = c
    BY <1>2 DEF InitCommand
  <2> QED BY <1>0, <1>2, <2>1 DEF SameKind, Yields, Meaning
<1>3. CASE c.f = "head"
  <2>1. PICK n \in Int : n = -c.arg
    BY <1>3 DEF Command
  <2>2. s.f = "head" /\ s.n = n
    BY <1>3, <2>1 DEF InitCommand
  <2>3. Max({0, n}) = IF 0 <= n THEN n ELSE 0
    BY MaxOf
  <2>4. Meaning(c, lines) = FirstN(lines, Max({0, n}))
    BY <1>3, <2>1 DEF Meaning
  <2>5. FirstN(lines, 0) = <<>>
    BY FirstNMore, <<>> \in Seq(Int), 0 \in Nat
  <2>6. CASE n > 0
    <3>1. Max({0, n}) = n
      BY <2>3, <2>6
    <3> QED BY <1>0, <1>3, <2>2, <2>4, <2>6, <3>1 DEF SameKind, Yields
  <2>7. CASE ~(n > 0)
    <3>1. Max({0, n}) = 0
      BY <2>3, <2>7
    <3> QED BY <1>0, <1>3, <2>2, <2>4, <2>5, <2>7, <3>1 DEF SameKind, Yields
  <2> QED BY <2>6, <2>7
<1>4. CASE c.f = "tail"
  <2>1. PICK n \in Nat : n = c.arg
    BY <1>4 DEF Command
  <2>2. InitTail(c) = -n
    <3>1. c.plus \in BOOLEAN
      BY <1>4 DEF Command
    <3> QED BY <1>4, <2>1, <3>1 DEF InitTail
  <2>3. s.f = "skip" /\ s.e = -n
    <3>1. ~(-n > 0)
      BY <2>1
    <3>2. s = [f |-> "skip", e |-> InitTail(c)]
      BY <1>4, <2>2, <3>1 DEF InitCommand
    <3> QED BY <2>2, <3>2
  <2>4. Meaning(c, lines) = DropN(lines, n)
    <3>1. ~(n < 0)
      BY <2>1
    <3> QED BY <1>4, <2>1, <3>1 DEF Meaning
  <2>5. Yields(s, FALSE, lines) = DropN(lines, n)
    <3>1. CASE n = 0
      <4>1. DropN(lines, 0) = lines
        BY DropNMore, <<>> \in Seq(Int), 0 \in Nat
      <4>2. ~(-n < 0)
        BY <3>1
      <4> QED BY <2>3, <3>1, <4>1, <4>2 DEF Yields
    <3>2. CASE n # 0
      <4>1. -n < 0 /\ -(-n) = n
        BY <3>2
      <4> QED BY <2>3, <4>1 DEF Yields
    <3> QED BY <3>1, <3>2
  <2> QED BY <1>0, <1>4, <2>1, <2>3, <2>4, <2>5 DEF SameKind
<1>5. CASE c.f = "wc"
  <2>1. s.f = "wc" /\ s.ln = 0 /\ s.wn = 0 /\ s.cn = 0
    BY <1>5 DEF InitCommand
  <2>2. PICK p, q, r \in Int : Totals(lines) = <<p, q, r>>
    <3>1. Totals(lines) \in Sum
      BY NoTotals
    <3> QED BY <3>1 DEF Sum
  <2>3. Yields(s, FALSE, lines) = <<<<0 + p, 0 + q, 0 + r>>>>
    BY <2>1, <2>2 DEF Yields
  <2>4. 0 + p = p /\ 0 + q = q /\ 0 + r = r
    OBVIOUS
  <2>5. Meaning(c, lines) = <<<<p, q, r>>>>
    BY <1>5, <2>2 DEF Meaning
  <2> QED BY <1>0, <1>5, <2>1, <2>3, <2>4, <2>5 DEF SameKind
<1>6. CASE c.f \in {"teeterminal", "terminal"}
  <2>1. s = c
    BY <1>6 DEF InitCommand
  <2> QED BY <1>0, <1>6, <2>1 DEF SameKind, Yields, Meaning
<1>7. c.f \in {"iota", "grep", "head", "tail", "wc", "teeterminal", "terminal"}
  BY DEF Command, Fails
<1> QED BY <1>1, <1>2, <1>3, <1>4, <1>5, <1>6, <1>7

\* So does the whole train.
LEMMA CoupledPiped ==
  ASSUME NEW c \in Seq(Command), c # <<>>, Plain(c), \A i \in 1..Len(c) : ~Fails(c[i]),
         NEW t, t = Idle(Couple(c))
  PROVE  Piped(c, t)
<1>1. PICK n \in Nat : n = Len(c) /\ DOMAIN c = 1..n /\ n # 0
  OBVIOUS
<1>2. /\ t.cmds = [i \in 1..n |-> InitCommand(c[i])] /\ t.loco = 1 /\ t.line = End /\ t.shown = <<>>
      /\ t = [cmds |-> t.cmds, loco |-> t.loco, line |-> t.line, shown |-> t.shown]
  BY <1>1 DEF Idle, Couple, NoTrain
<1>3. PICK out : out = Flow(c) /\ out \in [0..n -> Lines] /\ out[0] = <<>>
                 /\ \A i \in 1..n : out[i] = Meaning(c[i], out[i - 1])
  BY <1>1, FlowLines
<1>4. ASSUME NEW i \in 1..n
      PROVE  /\ c[i] \in Command /\ out[i - 1] \in Lines /\ out[i] \in Lines
             /\ c[i].f = "tail" => c[i].arg >= 0 /\ (c[i].plus => c[i].arg = 10)
             /\ c[i].f = "iota" => Fits(c[i].n - c[i].d)
  <2>1. c[i] \in Command /\ i - 1 \in 0..n /\ i \in 0..n
    BY <1>1
  <2>2. ASSUME c[i].f = "iota" PROVE Fits(c[i].n - c[i].d)
    <3>1. \A m \in 0..Len(Counted(c[i])) + Skips(c) + 1 : Fits(c[i].n + (m - 1) * c[i].d)
      BY <1>1, <2>2 DEF Plain
    <3>2. PICK p, d \in Int : p = c[i].n /\ d = c[i].d
      BY <2>1, <2>2 DEF Command
    <3>3. 0 \in 0..Len(Counted(c[i])) + Skips(c) + 1
      <4>1. Len(Counted(c[i])) \in Nat
        <5>1. c[i] \in Iotas
          BY <2>1, <2>2 DEF Command, Iotas
        <5> QED BY <5>1, CountedLines
      <4>2. Skips(c) \in Nat
        <5>1. Couple(c).cmds \in Seq(State)
          <6>1. \A j \in 1..n : InitCommand(c[j]) \in State
            BY <1>1, InitCommandState
          <6>2. Couple(c).cmds = [j \in 1..n |-> InitCommand(c[j])]
            BY <1>1 DEF Couple, NoTrain
          <6>3. [j \in 1..n |-> InitCommand(c[j])] \in Seq(State)
            BY <1>1, <6>1
          <6> QED BY <6>2, <6>3
        <5>2. PICK cmds \in Seq(State) : cmds = Couple(c).cmds
          BY <5>1
        <5>3. Owed(cmds) \in Nat
          BY OwedSteps
        <5> QED BY <5>2, <5>3 DEF Skips
      <4> QED BY <4>1, <4>2
    <3>4. p + (0 - 1) * d = p - d
      OBVIOUS
    <3> QED BY <3>1, <3>2, <3>3, <3>4
  <2>3. c[i].f = "tail" => c[i].arg >= 0 /\ (c[i].plus => c[i].arg = 10)
    BY <1>1 DEF Plain
  <2> QED BY <1>3, <2>1, <2>2, <2>3
<1>5. ASSUME NEW i \in 1..n
      PROVE  LET s == t.cmds[i]
             IN  /\ Yields(s, FALSE, out[i - 1]) = out[i]
                 /\ s \in State /\ SameKind(c[i], s)
                 /\ c[i].f = "iota" => s.n = c[i].n - c[i].d /\ s.d = c[i].d /\ out[i] = Counted(c[i])
                 /\ c[i].f = "tail" => s.f = "skip" /\ s.e = -c[i].arg
  <2>1. PICK b \in Command : b = c[i]
    BY <1>4
  <2>2. PICK lines \in Lines : lines = out[i - 1]
    BY <1>4
  <2>3. PICK s : s = t.cmds[i] /\ s = InitCommand(b)
    BY <1>2, <2>1
  <2>4. ~Fails(b) /\ (b.f = "iota" => Fits(b.n - b.d)) /\ (b.f = "tail" => b.arg >= 0 /\ (b.plus => b.arg = 10))
    BY <1>1, <1>4, <2>1
  <2>5. /\ Yields(s, FALSE, lines) = Meaning(b, lines)
        /\ s \in State /\ SameKind(b, s)
        /\ b.f = "iota" => s.n = b.n - b.d /\ s.d = b.d /\ Meaning(b, lines) = Counted(b)
        /\ b.f = "tail" => s.f = "skip" /\ s.e = -b.arg
    BY ONLY <2>3, <2>4, InitYields
  <2>6. out[i] = Meaning(b, lines)
    BY <1>3, <2>1, <2>2
  <2> QED BY <2>1, <2>2, <2>3, <2>5, <2>6
<1>6. t.cmds \in Seq(State) /\ Len(t.cmds) = n
  <2>1. \A i \in 1..n : InitCommand(c[i]) \in State
    BY <1>1, <1>4, InitCommandState
  <2> QED BY <1>2, <2>1
<1>7. LoneType(t)
  <2>1. t.shown \in Seq(Printed) /\ t.line \in Items /\ t.loco \in Nat /\ t.loco <= n + 1
    BY <1>1, <1>2, ItemsAre
  <2>2. PICK w, x, y, z : w = t.cmds /\ x = t.loco /\ y = t.line /\ z = t.shown
    OBVIOUS
  <2>3. w \in Seq(State) /\ x \in Nat /\ y \in Items /\ z \in Seq(Printed)
    BY <1>6, <2>1, <2>2
  <2>4. t = [cmds |-> w, loco |-> x, line |-> y, shown |-> z]
    BY <1>2, <2>2
  <2>5. t \in [cmds : Seq(State), loco : Nat, line : Items, shown : Seq(Printed)]
    BY <2>3, <2>4
  <2> QED BY <1>6, <2>1, <2>5 DEF LoneType
<1>8. \A i \in 1..n : Beyond(t, i) = FALSE /\ Awaits(t, out, i) = out[i - 1]
  <2>1. ASSUME NEW i \in 1..n PROVE Beyond(t, i) = FALSE /\ Awaits(t, out, i) = out[i - 1]
    <3>1. ~(1 > i)
      OBVIOUS
    <3>2. <<>> \o out[i - 1] = out[i - 1]
      BY <1>4, NoLines
    <3> QED BY <1>2, <3>1, <3>2, ItemsAre DEF Beyond, Awaits, Arriving
  <2> QED BY <2>1
<1>9. Flows(t, out)
  <2>1. ASSUME NEW i \in 1..n PROVE out[i] = Yields(t.cmds[i], Beyond(t, i), Awaits(t, out, i))
    <3>1. Yields(t.cmds[i], FALSE, out[i - 1]) = out[i]
      BY <1>5
    <3> QED BY <1>8, <3>1, Zenon
  <2> QED BY <1>3, <1>6, <2>1 DEF Flows
<1>10. Ended(t, out) /\ Supplied(t)
  <2>1. t.line = End /\ t.line # Request /\ t.line.is # "text" /\ t.loco - 1 = 0 /\ \A i \in 1..n : ~(t.loco > i)
    BY <1>2, ItemsAre
  <2> QED BY <1>3, <1>6, <2>1 DEF Ended, Supplied
<1>11. Skips(c) = Owed(t.cmds) /\ Owed(t.cmds) \in Nat
  <2>1. Couple(c).cmds = t.cmds
    BY <1>1, <1>2 DEF Couple, NoTrain
  <2>2. Owed(t.cmds) \in Nat
    <3>1. PICK cmds \in Seq(State) : cmds = t.cmds
      BY <1>6
    <3>2. Owed(cmds) \in Nat
      BY OwedSteps
    <3> QED BY <3>1, <3>2
  <2> QED BY <2>1, <2>2 DEF Skips
<1>12. Fitting(t, out)
  <2>1. PICK o \in Nat : o = Skips(c) /\ o = Owed(t.cmds)
    BY <1>11
  <2>2. ASSUME NEW i \in 1..n, t.cmds[i].f = "iota"
        PROVE  \A m \in 0..Len(out[i]) + Left(t, i) : Fits(t.cmds[i].n + m * t.cmds[i].d)
    <3>1. c[i].f = "iota"
      BY <1>5, <2>2 DEF SameKind
    <3>2. \A m \in 0..Len(Counted(c[i])) + Skips(c) + 1 : Fits(c[i].n + (m - 1) * c[i].d)
      BY <1>1, <3>1 DEF Plain
    <3>3. PICK p, d \in Int : p = c[i].n /\ d = c[i].d /\ t.cmds[i].n = p - d /\ t.cmds[i].d = d
      <4>1. c[i].n \in Int /\ c[i].d \in Int
        BY <1>4, <3>1 DEF Command
      <4>2. t.cmds[i].n = c[i].n - c[i].d /\ t.cmds[i].d = c[i].d
        BY <1>5, <3>1
      <4> QED BY ONLY <4>1, <4>2
    <3>4. PICK l \in Nat : l = Len(out[i]) /\ out[i] = Counted(c[i])
      BY <1>4, <1>5, <3>1, NoLines
    <3>5. PICK b \in 0..1 : Left(t, i) = o + b
      BY <2>1 DEF Left, One
    <3>6. ASSUME NEW m \in 0..l + (o + b) PROVE Fits((p - d) + m * d)
      <4>1. m \in 0..l + o + 1 /\ m \in Int
        BY <3>4
      <4>2. Fits(p + (m - 1) * d)
        BY <2>1, <3>2, <3>3, <3>4, <4>1
      <4>3. p + (m - 1) * d = (p - d) + m * d
        <5>1. (m - 1) * d = m * d - d
          BY <4>1
        <5>2. PICK w \in Int : w = m * d
          BY <4>1
        <5> QED BY <5>1, <5>2
      <4> QED BY <4>2, <4>3
    <3> QED BY <3>3, <3>4, <3>5, <3>6
  <2>3. ASSUME NEW i \in 1..n, t.cmds[i].f = "skip"
        PROVE  /\ t.cmds[i].e >= MinInt /\ (Beyond(t, i) => t.cmds[i].e >= 0)
               /\ t.cmds[i].e + 2 * (Len(Awaits(t, out, i)) + Left(t, i)) + One(Beyond(t, i)) <= MaxInt
    <3>1. c[i].f = "tail"
      <4>1. c[i].f # "skip"
        BY <1>4 DEF Command
      <4> QED BY <1>5, <2>3, <4>1 DEF SameKind
    <3>2. PICK arg \in Int : arg = c[i].arg /\ t.cmds[i].e = -arg
      BY <1>4, <1>5, <3>1 DEF Command
    <3>3. Fits(-arg) /\ Fits(2 * (Len(out[i - 1]) + Skips(c) + 1) - arg)
      BY <1>1, <1>3, <3>1, <3>2 DEF Plain
    <3>4. PICK l \in Nat : l = Len(out[i - 1])
      BY <1>4, NoLines
    <3>5. PICK b \in 0..1 : Left(t, i) = o + b
      BY <2>1 DEF Left, One
    <3>6. PICK p, q \in Int : p = MinInt /\ q = MaxInt
      BY Bounds
    <3>7. p <= -arg /\ 2 * (l + o + 1) - arg <= q
      BY <2>1, <3>3, <3>4, <3>6, FitsIs
    <3>8. -arg + 2 * (l + (o + b)) + 0 <= q
      BY <3>7
    <3>9. One(Beyond(t, i)) = 0 /\ Awaits(t, out, i) = out[i - 1] /\ ~Beyond(t, i)
      BY <1>8 DEF One
    <3> QED BY <3>2, <3>4, <3>5, <3>6, <3>7, <3>8, <3>9
  <2> QED BY <1>6, <2>2, <2>3 DEF Fitting
<1>13. Faithful(c, t, out)
  <2>1. \A i : ShownBy(t, i) = <<>>
    <3>1. t.shown \in Seq(Printed)
      BY <1>7 DEF LoneType
    <3> QED BY <1>2, <3>1, ShownLines
  <2>2. Printers(c) \subseteq 1..n
    BY <1>1 DEF Printers
  <2>3. ASSUME NEW i \in Printers(c) PROVE ShownBy(t, i) \o Awaits(t, out, i) = Flow(c)[i - 1]
    <3>1. i \in 1..n
      BY <2>2
    <3>2. <<>> \o out[i - 1] = out[i - 1]
      BY <1>4, <3>1, NoLines
    <3> QED BY <1>3, <1>8, <2>1, <3>1, <3>2
  <2> QED BY <1>1, <1>5, <1>6, <2>3 DEF Faithful
<1> QED BY <1>3, <1>6, <1>7, <1>9, <1>10, <1>12, <1>13 DEF Piped, PipedBy

-----------------------------------------------------------------------------
(* A train that ran to its end has printed all that its command line means.      *)

Complete(c, t) ==
  \A i \in Printers(c) : /\ IsPrefix(ShownBy(t, i), Flow(c)[i - 1])
                         /\ c[i].f = "terminal" => ShownBy(t, i) = Flow(c)[i - 1]

\* The beginning of some lines is a prefix of them.
LEMMA PrefixIs ==
  ASSUME NEW a \in Lines, NEW b \in Lines
  PROVE  IsPrefix(a, a \o b)
<1>1. PICK l, m \in Nat : l = Len(a) /\ m = Len(b)
  BY NoLines
<1>2. /\ a \o b \in Lines /\ Len(a \o b) = l + m
      /\ \A i \in 1..l + m : (a \o b)[i] = IF i <= l THEN a[i] ELSE b[i - l]
  BY <1>1, Joined
<1>3. PICK d \in Lines : d = a \o b
  BY <1>2
<1>4. Len(d) = l + m /\ \A i \in 1..l : d[i] = a[i]
  <2>1. \A i \in 1..l : i \in 1..l + m /\ i <= l
    BY <1>1
  <2> QED BY <1>2, <1>3, <2>1
<1>5. FirstN(a, l) = FirstN(d, l)
  <2>1. /\ FirstN(a, l) \in Lines /\ Len(FirstN(a, l)) = l /\ \A i \in 1..l : FirstN(a, l)[i] = a[i]
    BY <1>1, FirstNLines
  <2>2. /\ FirstN(d, l) \in Lines /\ Len(FirstN(d, l)) = l /\ \A i \in 1..l : FirstN(d, l)[i] = d[i]
    <3>1. l <= Len(d)
      BY <1>4
    <3> QED BY <3>1, FirstNLines
  <2> QED BY <1>4, <2>1, <2>2, SameLines
<1>6. FirstN(a, l) = SubSeq(a, 1, l) /\ FirstN(d, l) = SubSeq(d, 1, l)
  <2>1. Min({l, Len(a)}) = l /\ Min({l, Len(d)}) = l
    <3>1. l <= Len(a) /\ l <= Len(d) /\ Len(a) \in Int /\ Len(d) \in Int
      BY <1>1, <1>4
    <3> QED BY <3>1, MinOf
  <2> QED BY <2>1 DEF FirstN
<1>7. Len(a) <= Len(d)
  BY <1>1, <1>4
<1> QED BY <1>1, <1>3, <1>5, <1>6, <1>7 DEF IsPrefix

\* What is printed and awaited together is what flows in, so that nothing is missing
\* when nothing is awaited.
LEMMA DoneComplete ==
  ASSUME NEW c \in Seq(Command), NEW t, LoneType(t), NEW out, PipedBy(c, t, out),
         \A i \in 1..Len(t.cmds) : t.cmds[i].f = "terminal" => Awaits(t, out, i) = <<>>
  PROVE  Complete(c, t)
<1>1. PICK n \in Nat : n = Len(t.cmds) /\ n = Len(c)
  BY DEF LoneType, PipedBy, Faithful
<1>2. /\ \A i \in 1..n : SameKind(c[i], t.cmds[i])
      /\ \A i \in Printers(c) : ShownBy(t, i) \o Awaits(t, out, i) = Flow(c)[i - 1]
  BY <1>1 DEF PipedBy, Faithful
<1>3. ASSUME NEW i \in Printers(c)
      PROVE  /\ IsPrefix(ShownBy(t, i), Flow(c)[i - 1])
             /\ c[i].f = "terminal" => ShownBy(t, i) = Flow(c)[i - 1]
  <2>1. i \in 1..n
    BY <1>1 DEF Printers
  <2>2. PICK a \in Lines : a = ShownBy(t, i)
    <3>1. t.shown \in Seq(Printed)
      BY DEF LoneType
    <3> QED BY <3>1, ShownLines
  <2>3. PICK b \in Lines : b = Awaits(t, out, i)
    <3>1. out[i - 1] \in Lines
      <4>1. i - 1 \in 0..n
        BY <2>1
      <4> QED BY <1>1, <4>1 DEF PipedBy, Flows
    <3>2. Texts(t.line) \in Lines
      <4>1. \A w \in Seq(Int) : <<w>> \in Lines
        BY DEF Lines
      <4>2. t.line \in Items
        BY DEF LoneType
      <4> QED BY <4>1, <4>2, Item, NoLines
    <3> QED BY <3>1, <3>2, NoLines DEF Awaits, Arriving
  <2>4. a \o b = Flow(c)[i - 1]
    BY <1>2, <2>2, <2>3
  <2>5. IsPrefix(a, a \o b)
    BY PrefixIs
  <2>6. c[i].f = "terminal" => b = <<>>
    BY <1>1, <1>2, <2>1, <2>3 DEF SameKind
  <2>7. a \o <<>> = a
    BY NoLines
  <2> QED BY <2>2, <2>4, <2>5, <2>6, <2>7
<1> QED BY <1>3 DEF Complete

\* Behind a place where nothing flows, nothing flows up to the next source.
LEMMA NothingYields ==
  ASSUME NEW s \in State, ~Source(s), NEW over \in BOOLEAN
  PROVE  Yields(s, over, <<>>) = <<>>
<1>1. \A n \in Nat : FirstN(<<>>, n) = <<>> /\ DropN(<<>>, n) = <<>>
  <2>1. ASSUME NEW n \in Nat PROVE FirstN(<<>>, n) = <<>> /\ DropN(<<>>, n) = <<>>
    <3>1. PICK l \in Lines : l = <<>> /\ Len(l) = 0
      BY NoLines
    <3>2. FirstN(l, n) \in Lines /\ Len(FirstN(l, n)) = 0
      BY <3>1, FirstNLines
    <3>3. DropN(l, n) \in Lines /\ Len(DropN(l, n)) = 0
      BY <3>1, DropNLines
    <3> QED BY <3>1, <3>2, <3>3, NoLines
  <2> QED BY <2>1
<1>2. CASE s.f = "grep"
  <2>1. Selected(<<>>, s.digit) = <<>>
    BY NoLines, SelectedLines
  <2> QED BY <1>2, <2>1 DEF Yields
<1>3. CASE s.f = "head"
  <2>1. s.n \in Int
    BY <1>3 DEF State
  <2> QED BY <1>1, <1>3, <2>1 DEF Yields
<1>4. CASE s.f = "skip"
  <2>1. s.e \in Int
    BY <1>4 DEF State
  <2>2. s.e < 0 => -s.e \in Nat
    BY <2>1
  <2> QED BY <1>1, <1>4, <2>2 DEF Yields
<1>5. CASE s.f \in {"tail", "teeterminal", "terminal"}
  BY <1>5 DEF Yields
<1>6. s.f \in {"grep", "head", "skip", "tail", "teeterminal", "terminal"}
  BY DEF State, Source
<1> QED BY <1>2, <1>3, <1>4, <1>5, <1>6

\* The same of all commands up to the next source.
LEMMA Dry ==
  ASSUME NEW t, LoneType(t), NEW out, Flows(t, out), Texts(t.line) = <<>>,
         NEW k \in 0..Len(t.cmds), out[k] = <<>>,
         \A i \in 1..Len(t.cmds) : i > k => ~Source(t.cmds[i])
  PROVE  \A i \in 0..Len(t.cmds) : i >= k => out[i] = <<>>
<1>1. PICK n \in Nat : n = Len(t.cmds)
  BY DEF LoneType
<1> DEFINE S == {i \in 0..n : i >= k => out[i] = <<>>}
<1>2. 0 \in S
  BY <1>1
<1>3. ASSUME NEW i \in 1..n, i - 1 \in S PROVE i \in S
  <2>1. i \in 0..n /\ i - 1 \in 0..n
    OBVIOUS
  <2>2. CASE i <= k
    <3>1. i >= k => i = k
      BY <1>1, <2>2
    <3> QED BY <2>1, <3>1
  <2>3. CASE i > k
    <3>1. out[i - 1] = <<>>
      <4>1. i - 1 >= k
        BY <1>1, <2>3
      <4> QED BY <1>3, <4>1
    <3>2. Awaits(t, out, i) = <<>>
      <4>1. <<>> \o <<>> = <<>>
        BY NoLines
      <4> QED BY <3>1, <4>1 DEF Awaits, Arriving
    <3>3. out[i] = Yields(t.cmds[i], Beyond(t, i), <<>>)
      BY <1>1, <3>2 DEF Flows
    <3>4. t.cmds[i] \in State /\ ~Source(t.cmds[i]) /\ Beyond(t, i) \in BOOLEAN
      BY <1>1, <2>3 DEF LoneType, Beyond
    <3>5. out[i] = <<>>
      BY <3>3, <3>4, NothingYields
    <3> QED BY <2>1, <3>5
  <2> QED BY <1>1, <2>2, <2>3
<1>4. 0..n \subseteq S
  <2> HIDE DEF S
  <2> QED BY <1>2, <1>3, UpTo
<1> QED BY <1>1, <1>4

\* At either end of the rails the train has done its work.
LEMMA EndComplete ==
  ASSUME NEW c \in Seq(Command), NEW t, Piped(c, t), AtEnd(t), t.loco = 0 => t.line = Request
  PROVE  Complete(c, t)
<1>1. LoneType(t)
  BY DEF Piped
<1>2. PICK out \in [0..Len(t.cmds) -> Lines] : PipedBy(c, t, out)
  BY DEF Piped
<1>3. PICK n \in Nat : n = Len(t.cmds)
  BY <1>1 DEF LoneType
<1>4. CASE t.loco = 0
  <2>1. \A i \in 1..n : ~Source(t.cmds[i])
    <3>1. \A i \in 1..n : ~(i <= 0)
      OBVIOUS
    <3> QED BY <1>2, <1>3, <1>4, <3>1 DEF PipedBy, Supplied
  <2>2. Texts(t.line) = <<>> /\ out[0] = <<>> /\ 0 \in 0..n
    BY <1>2, <1>3, <1>4, ItemsAre DEF PipedBy, Flows
  <2>3. \A i \in 0..n : i >= 0 => out[i] = <<>>
    BY <1>1, <1>2, <1>3, <2>1, <2>2, Dry DEF PipedBy
  <2>4. ASSUME NEW i \in 1..n PROVE Awaits(t, out, i) = <<>>
    <3>1. i - 1 \in 0..n /\ i - 1 >= 0
      BY <1>3
    <3>2. <<>> \o <<>> = <<>>
      BY NoLines
    <3> QED BY <2>2, <2>3, <3>1, <3>2 DEF Awaits, Arriving
  <2> QED BY <1>1, <1>2, <1>3, <2>4, DoneComplete
<1>5. CASE t.loco = n + 1
  <2>1. \A i \in 1..n : t.loco > i
    BY <1>3, <1>5
  <2> QED BY <1>1, <1>2, <1>3, <2>1, DoneComplete DEF PipedBy, Ended
<1> QED BY <1>3, <1>4, <1>5 DEF AtEnd

\* At the front of the train a line is asked for.
LEMMA FrontAsks ==
  ASSUME NEW t, LoneType(t), ~AtEnd(t), Moved(t).loco = 0
  PROVE  Moved(t).line = Request
<1>1. t.loco \in Nat
  BY DEF LoneType
<1>2. t.loco + 1 # 0
  BY <1>1
<1> QED BY <1>2 DEF Moved

\* When only the first command makes lines, an end of the lines is their end for all.
LEMMA AnsweredComplete ==
  ASSUME NEW c \in Seq(Command), \A i \in 1..Len(c) : i > 1 => ~Source(c[i]),
         NEW t, Piped(c, t), t.line = End, t.loco > 1
  PROVE  Complete(c, t)
<1>1. LoneType(t)
  BY DEF Piped
<1>2. PICK out \in [0..Len(t.cmds) -> Lines] : PipedBy(c, t, out)
  BY DEF Piped
<1>3. PICK n \in Nat : n = Len(t.cmds) /\ n = Len(c)
  BY <1>1, <1>2 DEF LoneType, PipedBy, Faithful
<1>4. PICK k \in 1..n : k = t.loco - 1
  <2>1. t.loco \in Nat /\ t.loco <= n + 1
    BY <1>1, <1>3 DEF LoneType
  <2> QED BY <1>3, <2>1
<1>5. out[k] = <<>> /\ Texts(t.line) = <<>> /\ k \in 0..n
  BY <1>2, <1>4, ItemsAre DEF PipedBy, Ended
<1>6. \A i \in 1..n : i > k => ~Source(t.cmds[i])
  <2>1. ASSUME NEW i \in 1..n, i > k PROVE ~Source(t.cmds[i])
    <3>1. ~Source(c[i])
      BY <1>3, <2>1
    <3>2. SameKind(c[i], t.cmds[i])
      BY <1>2, <1>3 DEF PipedBy, Faithful
    <3> QED BY <3>1, <3>2 DEF SameKind, Source
  <2> QED BY <2>1
<1>7. \A i \in 0..n : i >= k => out[i] = <<>>
  BY <1>1, <1>2, <1>3, <1>5, <1>6, Dry DEF PipedBy
<1>8. ASSUME NEW i \in 1..n, t.cmds[i].f = "terminal" PROVE Awaits(t, out, i) = <<>>
  <2>1. CASE t.loco > i
    BY <1>2, <1>3, <1>8, <2>1 DEF PipedBy, Ended
  <2>2. CASE ~(t.loco > i)
    <3>1. i - 1 \in 0..n /\ i - 1 >= k
      <4>1. t.loco = k + 1
        BY <1>1, <1>4 DEF LoneType
      <4> QED BY <2>2, <4>1
    <3>2. <<>> \o <<>> = <<>>
      BY NoLines
    <3> QED BY <1>5, <1>7, <3>1, <3>2 DEF Awaits, Arriving
  <2> QED BY <2>1, <2>2
<1> QED BY <1>1, <1>2, <1>3, <1>8, DoneComplete

-----------------------------------------------------------------------------
(* The same of a train whose lines are in the heap.                              *)

\* What is seen of a train but for its line is what it is.
LEMMA ViewIs ==
  ASSUME NEW t \in Trains, NEW h
  PROVE  /\ View(h, t).cmds = t.cmds /\ View(h, t).loco = t.loco /\ View(h, t).shown = t.shown
         /\ View(h, t).line = Saw(h, t.line)
         /\ AtEnd(View(h, t)) <=> AtEnd(t)
BY DEF View, Trains, AtEnd

\* A command line that was parsed.
LEMMA ParsePiped ==
  ASSUME NEW c \in CmdLines, Plain(c), NEW t \in Parse(c), IsTrain(t), NEW h
  PROVE  Piped(c, View(h, t)) /\ View(h, t).loco = 1
<1>1. t # NoTrain
  BY DEF IsTrain, NoTrain
<1>2. t = Couple(c) /\ \A i \in 1..Len(c) : ~Fails(c[i])
  BY <1>1 DEF Parse
<1>3. c \in Seq(Command) /\ c # <<>>
  BY CmdLineAssumption
<1>4. t \in Trains /\ t.line = Eos
  BY ParseTrain DEF TypeOKTrain, Trains
<1>5. View(h, t) = Idle(Couple(c))
  BY <1>2, <1>4, ViewIdle
<1>6. Piped(c, Idle(Couple(c)))
  BY <1>2, <1>3, CoupledPiped
<1>7. t.loco = 1
  BY <1>2 DEF Couple, NoTrain
<1> QED BY <1>4, <1>5, <1>6, <1>7, ViewIs

\* One step of the locomotive.
LEMMA StepPiped ==
  ASSUME NEW c \in Seq(Command), Starts(c), NEW t, NEW h,
         TypeOKTrain(t), SoundHeap(h), HasRoom(h), Owned(h, t.line), ~AtEnd(t), Piped(c, View(h, t))
  PROVE  LET step == Wtrainstep(t, h)
             now  == View(step.heap, step.train)
         IN  /\ Piped(c, now) /\ step.train \in Trains
             /\ now.loco = 0 => now.line = Request
             /\ now.line = End => now.loco > 1
<1> DEFINE step == Wtrainstep(t, h)
           now  == View(step.heap, step.train)
<1>1. t \in Trains
  BY DEF TypeOKTrain, Trains
<1>2. now = Moved(View(h, t))
  BY <1>1, StepAlone
<1>3. ~AtEnd(View(h, t)) /\ LoneType(View(h, t))
  BY <1>1, ViewIs DEF Piped
<1>4. step.train \in Trains
  BY WtrainstepSound DEF TypeOKTrain, Trains
<1>5. PICK v : v = View(h, t)
  OBVIOUS
<1>6. Piped(c, Moved(v))
  BY <1>3, <1>5, MovedPiped
<1>7. Moved(v).loco = 0 => Moved(v).line = Request
  BY <1>3, <1>5, FrontAsks
<1>8. Moved(v).line = End => Moved(v).loco > 1
  <2>1. v.loco \in Nat /\ v.loco # 0
    BY <1>3, <1>5 DEF LoneType, AtEnd
  <2>2. Moved(v).line = End => Moved(v).loco = v.loco + 1
    BY <1>3, <1>5, ItemsAre DEF Moved
  <2> QED BY <2>1, <2>2
<1> HIDE DEF step, now
<1>9. /\ Piped(c, now) /\ step.train \in Trains
      /\ now.loco = 0 => now.line = Request
      /\ now.line = End => now.loco > 1
  BY <1>2, <1>4, <1>5, <1>6, <1>7, <1>8
<1> QED BY <1>9 DEF step, now

\* Complete is what the runs check.
LEMMA InputIs ==
  ASSUME NEW c \in CmdLines, NEW t \in Trains, NEW h, Complete(c, View(h, t)), NEW i \in Printers(c)
  PROVE  /\ IsPrefix(ShownBy(t, i), InputOf[c][i])
         /\ c[i].f = "terminal" => ShownBy(t, i) = InputOf[c][i]
<1>1. InputOf[c][i] = Flow(c)[i - 1]
  BY DEF InputOf, Printers
<1>2. ShownBy(View(h, t), i) = ShownBy(t, i)
  BY ViewIs DEF ShownBy
<1> QED BY <1>1, <1>2 DEF Complete
=============================================================================
