------------------------------- MODULE Darena --------------------------------
(***************************************************************************)
(* darena.c: an array that grows by small blocks.  A table of DARENA_BLOCKS*)
(* entries holds chains of blocks; when an index is past the table, each   *)
(* entry covers twice as many elements and the chains are joined in pairs. *)
(***************************************************************************)
EXTENDS Integers, SequencesExt, FiniteSets

CONSTANTS Entries,   \* DARENA_BLOCKS
          Bn,        \* elements of a block, d->bn
          MemBlocks, \* bound: blocks calloc can give, after that it returns NULL
          MaxIndex,  \* bound: the indexes asked for
          Ahead      \* how far past d->max a caller goes: 1 is dapush()

\* DARENA_BLOCKS is 32 or 256; bn is at least 4.
ASSUME DarenaAssumption ==
  /\ Entries \in Nat /\ Entries > 0 /\ Entries % 2 = 0
  /\ Bn \in Nat /\ Bn >= 2
  /\ MemBlocks \in Nat /\ MaxIndex \in Nat /\ Ahead \in Nat

VARIABLES div,      \* elements covered by a table entry
          blocks,   \* the table: a chain of [id, offset] for each entry
          current,  \* the block used last, as a chain of at most one
          max,      \* the highest index
          made,     \* blocks allocated: their ids are 0 .. made - 1
          given,    \* the pointers callers hold: [block, local] by index
          refused,  \* the indexes that were answered NULL
          live,     \* not ended by dafree
          freed     \* how often free() was given each block
vars == <<div, blocks, current, max, made, given, refused, live, freed>>

Index == 0..MaxIndex
Slot  == 0..Entries - 1
NoPlace == [block |-> -1, local |-> 0]
Place == [block : 0..MemBlocks - 1, local : 0..Bn - 1]

Init ==
  /\ div = Bn /\ blocks = [j \in Slot |-> <<>>] /\ current = <<>>
  /\ max = 0 /\ made = 0
  /\ given = [i \in Index |-> NoPlace] /\ refused = {}
  /\ live = TRUE /\ freed = [b \in 0..MemBlocks - 1 |-> 0]

Owns(b, i) == b.offset <= i /\ i < b.offset + Bn

\* The "shrink": chains 2j and 2j + 1 become chain j.
JoinDropsOdd(table) ==
  [j \in Slot |-> IF j < Entries \div 2 THEN table[2 * j] ELSE <<>>]
Join(table) ==
  [j \in Slot |-> IF j < Entries \div 2 THEN table[2 * j] \o table[2 * j + 1] ELSE <<>>]

\* `goto again` until the table reaches index i.
Reaching(i) ==
  LET after[k \in Index] == IF k = 0 THEN [div |-> div, blocks |-> blocks]
                            ELSE [div    |-> 2 * after[k - 1].div,
                                  blocks |-> Join(after[k - 1].blocks)]
      reaches(k) == i \div after[k].div < Entries
  IN  after[CHOOSE k \in Index : reaches(k) /\ \A m \in 0..k - 1 : ~reaches(m)]

-----------------------------------------------------------------------------
\* The starter of entry bi, allocated on first use, covers its first elements.
StarterUnscaled(chain, bi, d) ==
  IF chain # <<>> \/ made = MemBlocks THEN chain ELSE <<[id |-> made, offset |-> bi]>>
Starter(chain, bi, d) ==
  IF chain # <<>> \/ made = MemBlocks THEN chain
                                      ELSE <<[id |-> made, offset |-> bi * d]>>

WalkTooFar(chain, i, n) ==
  IF chain = <<>> \/ \E k \in 1..Len(chain) : Owns(chain[k], i) THEN chain
  ELSE LET last   == chain[Len(chain)].offset
           needed == (i - last) \div Bn + 1
           k      == IF needed <= MemBlocks - n THEN needed ELSE MemBlocks - n
       IN  chain \o [b \in 1..k |-> [id |-> n + b - 1, offset |-> last + b * Bn]]
\* The walk: along the chain to the block that owns i, appending blocks of the next
\* offsets.  `local` is unsigned, so a block past i does not own it either, and then
\* the walk goes on until calloc fails.  n blocks are allocated when it starts.
Walk(chain, i, n) ==
  IF chain = <<>> \/ \E k \in 1..Len(chain) : Owns(chain[k], i) THEN chain
  ELSE LET last   == chain[Len(chain)].offset
           needed == IF i > last THEN (i - last) \div Bn ELSE MemBlocks
           k      == IF needed <= MemBlocks - n THEN needed ELSE MemBlocks - n
       IN  chain \o [b \in 1..k |-> [id |-> n + b - 1, offset |-> last + b * Bn]]

First(chain, i) == CHOOSE k \in 1..Len(chain) :
                     Owns(chain[k], i) /\ \A m \in 1..k - 1 : ~Owns(chain[m], i)

Answer(i, b) ==
  /\ given' = [given EXCEPT ![i] = [block |-> b.id, local |-> i - b.offset]]
  /\ current' = <<b>>
  /\ max' = IF i > max THEN i ELSE max
  /\ UNCHANGED refused
Null(i) == refused' = refused \cup {i} /\ UNCHANGED <<given, current, max>>

\* daptr(d, i): in the block used last, or through the table.
InCurrent(i) == current # <<>> /\ Owns(current[1], i)
Daptr(i) ==
  IF InCurrent(i)
    THEN Answer(i, current[1]) /\ UNCHANGED <<div, blocks, made>>
    ELSE LET table == Reaching(i)
             bi    == i \div table.div
             chain == table.blocks[bi]
             start == Starter(chain, bi, table.div)
             grown == Walk(start, i, made + Len(start) - Len(chain))
         IN  /\ div' = table.div
             /\ blocks' = [table.blocks EXCEPT ![bi] = grown]
             /\ made' = made + Len(grown) - Len(chain)
             /\ IF \E k \in 1..Len(grown) : Owns(grown[k], i)
                  THEN Answer(i, grown[First(grown, i)]) ELSE Null(i)

\* dapush(): the element after the highest.
Dapush == live /\ max + 1 \in Index /\ Daptr(max + 1) /\ UNCHANGED <<live, freed>>

Get == live /\ UNCHANGED <<live, freed>> /\ \E i \in Index : i <= max + Ahead /\ Daptr(i)

\* dafree(): the first block of every entry.
FirstIn(b) == {j \in Slot : blocks[j] # <<>> /\ blocks[j][1].id = b}
Dafree ==
  /\ live /\ live' = FALSE
  /\ freed' = [b \in 0..MemBlocks - 1 |-> Cardinality(FirstIn(b))]
  /\ UNCHANGED <<div, blocks, current, max, made, given, refused>>

Next == Get \/ Dapush \/ Dafree
Spec == Init /\ [][Next]_vars

-----------------------------------------------------------------------------
\* Callers may keep their pointers: an index keeps its place through every growth
\* and joining, and no other index gets it.
Array == INSTANCE StableArray
PermanentPlaces == Array!Spec

\* NULL is answered only if an array up to that index does not fit in memory.
NullMeansFull == \A i \in refused : i \div Bn >= MemBlocks

\* An arena that has not outgrown its table has no second block in any entry, so that
\* dafree, which does not follow the chains, frees all it has, each block once.
FreedOnce ==
  \A b \in 0..MemBlocks - 1 :
    freed[b] <= 1 /\ (~live /\ div = Bn /\ b < made => freed[b] = 1)
=============================================================================
