-------------------------------- MODULE Darr ---------------------------------
(***************************************************************************)
(* darr.c: an array that grows by blocks of one kind.  A block heads a     *)
(* chain of at most DARR_CHAIN; the blocks after that are found through    *)
(* `super`, an array of the same kind whose elements point to the chains.  *)
(***************************************************************************)
EXTENDS Integers, SequencesExt, FiniteSets

CONSTANTS Chain,     \* DARR_CHAIN
          Bn,        \* elements of a block
          Pn,        \* pointers that fit in a block
          MemBlocks, \* bound: blocks calloc can give, after that it returns NULL
          Index,     \* the indexes asked for
          MaxCalls   \* bound: calls of dptr

ASSUME DarrAssumption ==
  /\ Chain \in Nat /\ Chain >= 1 /\ Bn \in Nat /\ Bn >= 1 /\ Pn \in Nat /\ Pn >= 2
  /\ MemBlocks \in Nat /\ Index \subseteq Nat

VARIABLES heap,     \* the blocks: next, super, and the pointers of a directory
          given,    \* the pointers callers hold: [block, local] by index
          refused,  \* the indexes that were answered NULL
          calls,    \* calls so far
          freed     \* the blocks given to free(), in that order, once d is freed
vars == <<heap, given, refused, calls, freed>>

\* Blocks are numbered as they are allocated; the first is d, 0 is NULL.
Fresh == [next |-> 0, super |-> 0, slot |-> [k \in 0..Pn - 1 |-> 0]]
NoPlace == [block |-> 0, local |-> 0]
Place == [block : 1..MemBlocks, local : 0..Bn - 1]

Init ==
  /\ heap = <<Fresh>>
  /\ given = [i \in Index |-> NoPlace] /\ refused = {} /\ calls = 0 /\ freed = <<>>

\* darr(): a zeroed block, 0 if there is none.
New(h) == IF Len(h) < MemBlocks THEN [heap |-> Append(h, Fresh), block |-> Len(h) + 1]
                                ELSE [heap |-> h, block |-> 0]

\* `while (bi > 0)`: bi blocks along the next-chain, growing it.
RECURSIVE Along(_, _, _)
Along(h, d, bi) ==
  IF bi = 0 \/ d = 0 THEN [heap |-> h, block |-> d]
  ELSE IF h[d].next # 0 THEN Along(h, h[d].next, bi - 1)
  ELSE LET new == New(h)
       IN  IF new.block = 0 THEN new
           ELSE Along([new.heap EXCEPT ![d].next = new.block], new.block, bi - 1)

\* The element of a directory block: the head of a group, made on first use.
GroupForgotten(h, dir, k) == IF h[dir].slot[k] # 0 THEN [heap |-> h, block |-> h[dir].slot[k]]
                                                   ELSE New(h)
Group(h, dir, k) ==
  LET new == New(h)
  IN  IF h[dir].slot[k] # 0 THEN [heap |-> h, block |-> h[dir].slot[k]]
      ELSE [heap |-> [new.heap EXCEPT ![dir].slot[k] = new.block], block |-> new.block]

Spills(bi) == bi >= Chain

\* dptr(d, i) for blocks of n elements: the block of element i, 0 if memory is short.
RECURSIVE Find(_, _, _, _)
Find(h, d, i, n) ==
  LET bi  == i \div n
      g   == bi \div Chain - 1
      sup == IF h[d].super # 0 THEN [heap |-> h, block |-> h[d].super] ELSE New(h)
      dir == Find([sup.heap EXCEPT ![d].super = sup.block], sup.block, g, Pn)
      grp == Group(dir.heap, dir.block, g % Pn)
  IN  IF ~Spills(bi) THEN Along(h, d, bi)
      ELSE IF sup.block = 0 THEN sup
      ELSE IF dir.block = 0 THEN dir
      ELSE Along(grp.heap, grp.block, bi % Chain)

Local(i) == i % Bn

Dptr(i) ==
  /\ freed = <<>> /\ UNCHANGED freed
  /\ calls < MaxCalls /\ calls' = calls + 1
  /\ LET r == Find(heap, 1, i, Bn)
     IN  /\ heap' = r.heap
         /\ IF r.block = 0
              THEN refused' = refused \cup {i} /\ UNCHANGED given
              ELSE /\ given' = [given EXCEPT ![i] = [block |-> r.block, local |-> Local(i)]]
                   /\ UNCHANGED refused

\* dfree(d): what is behind `super`, then the next-chain.
FreeForgetsSuper(d) ==
  LET chain[b \in 0..Len(heap)] == IF b = 0 THEN <<>> ELSE <<b>> \o chain[heap[b].next]
  IN  chain[d]
RECURSIVE Free(_)
Free(d) ==
  LET chain[b \in 0..Len(heap)] == IF b = 0 THEN <<>> ELSE <<b>> \o chain[heap[b].next]
  IN  IF d = 0 THEN <<>> ELSE Free(heap[d].super) \o chain[d]
Dfree ==
  /\ freed = <<>> /\ freed' = Free(1)
  /\ UNCHANGED <<heap, given, refused, calls>>

\* Bound: the calls are counted.
Next == (\E i \in Index : Dptr(i)) \/ Dfree
Spec == Init /\ [][Next]_vars

-----------------------------------------------------------------------------
\* "pointer/location of fixed size records are permanent", in whatever order the
\* elements are first asked for, and across the spills into directories of
\* directories.
Array == INSTANCE StableArray
PermanentPlaces == Array!Spec

\* dfree never frees a block twice, and what it leaves behind are the chains that
\* only the pointers of a directory lead to.
HeadsInDirectories == {heap[b].slot[k] : b \in 1..Len(heap), k \in 0..Pn - 1} \ {0}
FreedOnce ==
  freed # <<>> =>
    /\ IsInjective(freed)
    /\ LET behind[b \in 0..Len(heap)] == IF b = 0 THEN {} ELSE {b} \cup behind[heap[b].next]
       IN  ToSet(freed) = (1..Len(heap)) \ UNION {behind[b] : b \in HeadsInDirectories}
=============================================================================
