-------------------------------- MODULE Gen --------------------------------
(***************************************************************************)
(* The code generator of the compilers (ivm-gen.c): one byte-code buffer,  *)
(* a pool of constants that grows down from ConstTop while the slots of    *)
(* variables grow up, symbols with scopes, and the packing of all of it    *)
(* into an image that the virtual machine loads.                           *)
(*                                                                         *)
(* The generator's globals are one record g, so that the parser can save   *)
(* and rewind exactly the part of them that it does.                       *)
(***************************************************************************)
EXTENDS Integers, Sequences, SequencesExt

CONSTANTS ConstTop,     \* the highest slot a constant may have
          MaxSlot       \* slots of variables stay below this one

GenAssumption == ConstTop \in 32..253 /\ MaxSlot \in 1..(ConstTop - 32)
ASSUME GenAssumption

None == 255             \* 0xff: no vector
Nowhere == 0            \* SYM_NONE: indices of syms start at 1 here

\* Op-codes are letters ("alphabetically readable"); Ascii gives their byte.
Printable == <<" ", "!", "\"", "#", "$", "%", "&", "'", "(", ")", "*", "+", ",",
  "-", ".", "/", "0", "1", "2", "3", "4", "5", "6", "7", "8", "9", ":", ";", "<",
  "=", ">", "?", "@", "A", "B", "C", "D", "E", "F", "G", "H", "I", "J", "K", "L",
  "M", "N", "O", "P", "Q", "R", "S", "T", "U", "V", "W", "X", "Y", "Z", "[", "\\",
  "]", "^", "_", "grave", "a", "b", "c", "d", "e", "f", "g", "h", "i", "j", "k", "l",
  "m", "n", "o", "p", "q", "r", "s", "t", "u", "v", "w", "x", "y", "z", "{", "|",
  "}", "~">>
Ascii == [c \in ToSet(Printable) |-> 31 + CHOOSE i \in DOMAIN Printable : Printable[i] = c]

GenReset ==
  [bin |-> <<>>, pool |-> <<>>, data |-> <<>>, syms |-> <<>>, depth |-> 0, next |-> 0,
   vectors |-> <<>>, frame |-> <<>>, mainVec |-> None, mainOff |-> 0,
   pending |-> None, ginit |-> <<>>, cur_type |-> "word"]

-----------------------------------------------------------------------------
(* Emission. A function's entry is recorded when its first byte is emitted; *)
(* main's first byte is preceded by the deferred global initialisers.       *)

FuncEntry(g) ==
  LET v == g.pending
      inits == FlattenSeq([i \in DOMAIN g.ginit |-> <<Ascii["C"]>> \o g.ginit[i]])
      h == [g EXCEPT !.pending = None, !.vectors[v + 1] = Len(g.bin)]
  IN IF v = g.mainVec THEN [h EXCEPT !.mainOff = Len(g.bin), !.bin = @ \o inits] ELSE h

Emit(g, b) ==
  LET h == IF g.pending = None THEN g ELSE FuncEntry(g)
  IN [h EXCEPT !.bin = Append(@, b)]

\* emitop2: loading one of the low slots is a byte-code of its own.
Emit2(g, op, arg) ==
  IF op = "L" /\ arg < 32 THEN Emit(g, arg) ELSE Emit(Emit(g, Ascii[op]), arg)

-----------------------------------------------------------------------------
(* Constants.                                                               *)

ConstSlot(i) == ConstTop - (i - 1)
IsConst(g, a) == a \in {ConstSlot(i) : i \in DOMAIN g.pool}
ConstVal(g, a) == g.pool[ConstTop - a + 1].v

\* add_const: numbers are shared, strings are not.
PoolAt(g, v) == SelectInSeq(g.pool, LAMBDA c : c = [v |-> v, reloc |-> FALSE])
AddRaw(g, v, reloc) ==
  IF ~reloc /\ PoolAt(g, v) # 0 THEN g
  ELSE [g EXCEPT !.pool = Append(@, [v |-> v, reloc |-> reloc])]
AddedAt(g, v) == ConstSlot(IF PoolAt(g, v) # 0 THEN PoolAt(g, v) ELSE Len(g.pool) + 1)

\* add_string_const: offset 0 is kept for "end of relocation".
AddString(g, bytes) ==
  LET d == IF g.data = <<>> THEN <<0>> ELSE g.data
  IN AddRaw([g EXCEPT !.data = d \o bytes], Len(d), TRUE)

-----------------------------------------------------------------------------
(* Symbols and scopes.                                                      *)

SymAdd(g, name, kind, address) ==
  [g EXCEPT !.syms = Append(@, [name |-> name, kind |-> kind, address |-> address,
                                ret |-> None, scope |-> g.depth, pidx |-> 0, params |-> <<>>])]

\* The innermost declaration wins; local: only the scope one is in.
SymFind(g, name, kind, local) ==
  SelectLastInSeq(g.syms, LAMBDA s : /\ local => s.scope = g.depth
                                     /\ s.kind = kind
                                     /\ s.name = name)
SymFunc(g, v) == SelectLastInSeq(g.syms, LAMBDA s : s.kind = "func" /\ s.address = v)

SymTruncate(g, n) == [g EXCEPT !.syms = SubSeq(@, 1, n)]
ScopeEnter(g) == [g EXCEPT !.depth = @ + 1]
ScopeLeave(g) ==
  LET keep == SelectLastInSeq(g.syms, LAMBDA s : s.scope < g.depth)
  IN IF g.depth = 0 THEN g ELSE [g EXCEPT !.syms = SubSeq(@, 1, keep), !.depth = @ - 1]

-----------------------------------------------------------------------------
(* build_blob. Constants are packed as strings, zero, numbers; a constant   *)
(* so moves, and the operands that name it are rewritten. The walk over the *)
(* code knows which operands of an op-code are slots.                       *)

WithZero(g) == AddRaw(g, 0, FALSE)
PackOrder(pool) ==
  LET Is(i) == pool[i].reloc
      Zero(i) == ~pool[i].reloc /\ pool[i].v = 0
      all == [i \in DOMAIN pool |-> i]
  IN SelectSeq(all, Is) \o SelectSeq(all, Zero)
       \o SelectSeq(all, LAMBDA i : ~Is(i) /\ ~Zero(i))

OneSlot == {Ascii[c] : c \in {"L", "S", "Z", "I", "J", "+", "-", "*", "/", "%", "&", "|",
              "^", "[", "]", "{", "}", "<", "=", ">", "M", "F", "@", "!", "r", "w", "l",
              "s", "'", ","}}
TwoSlots == {Ascii["C"], Ascii["U"]}
OneByte == {Ascii[c] : c \in {"n", "G", "B", "O", "W"}}

\* What becomes of the operands of op, given the bytes that follow it: how
\* many there are, and which of them are slots.
Operands(op) ==
  CASE op \in OneSlot                     -> [n |-> 1, slots |-> {1}]
    [] op \in TwoSlots                    -> [n |-> 2, slots |-> {1, 2}]
    [] op = Ascii["i"]                    -> [n |-> 3, slots |-> {1, 2}]
    [] op \in {Ascii["("], Ascii[")"]}    -> [n |-> 2, slots |-> {1}]
    [] op \in OneByte                     -> [n |-> 1, slots |-> {}]
    [] OTHER                              -> [n |-> 0, slots |-> {}]

StringEnd(bin, pc) ==
  LET Ends(i) == i >= pc /\ bin[i] = 0
  IN IF \E i \in DOMAIN bin : Ends(i)
     THEN CHOOSE i \in DOMAIN bin : Ends(i) /\ \A j \in DOMAIN bin : Ends(j) => i <= j
     ELSE Len(bin)

Remap(bin, map) ==
  LET rest[pc \in 1..(Len(bin) + 1)] ==
        IF pc > Len(bin) THEN <<>>
        ELSE LET op == bin[pc]
                 args == Operands(op)
                 last == IF op = Ascii["\""] THEN StringEnd(bin, pc)
                         ELSE IF pc + args.n > Len(bin) THEN Len(bin) ELSE pc + args.n
             IN <<IF op < 32 THEN map[op] ELSE op>>
                \o [k \in 1..(last - pc) |->
                      IF k \in args.slots THEN map[bin[pc + k]] ELSE bin[pc + k]]
                \o rest[last + 1]
  IN rest[1]

\* The image. Its code ends in _start: call main, then quit.
BuildBlob(g0) ==
  LET g == WithZero(g0)
      order == PackOrder(g.pool)
      first == ConstTop - Len(order) + 1
      map == [a \in 0..255 |->
                IF IsConst(g, a)
                THEN first + (CHOOSE k \in DOMAIN order : ConstSlot(order[k]) = a) - 1
                ELSE a]
      entry == IF g.mainVec = None THEN Len(g.vectors) ELSE g.mainVec
      code == Remap(g.bin, map)
  IN [code |-> code \o <<192 + entry, Ascii["q"]>>,
      main |-> Len(code),
      vectors |-> IF g.mainVec = None THEN Append(g.vectors, g.mainOff) ELSE g.vectors,
      fp |-> IF g.mainVec = None THEN Append(g.frame, 0) ELSE g.frame,
      con |-> [k \in DOMAIN order |-> g.pool[order[k]]],
      first |-> first,
      data |-> g.data]
=============================================================================
