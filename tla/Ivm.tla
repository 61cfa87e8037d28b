-------------------------------- MODULE Ivm --------------------------------
(***************************************************************************)
(* The virtual machine of ivm.c: byte code over one memory of slots that   *)
(* holds variables, static frames and constants alike. There is no stack:  *)
(* a call saves the return address and the caller's frame in the callee's  *)
(* own frame. Addresses of the code count from its first byte. Op-codes    *)
(* that neither c.bnf nor tpi.bnf emits are left out.                      *)
(***************************************************************************)
EXTENDS Gen

CONSTANT HeapMax        \* bytes of the soft heap: 32768 in the code

Word == 65536
FrRet == 0   FrVal == 1   FrPrev == 2   FrAcc == 3   \* cells of a frame
FpMain == 255
SoftBase == 2           \* heap address 0 is NULL

VARIABLES image,        \* the loaded blob
          ipc, fp, mem, acc,
          heap,         \* bytes of the soft heap, from address SoftBase on
          out,          \* what was printed: characters, and numbers as <<n>>
          status        \* "off", "running", "done", or "badptr", "wild"
vmVars == <<image, ipc, fp, mem, acc, heap, out, status>>

Signed(w) == IF w < Word \div 2 THEN w ELSE w - Word
Code(c) == Ascii[c]
Truth(b) == IF b THEN 1 ELSE 0
Bit(w, i) == (w \div 2^i) % 2
Bitwise2(Combine(_, _), a, b) ==
  FoldLeft(LAMBDA s, i : s + Combine(Bit(a, i - 1), Bit(b, i - 1)) * 2^(i - 1),
           0, [i \in 1..16 |-> i])

\* The byte at offset k from the instruction at ipc.
InCode(a) == a \in 0..(Len(image.code) - 1)
Byte(k) == image.code[ipc + k + 1]
Op == Byte(0)
Is(c) == status = "running" /\ InCode(ipc) /\ Op = Code(c)
IsIn(cs) == \E c \in cs : Is(c)
Par == mem[Byte(1)]
Put(slot, w) == mem' = [mem EXCEPT ![slot] = w]
Next_(k) == ipc' = ipc + k
Only(k) == Next_(k) /\ UNCHANGED <<image, fp, heap, out, status>>

HeapEnd == SoftBase + Len(heap)
InHeap(a, n) == a >= SoftBase /\ a + n <= HeapEnd
HeapByte(a) == heap[a - SoftBase + 1]
HeapWord(a) == HeapByte(a) + 256 * HeapByte(a + 1)
SetByte(h, a, b) == [h EXCEPT ![a - SoftBase + 1] = b]
SetWord(h, a, w) == SetByte(SetByte(h, a, w % 256), a + 1, w \div 256)

-----------------------------------------------------------------------------
(* Nevm: constants go to their slots; those of strings become addresses in  *)
(* the heap, where the data of the image comes first.                       *)

LoadedConsts(img) ==
  [k \in DOMAIN img.con |-> IF img.con[k].reloc THEN SoftBase + img.con[k].v ELSE img.con[k].v]
LoadedMem(img) ==
  [s \in 0..ConstTop |-> IF s >= img.first THEN LoadedConsts(img)[s - img.first + 1] ELSE 0]
LoadedHeap(img) ==      \* kept even, so that words are aligned
  img.data \o (IF Len(img.data) % 2 = 1 THEN <<0>> ELSE <<>>)

Nevm(img) ==
  /\ status = "off"
  /\ image' = img /\ ipc' = img.main /\ fp' = FpMain /\ acc' = 0
  /\ mem' = LoadedMem(img) /\ heap' = LoadedHeap(img)
  /\ out' = <<>> /\ status' = "running"

VMInit ==
  /\ image = <<>> /\ ipc = 0 /\ fp = FpMain /\ mem = <<>> /\ acc = 0
  /\ heap = <<>> /\ out = <<>> /\ status = "off"

-----------------------------------------------------------------------------
(* Instructions.                                                            *)

Load ==                 \* the low slots, L, C and 0
  \/ /\ status = "running" /\ InCode(ipc) /\ Op < 32
     /\ acc' = mem[Op] /\ Only(1) /\ UNCHANGED mem
  \/ Is("L") /\ acc' = Par /\ Only(2) /\ UNCHANGED mem
  \/ Is("C") /\ acc' = mem[Byte(2)] /\ Put(Byte(1), mem[Byte(2)]) /\ Only(3)
  \/ Is("0") /\ acc' = 0 /\ Only(1) /\ UNCHANGED mem

Store ==
  \/ Is("S") /\ Put(Byte(1), acc) /\ Only(2) /\ UNCHANGED acc
  \/ Is("Z") /\ Put(Byte(1), 0) /\ Only(2) /\ UNCHANGED acc

Step_ ==                \* I, J, U: count a variable, and leave it in the accumulator
  LET v == (IF Is("I") THEN Par + 1 ELSE IF Is("J") THEN Par + Word - 1
            ELSE Par + mem[Byte(2)]) % Word
  IN /\ IsIn({"I", "J", "U"})
     /\ Put(Byte(1), v) /\ acc' = v
     /\ Only(IF Is("U") THEN 3 ELSE 2)

Calculate(c) ==
  CASE c = "+" -> (acc + Par) % Word
    [] c = "-" -> (acc + Word - Par) % Word
    [] c = "*" -> (acc * (Par % 256) + ((acc * (Par \div 256)) % 256) * 256) % Word
    [] c = "/" -> IF Par = 0 THEN acc ELSE acc \div Par
    [] c = "%" -> IF Par = 0 THEN acc ELSE acc % Par
    [] c = "&" -> Bitwise2(LAMBDA x, y : x * y, acc, Par)
    [] c = "|" -> Bitwise2(LAMBDA x, y : x + y - x * y, acc, Par)
    [] c = "^" -> Bitwise2(LAMBDA x, y : (x + y) % 2, acc, Par)
    [] c = "[" -> IF Par > 15 THEN 0 ELSE (acc * 2^Par) % Word
    [] c = "]" -> IF Par > 15 THEN 0 ELSE acc \div 2^Par
    [] c = "<" -> Truth(acc < Par)
    [] c = "=" -> Truth(acc = Par)
    [] c = ">" -> Truth(acc > Par)
Dyadic == {"+", "-", "*", "/", "%", "&", "|", "^", "[", "]", "<", "=", ">"}
\* Bytes that follow each op-code.
OperandCount(op) ==
  CASE op \in {Code("C"), Code("U"), Code("("), Code(")"), Code("j")} -> 2
    [] op = Code("i") -> 3
    [] op \in {Code(c) : c \in Dyadic \cup {"L", "S", "Z", "I", "J", "G", "B", "n", "m",
                 "@", "!", "'", "M", "F", "O"}} -> 1
    [] OTHER -> 0

Arithmetic ==
  \/ \E c \in Dyadic : Is(c) /\ acc' = Calculate(c) /\ Only(2) /\ UNCHANGED mem
  \/ Is("?") /\ acc' = Truth(acc = 0) /\ Only(1) /\ UNCHANGED mem

\* Jumps are relative to their operand, forward past it.
Jump ==
  /\ \/ Is("G") /\ Next_(IF Signed(acc) > 0 THEN 2 + Byte(1) ELSE 2)
     \/ Is("B") /\ Next_(2 - Byte(1))
  /\ UNCHANGED <<image, fp, mem, acc, heap, out, status>>

LoopUp ==               \* i var limit skip: enter while var <= limit
  /\ Is("i")
  /\ acc' = Par
  /\ Next_(IF Par <= mem[Byte(2)] THEN 4 ELSE 4 + Byte(3))
  /\ UNCHANGED <<image, fp, mem, heap, out, status>>
NextUp ==               \* n back: the operands are those of the i
  /\ Is("n")
  /\ LET top == 2 - Byte(1)
         v == (mem[Byte(top + 1)] + 1) % Word
     IN /\ Put(Byte(top + 1), v) /\ acc' = v
        /\ Next_(IF v > mem'[Byte(top + 2)] THEN 2 ELSE top + 4)
  /\ UNCHANGED <<image, fp, heap, out, status>>

\* j var skip. The code adds zp.ipc[2], which is the byte after the skip.
DownSkip == 3 + Byte(3)
LoopDown ==
  /\ Is("j")
  /\ acc' = Par
  /\ Next_(IF Par # 0 THEN 3 ELSE DownSkip)
  /\ UNCHANGED <<image, fp, mem, heap, out, status>>
NextDown ==
  /\ Is("m")
  /\ LET top == 2 - Byte(1)
         v == (mem[Byte(top + 1)] + Word - 1) % Word
     IN /\ Put(Byte(top + 1), v) /\ acc' = v
        /\ Next_(IF v = 0 THEN 2 ELSE top + 3)
  /\ UNCHANGED <<image, fp, heap, out, status>>

\* A call fills three cells of the callee's frame; the accumulator is its last argument.
JSR ==
  /\ status = "running" /\ InCode(ipc) /\ Op >= 192
  /\ LET nfp == image.fp[Op - 191]
     IN /\ mem' = [mem EXCEPT ![nfp + FrPrev] = fp, ![nfp + FrRet] = ipc + 1,
                              ![nfp + FrAcc] = acc]
        /\ fp' = nfp
        /\ ipc' = image.vectors[Op - 191]
  /\ UNCHANGED <<image, acc, heap, out, status>>
Return ==
  /\ IsIn({"Q", ";", "X"})
  /\ acc' = IF Is("Q") THEN 0 ELSE IF Is(";") THEN mem[fp + FrVal] ELSE acc
  /\ ipc' = mem[fp + FrRet]
  /\ fp' = mem[fp + FrPrev] % 256
  /\ UNCHANGED <<image, mem, heap, out, status>>
Quit ==
  /\ Is("q") /\ status' = "done"
  /\ UNCHANGED <<image, ipc, fp, mem, acc, heap, out>>

Sound(a, n) == IF InHeap(a, n) THEN "running" ELSE "badptr"

\* CHKP: an access outside the heap in use ends the run.
HeapRead ==             \* @ ' and (
  \/ /\ Is("@") /\ status' = Sound(Par, 2)
     /\ IF InHeap(Par, 2) THEN acc' = HeapWord(Par) /\ Next_(2) ELSE UNCHANGED <<acc, ipc>>
     /\ UNCHANGED <<image, fp, mem, heap, out>>
  \/ /\ Is("'") /\ status' = Sound(Par, 1)
     /\ IF InHeap(Par, 1)
        THEN acc' = HeapByte(Par) /\ Put(Byte(1), (Par + 1) % Word) /\ Next_(2)
        ELSE UNCHANGED <<acc, mem, ipc>>
     /\ UNCHANGED <<image, fp, heap, out>>
  \/ LET a == Par + 2 * mem[Byte(2)]
     IN /\ Is("(") /\ status' = Sound(a, 2)
        /\ IF InHeap(a, 2) THEN acc' = HeapWord(a) /\ Next_(3) ELSE UNCHANGED <<acc, ipc>>
        /\ UNCHANGED <<image, fp, mem, heap, out>>

HeapWrite ==            \* ! and )
  \/ /\ Is("!") /\ status' = Sound(Par, 2)
     /\ IF InHeap(Par, 2) THEN heap' = SetWord(heap, Par, acc) /\ Next_(2)
                          ELSE UNCHANGED <<heap, ipc>>
     /\ UNCHANGED <<image, fp, mem, acc, out>>
  \/ LET a == Par + 2 * mem[Byte(2)]
     IN /\ Is(")") /\ status' = Sound(a, 2)
        /\ IF InHeap(a, 2) THEN heap' = SetWord(heap, a, acc) /\ Next_(3)
                           ELSE UNCHANGED <<heap, ipc>>
        /\ UNCHANGED <<image, fp, mem, acc, out>>

Alloc ==                \* ivm_zalloc: zeroed, kept even, never freed; 0 when there is no room
  /\ Is("M")
  /\ LET n == acc + (acc % 2)
         fits == n > 0 /\ HeapEnd + n <= HeapMax
         a == IF fits THEN HeapEnd ELSE 0
     IN /\ heap' = IF fits THEN heap \o [i \in 1..n |-> 0] ELSE heap
        /\ acc' = a /\ Put(Byte(1), a)
  /\ Next_(2) /\ UNCHANGED <<image, fp, out, status>>
Free ==                 \* ivm_free drops the reference
  /\ Is("F") /\ Put(Byte(1), 0) /\ Only(2) /\ UNCHANGED acc

Say(s, k) ==
  /\ out' = out \o s /\ Next_(k)
  /\ UNCHANGED <<image, fp, mem, acc, heap, status>>
TextAt(bytes, i) ==     \* the bytes from i up to the zero that ends them
  LET end == CHOOSE j \in i..(Len(bytes) + 1) :
               /\ j > Len(bytes) \/ bytes[j] = 0
               /\ \A k \in i..(j - 1) : bytes[k] # 0
  IN SubSeq(bytes, i, end - 1)
Print_ ==
  \/ Is("E") /\ Say(<<acc % 256>>, 1)
  \/ Is("N") /\ Say(<<10>>, 1)
  \/ Is("O") /\ Say(<<Byte(1)>>, 2)
  \/ Is(".") /\ Say(<<<<acc>>>>, 1)
  \/ Is("\"") /\ LET t == TextAt(image.code, ipc + 2) IN Say(t, Len(t) + 2)
  \/ /\ Is("P")
     /\ IF InHeap(acc, 1) THEN Say(TextAt(heap, acc - SoftBase + 1), 1)
        ELSE status' = "badptr" /\ UNCHANGED <<image, ipc, fp, mem, acc, heap, out>>

VMStep ==
  \/ Load \/ Store \/ Step_ \/ Arithmetic \/ Jump \/ LoopUp \/ NextUp \/ LoopDown
  \/ NextDown \/ JSR \/ Return \/ Quit \/ HeapRead \/ HeapWrite \/ Alloc \/ Free
  \/ Print_
=============================================================================
