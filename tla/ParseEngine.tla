---------------------------- MODULE ParseEngine ----------------------------
(***************************************************************************)
(* The grammar-driven compiler of parse.c: an iterative, backtracking      *)
(* matcher with an explicit stack of frames. A grammar rule is a list of   *)
(* alternatives; an alternative is a list of items: literals, rule names,  *)
(* escapes such as "\\i" (an identifier in scope), and productions between *)
(* "[" and "]" that emit byte code.                                        *)
(*                                                                         *)
(* Sources are sequences of tokens: the white space and comments that      *)
(* skip_ws passes, and the letters of a name, are not told apart.          *)
(***************************************************************************)
EXTENDS Gen, TLC

CONSTANTS Grammar,      \* [rule name -> sequence of alternatives]
          Start,        \* the rule to begin with ("P")
          Names,        \* tokens that are identifiers
          NumVal,       \* [number token -> its value]
          StrVal,       \* [string token -> its bytes]
          MaxStack,     \* frames: 64 in the code
          MaxParams     \* parameters of a function: 4

ACC == 65535            \* VAL_ACC: the value of the capture is in the accumulator
Eof == "<eof>"

VARIABLES src,          \* the source
          line_pos,     \* tokens of the line buffer that are consumed
          line_abs,     \* tokens dropped from the buffer by commits
          stack,        \* frames, the newest last
          gen,          \* the code generator
          last_func,    \* the function last declared or named
          verdict       \* "running", then "accept" or "error"
parseVars == <<src, line_pos, line_abs, stack, gen, last_func, verdict>>

Numbered(c) == [n \in 1..9 |-> "\\" \o c \o ToString(n)]
Capture == Numbered("")
Forced == Numbered("a")
Loaded == Numbered("l")
LowByte == Numbered("c")
IsOf(item, family) == \E n \in 1..9 : family[n] = item
NumberOf(item, family) == CHOOSE n \in 1..9 : family[n] = item

TokenAt(p) == IF p < Len(src) THEN src[p + 1] ELSE Eof
nextc == TokenAt(line_abs + line_pos)
cur == Last(stack)
Alt(f) == Grammar[f.rule][f.alt]
Item == Alt(cur)[cur.ip]
InAlt == cur.ip <= Len(Alt(cur))

-----------------------------------------------------------------------------
(* Frames.                                                                  *)

Mark(f, g) ==           \* frame_mark: here an alternative begins
  [f EXCEPT !.alt = 1, !.ip = 1, !.save = line_pos, !.nsym_save = Len(g.syms),
            !.scope_save = g.depth, !.slot_save = g.next, !.code_save = Len(g.bin),
            !.caps = <<>>]

NewFrame(r, g) ==
  Mark([rule |-> r, alt |-> 1, ip |-> 1, save |-> 0, nsym_save |-> 0, scope_save |-> 0,
        slot_save |-> 0, code_save |-> 0, caps |-> <<>>, state |-> "try", result |-> 0,
        func |-> None, arg |-> 0, patch |-> <<>>, mark |-> 0], g)

RewindFrame(f) == [f EXCEPT !.caps = <<>>, !.patch = <<>>, !.ip = 1]
RewindNothing(f, g) == g
RewindCode(f, g) == [g EXCEPT !.bin = SubSeq(@, 1, f.code_save)]
RestoreSlots(f, g) == [g EXCEPT !.depth = f.scope_save, !.next = f.slot_save]
RestoreScope(f, g) ==
  [SymTruncate(g, f.nsym_save) EXCEPT !.depth = f.scope_save, !.next = f.slot_save]

Record(f, v) ==         \* record_capture
  [f EXCEPT !.caps = IF Len(@) < 9 THEN Append(@, v) ELSE @, !.result = v]
Cap(f, n) == IF n <= Len(f.caps) THEN f.caps[n] ELSE 0

-----------------------------------------------------------------------------
(* Productions. A state p of the production is its frame, the generator     *)
(* and whether it has failed for good.                                      *)

ForceAddr(p, n) ==      \* spill the accumulator to a temporary
  IF n \notin DOMAIN p.f.caps \/ p.f.caps[n] # ACC THEN p
  ELSE LET t == p.g.next
       IN [f |-> [p.f EXCEPT !.caps[n] = t],
           g |-> Emit2([p.g EXCEPT !.next = t + 1], "S", t),
           fail |-> p.fail]

Spill(p, item) ==
  IF IsOf(item, Capture) THEN ForceAddr(p, NumberOf(item, Capture))
  ELSE IF IsOf(item, Forced) THEN ForceAddr(p, NumberOf(item, Forced))
  ELSE p

Hole(p) ==              \* \x
  LET h == Emit(p.g, 0)
  IN [p EXCEPT !.g = h, !.f.patch = IF Len(@) < 4 THEN Append(@, Len(h.bin)) ELSE @]
Fill(p) ==              \* \y
  LET w == Last(p.f.patch)
      far == Len(p.g.bin) - w
  IN IF p.f.patch = <<>> THEN p
     ELSE [f |-> [p.f EXCEPT !.patch = Front(@)], g |-> [p.g EXCEPT !.bin[w] = far],
           fail |-> p.fail \/ far > 255]
BackPastMark(p) == [p EXCEPT !.g = Emit(@, Len(p.g.bin) + 2 - p.f.mark)]
Back(p) ==              \* \z
  LET far == Len(p.g.bin) + 1 - p.f.mark
  IN [p EXCEPT !.g = Emit(@, far), !.fail = @ \/ far > 255]
Swap(p) ==              \* \w
  LET holes == p.f.patch
      n == Len(holes)
  IN IF n < 2 THEN p
     ELSE [p EXCEPT !.f.patch = [holes EXCEPT ![n] = holes[n - 1], ![n - 1] = holes[n]]]

Temp(p) ==              \* \t
  LET t == p.g.next
  IN [p EXCEPT !.g = Emit([@ EXCEPT !.next = t + 1], t), !.f = Record(@, t)]
Limit(p) ==             \* \e: the limit less one, for a loop that excludes it
  LET t == p.g.next
  IN [p EXCEPT !.g = Emit2(Emit2([@ EXCEPT !.next = t + 1], "S", t), "J", t),
               !.f = Record(@, t)]

NextArg(p, caller) ==   \* \k: where the next argument of the call goes
  LET fs == IF caller = None THEN Nowhere ELSE SymFunc(p.g, caller)
  IN IF fs = Nowhere \/ p.f.arg + 1 >= Len(p.g.syms[fs].params)
     THEN [p EXCEPT !.fail = TRUE]
     ELSE [p EXCEPT !.g = Emit(@, p.g.syms[fs].params[p.f.arg + 1]), !.f.arg = @ + 1]

GlobalInit(p) ==        \* \g: deferred to main, or done on the spot
  LET dest == Cap(p.f, 1)
      from == Cap(p.f, 2)
  IN IF p.g.depth = 0
     THEN [p EXCEPT !.g.ginit = Append(@, <<dest, from>>)]
     ELSE [p EXCEPT !.g = Emit2(Emit2(@, "L", from), "S", dest)]

Produce(p, item, caller) ==
  CASE IsOf(item, Capture) ->
         LET q == ForceAddr(p, NumberOf(item, Capture))
         IN [q EXCEPT !.g = Emit(@, Cap(q.f, NumberOf(item, Capture)))]
    [] IsOf(item, Forced) ->
         LET q == ForceAddr(p, NumberOf(item, Forced))
         IN [q EXCEPT !.g = Emit(@, Cap(q.f, NumberOf(item, Forced)))]
    [] IsOf(item, Loaded) ->
         LET v == Cap(p.f, NumberOf(item, Loaded))
         IN IF v = ACC THEN p ELSE [p EXCEPT !.g = Emit2(@, "L", v)]
    [] IsOf(item, LowByte) ->
         LET v == Cap(p.f, NumberOf(item, LowByte))
         IN [p EXCEPT !.g = Emit(@, IF IsConst(@, v) THEN ConstVal(@, v) % 256 ELSE 0)]
    [] item = "\\v" -> [p EXCEPT !.g = Emit(@, 192 + (p.f.func % 64))]
    [] item = "\\t" -> Temp(p)
    [] item = "\\e" -> Limit(p)
    [] item = "\\x" -> Hole(p)
    [] item = "\\y" -> Fill(p)
    [] item = "\\w" -> Swap(p)
    [] item = "\\m" -> [p EXCEPT !.f.mark = Len(p.g.bin)]
    [] item = "\\z" -> Back(p)
    [] item = "\\k" -> NextArg(p, caller)
    [] item = "\\g" -> GlobalInit(p)
    [] item = "\\#00" -> [p EXCEPT !.g = Emit(@, 0)]
    [] item = "\\[" -> [p EXCEPT !.g = Emit(@, Ascii["["])]
    [] item = "\\]" -> [p EXCEPT !.g = Emit(@, Ascii["]"])]
    [] OTHER -> [p EXCEPT !.g = Emit(@, Ascii[item])]

RunProduction(f, g, items, caller) ==
  LET p == [f |-> f, g |-> g, fail |-> FALSE]
      q == FoldLeft(LAMBDA r, i : Produce(r, i, caller), FoldLeft(Spill, p, items), items)
  IN [q EXCEPT !.f.result = ACC]

-----------------------------------------------------------------------------
(* Steps: one action for each way that step() can go. An error is final.    *)

SetCur(f) == stack' = [stack EXCEPT ![Len(stack)] = f]
Go(f, n) == SetCur([f EXCEPT !.ip = @ + n])
Running(state) == verdict = "running" /\ stack # <<>> /\ cur.state = state
At(item) == Running("run") /\ InAlt /\ Item = item
Judge(g, fail) == verdict' = IF fail \/ g.next > MaxSlot THEN "error" ELSE verdict

TryAlt ==
  /\ Running("try") /\ cur.alt <= Len(Grammar[cur.rule])
  /\ line_pos' = cur.save
  /\ gen' = RewindCode(cur, gen)
  /\ SetCur([RewindFrame(cur) EXCEPT !.state = "run"])
  /\ UNCHANGED <<src, line_abs, last_func, verdict>>

NoAlt ==                \* the rule fails, and with it the alternative that called it
  /\ Running("try") /\ cur.alt > Len(Grammar[cur.rule])
  /\ stack' = IF Len(stack) = 1 THEN <<>>
              ELSE [Front(stack) EXCEPT ![Len(stack) - 1].state = "fail"]
  /\ UNCHANGED <<src, line_pos, line_abs, gen, last_func, verdict>>

FailAltAgain ==
  /\ Running("fail")
  /\ SetCur([RewindFrame(cur) EXCEPT !.state = "try"])
  /\ UNCHANGED <<src, line_pos, line_abs, gen, last_func, verdict>>
FailAlt ==
  /\ Running("fail")
  /\ line_pos' = cur.save
  /\ gen' = RestoreScope(cur, RewindCode(cur, gen))
  /\ SetCur([RewindFrame(cur) EXCEPT !.alt = @ + 1, !.state = "try"])
  /\ UNCHANGED <<src, line_abs, last_func, verdict>>

\* The rules I and T set the type that declarations and sizeof go by. It is
\* never rewound.
TypeMatched(f, g) ==
  CASE f.rule = "I"               -> [g EXCEPT !.cur_type = IF f.alt = 4 THEN "char" ELSE "word"]
    [] f.rule = "T" /\ f.alt < 3 -> [g EXCEPT !.cur_type = "pointer"]
    [] OTHER                      -> g

EndOfAlt ==             \* the rule is matched: its value is a capture of the caller
  /\ Running("run") /\ ~InAlt
  /\ stack' = IF Len(stack) = 1 THEN <<>>
              ELSE LET caller == stack[Len(stack) - 1]
                   IN [Front(stack) EXCEPT ![Len(stack) - 1] =
                         [Record(caller, cur.result) EXCEPT !.ip = @ + 1]]
  /\ gen' = TypeMatched(cur, gen)
  /\ UNCHANGED <<src, line_pos, line_abs, last_func, verdict>>

Finish ==               \* run() and main(): the root has matched or has failed
  /\ verdict = "running" /\ stack = <<>>
  /\ gen' = Emit(gen, Ascii["q"])
  /\ verdict' = IF nextc = Eof THEN "accept" ELSE "error"
  /\ UNCHANGED <<src, line_pos, line_abs, stack, last_func>>

Call ==
  /\ Running("run") /\ InAlt /\ Item \in DOMAIN Grammar
  /\ IF Len(stack) >= MaxStack
     THEN verdict' = "error" /\ UNCHANGED <<stack, gen>>
     ELSE /\ gen' = IF Item = "B" /\ cur.rule = Start
                    THEN [gen EXCEPT !.mainOff = Len(gen.bin)] ELSE gen
          /\ stack' = Append(stack, NewFrame(Item, gen))
          /\ UNCHANGED verdict
  /\ UNCHANGED <<src, line_pos, line_abs, last_func>>

Production ==
  /\ At("[")
  /\ LET close == CHOOSE i \in cur.ip..Len(Alt(cur)) :
                    Alt(cur)[i] = "]" /\ \A j \in cur.ip..(i - 1) : Alt(cur)[j] # "]"
         caller == IF Len(stack) >= 2 THEN stack[Len(stack) - 1].func ELSE None
         q == RunProduction(cur, gen, SubSeq(Alt(cur), cur.ip + 1, close - 1), caller)
     IN /\ SetCur([q.f EXCEPT !.ip = close + 1])
        /\ gen' = q.g
        /\ Judge(q.g, q.fail)
  /\ UNCHANGED <<src, line_pos, line_abs, last_func>>

Tail_ ==                \* \< : the rule again from here
  /\ At("\\<")
  /\ SetCur([Mark(cur, gen) EXCEPT !.state = "try"])
  /\ UNCHANGED <<src, line_pos, line_abs, gen, last_func, verdict>>

CommitTop ==
  /\ At("\\C")
  /\ line_abs' = line_abs + line_pos /\ line_pos' = 0
  /\ SetCur([cur EXCEPT !.save = 0, !.ip = @ + 1])
  /\ UNCHANGED <<src, gen, last_func, verdict>>
Commit ==               \* \C : what is matched is never looked at again
  /\ At("\\C")
  /\ line_abs' = line_abs + line_pos /\ line_pos' = 0
  /\ stack' = [i \in DOMAIN stack |->
                 [stack[i] EXCEPT !.save = 0, !.ip = IF i = Len(stack) THEN @ + 1 ELSE @]]
  /\ UNCHANGED <<src, gen, last_func, verdict>>

Scope ==
  /\ At("\\{") \/ At("\\}")
  /\ gen' = IF Item = "\\{" THEN ScopeEnter(gen) ELSE ScopeLeave(gen)
  /\ Go(cur, 1)
  /\ UNCHANGED <<src, line_pos, line_abs, last_func, verdict>>

\* The matchers. A match that fails backtracks.
Matched(f, g) ==
  /\ Go(f, 1) /\ line_pos' = line_pos + 1 /\ gen' = g /\ Judge(g, FALSE)
  /\ UNCHANGED <<src, line_abs>>
Mismatch ==
  /\ SetCur([cur EXCEPT !.state = "fail"])
  /\ UNCHANGED <<src, line_pos, line_abs, gen, last_func, verdict>>
Fatal ==
  /\ verdict' = "error"
  /\ UNCHANGED <<src, line_pos, line_abs, stack, gen, last_func>>

Escapes == {"\\<", "\\C", "\\{", "\\}", "\\i", "\\+", "\\f", "\\p", "\\r", "\\d", "\\s", "\\S",
            "\\z"}
IsLit == /\ Running("run") /\ InAlt
         /\ Item \notin DOMAIN Grammar \cup Escapes \cup {"["} /\ ~IsOf(Item, Capture)
Literal ==
  /\ IsLit
  /\ IF nextc = Item THEN Matched(cur, gen) /\ UNCHANGED last_func ELSE Mismatch

Ident ==                \* match_ident: in front of "(" a function, else a variable
  /\ At("\\i")
  /\ LET call == TokenAt(line_abs + line_pos + 1) = "("
         i == SymFind(gen, nextc, IF call THEN "func" ELSE "var", FALSE)
         s == gen.syms[i]
     IN IF nextc \notin Names \/ i = Nowhere THEN Mismatch
        ELSE /\ last_func' = IF call THEN s.address ELSE None
             /\ Matched([Record(cur, IF call THEN s.ret ELSE s.address)
                           EXCEPT !.func = IF call THEN s.address ELSE None], gen)

Same ==                 \* match_ident_same: the variable of an earlier capture
  /\ Running("run") /\ InAlt /\ IsOf(Item, Capture)
  /\ LET want == Cap(cur, NumberOf(Item, Capture))
         i == SymFind(gen, nextc, "var", FALSE)
     IN IF /\ NumberOf(Item, Capture) <= Len(cur.caps) /\ want # ACC
           /\ nextc \in Names /\ i # Nowhere /\ gen.syms[i].address = want
        THEN Matched(Record(cur, want), gen) /\ UNCHANGED last_func
        ELSE Mismatch

Decl ==                 \* match_ident_decl: a variable of this scope, new or not
  /\ At("\\+")
  /\ LET i == SymFind(gen, nextc, "var", TRUE)
         slot == IF i = Nowhere THEN gen.next ELSE gen.syms[i].address
     IN IF nextc \notin Names THEN Mismatch
        ELSE /\ Matched(Record(cur, slot),
                        IF i # Nowhere THEN gen
                        ELSE SymAdd([gen EXCEPT !.next = @ + 1], nextc, "var", slot))
             /\ UNCHANGED last_func

FuncDecl ==             \* match_ident_func_decl: a vector and a frame of its own
  /\ At("\\f")
  /\ LET vec == Len(gen.vectors)
         base == gen.next
         named == SymAdd([gen EXCEPT !.next = base + 4], nextc, "func", vec)
         both == SymAdd(named, nextc, "var", base + 1)
     IN IF nextc \notin Names \/ SymFind(gen, nextc, "func", TRUE) # Nowhere THEN Mismatch
        ELSE /\ last_func' = vec
             /\ Matched(Record(cur, base + 1),
                  [both EXCEPT !.syms[Len(both.syms)].scope = gen.depth + 1,
                               !.syms[Len(named.syms)].ret = base + 1,
                               !.frame = Append(@, base), !.vectors = Append(@, 0),
                               !.pending = vec,
                               !.mainVec = IF nextc = "main" THEN vec ELSE @])

Params(g) == SelectSeq(g.syms, LAMBDA s : s.scope = g.depth /\ s.pidx # 0)

ParamDecl ==            \* match_param_decl: the frame's cells from base+4 on
  /\ At("\\p")
  /\ LET k == Len(Params(gen))
         slot == gen.frame[last_func + 1] + 4 + k
         added == SymAdd(gen, nextc, "var", slot)
     IN IF nextc \notin Names \/ last_func = None THEN Mismatch
        ELSE IF k >= MaxParams THEN Fatal
        ELSE IF SymFind(gen, nextc, "var", TRUE) # Nowhere THEN Mismatch
        ELSE /\ Matched(Record(cur, slot),
                  [added EXCEPT !.syms[Len(added.syms)].pidx = k + 1,
                                !.next = IF @ <= slot THEN slot + 1 ELSE @])
             /\ UNCHANGED last_func

ParamsDone ==           \* params_done: the last parameter lives at base+3
  /\ At("\\r")
  /\ LET fs == SymFunc(gen, last_func)
         ps == [i \in 1..Len(Params(gen)) |-> Params(gen)[i].address]
         n == Len(ps)
         home == gen.frame[last_func + 1] + 3
         last == SelectLastInSeq(gen.syms, LAMBDA s : s.scope = gen.depth /\ s.pidx # 0)
     IN IF last_func = None \/ fs = Nowhere THEN Mismatch
        ELSE /\ gen' = IF n = 0 THEN [gen EXCEPT !.syms[fs].params = <<>>]
                       ELSE [gen EXCEPT !.syms[fs].params = [ps EXCEPT ![n] = home],
                                        !.syms[last].address = home,
                                        !.next = @ - 1]
             /\ Go(cur, 1)
             /\ UNCHANGED <<src, line_pos, line_abs, last_func, verdict>>

Number ==
  /\ At("\\d")
  /\ IF nextc \notin DOMAIN NumVal THEN Mismatch
     ELSE /\ Matched(Record(cur, AddedAt(gen, NumVal[nextc])),
                     AddRaw(gen, NumVal[nextc], FALSE))
          /\ UNCHANGED last_func

SizeOf ==               \* \z outside a production: the size of the type last matched
  /\ At("\\z")
  /\ LET size == IF gen.cur_type = "char" THEN 1 ELSE 2
     IN /\ gen' = AddRaw(gen, size, FALSE)
        /\ Go(Record(cur, AddedAt(gen, size)), 1)
  /\ UNCHANGED <<src, line_pos, line_abs, last_func, verdict>>

StringConst ==
  /\ At("\\s")
  /\ IF nextc \notin DOMAIN StrVal THEN Mismatch
     ELSE /\ Matched(Record(cur, ConstSlot(Len(gen.pool) + 1)),
                     AddString(gen, Append(StrVal[nextc], 0)))
          /\ UNCHANGED last_func

StringHere ==           \* match_str_emit: its bytes and a zero go into the code
  /\ At("\\S")
  /\ IF nextc \notin DOMAIN StrVal THEN Mismatch
     ELSE /\ Matched(cur, FoldLeft(Emit, gen, Append(StrVal[nextc], 0)))
          /\ UNCHANGED last_func

-----------------------------------------------------------------------------
ParseInit ==            \* the source is given
  /\ line_pos = 0 /\ line_abs = 0
  /\ gen = GenReset
  /\ stack = <<NewFrame(Start, GenReset)>>
  /\ last_func = None
  /\ verdict = "running"

\* What matching takes by itself, and the escapes that look at names, numbers
\* and texts, and so depend on what was declared.
MatchStep ==
  \/ TryAlt \/ NoAlt \/ FailAlt \/ EndOfAlt \/ Finish \/ Call \/ Production
  \/ Tail_ \/ Commit \/ Literal
EscapeStep ==
  \/ Scope \/ Ident \/ Same \/ Decl \/ FuncDecl \/ ParamDecl \/ ParamsDone
  \/ Number \/ StringConst \/ StringHere \/ SizeOf
ParseStep == MatchStep \/ EscapeStep
=============================================================================
