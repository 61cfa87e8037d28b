---------------------------- MODULE CPrograms -------------------------------
(***************************************************************************)
(* Programs as trees, the tokens that say them, and what they mean.        *)
(* Expressions are written with parentheses, so that precedence plays no   *)
(* part; functions do not recurse, and no call is an argument of a call of *)
(* the same function: frames are static.                                   *)
(***************************************************************************)
EXTENDS Integers, Sequences, SequencesExt

Modulus == 65536
FirstCell == 2
AsInt(b) == IF b THEN 1 ELSE 0

-----------------------------------------------------------------------------
(* The instance: names, numbers and texts.                                  *)
CNames == {"main", "f", "g", "x", "y", "i", "n", "p", "stdio"}
CNumVal == [t \in {"0", "1", "2", "3", "7", "300"} |->
               CASE t = "0" -> 0 [] t = "1" -> 1 [] t = "2" -> 2 [] t = "3" -> 3
                 [] t = "7" -> 7 [] t = "300" -> 300]
CStrVal == [t \in {"hi", "a"} |-> IF t = "hi" THEN <<104, 105>> ELSE <<97>>]
Texts == <<0, 0>> \o <<104, 105, 0>> \o <<97, 0>>    \* where Meaning keeps them

-----------------------------------------------------------------------------
(* Trees: [k |-> kind, ...].                                                *)
Num(t) == [k |-> "num", t |-> t]
Var(x) == [k |-> "var", x |-> x]
Str(t) == [k |-> "str", t |-> t]
Bin(o, a, b) == [k |-> "bin", o |-> o, a |-> a, b |-> b]
Not(a) == [k |-> "not", a |-> a]
Deref(x) == [k |-> "deref", x |-> x]
Walk(x) == [k |-> "walk", x |-> x]
Index(x, i) == [k |-> "index", x |-> x, i |-> i]
App(f, args) == [k |-> "app", f |-> f, args |-> args]
Adding(x, y) == [k |-> "adding", x |-> x, y |-> y]     \* x += y, as a value
Size(t, v) == [k |-> "size", t |-> t, v |-> v]         \* sizeof(t), which is v

Asg(x, e) == [k |-> "asg", x |-> x, e |-> e]
Decl_(x, e) == [k |-> "decl", x |-> x, e |-> e]
Bare(x) == [k |-> "bare", x |-> x]
Poke(x, e) == [k |-> "poke", x |-> x, e |-> e]
Into(x, i, e) == [k |-> "into", x |-> x, i |-> i, e |-> e]
Get(x, e) == [k |-> "get", x |-> x, e |-> e]
Drop_(x) == [k |-> "free", x |-> x]
AddTo(x, y) == [k |-> "addto", x |-> x, y |-> y]
Count(x, o, first) == [k |-> "count", x |-> x, o |-> o, first |-> first]
Incr(x) == Count(x, "++", FALSE)
Decr(x) == Count(x, "--", FALSE)
If(e, a, b) == [k |-> "if", e |-> e, a |-> a, b |-> b]
When(e, a) == [k |-> "when", e |-> e, a |-> a]
While(e, a) == [k |-> "while", e |-> e, a |-> a]
Up(x, lo, o, hi, a) == [k |-> "up", x |-> x, lo |-> lo, o |-> o, hi |-> hi, a |-> a]
DownBy(x, e, test, a) == [k |-> "down", x |-> x, e |-> e, test |-> test, a |-> a]
Down(x, e, a) == DownBy(x, e, <<>>, a)
Step(x, e, c, o, a) == [k |-> "step", x |-> x, e |-> e, c |-> c, o |-> o, a |-> a]
Putc(e) == [k |-> "putc", e |-> e]
PutBreak == [k |-> "putbreak"]
Putf(f, e) == [k |-> "putf", f |-> f, e |-> e]
Putd(e) == Putf("%d", e)
PutText(f, t) == [k |-> "puttext", f |-> f, t |-> t]
Puts(t) == PutText("puts", t)
PutVar(f, x) == [k |-> "putvar", f |-> f, x |-> x]
PutS(x) == PutVar("%s", x)
Ret(e) == [k |-> "ret", e |-> e]
RetNone == [k |-> "retnone"]
Skip_ == [k |-> "skip"]
Block(s) == [k |-> "block", s |-> s]

Fun(f, ps, body) == [f |-> f, ps |-> ps, body |-> body]

-----------------------------------------------------------------------------
(* Unparsing.                                                               *)
RECURSIVE ETok(_), ArgTok(_), STok(_), SeqTok(_)
To(f) == (IF f = "fputs" THEN <<",", "stdout">> ELSE <<>>) \o <<")", ";">>
Operand(e) == IF e.k \in {"bin", "not"} THEN <<"(">> \o ETok(e) \o <<")">> ELSE ETok(e)
ETok(e) ==
  CASE e.k \in {"num", "str"} -> <<e.t>>
    [] e.k = "var" -> <<e.x>>
    [] e.k = "bin" -> Operand(e.a) \o <<e.o>> \o Operand(e.b)
    [] e.k = "not" -> <<"!">> \o Operand(e.a)
    [] e.k = "deref" -> <<"*", e.x>>
    [] e.k = "walk" -> <<"*", e.x, "++">>
    [] e.k = "index" -> <<e.x, "index[">> \o ETok(e.i) \o <<"index]">>
    [] e.k = "app" -> <<e.f, "(">> \o ArgTok(e.args) \o <<")">>
    [] e.k = "adding" -> <<e.x, "+=", e.y>>
    [] e.k = "size" -> <<"sizeof", "(">> \o e.t \o <<")">>
ArgTok(es) == IF es = <<>> THEN <<>>
              ELSE IF Len(es) = 1 THEN ETok(es[1])
              ELSE ETok(es[1]) \o <<",">> \o ArgTok(Tail(es))
STok(s) ==
  CASE s.k = "asg" -> <<s.x, "=">> \o ETok(s.e) \o <<";">>
    [] s.k = "decl" -> <<"int", s.x, "=">> \o ETok(s.e) \o <<";">>
    [] s.k = "bare" -> <<"int", s.x, ";">>
    [] s.k = "poke" -> <<"*", s.x, "=">> \o ETok(s.e) \o <<";">>
    [] s.k = "into" -> <<s.x, "index[">> \o ETok(s.i) \o <<"index]", "=">> \o ETok(s.e) \o <<";">>
    [] s.k = "get" -> <<s.x, "=", "malloc", "(">> \o ETok(s.e) \o <<")", ";">>
    [] s.k = "free" -> <<"free", "(", s.x, ")", ";">>
    [] s.k = "addto" -> <<s.x, "+=", s.y, ";">>
    [] s.k = "count" -> (IF s.first THEN <<s.o, s.x>> ELSE <<s.x, s.o>>) \o <<";">>
    [] s.k = "if" -> <<"if", "(">> \o ETok(s.e) \o <<")">> \o STok(s.a) \o <<"else">> \o STok(s.b)
    [] s.k = "when" -> <<"if", "(">> \o ETok(s.e) \o <<")">> \o STok(s.a)
    [] s.k = "while" -> <<"while", "(">> \o ETok(s.e) \o <<")">> \o STok(s.a)
    [] s.k = "up" -> <<"for", "(", s.x, "=">> \o ETok(s.lo) \o <<";", s.x, s.o>> \o ETok(s.hi)
                       \o <<";", s.x, "++", ")">> \o STok(s.a)
    [] s.k = "down" -> <<"for", "(", s.x, "=">> \o ETok(s.e)
                         \o <<";", s.x>> \o s.test \o <<";", s.x, "--", ")">> \o STok(s.a)
    [] s.k = "step" -> <<"for", "(", s.x, "=">> \o ETok(s.e) \o <<";">> \o ETok(s.c)
                         \o <<";", s.x, s.o, ")">> \o STok(s.a)
    [] s.k = "putc" -> <<"putchar", "(">> \o ETok(s.e) \o <<")", ";">>
    [] s.k = "putbreak" -> <<"putchar", "(", "'\\n'", ")", ";", "nl", "(", ")", ";">>
    [] s.k = "putf" -> (IF s.f \in {"putn", "putnl"} THEN <<s.f, "(">> ELSE <<"printf", "(", s.f, ",">>)
                         \o ETok(s.e) \o <<")", ";">>
    [] s.k = "puttext" -> <<s.f, "(", s.t>> \o To(s.f)
    [] s.k = "putvar" -> (IF s.f = "%s" THEN <<"printf", "(", s.f, ",">> ELSE <<s.f, "(">>)
                           \o <<s.x>> \o To(s.f)
    [] s.k = "ret" -> <<"return">> \o ETok(s.e) \o <<";">>
    [] s.k = "retnone" -> <<"return", ";">>
    [] s.k = "skip" -> <<";">>
    [] s.k = "block" -> <<"{">> \o SeqTok(s.s) \o <<"}">>
SeqTok(ss) == IF ss = <<>> THEN <<>> ELSE STok(ss[1]) \o SeqTok(Tail(ss))

FunTok(f) ==
  <<"int", f.f, "(">>
  \o FlattenSeq([i \in DOMAIN f.ps |-> (IF i = 1 THEN <<>> ELSE <<",">>) \o <<"int", f.ps[i]>>])
  \o <<")", "{">> \o SeqTok(f.body) \o <<"}">>
ProgTok(p) == SeqTok(p.globals) \o FlattenSeq([i \in DOMAIN p.funs |-> FunTok(p.funs[i])])

-----------------------------------------------------------------------------
(* Meaning. A state m has the variables, innermost last, the memory, what   *)
(* was printed, the value of the last expression, and whether to return.    *)

Holder(m, x) == SelectLastInSeq(m.env, LAMBDA b : b[1] = x)
Val(m, x) == m.env[Holder(m, x)][2]
Setv(m, x, v) == [m EXCEPT !.env[Holder(m, x)] = <<x, v>>]
With(m, v) == [m EXCEPT !.v = v]
Bind(m, x, v) == [m EXCEPT !.env = Append(@, <<x, v>>)]
Local(m, x) == \E i \in (m.base + 1)..Len(m.env) : m.env[i][1] = x
PrintTo(m, s) == IF m.fault THEN m ELSE [m EXCEPT !.out = @ \o s]
Held(m, a) == a >= FirstCell /\ a + 2 <= FirstCell + Len(m.heap)
Fault(m) == [m EXCEPT !.fault = TRUE, !.ret = TRUE]
Word2(m, a) == m.heap[a - FirstCell + 1] + 256 * m.heap[a - FirstCell + 2]
SetWord2(m, a, v) == [m EXCEPT !.heap = [@ EXCEPT ![a - FirstCell + 1] = v % 256,
                                                   ![a - FirstCell + 2] = v \div 256]]
BitsOf(a) == {i \in 0..15 : (a \div 2^i) % 2 = 1}
FromBits(S) == MapThenSumSet(LAMBDA i : 2^i, S)
Apply2(o, a, b) ==
  CASE o = "+" -> (a + b) % Modulus
    [] o = "-" -> (a - b) % Modulus
    [] o = "*" -> (a * (b % 256) + ((a * (b \div 256)) % 256) * 256) % Modulus
    [] o = "/" -> a \div b
    [] o = "<<" -> (a * 2^b) % Modulus
    [] o = ">>" -> a \div 2^b
    [] o = "&" -> FromBits(BitsOf(a) \cap BitsOf(b))
    [] o = "|" -> FromBits(BitsOf(a) \cup BitsOf(b))
    [] o = "^" -> FromBits(SymDiff(BitsOf(a), BitsOf(b)))
    [] o = "<" -> AsInt(a < b)
    [] o = "<=" -> AsInt(a <= b)
    [] o = ">" -> AsInt(a > b)
    [] o = ">=" -> AsInt(a >= b)
    [] o = "==" -> AsInt(a = b)
    [] o = "!=" -> AsInt(a # b)

TextFrom(bytes, i) ==
  SubSeq(bytes, i, i - 2 + SelectInSeq(SubSeq(bytes, i, Len(bytes)), LAMBDA b : b = 0))

RECURSIVE Ev(_, _, _), Both(_, _, _), EvArgs(_, _, _), FromArg(_, _, _), Called(_, _, _),
          Ex(_, _, _), After(_, _, _), ExAll(_, _, _),
          Loop(_, _, _), Tested(_, _, _), Stepped(_, _, _, _)
ReadAt(m, a) == IF Held(m, a) THEN With(m, Word2(m, a)) ELSE Fault(m)
WriteAt(m, a) == IF Held(m, a) THEN SetWord2(m, a, m.v) ELSE Fault(m)
Assign(m, x) == Setv(m, x, m.v)
Add(m, x, by) == Assign(With(m, (Val(m, x) + by) % Modulus), x)
Negated(a) == With(a, AsInt(a.v = 0))
Applied(o, v, b) == With(b, Apply2(o, v, b.v))
Both(e, a, p) == Applied(e.o, a.v, Ev(e.b, a, p))
Ev(e, m, p) ==
  CASE e.k = "num" -> With(m, CNumVal[e.t])
    [] e.k = "str" -> With(m, p.strs[e.t])
    [] e.k = "var" -> With(m, Val(m, e.x))
    [] e.k = "bin" -> Both(e, Ev(e.a, m, p), p)
    [] e.k = "not" -> Negated(Ev(e.a, m, p))
    [] e.k = "deref" -> ReadAt(m, Val(m, e.x))
    [] e.k = "walk" -> With(Setv(m, e.x, Val(m, e.x) + 1), m.heap[Val(m, e.x) - FirstCell + 1])
    [] e.k = "index" -> ReadAt(m, Val(m, e.x) + 2 * Ev(e.i, m, p).v)
    [] e.k = "adding" -> Add(m, e.x, Val(m, e.y))
    [] e.k = "size" -> With(m, e.v)
    [] e.k = "app" -> Called(p.funs[CHOOSE i \in DOMAIN p.funs : p.funs[i].f = e.f],
                             EvArgs(e.args, m, p), p)
\* The callee sees the globals and its parameters; what it did to the globals stays.
Called(f, args, p) ==
  LET nglob == Len(p.globals)
      Back(done) == [done EXCEPT !.env = SubSeq(@, 1, nglob)
                                           \o SubSeq(args.m.env, nglob + 1, Len(args.m.env)),
                                 !.base = args.m.base, !.ret = FALSE]
  IN Back(ExAll(f.body, [args.m EXCEPT !.env = SubSeq(@, 1, nglob)
                           \o [i \in DOMAIN f.ps |-> <<f.ps[i], args.vs[i]>>], !.base = nglob], p))
Args(v, r) == [m |-> r.m, vs |-> <<v>> \o r.vs]
FromArg(es, a, p) == Args(a.v, EvArgs(Tail(es), a, p))
EvArgs(es, m, p) ==
  IF es = <<>> THEN [m |-> m, vs |-> <<>>] ELSE FromArg(es, Ev(es[1], m, p), p)
Closed(r, m) == [r EXCEPT !.env = SubSeq(@, 1, Len(m.env)), !.base = m.base]

\* What is left of a loop: its test, and after its body its step.
By(o) == IF o = "++" THEN 1 ELSE -1
Past(s, m) == IF s.o = "<" THEN Val(m, s.x) >= m.lim ELSE Val(m, s.x) > m.lim
Stepped(s, r, lim, p) ==
  IF r.ret THEN r
  ELSE LET o == CASE s.k = "up" -> "++" [] s.k = "down" -> "--" [] s.k = "step" -> s.o
       IN Loop(s, [Add(r, s.x, By(o)) EXCEPT !.lim = lim], p)
Tested(s, c, p) ==
  IF c.v = 0 THEN c
  ELSE IF s.k = "while" THEN Loop(s, Ex(s.a, c, p), p) ELSE Stepped(s, Ex(s.a, c, p), c.lim, p)
Loop(s, m, p) ==
  IF m.ret THEN m
  ELSE CASE s.k \in {"while", "step"} -> Tested(s, Ev(IF s.k = "while" THEN s.e ELSE s.c, m, p), p)
         [] s.k = "up" -> IF Past(s, m) THEN m ELSE Stepped(s, Ex(s.a, m, p), m.lim, p)
         [] s.k = "down" -> IF Val(m, s.x) = 0 THEN m ELSE Stepped(s, Ex(s.a, m, p), m.lim, p)
Tail10 == {"%d\\n", "%u\\n", "putnl"}        \* what ends with a line break, and a space
Tail32 == {"%d ", "%u ", "putn"}
TailOf(f) == IF f \in Tail10 THEN <<10>> ELSE IF f \in Tail32 THEN <<32>> ELSE <<>>
Ex(s, m, p) ==
  CASE s.k = "bare" -> Bind(m, s.x, 0)
    [] s.k = "free" -> Setv(m, s.x, 0)
    [] s.k = "addto" -> Add(m, s.x, Val(m, s.y))
    [] s.k = "count" -> Add(m, s.x, By(s.o))
    [] s.k = "while" -> Loop(s, m, p)
    [] s.k = "putbreak" -> PrintTo(m, <<10, 10>>)
    [] s.k = "puttext" -> PrintTo(m, CStrVal[s.t] \o IF s.f = "puts" THEN <<10>> ELSE <<>>)
    [] s.k = "putvar" -> IF Val(m, s.x) < FirstCell THEN Fault(m)
                         ELSE PrintTo(m, TextFrom(m.heap, Val(m, s.x) - FirstCell + 1)
                                           \o IF s.f = "puts" THEN <<10>> ELSE <<>>)
    [] s.k = "retnone" -> [m EXCEPT !.v = 0, !.ret = TRUE]
    [] s.k = "skip" -> m
    [] s.k = "block" -> Closed(ExAll(s.s, [m EXCEPT !.base = Len(m.env)], p), m)
    [] OTHER -> After(s, Ev(IF s.k = "up" THEN s.lo ELSE s.e, m, p), p)
After(s, r, p) ==       \* the value of its first expression known
  CASE s.k = "asg" -> Assign(r, s.x)
    [] s.k = "decl" -> Bind(r, s.x, r.v)
    [] s.k = "poke" -> WriteAt(r, Val(r, s.x))
    [] s.k = "into" -> WriteAt(r, Val(r, s.x) + 2 * Ev(s.i, r, p).v)
    [] s.k = "get" -> [Setv(r, s.x, FirstCell + Len(r.heap)) EXCEPT !.heap = @ \o [i \in 1..r.v |-> 0]]
    [] s.k = "if" -> Ex(IF r.v # 0 THEN s.a ELSE s.b, r, p)
    [] s.k = "when" -> IF r.v # 0 THEN Ex(s.a, r, p) ELSE r
    [] s.k = "up" -> LET q == Assign(r, s.x) IN Loop(s, [q EXCEPT !.lim = Ev(s.hi, q, p).v], p)
    [] s.k \in {"down", "step"} -> Loop(s, Assign(r, s.x), p)
    [] s.k = "putc" -> PrintTo(r, <<r.v % 256>>)
    [] s.k = "putf" -> PrintTo(r, <<<<r.v>>>> \o TailOf(s.f))
    [] s.k = "ret" -> [r EXCEPT !.ret = TRUE]
ExAll(ss, m, p) == IF ss = <<>> \/ m.ret THEN m ELSE ExAll(Tail(ss), Ex(ss[1], m, p), p)

Run_(p) ==
  LET q == [funs |-> p.funs, globals |-> p.globals,
            strs |-> [t \in {"hi", "a"} |-> FirstCell + IF t = "hi" THEN 2 ELSE 5]]
      m == [env |-> <<>>, heap |-> Texts, out |-> <<>>, v |-> 0, ret |-> FALSE, base |-> 0,
            lim |-> 0, fault |-> FALSE]
      Seen(r) == [ends |-> IF r.fault THEN "badptr" ELSE "done", out |-> r.out]
  IN Seen(Ev(App("main", <<>>), ExAll(p.globals, m, q), q))

-----------------------------------------------------------------------------
Main(body) == [globals |-> <<>>, funs |-> <<Fun("main", <<>>, body)>>]
Set(x, t) == Asg(x, Num(t))

\* Expressions over x = 2 and y = 300: spills, reversed subtraction, 16 bits.
Atoms == {Num("3"), Var("x"), Var("y")}
Ops == {"+", "-", "*", "<", "=="}
MoreOps == {"!=", "&", "|", "^", "<=", ">=", ">"}
Flat == {Bin(o, Var("y"), b) : o \in Ops \cup MoreOps \cup {"/", "<<", ">>"}, b \in {Num("3"), Var("x")}}
Inner == {Bin("-", Var("x"), Num("3")), Bin("<", Num("3"), Var("y")), Not(Var("x"))}
Deep == {Bin(o, a, b) : o \in {"-", "*", "<"}, a \in {Var("y"), Not(Var("x"))}, b \in Inner}
        \cup {Bin(o, Not(Var("x")), Bin("-", Var("x"), Num("3"))) : o \in MoreOps \cup {"+", "=="}}
        \cup {Bin("/", a, Bin("<", Num("3"), Var("y"))) : a \in {Var("y"), Bin("-", Var("x"), Num("3"))}}
Deeper == {Bin("-", Bin("*", Var("x"), Var("y")), Bin(o, d, Bin("-", Num("7"), Var("x")))) :
             o \in {"-", "<"}, d \in Inner}
ExprProgram(e) == Main(<<Decl_("x", Num("2")), Bare("y"), Set("y", "300"), Putd(e)>>)

\* Statements nested in statements.
Mark_(t) == Putd(Num(t))
Changing == {Asg("x", Bin("+", Var("x"), Num("1"))),
             Block(<<Decl_("x", Num("7")), Putd(Var("x"))>>)}
Simple1 == Changing \cup {Mark_("1")}
Tests == {Var("x"), Not(Var("x")), Bin("<", Var("x"), Num("2"))}
Branch == {If(c, a, Mark_("2")) : c \in Tests, a \in Simple1}
          \cup {When(c, a) : c \in {Not(Var("x")), Bin("<", Var("x"), Num("2"))}, a \in Simple1}
          \cup {If(Var("x"), Decr("x"), Incr("x"))}
Loops == {While(Bin("<", Var("i"), Num("3")), Block(<<Incr("i"), s>>)) :
            s \in {c \in Branch : c.a \in Changing}}
         \cup {Up("i", lo, "<=", hi, s) : lo \in {Num("1"), Var("n")},
                 hi \in {Num("0"), Num("1"), Num("2"), Var("n")}, s \in {Decr("x")}}
         \cup {Up("i", Num("1"), o, Bin("+", Var("n"), Num("1")), s) : o \in {"<", "<="}, s \in Changing}
         \cup {Down("i", Bin("+", Num("1"), Var("n")), s) : s \in Changing}
         \cup {DownBy("i", Num("2"), t, s) : t \in {<<">", "0">>, <<">=", "1">>}, s \in Changing}
         \cup {Step("i", Var("n"), Bin(">", Bin("+", Var("n"), Num("3")), Var("i")), "++", s) : s \in Changing}
         \cup {Step("i", Num("7"), Bin("<", Var("n"), Var("i")), "--", s) : s \in Changing}
         \cup {Up("i", Num("1"), "<=", Num("2"), Up("p", Var("i"), "<=", Num("2"), s)) : s \in Changing}
StmtProgram(s) ==
  Main(<<Bare("i"), Bare("p"), Decl_("x", Num("1")), Decl_("n", Num("2")), Set("i", "0"), s,
         Putd(Var("x")), Putd(Var("i"))>>)

\* Functions, parameters, globals, texts and the heap.
Reversed_ == <<Ret(Bin("-", Var("x"), Var("y")))>>
FunBodies == {Reversed_,
              <<AddTo("x", "y"), Ret(Var("x"))>>,
              <<When(Bin("<", Var("x"), Var("y")), Ret(Num("7"))), Ret(Var("n"))>>,
              <<Up("i", Num("1"), "<=", Var("y"), Incr("n")), Ret(Var("i"))>>,
              <<Decl_("i", Var("x")), Set("n", "3"), RetNone>>}
\* Calls whose arguments or order a change of n shows in.
ChangedCalls == {App("f", <<Var("n"), Bin("+", Num("1"), Var("n"))>>),
                 Bin("+", App("f", <<Num("1"), Num("2")>>), App("f", <<Num("3"), Num("2")>>))}
Calls == {App("f", <<Num("7"), Num("3")>>), Bin("-", Num("300"), App("f", <<Num("1"), Num("2")>>)),
          App("g", <<App("f", <<Num("2"), Num("1")>>)>>)}
CallProgram(body, e) ==
  [globals |-> <<Bare("n"), Bare("i")>>,
   funs |-> <<Fun("f", <<"x", "y">>, body),
              Fun("g", <<"x">>, <<Ret(Bin("*", Var("x"), Num("3")))>>),
              Fun("main", <<>>, <<Set("n", "1"), Putd(e), Putd(Var("n"))>>)>>]
GlobalProgram(v) ==
  [globals |-> <<Decl_("n", Num(v)), Decl_("p", Str("hi"))>>,
   funs |-> <<Fun("main", <<>>, <<Bare("y"), Set("y", "1"), AddTo("n", "y"), Putd(Var("n")),
                                  PutS("p"), Puts("a"), Putc(Num("7")), Putc(Var("n")),
                                  Putc(Bin("+", Var("n"), Num("1"))), Skip_>>)>>]
Formats == <<"%d", "%u", "%d ", "%u ", "putn", "%d\\n", "%u\\n", "putnl">>
Printers == <<"puts", "fputs", "printf", "putz", "%s">>
OutputBodies ==         \* every way to print
  {[k \in DOMAIN Formats |-> Putf(Formats[k], Adding("x", "y"))],
   [k \in 1..4 |-> PutText(Printers[k], "a")],
   [k \in 1..5 |-> PutVar(Printers[k], "p")],
   <<PutBreak, Count("x", "++", TRUE), Count("y", "--", TRUE), Putd(Var("x")),
     Asg("x", Bin("-", Var("x"), Var("y"))), Putd(Var("x"))>>}
OutputProgram(body) ==
  [globals |-> <<Decl_("p", Str("hi"))>>,
   funs |-> <<Fun("main", <<>>, <<Decl_("x", Num("300")), Decl_("y", Num("7"))>> \o body)>>]
\* The size of a type, and of the variable declared last.
SizeProgram(t, v) ==
  Main(<<Decl_("x", Num("3")), Putd(Size(<<"x">>, 2)), Putd(Size(t, v)), Putd(Bin("*", Size(t, v), Var("x")))>>)
Cells == <<Bare("p"), Bare("i"), Bare("x"), Get("p", Num("7")), Set("i", "2"),
           Into("p", Var("i"), Num("300")), Poke("p", Num("7")), Asg("x", Var("p")),
           Putd(Deref("p")), Putd(Index("p", Var("i"))), Putd(Walk("x")), Putd(Walk("x")),
           Drop_("p"), Putd(Not(Var("p")))>>

\* Accesses outside the heap.
Faults == {Poke("p", Num("1")), Putd(Deref("p")), PutS("p"), Into("n", Var("i"), Num("1")),
           Putd(Index("n", Var("i"))), Poke("n", Num("2"))}
FaultProgram(s) ==
  Main(<<Bare("p"), Bare("n"), Decl_("i", Num("1")), Get("n", Num("2")), Set("p", "0"),
         Mark_("1"), s, Mark_("2")>>)

Programs ==
  {ExprProgram(e) : e \in Atoms \cup Flat \cup Deep \cup Deeper}
  \cup {StmtProgram(s) : s \in Branch \cup Loops}
  \cup {CallProgram(Reversed_, e) : e \in Calls}
  \cup {CallProgram(b, e) : b \in FunBodies, e \in ChangedCalls}
  \cup {GlobalProgram(v) : v \in {"0", "300"}}
  \cup {FaultProgram(s) : s \in Faults}
  \cup {Main(Cells)} \cup {OutputProgram(b) : b \in OutputBodies}
  \cup {SizeProgram(t[1], t[2]) : t \in {<<<<"char">>, 1>>, <<<<"char", "*">>, 2>>, <<<<"int">>, 2>>}}

\* The same under other types, after an #include, and with declarations of nothing.
Typed(toks, t) == FlattenSeq([i \in DOMAIN toks |-> IF toks[i] = "int" THEN t ELSE <<toks[i]>>])
Included == {<<"#include", "<", "stdio", ".h", ">", "\\n">>,
             <<"#include", "quote", "stdio", ".h", "quote", "\\n">>, <<"#include", "<", "stdio", ".c", ">", "\\n">>}
Variants ==
  LET p == CallProgram(Reversed_, App("f", <<Num("7"), Num("3")>>))
  IN {<<Typed(ProgTok(p), t), Run_(p)>> :
        t \in {<<"word">>, <<"char", "*">>, <<"void", "^", "*">>}}
     \cup {<<h \o ProgTok(p), Run_(p)>> : h \in Included \cup {<<"int", ";">>}}
     \* both globals in one declaration, whose last comma nothing follows
     \cup {<<<<"int", "n", ",", "i", ",", ";">> \o SubSeq(ProgTok(p), 7, Len(ProgTok(p))), Run_(p)>>}

\* What is no program: unknown, foreign and repeated names, and what is missing.
OneFun(ps, body) == [globals |-> <<Bare("n")>>, funs |-> <<Fun("f", ps, body), Fun("main", <<>>, <<>>)>>]
Mistakes ==
  {OneFun(<<"x">>, <<Incr("y")>>), OneFun(<<"x", "x">>, <<>>),
   OneFun(<<"x", "y", "i", "p", "g">>, <<>>),
   OneFun(<<>>, <<Block(<<Decl_("x", Num("1"))>>), Incr("x")>>),
   OneFun(<<>>, <<Putd(App("g", <<>>))>>),
   \* the rule for this one is lost in c.bnf
   Main(<<Bare("x"), Putd(Bin(">>", Var("x"), Bin("+", Var("x"), Num("1"))))>>)}
  \cup {[globals |-> <<>>, funs |-> <<Fun("f", <<"x">>, <<>>), Fun("main", <<>>, <<Asg(x, Num("1"))>>)>>] :
            x \in {"x", "f"}}
  \cup {[globals |-> <<>>, funs |-> <<Fun("f", <<"x", "y">>, <<>>),
            Fun("main", <<>>, <<Putd(App("f", <<Num("1"), Num("2"), Num("3")>>))>>)>>]}

\* The empty alternative of a declaration closes it: no name comes after it.
NoDeclaration == <<"int", ",", "n", ";">>

\* Everything to compile, with what is to come of it.
SoundCases ==
  {<<ProgTok(p), Run_(p)>> : p \in Programs}
  \cup Variants
  \cup {<<t, [ends |-> "error", out |-> <<>>]>> :
            t \in {ProgTok(p) : p \in Mistakes} \cup {NoDeclaration \o ProgTok(Main(<<>>))}}

\* A global's initialiser, whose code is taken back with the statement that main
\* begins with.
InitCases ==
  {<<ProgTok(p), Run_(p)>> :
     p \in {[globals |-> <<Decl_("n", Num("3"))>>,
             funs |-> <<Fun("main", <<>>, <<When(Var("n"), Mark_("1")), Mark_("2")>>)>>]}}
=============================================================================
