------------------------------ MODULE CGrammar ------------------------------
(***************************************************************************)
(* c.bnf: its rules and their alternatives, in its order. Words, operators *)
(* and the formats of printf are tokens; the rules W and J, which nothing  *)
(* refers to, are left out.                                                *)
(***************************************************************************)
EXTENDS Sequences

Says(tokens) == tokens \o <<")", ";">>

-----------------------------------------------------------------------------
(* Loops. What follows "for (i =" sets the variable, and how far it counts   *)
(* decides which operands the fused op-codes get.                            *)

FromZero == <<"0", ";", "[", "Z", "\\1", "]">>
FromNumber == <<"\\d", ";", "[", "C", "\\1", "\\2", "]">>
FromVariable == <<"\\i", ";", "[", "C", "\\1", "\\2", "]">>
FromValue == <<"E", "[", "S", "\\1", "]", ";">>
Below == <<"\\d", "[", "\\e", "S", "\\t", "]">>
UpToValue == <<"E", "[", "S", "\\t", "]">>
BelowValue == <<"E", "[", "\\e", "S", "\\t", "]">>

For(first) == <<"for", "(", "\\i", "=">> \o first
Counting(first, op, limit, cell) ==
  For(first) \o <<"\\1", op>> \o limit
  \o <<";", "\\1", "++", ")", "[", "\\m", "i", "\\1", cell, "\\x", "]", "K",
       "[", "n", "\\z", "\\y", "]">>
Descending(test) ==
  For(FromValue) \o test
  \o <<")", "[", "\\m", "j", "\\1", "\\x", "]", "K", "[", "m", "\\z", "\\y", "]">>
Classic(test) ==
  For(FromValue) \o test
  \o <<")", "[", "\\m", "L", "\\1", "G", "\\x", "]", "K",
       "[", "J", "\\1", "B", "\\z", "\\y", "]">>
WhileTest == <<"[", "\\m", "]", "E", "[", "?", "G", "\\x", "]">>
Again == <<"B", "\\z", "\\y", "]">>
Stepping(op, code) ==
  For(FromValue) \o WhileTest \o <<";", "\\i", op, ")", "K", "[", code, "\\4">> \o Again

LoopRules == <<
  Counting(FromZero, "<=", <<"\\d">>, "\\3"),
  Counting(FromNumber, "<=", <<"\\d">>, "\\4"),
  Counting(FromVariable, "<=", <<"\\d">>, "\\4"),
  Counting(FromZero, "<=", <<"\\i">>, "\\3"),
  Counting(FromNumber, "<=", <<"\\i">>, "\\4"),
  Counting(FromVariable, "<=", <<"\\i">>, "\\4"),
  Counting(FromZero, "<", Below, "\\4"),
  Counting(FromNumber, "<", Below, "\\5"),
  Counting(FromVariable, "<", Below, "\\5"),
  Counting(FromValue, "<=", UpToValue, "\\5"),
  Counting(FromValue, "<", BelowValue, "\\5"),
  Descending(<<"\\1", ";", "\\i", "--">>),
  Descending(<<"\\1", ">", "0", ";", "\\i", "--">>),
  Descending(<<"\\1", ">=", "1", ";", "\\i", "--">>),
  Classic(<<"\\1", "--", ";">>),
  Classic(<<"\\1", "--", ">", "0", ";">>),
  Classic(<<"--", "\\1", ";">>),
  Classic(<<"\\1", ";", "\\i", "--">>),
  Classic(<<"\\1", ">", "0", ";", "\\i", "--">>),
  Stepping("++", "I"),
  Stepping("--", "J"),
  <<"for", "(", "E", ";">> \o WhileTest \o <<";", "E", ")", "K", "[">> \o Again,
  Counting(FromValue, "<=", UpToValue, "\\5"),
  For(FromValue) \o WhileTest \o <<";", "\\i", "+=", "\\i", "[", "U", "\\1", "\\5", "]", ")", "K", "[">> \o Again,
  <<"while", "(", "[", "\\m", "]", "E", ")", "[", "?", "G", "\\x", "]", "K", "[">> \o Again >>

-----------------------------------------------------------------------------
(* Output. "\"" is the op-code that prints the text after it.                *)

Inline(before, after) == before \o <<"[", "\"", "]", "\\S">> \o after
Format(f, code) == Says(<<"printf", "(", f, ",", "E">>) \o <<"[">> \o code \o <<"]">>

OutputRules == <<
  Says(<<"putchar", "(", "'\\n'">>) \o <<"[", "N", "]">>,
  Says(<<"putchar", "(", "\\d">>) \o <<"[", "O", "\\c1", "]">>,
  Says(<<"putchar", "(", "\\i">>) \o <<"[", "L", "\\1", "E", "]">>,
  Says(<<"putchar", "(", "E">>) \o <<"[", "E", "]">>,
  Says(Inline(<<"puts", "(">>, <<>>)) \o <<"[", "N", "]">>,
  Says(<<"puts", "(", "\\i">>) \o <<"[", "\\1", "P", "N", "]">>,
  Says(Inline(<<"fputs", "(">>, <<",", "stdout">>)),
  Says(<<"fputs", "(", "\\i", ",", "stdout">>) \o <<"[", "\\1", "P", "]">>,
  Says(<<"printf", "(", "%s", ",", "\\i">>) \o <<"[", "L", "\\1", "P", "]">>,
  Format("%u ", <<".", "O", " ">>), Format("%d ", <<".", "O", " ">>),
  Format("%u\\n", <<".", "N">>), Format("%d\\n", <<".", "N">>),
  Format("%d", <<".">>), Format("%u", <<".">>),
  Says(<<"printf", "(", "\\i">>) \o <<"[", "L", "\\1", "P", "]">>,
  Says(<<"printf", "(", "%u%u%u\\\\n", ",", "E", ",", "E", ",", "E">>) \o <<"[", ".", ".", ".", "N", "]">>,
  Says(<<"printf", "(", "%u%u%u", ",", "E", ",", "E", ",", "E">>) \o <<"[", ".", ".", ".", "]">>,
  Says(<<"printf", "(", "\\\"%s\\\" has %d characters\\n", ",", "\\i", ",",
         "\\i", "(", "Z", ")", "[", "\\v", "]">>)
    \o <<"[", "S", "\\t", "L", "\\1", "P", "\"", " ", "h", "a", "s", " ", "\\#00",
         "L", "\\3", ".", "N", "]">>,
  Says(Inline(<<"printf", "(">>, <<>>)),
  Says(<<"printf", "(", "E">>) \o <<"[", "P", "]">>,
  Says(Inline(<<"putz", "(">>, <<>>)),
  Says(<<"putz", "(", "E">>) \o <<"[", "P", "]">>,
  Says(<<"putnl", "(", "E">>) \o <<"[", ".", "N", "]">>,
  Says(<<"putn", "(", "E">>) \o <<"[", ".", "O", " ", "]">>,
  Says(<<"nl", "(">>) \o <<"[", "N", "]">>,
  Says(Inline(<<"printf", "(">>, <<",", "E">>)) \o <<"[", ".", "]">> >>

-----------------------------------------------------------------------------
(* Operators, with a rule R (a call, a pointer, parentheses) on the right,   *)
(* and with a simple operand S.                                              *)

Grouped(op, code) == <<op, "[", "S", "\\t", "]", "R", "[">> \o code \o <<"]", "\\<">>
Direct(op, code) == <<op, "S", "[">> \o code \o <<"]", "\\<">>
Reversed(code) == <<"S", "\\t", "L", "\\a1", code, "\\a3">>

OperatorRules == <<
  \* "[[" leaves ">> R", whose own "[" is missing, a part of this alternative
  Grouped("<<", <<"\\[", "\\a1">>),
  Grouped("!=", <<"=", "\\a1", "?">>), Grouped("==", <<"=", "\\a1">>),
  Grouped("+", <<"+", "\\a1">>), Grouped("-", Reversed("-")),
  Grouped("*", <<"*", "\\a1">>), Grouped("/", Reversed("/")),
  Grouped("&", <<"&", "\\a1">>), Grouped("|", <<"|", "\\a1">>), Grouped("^", <<"^", "\\a1">>),
  Grouped("<=", Reversed(">") \o <<"?">>), Grouped(">=", Reversed("<") \o <<"?">>),
  Grouped("<", Reversed("<")), Grouped(">", Reversed(">")),
  Direct("<<", <<"\\[", "\\a1">>), Direct(">>", <<"\\]", "\\a1">>),
  Direct("!=", <<"=", "\\a1", "?">>), Direct("==", <<"=", "\\a1">>),
  Direct("+", <<"+", "\\a1">>), Direct("-", <<"-", "\\a1">>),
  Direct("*", <<"*", "\\a1">>), Direct("/", <<"/", "\\a1">>),
  Direct("&", <<"&", "\\a1">>), Direct("|", <<"|", "\\a1">>), Direct("^", <<"^", "\\a1">>),
  Direct("<=", <<">", "\\a1", "?">>), Direct(">=", <<"<", "\\a1", "?">>),
  Direct("<", <<"<", "\\a1">>), Direct(">", <<">", "\\a1">>),
  <<>> >>

-----------------------------------------------------------------------------
IfHead == <<"if", "(", "E", ")", "[", "?", "G", "\\x", "]", "K">>
Counts(code) == <<";", "[", code, "\\1", "]">>

CGrammar == [
  P |-> << <<"D">> >>,
  D |-> << <<"#include", "<", "\\+", ".h", ">", "\\n", "\\<">>,
           <<"#include", "quote", "\\+", ".h", "quote", "\\n", "\\<">>,
           <<"#include", "<", "\\+", ".c", ">", "\\n", "\\<">>,
           <<"V", "\\<">>, <<"F", "\\<">>, <<>> >>,
  V |-> << <<"T", "M", ";">> >>,
  M |-> << <<"\\+", "=", "S", "[", "\\g", "]", "U">>,
           <<"\\+", "=", "E", "[", "S", "\\1", "]", "U">>,
           <<"\\+", "U">>, <<>> >>,
  U |-> << <<",", "M">>, <<>> >>,
  T |-> << <<"I", "*">>, <<"I", "^", "*">>, <<"I">> >>,
  I |-> << <<"int">>, <<"word">>, <<"void">>, <<"char">> >>,
  F |-> << <<"T", "\\f", "\\{", "(", "A", ")", "\\r", "B", "\\}", "[", "X", "]">> >>,
  A |-> << <<"T", "\\p", "Q">>, <<"void">>, <<>> >>,
  Q |-> << <<",", "A">>, <<>> >>,
  B |-> << <<"{", "\\{", "C", "}", "\\}">> >>,
  C |-> << <<"V", "\\<">>, <<"K", "\\<">>, <<>> >>,
  K |-> << IfHead \o <<"else", "[", "0", "?", "G", "\\x", "\\w", "\\y", "]", "K", "[", "\\y", "]">>,
           IfHead \o <<"[", "\\y", "]">> >>
        \o LoopRules \o OutputRules \o <<
           <<"return", "E", ";", "[", "X", "]">>,
           <<"return", ";", "[", "Q", "]">>,
           <<"free", "(", "\\i", ")", ";", "[", "F", "\\1", "]">>,
           <<"\\i", "=", "malloc", "(", "E", ")", ";", "[", "M", "\\1", "]">>,
           <<"B">>, <<";">>, <<"H">> >>,
  H |-> << <<"\\i", "+=", "\\i", ";", "[", "U", "\\1", "\\2", "]">>,
           <<"*", "\\i", "=", "E", ";", "[", "!", "\\1", "]">>,
           <<"\\i", "index[", "S", "index]", "=", "E", ";", "[", ")", "\\1", "\\2", "]">>,
           <<"\\i", "=", "0", ";", "[", "Z", "\\1", "]">>,
           <<"\\i", "=", "S", "+", "S", ";", "[", "L", "\\2", "+", "\\3", "S", "\\1", "]">>,
           <<"\\i", "=", "S", "-", "S", ";", "[", "L", "\\2", "-", "\\3", "S", "\\1", "]">>,
           <<"\\i", "=", "\\i", ";", "[", "C", "\\1", "\\2", "]">>,
           <<"\\i", "=", "S", ";", "[", "C", "\\1", "\\2", "]">>,
           <<"\\i", "++">> \o Counts("I"), <<"++", "\\i">> \o Counts("I"),
           <<"\\i", "--">> \o Counts("J"), <<"--", "\\i">> \o Counts("J"),
           <<"\\i", "=", "E", ";", "[", "S", "\\1", "]">> >>,
  E |-> << <<"\\i", "+=", "\\i", "[", "U", "\\1", "\\2", "]">>,
           <<"R", "O">>, <<"S", "[", "\\l1", "]", "O">> >>,
  R |-> << <<"\\i", "(", "Z", ")", "[", "\\v", "]">>,
           <<"*", "\\i", "++", "[", "'", "\\1", "]">>,
           <<"*", "\\i", "[", "@", "\\1", "]">>,
           <<"\\i", "index[", "S", "index]", "[", "(", "\\1", "\\2", "]">>,
           <<"(", "E", ")">>,
           <<"!", "E", "[", "?", "]">> >>,
  S |-> << <<"\\d">>, <<"sizeof", "(", "T", ")", "\\z">>, <<"sizeof", "(", "\\i", ")", "\\z">>,
           <<"\\s">>, <<"\\i">> >>,
  Z |-> << <<"E", ",", "[", "S", "\\k", "]", "\\<">>, <<"E">>, <<>> >>,
  O |-> OperatorRules]
=============================================================================
