----------------------------- MODULE MCParseRun -----------------------------
(* The first token chooses among grammars of the shapes that c.bnf and      *)
(* tpi.bnf are made of.                                                     *)
EXTENDS ParseRun

MCGrammar == [
  P |-> << <<"1", "L">>, <<"2", "X">>, <<"3", "S">>, <<"4", "J">>, <<"5", "N">> >>,
  \* a list with a tail call and an empty end; alternatives with a common start
  L |-> << <<"a", "[", "A", "]", "b", "[", "B", "]", "\\<">>,
           <<"a", "[", "C", "]", "\\<">>,
           <<"b", "[", "D", "]", "c", "\\<">>, <<>> >>,
  \* a shorter alternative first hides the longer one
  X |-> << <<"Y", "[", "E", "]", "c">>, <<"Y", "b", "[", "F", "]">> >>,
  Y |-> << <<"a">>, <<"a", "b">> >>,
  \* nesting
  S |-> << <<"a", "[", "G", "]", "S", "b", "[", "H", "]", "S">>, <<"c">>, <<>> >>,
  \* commits
  J |-> << <<"K">> >>,
  K |-> << <<"a", "[", "I", "]", "\\C", "M", "\\<">>, <<"b", "[", "J", "]">>, <<>> >>,
  M |-> << <<"b", "[", "K", "]", "c">>, <<"b", "[", "L", "]">> >>,
  \* too deep a stack for MaxStack
  N |-> << <<"a", "[", "N", "]", "N">>, <<"b">> >>]

MCSources == UNION {{<<t>> \o s : s \in [1..n -> {"a", "b", "c"}]} :
                      t \in {"1", "2", "3", "4", "5"}, n \in 0..5}
NoNames == {}
NoValues == <<>>
=============================================================================
