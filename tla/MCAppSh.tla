------------------------------- MODULE MCAppSh -------------------------------
(* Two shell windows with command lines like the default, "iota 1 1000|grep 7". *)
EXTENDS AppSh

Blocks  == 1..6

iota(n, e, d) == [f |-> "iota", n |-> n, e |-> e, d |-> d]
grep(digit)   == [f |-> "grep", digit |-> digit]
hd(n)         == [f |-> "head", arg |-> n]
tl(n)         == [f |-> "tail", arg |-> n, plus |-> FALSE]
tee           == [f |-> "teeterminal"]
terminal      == [f |-> "terminal"]

Streams == {
  <<iota(99, 100, 1), tee, hd(-1), terminal>>,
  <<iota(2, -12, -7), grep(1), tl(1), terminal>> }

\* The theorem about their output is about command lines like these.
ASSUME StreamsArePlain == \A c \in Streams : Plain(c) /\ OneSource(c)
=============================================================================
