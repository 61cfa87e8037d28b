------------------------------ MODULE MCWsystem ------------------------------
(* Command lines like those of shell.c's own tests, on a small heap. *)
EXTENDS Wsystem

Blocks == 1..12

iota(n, e, d) == [f |-> "iota", n |-> n, e |-> e, d |-> d]
grep(digit)   == [f |-> "grep", digit |-> digit]
hd(n)         == [f |-> "head", arg |-> n]
tl(n)         == [f |-> "tail", arg |-> n, plus |-> FALSE]
tlplus(n)     == [f |-> "tail", arg |-> n, plus |-> TRUE]
wc            == [f |-> "wc"]
cat           == [f |-> "cat"]
tee           == [f |-> "teeterminal"]
terminal      == [f |-> "terminal"]

\* Streams: lines are passed on, dropped or cut off, never counted.
Streams == {
  <<iota(1, 12, 1), terminal>>,
  <<iota(3, -12, -5), tee, terminal>>,
  <<iota(95, 105, 1), grep(0), terminal>>,
  <<iota(1, 30, 1), grep(2), hd(-4), terminal>>,
  <<iota(8, 12, 1), tee, hd(-3), terminal>>,
  <<iota(1, 9, 1), hd(3), terminal>>,
  <<iota(8, 12, 1), tl(2), terminal>>,
  <<iota(8, 12, 1), hd(-2), tl(3), terminal>>,
  <<iota(1, 14, 1), tlplus(10), tee, grep(3), terminal>>,
  <<tl(3), terminal>>, <<grep(7), terminal>>,
  <<cat, terminal>> }
Counts == {
  <<wc, terminal>>,
  <<iota(8, 11, 1), wc, terminal>>,
  <<iota(1, 30, 1), grep(2), wc, tee, grep(7), terminal>>,
  <<iota(9, 11, 1), hd(-2), wc, wc, terminal>> }
All == Streams \cup Counts

\* The theorem about their output is about command lines like these.
ASSUME AllArePlain == \A c \in All : Plain(c)

LastLines == { <<iota(8, 11, 1), tl(-2), terminal>> }
=============================================================================
