------------------------------- MODULE MCIndex -------------------------------
EXTENDS Index
a == 97   b == 98   c == 99   d == 100   A == 65   sp == 32   e == 195
\* Texts and queries that share words, case apart; a byte of another script;
\* words longer than CharMod; and a text that fills the folded set.
MCTexts == UNION {[1..n -> {a, b, sp}] : n \in 0..5}
           \cup {<<a, b, a, b, e, a, sp, b, b>>, <<a, a, a, a, a, sp, b, a, b, a>>,
                 <<a, b, c, sp, d, c, b, sp, b, d, a, sp, c, d>>}
MCQueries == {<<A, b>>, <<a, b, a>>, <<b, b, sp, a>>, <<a, sp, b, sp, A>>,
              <<a, a, a, a, a, sp, b, a, b, a>>, <<a, b, a, b, sp, a, sp, b, b>>, <<d, c, b, sp, b, d, a>>}
=============================================================================
