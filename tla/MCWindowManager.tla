--------------------------- MODULE MCWindowManager ---------------------------
EXTENDS WindowManager, TLC

CONSTANT k    \* no property tells two keys apart: one is enough
MCKey == {k}

\* A program that polls the keyboard in its turn.
Reader == {"vi"}
=============================================================================
