------------------------------ MODULE MCDarena -------------------------------
(* Four entries of two elements: eight indexes before the table is full. *)
EXTENDS Darena
=============================================================================
