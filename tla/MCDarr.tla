------------------------------- MODULE MCDarr --------------------------------
(* Two elements or two pointers to a block, chains of two: the array spills     *)
(* into a directory at index 4, the directory into one of its own at 20, and    *)
(* that one at 84.                                                              *)
EXTENDS Darr

\* Around every boundary: of a block, a chain, a group, a directory.
Boundaries == {0, 1, 2, 3, 4, 7, 8, 11, 12, 19, 20, 27, 28, 83, 84}
=============================================================================
