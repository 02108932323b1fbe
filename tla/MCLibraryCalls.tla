--------------------------- MODULE MCLibraryCalls ---------------------------
(* A small instance of LibraryCalls; see README.md for the bounds.         *)
EXTENDS LibraryCalls, TLC

CONSTANTS i1, i2, o1, o2
=============================================================================
