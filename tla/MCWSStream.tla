----------------------------- MODULE MCWSStream -----------------------------
(* A small instance of WSStream; see README.md for the bounds.             *)
EXTENDS WSStream, TLC

CONSTANTS l1, l2, l3, l4, list, rule

LinkSymmetry == Permutations(Loopbacks)
=============================================================================
