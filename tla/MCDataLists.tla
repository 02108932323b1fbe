---------------------------- MODULE MCDataLists ----------------------------
(* A small instance of DataLists; while no list is there, the function     *)
(* takes up one of the inputs of Elements or ArgumentPacks.  See README.md *)
(* for the bounds.                                                         *)
EXTENDS DataLists, ArgumentPacks

CONSTANTS s1, s2, l1, l2, i1

\* Types of the user's own: of one to three of LLU's types, of one such, and
\* of one such after one of LLU's.
MCTypes == <<<<Basic>>, <<Basic, Basic>>, <<Basic, Basic, Basic>>, <<2>>, <<Basic, 3>>>>

NoLists == content = [s \in Stores |-> <<>>] /\ lists = [l \in Lists |-> Nil]

MCInit == Init /\ input = Nothing
MCNext == \/ input = Nothing /\ Next /\ UNCHANGED input
          \/ NoLists /\ (Take \/ TakeArguments) /\ UNCHANGED vars
          \/ PutAway /\ UNCHANGED vars
MCSpec == MCInit /\ [][MCNext]_<<vars, input>>
=============================================================================
