-------------------------- MODULE MCErrorReporting --------------------------
(* A small instance of ErrorReporting; see README.md for the bounds.       *)
EXTENDS ErrorReporting, TLC

CONSTANTS e1, e2, l1, l2, w

MCPacletErrors == {[name |-> "P", message |-> "m1"], [name |-> "P", message |-> "m2"],
                   [name |-> "Q", message |-> "m1"]}

ReportingSymmetry == Permutations(Objects) \cup Permutations(Loops)

\* Bounds: when exceptions come, of the paclet's errors only P is there,
\* under one of its messages.
FewErrors ==
    /\ thrown > 0 => DOMAIN paclet \subseteq {"P"}
    /\ thrown > 0 => \A n \in DOMAIN paclet : Message(n) = "m1"
=============================================================================
