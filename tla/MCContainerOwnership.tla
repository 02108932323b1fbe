----------------------- MODULE MCContainerOwnership -----------------------
(* Values of the constants with which TLC checks ContainerOwnership. *)
EXTENDS ContainerOwnership, TLC

CONSTANTS c1, c2, w1, w2, s1, a1, a2

MCContainers == {c1, c2}
MCWrappers == {w1, w2, s1}
MCStatic == {s1}
MCArgs == {a1, a2}

Symmetry == Permutations(MCContainers) \cup Permutations({w1, w2}) \cup Permutations(MCArgs)

=============================================================================
