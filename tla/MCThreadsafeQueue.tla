------------------------- MODULE MCThreadsafeQueue -------------------------
(* Instances of ThreadsafeQueue for TLC: who calls what. *)
EXTENDS ThreadsafeQueue, TLC

CONSTANTS p1, p2, c1, c2   \* threads

\* A producer, a thread that also looks and pops without waiting, and two
\* consumers of the two kinds.
MCMayCall ==
    (p1 :> {"push"}) @@ (p2 :> {"push", "tryPop", "tryPopInto", "empty"})
      @@ (c1 :> {"waitPop"}) @@ (c2 :> {"waitPopInto", "tryPopInto"})
=============================================================================
