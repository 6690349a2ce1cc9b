------------------------- MODULE MCInMemoryCcrStore -------------------------
(* Instances of InMemoryCcrStore for TLC.                                   *)
EXTENDS InMemoryCcrStore, TLC

CONSTANTS k1, k2, k3, p, t1, t2

\* Each hash is a payload too, its own, so that k2 and k3 can be permuted;
\* payload p collides with k1.
OneCollision == p :> k1 @@ [k \in Keys |-> k]

Symmetric == Permutations(Threads) \cup Permutations({k2, k3})

=============================================================================
