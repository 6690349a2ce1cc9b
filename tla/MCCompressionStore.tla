------------------------- MODULE MCCompressionStore -------------------------
(* Instances of CompressionStore for TLC.                                   *)
EXTENDS CompressionStore, TLC

CONSTANTS k1, k2, k3, k4, a, b, c, d, t1, t2

\* A hash without collisions: the contents are the keys themselves, so that
\* permuting the keys is a symmetry.
Identity == [k \in Keys |-> k]

\* The same for two contents that are not interchangeable.
TwoKeys == a :> k1 @@ b :> k2

\* Contents a and b collide on k1.
Colliding == a :> k1 @@ b :> k1 @@ c :> k2 @@ d :> k3

NoRows == {}

\* A checkpoint of content a, exported at time 0.
OneRow == {[content |-> a, created |-> 0, ttl |-> 1]}

Symmetric == Permutations(Threads)

FullySymmetric == Permutations(Threads) \cup Permutations(Keys)

=============================================================================
