---------------------------- MODULE MCWriteGateway ----------------------------
EXTENDS WriteGateway, TLC
CONSTANTS a1, a2, k1, k2, o1, o2, o3, g1, g2

Symmetry == Permutations(Operations) \cup Permutations(Owners)

\* One award under two keys, a key used for two awards, and a version that is
\* only expected once the award was reviewed.
Query(a, k, v) == [award |-> a, key |-> k, version |-> v]
MCQueries == {Query(a1, k1, 0), Query(a1, k2, 0), Query(a2, k1, 0), Query(a1, k2, 1)}
===============================================================================
