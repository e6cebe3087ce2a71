--------------------------- MODULE MCFencingReceiver ---------------------------
EXTENDS FencingReceiver, TLC
CONSTANTS d1, d2, d3, A, B, r1, r2

Symmetry == Permutations(Deliveries)

\* Two owners at two epochs and an owner at an epoch that is not its own; two
\* request ids, each of them used by both owners.
Claim(o, e, i) == [owner |-> o, epoch |-> e, id |-> i, payload |-> 0]
MCClaims == {Claim(A, 1, r1), Claim(A, 1, r2), Claim(B, 2, r1), Claim(B, 2, r2), Claim(B, 1, r1)}

Row(o, e, revoked) == [known |-> TRUE, epoch |-> e, owner |-> o, revoked |-> revoked]
MCAuthorities == {[known |-> FALSE, epoch |-> 0, owner |-> A, revoked |-> FALSE],
                  Row(A, 1, FALSE), Row(A, 1, TRUE), Row(B, 2, FALSE), Row(B, 2, TRUE)}
===============================================================================
