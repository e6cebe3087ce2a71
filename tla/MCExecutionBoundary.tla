------------------------- MODULE MCExecutionBoundary -------------------------
(***************************************************************************)
(* A small instance of ExecutionBoundary.  An envelope issued at the first  *)
(* reading of the clock expires at the second, and the third lies beyond    *)
(* its life.  Two envelopes fill the dictionary; a third envelope, address  *)
(* and request id are there to exceed its capacity.                         *)
(***************************************************************************)
EXTENDS ExecutionBoundary, TLC

CONSTANTS e1, e2, e3, a1, a2, a3, r1, r2, r3

MCTimes == {0, 1, 2}

\* The first two envelopes, addresses and request ids, all invocations and all contexts
\* are interchangeable, and none of the properties checked is a liveness property.
Symmetry == UNION {Permutations(S) :
                S \in {{e1, e2}, {a1, a2}, {r1, r2}, Invocations, Contexts}}

\* The third ones are used for nothing but a third outstanding authorization.
SpareInUse == \/ e3 \in DOMAIN object
              \/ \E e \in DOMAIN object : object[e].address = a3 \/ object[e].content.request = r3
SpareExceeds == SpareInUse => Cardinality(DOMAIN issued) = 3
===============================================================================
