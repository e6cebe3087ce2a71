--------------------------- MODULE MCCohortWorkflow ---------------------------
EXTENDS CohortWorkflow, TLC

MCPositions == 1..2
Symmetry == Permutations(Bundles \ CustodyOnly) \cup Permutations(Codings)
===============================================================================
