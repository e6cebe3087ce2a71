---------------------------- MODULE MCAttemptBudget ----------------------------
EXTENDS AttemptBudget, TLC
CONSTANTS c1, c2, o1, o2, o3, planner

Symmetry == Permutations(Controllers) \cup Permutations(Observations)

\* Two attempts: a first one, and its retry or that of another observation. The two
\* controllers are a parent and its child, or a process and its successor.
MCCap == [r \in Roles |-> 2]
===============================================================================
