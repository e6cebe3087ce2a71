---------------------------- MODULE MCLocalGateway ----------------------------
EXTENDS LocalGateway, TLC

MCThresholds == {1, 2}
Symmetry == Permutations(Processes) \cup Permutations(Requests)
===============================================================================
