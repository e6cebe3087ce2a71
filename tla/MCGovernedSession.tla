-------------------------- MODULE MCGovernedSession --------------------------
(***************************************************************************)
(* Three calls: the third one is the first that two tripwire denials can    *)
(* contain.  Every configuration of the benchmarks' matrix, with the        *)
(* threshold at the lowest, middle and highest confidence level.            *)
(***************************************************************************)
EXTENDS GovernedSession

MCConfigurations == [requireJudge : BOOLEAN, enableAgentK : BOOLEAN, contract : BOOLEAN,
                     threshold : ConfidenceLevels]

MCRequestFacts == [tripwires : SUBSET Tripwires, knownTool : BOOLEAN, validText : BOOLEAN,
                   validArguments : BOOLEAN, riskHeld : BOOLEAN, literalHeld : BOOLEAN,
                   bounded : BOOLEAN, planningFailed : BOOLEAN]
===============================================================================
