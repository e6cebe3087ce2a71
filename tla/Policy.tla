-------------------------------- MODULE Policy --------------------------------
(***************************************************************************)
(* The deterministic policy: tripwires (governance/authority.py), Agent K's *)
(* behavioural signals (governance/agent_k.py) and the sole authority       *)
(* issuer evaluate() (governance/policy.py).                                *)
(*                                                                          *)
(* A request is abstracted to what the policy reads of it: which tripwire   *)
(* patterns its text matches and whether each deterministic check passes.   *)
(* Reasons are sets: nothing depends on their order.                        *)
(***************************************************************************)
EXTENDS Naturals

\* denied_reasons(text): the classes of patterns a text can match.
Tripwires == {"DENIED_AUTHORITY", "PRIVATE_DATA", "BYPASS_REQUEST"}

Signals == {"AUTHORITY_OVERREACH", "OUT_OF_SCOPE_DATA", "TOOL_SCOPE_VIOLATION",
            "REPEATED_DENIAL", "AMBIGUOUS_TARGET", "CONTAINMENT_RECOMMENDED"}

Classifications == {"IN_SCOPE", "AMBIGUOUS", "INSUFFICIENT_INFORMATION"}
ConfidenceLevels == 0..2

\* JudgeSignal(): what every failure, timeout or skipped assessment yields.
NoSignal == [available |-> FALSE, classification |-> "INSUFFICIENT_INFORMATION",
             confidence |-> 0, flagged |-> FALSE]

JudgeSignals == [available : {TRUE}, classification : Classifications,
                 confidence : ConfidenceLevels, flagged : BOOLEAN] \cup {NoSignal}

\* PolicyFacts.  riskHeld and literalHeld say that assess_request_risk and
\* literal_proposal_reasons return a reason; reviewReason that one was passed in.
Facts == [tripwires : SUBSET Tripwires, contractValid : BOOLEAN, knownTool : BOOLEAN,
          capabilityAllowed : BOOLEAN, validInput : BOOLEAN, publicSource : BOOLEAN,
          contextConsistent : BOOLEAN, riskHeld : BOOLEAN, literalHeld : BOOLEAN,
          bounded : BOOLEAN, provenanceAvailable : BOOLEAN, adapterAvailable : BOOLEAN,
          reviewReason : BOOLEAN, semanticRequired : BOOLEAN]

-------------------------------------------------------------------------------
\* inspect(): Agent K reads the tripwires, the judge's classification, the number of
\* earlier tripwire denials and whether the tool is registered.
Contains(tripwires, denials, knownTool) ==
    denials >= 2 \/ tripwires # {} \/ ~knownTool

Raises(s, tripwires, judge, denials, knownTool) ==
    \/ s = "AUTHORITY_OVERREACH" /\ "DENIED_AUTHORITY" \in tripwires
    \/ s = "OUT_OF_SCOPE_DATA" /\ "PRIVATE_DATA" \in tripwires
    \/ s = "TOOL_SCOPE_VIOLATION" /\ (~knownTool \/ "BYPASS_REQUEST" \in tripwires)
    \/ s = "REPEATED_DENIAL" /\ denials >= 2
    \/ s = "AMBIGUOUS_TARGET" /\ judge.classification = "AMBIGUOUS"
    \/ s = "CONTAINMENT_RECOMMENDED" /\ Contains(tripwires, denials, knownTool)

\* mutant: the second denial does not contain the session yet
InspectLate(tripwires, judge, denials, knownTool) ==
    [signals |-> {s \in Signals : Raises(s, tripwires, judge, IF denials > 2 THEN 2 ELSE 0,
                                         knownTool)},
     containment |-> tripwires # {} \/ ~knownTool]

Inspect(tripwires, judge, denials, knownTool) ==
    [signals |-> {s \in Signals : Raises(s, tripwires, judge, denials, knownTool)},
     containment |-> Contains(tripwires, denials, knownTool)]

\* KSignal(): Agent K is disabled.
NoKSignal == [signals |-> {}, containment |-> FALSE]

-------------------------------------------------------------------------------
DenyReasons(f, k) ==
    f.tripwires \cup
    {r \in {"INVALID_CONTRACT_SCOPE", "UNKNOWN_TOOL", "CAPABILITY_NOT_ALLOWED",
            "INVALID_INPUT", "NONPUBLIC_SOURCE", "CONTAINMENT_REQUIRED",
            "SESSION_CONTAINMENT_ACTIVE"} :
        \/ r = "INVALID_CONTRACT_SCOPE" /\ ~f.contractValid
        \/ r = "UNKNOWN_TOOL" /\ ~f.knownTool
        \/ r = "CAPABILITY_NOT_ALLOWED" /\ ~f.capabilityAllowed
        \/ r = "INVALID_INPUT" /\ ~f.validInput
        \/ r = "NONPUBLIC_SOURCE" /\ ~f.publicSource
        \/ r = "CONTAINMENT_REQUIRED" /\ k.containment
        \/ r = "SESSION_CONTAINMENT_ACTIVE" /\ "REPEATED_DENIAL" \in k.signals}

\* The judge's answer is not a clean "in scope" at the required confidence.
SemanticDoubt(judge, threshold) ==
    \/ judge.classification # "IN_SCOPE"
    \/ judge.confidence < threshold
    \/ judge.flagged

\* mutant: the policy leaves the classification to Agent K
ReviewByConfidence(f, judge, k, threshold) ==
    {r \in {"REQUEST_RISK", "SEMANTIC_FAILURE", "SEMANTIC_REVIEW_REQUIRED",
            "AGENT_K_REVIEW_REQUIRED"} :
        \/ r = "REQUEST_RISK" /\ (f.riskHeld \/ f.literalHeld \/ ~f.bounded \/ f.reviewReason)
        \/ r = "SEMANTIC_FAILURE" /\ f.semanticRequired /\ ~judge.available
        \/ r = "SEMANTIC_REVIEW_REQUIRED" /\ f.semanticRequired /\ judge.available
                                          /\ (judge.confidence < threshold \/ judge.flagged)
        \/ r = "AGENT_K_REVIEW_REQUIRED" /\ k.signals # {}}

\* mutant: a reason found after execution is not a review reason
ReviewBeforeOnly(f, judge, k, threshold) ==
    {r \in {"REQUEST_RISK", "SEMANTIC_FAILURE", "AGENT_K_REVIEW_REQUIRED"} :
        \/ r = "REQUEST_RISK" /\ (f.riskHeld \/ f.literalHeld \/ ~f.bounded)
        \/ r = "SEMANTIC_FAILURE" /\ f.semanticRequired
              /\ (~judge.available \/ SemanticDoubt(judge, threshold))
        \/ r = "AGENT_K_REVIEW_REQUIRED" /\ k.signals # {}}

ReviewReasons(f, judge, k, threshold) ==
    {r \in {"REQUEST_CONTEXT_INCONSISTENT", "REQUEST_RISK", "NAME_LITERAL_PROPOSAL",
            "QUERY_TOO_BROAD", "PROVENANCE_UNAVAILABLE", "ADAPTER_UNAVAILABLE",
            "REVIEW_REASON", "SEMANTIC_FAILURE", "SEMANTIC_REVIEW_REQUIRED",
            "AGENT_K_REVIEW_REQUIRED"} :
        \/ r = "REQUEST_CONTEXT_INCONSISTENT" /\ ~f.contextConsistent
        \/ r = "REQUEST_RISK" /\ f.riskHeld
        \/ r = "NAME_LITERAL_PROPOSAL" /\ f.literalHeld
        \/ r = "QUERY_TOO_BROAD" /\ ~f.bounded
        \/ r = "PROVENANCE_UNAVAILABLE" /\ ~f.provenanceAvailable
        \/ r = "ADAPTER_UNAVAILABLE" /\ ~f.adapterAvailable
        \/ r = "REVIEW_REASON" /\ f.reviewReason
        \/ r = "SEMANTIC_FAILURE" /\ f.semanticRequired /\ ~judge.available
        \/ r = "SEMANTIC_REVIEW_REQUIRED" /\ f.semanticRequired /\ judge.available
                                          /\ SemanticDoubt(judge, threshold)
        \/ r = "AGENT_K_REVIEW_REQUIRED" /\ k.signals # {}}

Decisions == {"PERMIT", "DENY", "REVIEW_REQUIRED"}

\* mutant: a missing semantic assessment denies
EvaluateUnavailableDenies(f, judge, k, threshold) ==
    LET deny == DenyReasons(f, k) IN
    [decision |-> IF deny # {} \/ (f.semanticRequired /\ ~judge.available) THEN "DENY"
                  ELSE IF ReviewReasons(f, judge, k, threshold) # {}
                       THEN "REVIEW_REQUIRED" ELSE "PERMIT",
     reasons  |-> deny]

\* evaluate(): denials come first, so no later check can annul one.
Evaluate(f, judge, k, threshold) ==
    LET deny == DenyReasons(f, k)
        review == ReviewReasons(f, judge, k, threshold)
    IN  IF deny # {} THEN [decision |-> "DENY", reasons |-> deny]
        ELSE IF review # {} THEN [decision |-> "REVIEW_REQUIRED", reasons |-> review]
        ELSE [decision |-> "PERMIT", reasons |-> {"BOUNDED_PUBLIC_RESEARCH"}]
===============================================================================
