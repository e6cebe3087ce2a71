---------------------------- MODULE GovernedSession ----------------------------
(***************************************************************************)
(* The decisions of one gateway session without a durable journal           *)
(* (civicgate/mcp/tools.py, Gateway._call up to the dispatch and from its   *)
(* result on): the preflight that may skip the judge, the judge's answer,   *)
(* the policy decision, the count of tripwire denials that contains the     *)
(* session, and the second evaluation of a result that needs review.        *)
(* Calls of one gateway are serialised by its lock.                         *)
(***************************************************************************)
EXTENDS Policy, FiniteSets

CONSTANTS Configurations,   \* [requireJudge, enableAgentK, contract : BOOLEAN, threshold]
          RequestFacts,     \* what a request and its proposal can be
          MaxCalls          \* bound: calls of the session

ASSUME SessionAssumption ==
    /\ Configurations \subseteq [requireJudge : BOOLEAN, enableAgentK : BOOLEAN,
                                 contract : BOOLEAN, threshold : Nat]
    /\ RequestFacts \subseteq [tripwires : SUBSET Tripwires, knownTool : BOOLEAN,
                               validText : BOOLEAN, validArguments : BOOLEAN,
                               riskHeld : BOOLEAN, literalHeld : BOOLEAN,
                               bounded : BOOLEAN, planningFailed : BOOLEAN]
    /\ MaxCalls \in Nat

VARIABLES config,   \* the gateway's configuration
          calls,    \* calls started, at most MaxCalls
          denials,  \* _denials
          phase,    \* where the current call is
          facts,    \* its facts
          judge,    \* the judge signal used, NoSignal until one arrives
          kSignal,  \* Agent K's signal
          skipped,  \* the preflight denied, so the judge was not asked
          decision  \* the policy decision of the call, "NONE" before

vars == <<config, calls, denials, phase, facts, judge, kSignal, skipped, decision>>

\* The arguments of the proposal were validated by the model of a registered tool.
Parsed(f) == f.knownTool /\ f.validArguments

\* PolicyFacts of a request; the gateway never clears the last four.  An invocation
\* contract takes nothing without validated arguments.
NewFacts(f) == [tripwires |-> f.tripwires, knownTool |-> f.knownTool,
                validInput |-> f.validText /\ (f.knownTool => f.validArguments),
                contractValid |-> config.contract => Parsed(f),
                bounded |-> Parsed(f) => f.bounded,
                riskHeld |-> f.riskHeld, literalHeld |-> f.literalHeld,
                reviewReason |-> f.planningFailed,
                semanticRequired |-> config.requireJudge,
                contextConsistent |-> TRUE, capabilityAllowed |-> TRUE,
                publicSource |-> TRUE, provenanceAvailable |-> TRUE,
                adapterAvailable |-> TRUE]

\* Agent K's signal under the configuration, for a judge signal j.
Observe(j) == IF config.enableAgentK
              THEN Inspect(facts.tripwires, j, denials, facts.knownTool)
              ELSE NoKSignal

\* No call: what a call knows is local to it.
NoCall == [f \in {} |-> {}]

Init == /\ config \in Configurations
        /\ calls = 0
        /\ denials = 0
        /\ phase = "idle"
        /\ facts = NoCall /\ judge = NoSignal /\ kSignal = NoKSignal
        /\ skipped = FALSE /\ decision = "NONE"

\* A call takes the lock and builds its facts from the request and the proposal.
Receive(f) == /\ phase = "idle"
              /\ calls < MaxCalls
              /\ calls' = calls + 1
              /\ facts' = NewFacts(f)
              /\ phase' = "received"
              /\ UNCHANGED <<config, denials, judge, kSignal, skipped, decision>>

PreflightDecision == Evaluate(facts, NoSignal, Observe(NoSignal), config.threshold).decision

\* The judge is not asked: the input is invalid, no judge is required, or signals that
\* do not depend on it deny already.
SkipJudge == /\ phase = "received"
             /\ ~facts.validInput \/ ~config.requireJudge \/ PreflightDecision = "DENY"
             /\ kSignal' = Observe(NoSignal)
             /\ skipped' = (config.requireJudge /\ PreflightDecision = "DENY")
             /\ phase' = "assessed"
             /\ UNCHANGED <<config, calls, denials, facts, judge, decision>>

\* The judge answers; NoSignal stands for a provider failure or the 30 s timeout.
Assess(j) == /\ phase = "received"
             /\ facts.validInput /\ config.requireJudge /\ PreflightDecision # "DENY"
             /\ judge' = j
             /\ kSignal' = Observe(j)
             /\ phase' = "assessed"
             /\ UNCHANGED <<config, calls, denials, facts, skipped, decision>>

Result == Evaluate(facts, judge, kSignal, config.threshold)

\* The policy decides; only tripwire denials count towards containment.
Decide == /\ phase = "assessed"
          /\ decision' = Result.decision
          /\ denials' = IF Result.decision = "DENY" /\ Result.reasons \cap Tripwires # {}
                        THEN denials + 1 ELSE denials
          /\ phase' = "decided"
          /\ UNCHANGED <<config, calls, facts, judge, kSignal, skipped>>

\* A result was obtained that needs review: the facts are evaluated again with the
\* reason, but with the judge and Agent K signals of before the dispatch.
ReviewResult == /\ phase = "decided"
                /\ decision = "PERMIT"
                /\ decision' = Evaluate([facts EXCEPT !.reviewReason = TRUE], judge,
                                        kSignal, config.threshold).decision
                /\ phase' = "reviewed"
                /\ UNCHANGED <<config, calls, denials, facts, judge, kSignal, skipped>>

\* The permitted invocation cannot be bound or is no longer what was bound
\* (ExecutionBoundaryError): no backend is invoked, and the refusal does not count.
RefuseExecution == /\ phase = "decided"
                   /\ decision = "PERMIT"
                   /\ decision' = "DENY"
                   /\ phase' = "refused"
                   /\ UNCHANGED <<config, calls, denials, facts, judge, kSignal, skipped>>

\* The call returns its envelope, or it raises (an audit record cannot be written, the
\* task is cancelled); both release the lock.
EndCall == /\ phase # "idle"
           /\ phase' = "idle"
           /\ facts' = NoCall /\ judge' = NoSignal /\ kSignal' = NoKSignal
           /\ skipped' = FALSE /\ decision' = "NONE"
           /\ UNCHANGED <<config, calls, denials>>

Next == \/ \E f \in RequestFacts : Receive(f)
        \/ SkipJudge
        \/ \E j \in JudgeSignals : Assess(j)
        \/ Decide
        \/ ReviewResult
        \/ RefuseExecution
        \/ EndCall

Spec == Init /\ [][Next]_vars

-------------------------------------------------------------------------------
TypeOK == /\ config \in Configurations
          /\ calls \in 0..MaxCalls
          /\ denials \in 0..calls
          /\ phase \in {"idle", "received", "assessed", "decided", "reviewed", "refused"}
          /\ phase # "idle" => facts \in Facts
          /\ judge \in JudgeSignals
          /\ kSignal.signals \subseteq Signals
          /\ skipped \in BOOLEAN
          /\ decision \in Decisions \cup {"NONE"}

\* Skipping the paid judge call on a preflight denial loses nothing: whatever the judge
\* had answered, the policy would have denied (the comment at the preflight in _call).
PreflightSound ==
    /\ TypeOK
    /\ phase = "assessed" /\ skipped =>
          \A j \in JudgeSignals :
              Evaluate(facts, j, Observe(j), config.threshold).decision = "DENY"

\* While the session is contained the judge is never consulted and nothing is
\* permitted, whatever the request and however it is planned.
ContainedSession ==
    phase = "assessed" /\ config.enableAgentK /\ denials >= 2 =>
        judge = NoSignal /\ Result.decision = "DENY"

\* Before the session is contained, Agent K never changes a decision: what it adds to
\* the reasons is always backed by a deterministic check or by the judge's own answer.
AgentKOnlyContains ==
    phase = "assessed" /\ denials < 2 =>
        Evaluate(facts, judge, NoKSignal, config.threshold).decision = Result.decision

\* A result that needs review is never returned as permitted, and never as denied
\* either: the second evaluation sees the signals of the first one.
ReviewedNotPermitted == phase = "reviewed" => decision = "REVIEW_REQUIRED"
===============================================================================
