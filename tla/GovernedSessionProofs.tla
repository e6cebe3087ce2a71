-------------------------- MODULE GovernedSessionProofs --------------------------
(***************************************************************************)
(* Theorems about Policy and GovernedSession, for a session of any length,   *)
(* any configurations and any requests.                                      *)
(***************************************************************************)
EXTENDS GovernedSession, TLAPS

\* A session step by step: what a call knows fits together.  The judge is heard only if
\* the policy will read it, Agent K has seen what the judge said, and a skipped
\* judge means that the preflight denies.
CallConsistent ==
  /\ judge # NoSignal => config.requireJudge
  /\ phase = "received" => judge = NoSignal /\ ~skipped
  /\ phase # "idle" => facts.semanticRequired = config.requireJudge
  /\ phase \in {"received", "assessed"} => denials < calls
  /\ phase = "assessed" => kSignal = Observe(judge)
  /\ phase = "assessed" /\ skipped => PreflightDecision = "DENY"
  /\ phase = "assessed" /\ judge # NoSignal => PreflightDecision # "DENY"
  /\ phase = "decided" => decision = Result.decision
  /\ phase = "idle" => judge = NoSignal /\ ~skipped

IInv == TypeOK /\ CallConsistent /\ ReviewedNotPermitted
-------------------------------------------------------------------------------
\* evaluate() in three lines: denials first, then reviews.
LEMMA Decision ==
  ASSUME NEW f, NEW j, NEW k, NEW t
  PROVE  /\ Evaluate(f, j, k, t).decision = "DENY" <=> DenyReasons(f, k) # {}
         /\ Evaluate(f, j, k, t).decision = "PERMIT" <=>
              DenyReasons(f, k) = {} /\ ReviewReasons(f, j, k, t) = {}
         /\ Evaluate(f, j, k, t).decision \in Decisions
<1> DEFINE deny == DenyReasons(f, k)
           review == ReviewReasons(f, j, k, t)
<1>1. CASE deny # {}
  BY <1>1 DEF Evaluate, Decisions
<1>2. CASE deny = {} /\ review # {}
  BY <1>2 DEF Evaluate, Decisions
<1>3. CASE deny = {} /\ review = {}
  BY <1>3 DEF Evaluate, Decisions
<1> QED BY <1>1, <1>2, <1>3

\* What denies.
LEMMA Denies ==
  ASSUME NEW f, NEW k
  PROVE  DenyReasons(f, k) # {} <=>
           \/ f.tripwires # {} \/ ~f.contractValid \/ ~f.knownTool \/ ~f.capabilityAllowed
           \/ ~f.validInput \/ ~f.publicSource \/ k.containment
           \/ "REPEATED_DENIAL" \in k.signals
BY DEF DenyReasons

\* What holds a call for review.
LEMMA Reviews ==
  ASSUME NEW f, NEW j, NEW k, NEW t
  PROVE  ReviewReasons(f, j, k, t) # {} <=>
           \/ ~f.contextConsistent \/ f.riskHeld \/ f.literalHeld \/ ~f.bounded
           \/ ~f.provenanceAvailable \/ ~f.adapterAvailable \/ f.reviewReason
           \/ f.semanticRequired /\ ~j.available
           \/ f.semanticRequired /\ j.available /\ SemanticDoubt(j, t)
           \/ k.signals # {}
BY DEF ReviewReasons

\* What Agent K reports.
LEMMA Inspected ==
  ASSUME NEW w, NEW j, NEW d, NEW known
  PROVE  LET k == Inspect(w, j, d, known) IN
         /\ k.containment <=> d >= 2 \/ w # {} \/ ~known
         /\ "REPEATED_DENIAL" \in k.signals <=> d >= 2
         /\ k.signals \subseteq Signals
         /\ w = {} /\ known /\ ~(d >= 2) /\ j.classification # "AMBIGUOUS" => k.signals = {}
<1> DEFINE k == Inspect(w, j, d, known)
<1>1. k.containment = Contains(w, d, known) /\ k.signals = {s \in Signals : Raises(s, w, j, d, known)}
  BY DEF Inspect
<1>2. k.containment <=> d >= 2 \/ w # {} \/ ~known
  BY <1>1 DEF Contains
<1>3. "REPEATED_DENIAL" \in k.signals <=> d >= 2
  BY <1>1 DEF Raises, Signals
<1>4. w = {} /\ known /\ ~(d >= 2) /\ j.classification # "AMBIGUOUS" => k.signals = {}
  BY <1>1 DEF Raises, Signals, Contains
<1> QED BY <1>1, <1>2, <1>3, <1>4

\* What denies does not depend on the judge.
LEMMA JudgeCannotAnnul ==
  ASSUME NEW j, NEW i
  PROVE  DenyReasons(facts, Observe(j)) # {} <=> DenyReasons(facts, Observe(i)) # {}
<1>1. /\ Observe(j).containment <=> Observe(i).containment
      /\ "REPEATED_DENIAL" \in Observe(j).signals <=> "REPEATED_DENIAL" \in Observe(i).signals
  BY Inspected DEF Observe
<1> QED BY <1>1, Denies

\* Agent K's signal, and the judge's, have their types.
LEMMA SignalTypes ==
  /\ NoSignal \in JudgeSignals
  /\ \A j \in JudgeSignals : Observe(j).signals \subseteq Signals
  /\ NoKSignal.signals \subseteq Signals
  /\ \A j \in JudgeSignals : j.classification = "AMBIGUOUS" => j # NoSignal /\ j.available
<1>1. NoSignal \in JudgeSignals
  BY DEF JudgeSignals
<1>2. NoKSignal.signals \subseteq Signals
  BY DEF NoKSignal
<1>3. \A j : Observe(j).signals \subseteq Signals
  BY <1>2, Inspected DEF Observe
<1>4. ASSUME NEW j \in JudgeSignals, j.classification = "AMBIGUOUS" PROVE j # NoSignal /\ j.available
  <2>1. j # NoSignal
    BY <1>4 DEF NoSignal
  <2> QED BY <2>1 DEF JudgeSignals
<1> QED BY <1>1, <1>2, <1>3, <1>4

\* The facts of a request are facts.
LEMMA FactTypes ==
  ASSUME config \in Configurations, NEW f \in RequestFacts
  PROVE  NewFacts(f) \in Facts /\ NewFacts(f).semanticRequired = config.requireJudge
BY SessionAssumption DEF NewFacts, Facts, Parsed

\* A session begins with nothing known of a call.
LEMMA InitIInv == Init => IInv
<1> SUFFICES ASSUME Init PROVE IInv
  OBVIOUS
<1>1. TypeOK
  <2>1. calls \in 0..MaxCalls /\ denials \in 0..calls
    BY SessionAssumption DEF Init
  <2> QED BY <2>1, SignalTypes DEF Init, TypeOK
<1>2. CallConsistent /\ ReviewedNotPermitted
  BY DEF Init, CallConsistent, ReviewedNotPermitted
<1> QED BY <1>1, <1>2 DEF IInv

\* A call arrives: its facts are its own, and the judge has not spoken.
LEMMA ReceiveIInv == ASSUME IInv, NEW f \in RequestFacts, Receive(f) PROVE IInv'
<1>1. /\ facts' = NewFacts(f) /\ phase' = "received" /\ calls' = calls + 1 /\ calls < MaxCalls
      /\ phase = "idle" /\ config \in Configurations /\ calls \in Nat /\ denials \in 0..calls
      /\ UNCHANGED <<config, denials, judge, kSignal, skipped, decision>>
  BY SessionAssumption DEF Receive, IInv, TypeOK
<1>2. TypeOK'
  BY <1>1, FactTypes, SessionAssumption DEF IInv, TypeOK
<1>3. CallConsistent'
  BY <1>1, FactTypes DEF IInv, CallConsistent
<1>4. ReviewedNotPermitted'
  BY <1>1 DEF ReviewedNotPermitted
<1> QED BY <1>2, <1>3, <1>4 DEF IInv

\* The judge is not asked.
LEMMA SkipJudgeIInv == ASSUME IInv, SkipJudge PROVE IInv'
<1>1. /\ phase = "received" /\ kSignal' = Observe(NoSignal) /\ phase' = "assessed"
      /\ skipped' = (config.requireJudge /\ PreflightDecision = "DENY")
      /\ UNCHANGED <<config, calls, denials, facts, judge, decision>>
      /\ judge = NoSignal
  BY DEF SkipJudge, IInv, CallConsistent
<1>2. PreflightDecision' = PreflightDecision /\ (Observe(judge))' = Observe(judge)
  BY <1>1 DEF PreflightDecision, Observe
<1>3. skipped' \in BOOLEAN
  <2>1. config.requireJudge \in BOOLEAN
    BY SessionAssumption DEF IInv, TypeOK
  <2> QED BY <1>1, <2>1
<1>4. TypeOK'
  BY <1>1, <1>3, SignalTypes DEF IInv, TypeOK
<1>5. CallConsistent'
  BY <1>1, <1>2 DEF IInv, CallConsistent
<1>6. ReviewedNotPermitted'
  BY <1>1 DEF ReviewedNotPermitted
<1> QED BY <1>4, <1>5, <1>6 DEF IInv

\* The judge is asked, only when the preflight does not deny.
LEMMA AssessIInv == ASSUME IInv, NEW j \in JudgeSignals, Assess(j) PROVE IInv'
<1>1. /\ phase = "received" /\ kSignal' = Observe(j) /\ phase' = "assessed" /\ judge' = j
      /\ config.requireJudge /\ PreflightDecision # "DENY" /\ ~skipped
      /\ UNCHANGED <<config, calls, denials, facts, skipped, decision>>
  BY DEF Assess, IInv, CallConsistent
<1>2. PreflightDecision' = PreflightDecision /\ (Observe(judge))' = Observe(j)
  BY <1>1 DEF PreflightDecision, Observe
<1>3. TypeOK'
  BY <1>1, SignalTypes DEF IInv, TypeOK
<1>4. CallConsistent'
  BY <1>1, <1>2 DEF IInv, CallConsistent
<1>5. ReviewedNotPermitted'
  BY <1>1 DEF ReviewedNotPermitted
<1> QED BY <1>3, <1>4, <1>5 DEF IInv

\* The policy decides, and counts at most one denial of the call.
LEMMA DecideIInv == ASSUME IInv, Decide PROVE IInv'
<1>1. /\ phase = "assessed" /\ phase' = "decided" /\ decision' = Result.decision
      /\ denials' \in {denials, denials + 1} /\ denials < calls /\ calls \in Nat
      /\ UNCHANGED <<config, calls, facts, judge, kSignal, skipped>>
  BY SessionAssumption DEF Decide, IInv, TypeOK, CallConsistent
<1>2. Result' = Result
  BY <1>1 DEF Result
<1>3. Result.decision \in Decisions
  BY Decision DEF Result
<1>4. TypeOK'
  BY <1>1, <1>3 DEF IInv, TypeOK
<1>5. CallConsistent'
  BY <1>1, <1>2 DEF IInv, CallConsistent
<1>6. ReviewedNotPermitted'
  BY <1>1 DEF ReviewedNotPermitted
<1> QED BY <1>4, <1>5, <1>6 DEF IInv

\* What was permitted and needs review is neither permitted nor denied.
LEMMA ReviewResultIInv == ASSUME IInv, ReviewResult PROVE IInv'
<1> DEFINE reviewed == [facts EXCEPT !.reviewReason = TRUE]
<1>1. /\ phase = "decided" /\ decision = "PERMIT" /\ phase' = "reviewed"
      /\ decision' = Evaluate(reviewed, judge, kSignal, config.threshold).decision
      /\ UNCHANGED <<config, calls, denials, facts, judge, kSignal, skipped>>
      /\ facts \in Facts
  BY DEF ReviewResult, IInv, TypeOK
<1>2. DenyReasons(facts, kSignal) = {}
  BY <1>1, Decision DEF IInv, CallConsistent, Result
<1>3. /\ reviewed.reviewReason /\ reviewed.tripwires = facts.tripwires
      /\ reviewed.contractValid = facts.contractValid /\ reviewed.knownTool = facts.knownTool
      /\ reviewed.capabilityAllowed = facts.capabilityAllowed
      /\ reviewed.validInput = facts.validInput /\ reviewed.publicSource = facts.publicSource
  BY <1>1 DEF Facts
<1> HIDE DEF reviewed
<1>4. DenyReasons(reviewed, kSignal) = {}
  <2>1. ~(\/ facts.tripwires # {} \/ ~facts.contractValid \/ ~facts.knownTool \/ ~facts.capabilityAllowed
          \/ ~facts.validInput \/ ~facts.publicSource \/ kSignal.containment
          \/ "REPEATED_DENIAL" \in kSignal.signals)
    BY <1>2, Denies
  <2> QED BY <1>3, <2>1, Denies
<1>5. ReviewReasons(reviewed, judge, kSignal, config.threshold) # {}
  BY <1>3, Reviews
<1>6. decision' = "REVIEW_REQUIRED"
  <2>1. decision' \in Decisions /\ decision' # "DENY" /\ decision' # "PERMIT"
    BY <1>1, <1>4, <1>5, Decision
  <2> QED BY <2>1 DEF Decisions
<1>7. TypeOK'
  BY <1>1, <1>6 DEF IInv, TypeOK, Decisions
<1>8. CallConsistent' /\ ReviewedNotPermitted'
  BY <1>1, <1>6 DEF IInv, CallConsistent, ReviewedNotPermitted
<1> QED BY <1>7, <1>8 DEF IInv

\* A refusal of the boundary, and the end of a call.
LEMMA RefuseIInv == ASSUME IInv, RefuseExecution PROVE IInv'
<1>1. TypeOK'
  BY DEF IInv, TypeOK, RefuseExecution, Decisions
<1>2. CallConsistent' /\ ReviewedNotPermitted'
  BY DEF IInv, CallConsistent, ReviewedNotPermitted, RefuseExecution
<1> QED BY <1>1, <1>2 DEF IInv

LEMMA EndCallIInv == ASSUME IInv, EndCall PROVE IInv'
<1>1. TypeOK'
  BY SignalTypes DEF IInv, TypeOK, EndCall
<1>2. CallConsistent' /\ ReviewedNotPermitted'
  BY DEF IInv, CallConsistent, ReviewedNotPermitted, EndCall
<1> QED BY <1>1, <1>2 DEF IInv

\* A step that changes nothing keeps the invariant.
LEMMA StutterIInv == ASSUME IInv, UNCHANGED vars PROVE IInv'
BY DEF IInv, vars, TypeOK, CallConsistent, ReviewedNotPermitted, Result, PreflightDecision, Observe

\* Every step keeps the invariant.
LEMMA NextIInv == IInv /\ [Next]_vars => IInv'
BY ReceiveIInv, SkipJudgeIInv, AssessIInv, DecideIInv, ReviewResultIInv, RefuseIInv, EndCallIInv,
   StutterIInv DEF Next

\* The invariant holds for good.
LEMMA Invariance == Spec => []IInv
BY InitIInv, NextIInv, PTL DEF Spec
-------------------------------------------------------------------------------
\* A judge that was skipped could not have changed the decision.
THEOREM PreflightIsSound == Spec => []PreflightSound
<1>1. IInv => PreflightSound
  <2> SUFFICES ASSUME IInv, phase = "assessed", skipped, NEW j \in JudgeSignals
               PROVE  Evaluate(facts, j, Observe(j), config.threshold).decision = "DENY"
    BY DEF IInv, PreflightSound
  <2>1. DenyReasons(facts, Observe(NoSignal)) # {}
    BY Decision DEF IInv, CallConsistent, PreflightDecision
  <2>2. DenyReasons(facts, Observe(j)) # {}
    BY <2>1, JudgeCannotAnnul
  <2> QED BY <2>2, Decision
<1> QED BY Invariance, <1>1, PTL

\* A contained session consults no judge and permits nothing.
THEOREM ContainmentHolds == Spec => []ContainedSession
<1>1. IInv => ContainedSession
  <2> SUFFICES ASSUME IInv, phase = "assessed", config.enableAgentK, denials >= 2
               PROVE  judge = NoSignal /\ Result.decision = "DENY"
    BY DEF ContainedSession
  <2>1. \A j : Observe(j).containment
    BY Inspected DEF Observe
  <2>2. \A j : DenyReasons(facts, Observe(j)) # {}
    BY <2>1, Denies
  <2>3. PreflightDecision = "DENY"
    BY <2>2, Decision DEF PreflightDecision
  <2>4. kSignal = Observe(judge)
    BY DEF IInv, CallConsistent
  <2> QED BY <2>2, <2>3, <2>4, Decision DEF IInv, CallConsistent, Result
<1> QED BY Invariance, <1>1, PTL

\* Until then Agent K changes no decision.
THEOREM AgentKAddsNothing == Spec => []AgentKOnlyContains
<1>1. IInv => AgentKOnlyContains
  <2> SUFFICES ASSUME IInv, phase = "assessed", denials < 2
               PROVE  Evaluate(facts, judge, NoKSignal, config.threshold).decision = Result.decision
    BY DEF AgentKOnlyContains
  <2> DEFINE t == config.threshold
             k == Observe(judge)
  <2>1. /\ kSignal = k /\ judge \in JudgeSignals /\ denials \in Nat /\ ~(denials >= 2)
        /\ judge # NoSignal => facts.semanticRequired
    BY SessionAssumption DEF IInv, TypeOK, CallConsistent
  <2>2. CASE ~config.enableAgentK
    BY <2>1, <2>2 DEF Result, Observe
  <2>3. CASE config.enableAgentK
    <3>1. k = Inspect(facts.tripwires, judge, denials, facts.knownTool)
      BY <2>3 DEF Observe
    <3>2. /\ k.containment <=> facts.tripwires # {} \/ ~facts.knownTool
          /\ "REPEATED_DENIAL" \notin k.signals
          /\ facts.tripwires = {} /\ facts.knownTool /\ judge.classification # "AMBIGUOUS" => k.signals = {}
      BY <2>1, <3>1, Inspected
    <3>3. ~NoKSignal.containment /\ NoKSignal.signals = {}
      BY DEF NoKSignal
    <3> HIDE DEF k
    <3>4. DenyReasons(facts, NoKSignal) # {} <=> DenyReasons(facts, k) # {}
      BY <3>2, <3>3, Denies
    <3>5. judge.classification = "AMBIGUOUS" => facts.semanticRequired /\ judge.available /\ SemanticDoubt(judge, t)
      BY <2>1, SignalTypes DEF SemanticDoubt
    <3>6. DenyReasons(facts, k) = {} =>
            (ReviewReasons(facts, judge, NoKSignal, t) # {} <=> ReviewReasons(facts, judge, k, t) # {})
      <4> SUFFICES ASSUME DenyReasons(facts, k) = {}
                   PROVE  ReviewReasons(facts, judge, NoKSignal, t) # {} <=> ReviewReasons(facts, judge, k, t) # {}
        OBVIOUS
      <4>1. facts.tripwires = {} /\ facts.knownTool
        BY Denies
      <4> QED BY <3>2, <3>3, <3>5, <4>1, Reviews
    <3>7. /\ Evaluate(facts, judge, NoKSignal, t).decision \in Decisions
          /\ Evaluate(facts, judge, k, t).decision \in Decisions
      BY Decision
    <3> HIDE DEF t
    <3>8. Evaluate(facts, judge, NoKSignal, t).decision = Evaluate(facts, judge, k, t).decision
      BY <3>4, <3>6, <3>7, Decision DEF Decisions
    <3> QED BY <2>1, <3>8 DEF Result, t, k
  <2> QED BY <2>2, <2>3
<1> QED BY Invariance, <1>1, PTL

\* A result that needs review is held for review.
THEOREM ReviewedIsHeld == Spec => []ReviewedNotPermitted
<1>1. IInv => ReviewedNotPermitted
  BY DEF IInv
<1> QED BY Invariance, <1>1, PTL
===============================================================================
