------------------------------ MODULE CohortWorkflow ------------------------------
(***************************************************************************)
(* CohortWorkflow (civicgate/rq6/workflow.py) over several BundleWorkflows:  *)
(* bundles are opened one at a time in the order of the frozen manifest and  *)
(* recorded when they are closed; the aggregate comes after the last, its    *)
(* review after it, and the choice of a judge after that.  A workflow does   *)
(* not know of the cohort: its operations may be called before it is opened. *)
(***************************************************************************)
EXTENDS BundleWorkflow

CONSTANTS Cohort,      \* how many bundles the cohort has (six in the code)
          NoBundle

ASSUME CohortAssumption == Cohort \in Nat \ {0} /\ Positions = 1..Cohort /\ NoBundle \notin Bundles

VARIABLES
  current,             \* _current
  closed,              \* _closed: the workflows whose closures are recorded, in order
  aggregate,           \* _aggregate: the closures it names
  reviewed,            \* _aggregate_review is fixed
  begun,               \* history: per workflow, how many were recorded when it began
  judging              \* history: a judge may be chosen

cohortVars == <<current, closed, aggregate, reviewed>>
workflowVars == <<bundle, cohortVars, begun, judging>>

Unbegun == Cohort + 1

CohortInit == /\ BundleInit
              /\ current = NoBundle /\ closed = << >>
              /\ aggregate = << >> /\ reviewed = FALSE
              /\ begun = [b \in Bundles |-> Unbegun]
              /\ judging = FALSE

\* An operation of a workflow, open or not.
Review(b) ==
    /\ Operation(b)
    /\ begun' = IF In(b, "FROZEN") THEN [begun EXCEPT ![b] = Len(closed)] ELSE begun
    /\ UNCHANGED <<cohortVars, judging>>

\* Any workflow that is not closed yet.
Reopenable(b) == bundle[b].state \notin TERMINAL_STATES
Openable(b) == In(b, "FROZEN")

\* The authority names the position of the bundle.
OpenBundle(b, position) ==
    /\ current = NoBundle
    /\ Len(closed) < Cohort
    /\ Openable(b)
    /\ position = Len(closed) + 1
    /\ current' = b
    /\ UNCHANGED <<bundle, closed, aggregate, reviewed, begun, judging>>

RecordTerminal(b) ==
    /\ b = current
    /\ bundle[b].state \in TERMINAL_STATES
    /\ bundle[b].closure.position = Len(closed) + 1
    /\ closed' = Append(closed, b)
    /\ current' = NoBundle
    /\ UNCHANGED <<bundle, aggregate, reviewed, begun, judging>>

ClosureOf(i) == bundle[closed[i]].closure
ClosedClosures == [i \in 1..Len(closed) |-> ClosureOf(i)]

\* require_aggregate_authority(), then the artifact, which names every closure.
RecordAggregateCompletion ==
    /\ Len(closed) = Cohort /\ current = NoBundle
    /\ aggregate = << >>
    /\ aggregate' = ClosedClosures
    /\ UNCHANGED <<bundle, current, closed, reviewed, begun, judging>>

RecordAggregateReview ==
    /\ aggregate # << >>
    /\ ~reviewed
    /\ reviewed' = TRUE
    /\ UNCHANGED <<bundle, current, closed, aggregate, begun, judging>>

RequireJudgeAuthority ==
    /\ aggregate # << >> /\ reviewed
    /\ judging' = TRUE
    /\ UNCHANGED <<bundle, cohortVars, begun>>

CohortNext == \/ \E b \in Bundles : \/ Review(b)
                                    \/ \E position \in Positions : OpenBundle(b, position)
                                    \/ RecordTerminal(b)
              \/ RecordAggregateCompletion
              \/ RecordAggregateReview
              \/ RequireJudgeAuthority

CohortSpec == CohortInit /\ [][CohortNext]_workflowVars
-------------------------------------------------------------------------------
CohortTypeOK == /\ bundle \in [Bundles -> Workflows]
                /\ current \in Bundles \cup {NoBundle}
                /\ closed \in Seq(Bundles) /\ Len(closed) <= Cohort
                /\ aggregate \in Seq(Closures)
                /\ reviewed \in BOOLEAN /\ judging \in BOOLEAN
                /\ begun \in [Bundles -> 0..Unbegun]

\* A bundle's mapping is known, by its reveal or by what a closure says.
Disclosed(w) == w.mapping \/ w.closure.mapping

\* Nothing is coded with the mapping in sight: whoever knows the mapping of a bundle, in
\* either way of closing it, finds every unit coded and closed before, and the
\* assessment and the closures repeat these codings and no others.  A bundle that is
\* closed short of evidence names all that was done, and no comparison or assessment
\* that was not.
CodedBlind == \A b \in Bundles : LET w == bundle[b] IN
    /\ Disclosed(w) => Len(w.receipts) = Units /\ w.closures = w.receipts
    /\ w.rationale # Unset => w.assessed = w.receipts
    /\ w.closure # NoClosure => w.closure.receipts = w.receipts /\ w.closure.closures = w.closures
    /\ w.state = INSUFFICIENT => /\ w.closure.mapping = w.mapping
                                 /\ w.closure.mechanical = w.mechanical
                                 /\ w.closure.rationale = w.rationale

\* What is fixed stays: no operation replaces or reorders a human receipt or a unit
\* closure, none is added once the mapping is revealed, and a bundle that is closed or
\* deferred never changes again (a deferred one holds up its cohort for good).
IsExtension(s, t) == Len(s) <= Len(t) /\ SubSeq(t, 1, Len(s)) = s
Final(w) == w.state \in TERMINAL_STATES \cup {DEFERRED}
HistoryIsFinal ==
    [][\A b \in Bundles : LET w == bundle[b] IN
         /\ IsExtension(w.receipts, bundle'[b].receipts)
         /\ IsExtension(w.closures, bundle'[b].closures)
         /\ Disclosed(w) => bundle'[b].receipts = w.receipts /\ bundle'[b].closures = w.closures
         /\ Final(w) => bundle'[b] = w]_workflowVars

\* The bundles that are recorded were worked on in the order of the manifest: none began
\* before the one before it was recorded, though every workflow can be used without the
\* cohort; and a judge may be chosen only when a reviewed aggregate names the closures
\* of the whole cohort as they still are.
CohortInOrder ==
    /\ CohortTypeOK
    /\ \A i \in 1..Len(closed) : /\ begun[closed[i]] = i - 1
                                 /\ ClosureOf(i).position = i
    /\ judging => /\ reviewed /\ Len(closed) = Cohort
                  /\ aggregate = ClosedClosures
===============================================================================
