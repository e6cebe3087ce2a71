--------------------------------- MODULE Advisor ---------------------------------
(***************************************************************************)
(* AdvisorService (evidence_console/evidence_advisor_v1.py) and its provider *)
(* AnthropicAdvisor (anthropic_advisor_v1.py), over the evidence that the    *)
(* console's executor has published. As in Executor, one action is one        *)
(* section under the service's lock or what happens between two of them.      *)
(***************************************************************************)
EXTENDS Executor

CONSTANTS Requests,       \* idempotency keys of analyses
          MaxAnalyses,    \* max_jobs of the service
          MaxCalls        \* what the limits of the provider's configuration allow

ASSUME AdvisorAssumption == MaxAnalyses \in Nat \ {0} /\ MaxCalls \in Nat

VARIABLES
  analyses,    \* the registered analyses, by key
  analyst,     \* where the worker thread of each analysis is
  held,        \* _blocked
  closed,      \* _closed
  busy,        \* _active
  reserved,    \* _reserved_requests of the provider
  sends        \* the requests that may have reached the provider (history)

advisor == <<analyses, analyst, held, closed, busy, reserved, sends>>

\* report says that the report was written to disk as a candidate.
Analysis == [job : Keys, report : BOOLEAN, status : {"RUNNING", "COMPLETE", "FAILED"}]
AnalystPoints == {"none", "begun", "reserved", "sent", "validated", "raised", "leaving", "done"}

AdvisorInit == /\ analyses = << >>
               /\ analyst = [r \in Requests |-> "none"]
               /\ held = FALSE /\ closed = FALSE /\ busy = FALSE
               /\ reserved = 0 /\ sends = 0

Analyses == DOMAIN analyses
Analyst(r, point) == analyst[r] = point
Move(r, point) == analyst' = [analyst EXCEPT ![r] = point]
WithoutService == UNCHANGED <<analyses, held, closed, busy>>

\* evidence_entries() of the executor lists what is COMPLETE; other evidence is
\* rejected before anything is registered.
Published == {k \in Registered : jobs[k].status = "COMPLETE"}

\* submit(): the analysis is registered before its request is on record and stays
\* so whatever happens to that record or to the thread.
SubmitAnalysis(r, k, starts) ==
  /\ r \notin Analyses
  /\ ~closed /\ ~held /\ ~busy
  /\ Cardinality(Analyses) < MaxAnalyses
  /\ k \in Published
  /\ analyses' = [p \in Analyses \cup {r} |->
       IF p # r THEN analyses[p]
       ELSE [job |-> k, report |-> FALSE,
             status |-> IF starts THEN "RUNNING" ELSE "FAILED"]]
  /\ held' = ~starts /\ busy' = starts
  /\ Move(r, IF starts THEN "begun" ELSE "done")
  /\ UNCHANGED <<closed, reserved, sends>>

LimitReachedLate == reserved > MaxCalls
LimitReached == reserved >= MaxCalls

\* analyze(): the request is reserved before it is sent, and never given back.
ReserveCall(r) == /\ Analyst(r, "begun")
                  /\ WithoutService /\ UNCHANGED sends
                  /\ IF LimitReached THEN Move(r, "raised") /\ UNCHANGED reserved
                     ELSE Move(r, "reserved") /\ reserved' = reserved + 1

SendCall(r) == /\ Analyst(r, "reserved")
               /\ sends' = sends + 1
               /\ Move(r, "sent")
               /\ WithoutService /\ UNCHANGED reserved

\* An answer that parses and whose citations resolve.
Answer(r) == /\ Analyst(r, "sent")
             /\ Move(r, "validated")
             /\ WithoutService /\ UNCHANGED <<reserved, sends>>

\* The provider, the deadline, the report, the evidence or a file is not as required.
RaiseAnalysis(r) == /\ analyst[r] \in {"begun", "reserved", "sent", "validated"}
                    /\ Move(r, "raised")
                    /\ WithoutService /\ UNCHANGED <<reserved, sends>>

\* The evidence is read again; the candidate is on record before the analysis is
\* COMPLETE, and the deadline is checked again between the two.
Conclude(r, write, passed) ==
  /\ Analyst(r, "validated") /\ ~closed
  /\ LET completes == write = "ok" /\ ~passed IN
     /\ analyses' = [analyses EXCEPT ![r].report = (write # "lost"),
                                     ![r].status = IF completes THEN "COMPLETE" ELSE @]
     /\ Move(r, IF completes THEN "leaving" ELSE "raised")
  /\ UNCHANGED <<held, closed, busy, reserved, sends>>

\* The handler of every exception.
FailAnalysis(r) == /\ Analyst(r, "raised")
                   /\ held' = TRUE
                   /\ analyses' = [analyses EXCEPT ![r].status = "FAILED"]
                   /\ Move(r, "leaving")
                   /\ UNCHANGED <<closed, busy, reserved, sends>>

LeaveAnalysis(r) == /\ Analyst(r, "leaving")
                    /\ busy' = FALSE
                    /\ Move(r, "done")
                    /\ UNCHANGED <<analyses, held, closed, reserved, sends>>

\* shutdown() of the service; the executor's comes before it.
Close == /\ shutdown.at = "ended" /\ ~closed
         /\ closed' = TRUE
         /\ held' = (held \/ busy)
         /\ UNCHANGED <<analyses, analyst, busy, reserved, sends>>

AnalystSection(r) == \/ ReserveCall(r) \/ SendCall(r) \/ Answer(r) \/ RaiseAnalysis(r)
                     \/ FailAnalysis(r) \/ LeaveAnalysis(r)
                     \/ \E write \in Writes, passed \in BOOLEAN : Conclude(r, write, passed)

AdvisorNext == \/ Close
               \/ \E r \in Requests : \/ AnalystSection(r)
                                      \/ \E k \in Keys, starts \in BOOLEAN : SubmitAnalysis(r, k, starts)

\* The application: the two services and the threads of both.
Init == ExecutorInit /\ AdvisorInit
Next == \/ ExecutorNext /\ UNCHANGED advisor
        \/ AdvisorNext /\ UNCHANGED executor
vars == <<executor, advisor>>

\* The worker threads of both services run.
Fairness == ExecutorFairness /\ \A r \in Requests : WF_advisor(AnalystSection(r))

Spec == Init /\ [][Next]_vars /\ Fairness
-------------------------------------------------------------------------------
AdvisorTypeOK == /\ Analyses \subseteq Requests /\ \A r \in Analyses : analyses[r] \in Analysis
                 /\ analyst \in [Requests -> AnalystPoints]
                 /\ held \in BOOLEAN /\ closed \in BOOLEAN /\ busy \in BOOLEAN
                 /\ reserved \in Nat /\ sends \in Nat

\* The provider is never sent more than was reserved, nor that more than its limit;
\* an analysis is COMPLETE only of evidence that its job published, that job stays
\* COMPLETE, with its candidate on disk; and a failed analysis holds the service.
AdviceAccountedFor ==
  /\ AdvisorTypeOK
  /\ sends <= reserved /\ reserved <= MaxCalls
  /\ Cardinality(Analyses) <= MaxAnalyses
  /\ Cardinality({r \in Requests : analyst[r] \notin {"none", "done"}}) <= 1
  /\ \A r \in Analyses :
       /\ jobs[analyses[r].job].status = "COMPLETE"
       /\ analyses[r].status = "COMPLETE" => analyses[r].report /\ sends > 0
       /\ analyses[r].status = "FAILED" => held
       /\ ~busy => analyses[r].status # "RUNNING"

\* Every job and every analysis that is registered ends, and leaves its service idle.
EverythingEnds ==
  /\ EveryJobEnds
  /\ \A r \in Requests :
       r \in Analyses ~> r \in Analyses /\ analyses[r].status # "RUNNING" /\ ~busy
===============================================================================
