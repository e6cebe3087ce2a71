----------------------------- MODULE AttemptBudget -----------------------------
(***************************************************************************)
(* AttemptBudget of src/evals/harness/attempt_budget_v2.py: one SQLite file   *)
(* that counts the provider attempts and MCP calls of a run, and the          *)
(* controllers (objects of that class, in one process or several) that use   *)
(* it. Every method is one transaction. A method that raises without having  *)
(* committed changes nothing and is no step; one that commits and raises     *)
(* leaves its controller without what it would have returned (~acked).       *)
(* What callers do between the methods is the transport of                   *)
(* src/evals/harness/bounded_provider_v3.py.                                 *)
(***************************************************************************)
EXTENDS Naturals, FiniteSets

CONSTANTS Controllers, Observations, Roles,
          Cap,               \* role_caps
          MaxObservations,   \* max_observations
          NoObservation

ASSUME BudgetAssumption == /\ Cap \in [Roles -> Nat]
                           /\ MaxObservations \in Nat
                           /\ NoObservation \notin Observations
                           /\ IsFiniteSet(Observations) /\ IsFiniteSet(Roles)

\* UNIQUE(observation_id, role, retry_count) names an attempt.
Keys == [observation : Observations, role : Roles, retry : {0, 1}]

Pending == {"RESERVED", "IN_FLIGHT"}
Known == {"RESPONSE_OBSERVED", "RESERVATION_NO_SEND"}
Finished == Known \cup {"UNKNOWN"}      \* UNKNOWN stands for STOP_OUTCOMES
States == {"none"} \cup Pending \cup Finished
McpStates == {"none", "RESERVED", "ADMITTED", "CLIENT_RESPONSE_OBSERVED", "CLIENT_RECEIPT_UNKNOWN"}

VARIABLES
  stopped,    \* meta.stopped
  observed,   \* the observations table
  fence,      \* the fence of each observation: none, OPEN or CLOSED
  attempt,    \* the state of each attempt, with its outcome once it is TERMINAL
  mcp,        \* the state of the one MCP call of each observation
  active,     \* _active_observation of each controller
  given,      \* the fence each controller was handed when it was started as a child
  holds,      \* the reservations each controller's caller has
  cleared,    \* those whose start was acknowledged and that were not sent yet
  sent        \* how often each attempt has reached the provider (history)

tables == <<stopped, observed, fence, attempt, mcp>>
memory == <<active, given, holds, cleared>>
vars == <<tables, memory, sent>>

Init == /\ stopped = FALSE
        /\ observed = {}
        /\ fence = [o \in Observations |-> "none"]
        /\ attempt = [k \in Keys |-> "none"]
        /\ mcp = [o \in Observations |-> "none"]
        /\ active = [c \in Controllers |-> NoObservation]
        /\ given = [c \in Controllers |-> NoObservation]
        /\ holds = [c \in Controllers |-> {}]
        /\ cleared = [c \in Controllers |-> {}]
        /\ sent = [k \in Keys |-> 0]

Rows(role) == {k \in Keys : k.role = role /\ attempt[k] # "none"}
SomethingPending == \/ \E k \in Keys : attempt[k] \in Pending
                    \/ \E o \in Observations : mcp[o] \in {"RESERVED", "ADMITTED"}

FenceAccessOwn(c, o) == \A p \in Observations : fence[p] = "OPEN" => o = p

\* _assert_fence_access: an open fence admits only the controller that has it,
\* for its own observation.
FenceAccess(c, o) == \A p \in Observations : fence[p] = "OPEN" => active[c] = p /\ o = p

CanObserve(o) == o \in observed \/ Cardinality(observed) < MaxObservations

\* What every admission checks first.
Admitted(c, o) == ~stopped /\ FenceAccess(c, o)

\* A limit that is hit stops the run for good.
HaltInstead == /\ stopped' = TRUE
               /\ UNCHANGED <<observed, fence, attempt, mcp, memory, sent>>

Begin(c, o, acked) ==
  /\ active[c] = NoObservation
  /\ Admitted(c, o)
  /\ ~SomethingPending
  /\ fence[o] = "none"
  /\ IF CanObserve(o)
     THEN /\ observed' = observed \cup {o}
          /\ fence' = [fence EXCEPT ![o] = "OPEN"]
          /\ active' = IF acked THEN [active EXCEPT ![c] = o] ELSE active
          /\ UNCHANGED <<stopped, attempt, mcp, given, holds, cleared, sent>>
     ELSE HaltInstead

\* A child process is started with the fence of its parent in its configuration
\* (live_composition_v3.py), and joins it, perhaps after the parent has died.
Spawn(p, c) == /\ active[p] # NoObservation
               /\ active[c] = NoObservation /\ given[c] = NoObservation /\ holds[c] = {}
               /\ given' = [given EXCEPT ![c] = active[p]]
               /\ UNCHANGED <<tables, active, holds, cleared, sent>>

Join(c) ==
  /\ active[c] = NoObservation
  /\ given[c] # NoObservation /\ fence[given[c]] = "OPEN" /\ ~stopped
  /\ active' = [active EXCEPT ![c] = given[c]]
  /\ given' = [given EXCEPT ![c] = NoObservation]
  /\ UNCHANGED <<tables, holds, cleared, sent>>

CloseSafe(c, o, acked) ==
  /\ Admitted(c, o)
  /\ fence[o] = "OPEN" /\ active[c] = o
  /\ \A k \in Keys : attempt[k] \in Known \cup {"none"}
  /\ \A p \in Observations : mcp[p] \in {"CLIENT_RESPONSE_OBSERVED", "none"}
  /\ fence' = [fence EXCEPT ![o] = "CLOSED"]
  /\ active' = IF acked THEN [active EXCEPT ![c] = NoObservation] ELSE active
  /\ UNCHANGED <<stopped, observed, attempt, mcp, given, holds, cleared, sent>>

First(k) == [k EXCEPT !.retry = 0]
RetriableStarted(k) == k.retry = 1 => attempt[First(k)] \notin {"none", "RESERVED"}

\* A retry needs a first attempt whose result is known.
Retriable(k) == k.retry = 1 => attempt[First(k)] \in Known

Reserve(c, k, acked) ==
  /\ Admitted(c, k.observation)
  /\ attempt[k] = "none"
  /\ Retriable(k)
  /\ IF Cardinality(Rows(k.role)) < Cap[k.role] /\ CanObserve(k.observation)
     THEN /\ observed' = observed \cup {k.observation}
          /\ attempt' = [attempt EXCEPT ![k] = "RESERVED"]
          /\ holds' = IF acked THEN [holds EXCEPT ![c] = @ \cup {k}] ELSE holds
          /\ UNCHANGED <<stopped, fence, mcp, active, given, cleared, sent>>
     ELSE HaltInstead

Start(c, k, acked) ==
  /\ k \in holds[c]
  /\ Admitted(c, k.observation)
  /\ attempt[k] = "RESERVED"
  /\ attempt' = [attempt EXCEPT ![k] = "IN_FLIGHT"]
  /\ cleared' = IF acked THEN [cleared EXCEPT ![c] = @ \cup {k}] ELSE cleared
  /\ UNCHANGED <<stopped, observed, fence, mcp, active, given, holds, sent>>

\* The transport sends what was started, once, under the fence it still has.
Send(c, k) ==
  /\ k \in cleared[c]
  /\ ~stopped /\ active[c] = k.observation /\ fence[k.observation] = "OPEN"
  /\ cleared' = [cleared EXCEPT ![c] = @ \ {k}]
  /\ sent' = [sent EXCEPT ![k] = @ + 1]
  /\ UNCHANGED <<tables, active, given, holds>>

\* Whether an outcome may be recorded for an attempt in its present state.
AcceptsAny(k, outcome) == attempt[k] \in Pending
Accepts(k, outcome) == /\ attempt[k] \in Pending
                       /\ outcome = "RESERVATION_NO_SEND" => attempt[k] = "RESERVED"
                       /\ outcome = "RESPONSE_OBSERVED" => attempt[k] = "IN_FLIGHT"

\* The caller records an outcome and is through with the attempt; a response is
\* recorded only of a request it has sent. Neither STOP nor fence is checked.
Finish(c, k, outcome) ==
  /\ k \in holds[c]
  /\ Accepts(k, outcome)
  /\ outcome = "RESPONSE_OBSERVED" => sent[k] > 0 /\ k \notin cleared[c]
  /\ attempt' = [attempt EXCEPT ![k] = outcome]
  /\ stopped' = (stopped \/ outcome = "UNKNOWN")
  /\ cleared' = [cleared EXCEPT ![c] = @ \ {k}]
  /\ UNCHANGED <<observed, fence, mcp, active, given, holds, sent>>

Stop == ~stopped /\ HaltInstead

ReserveMcp(c, o) ==
  /\ Admitted(c, o)
  /\ mcp[o] = "none"
  /\ IF CanObserve(o)
     THEN /\ observed' = observed \cup {o}
          /\ mcp' = [mcp EXCEPT ![o] = "RESERVED"]
          /\ UNCHANGED <<stopped, fence, attempt, memory, sent>>
     ELSE HaltInstead

AdmitMcp(c, o) == /\ Admitted(c, o)
                  /\ mcp[o] = "RESERVED"
                  /\ mcp' = [mcp EXCEPT ![o] = "ADMITTED"]
                  /\ UNCHANGED <<stopped, observed, fence, attempt, memory, sent>>

FinishMcp(o, outcome) ==
  /\ mcp[o] \in {"RESERVED", "ADMITTED"}
  /\ mcp' = [mcp EXCEPT ![o] = outcome]
  /\ stopped' = (stopped \/ outcome = "CLIENT_RECEIPT_UNKNOWN")
  /\ UNCHANGED <<observed, fence, attempt, memory, sent>>

\* ensure_recoverable: whatever is pending at a restart stops the run.
EnsureRecoverable(c) == /\ FenceAccess(c, active[c])
                        /\ SomethingPending /\ ~stopped
                        /\ HaltInstead

\* A process dies with its controller; another one attaches to the file.
Restart(c) == /\ active' = [active EXCEPT ![c] = NoObservation]
              /\ given' = [given EXCEPT ![c] = NoObservation]
              /\ holds' = [holds EXCEPT ![c] = {}]
              /\ cleared' = [cleared EXCEPT ![c] = {}]
              /\ UNCHANGED <<tables, sent>>

Next == \/ Stop
        \/ \E c \in Controllers :
             \/ EnsureRecoverable(c) \/ Join(c) \/ Restart(c)
             \/ \E p \in Controllers : Spawn(p, c)
             \/ \E o \in Observations :
                  \/ ReserveMcp(c, o) \/ AdmitMcp(c, o)
                  \/ \E acked \in BOOLEAN : Begin(c, o, acked) \/ CloseSafe(c, o, acked)
             \/ \E k \in Keys :
                  \/ Send(c, k)
                  \/ \E acked \in BOOLEAN : Reserve(c, k, acked) \/ Start(c, k, acked)
                  \/ \E outcome \in Finished : Finish(c, k, outcome)
        \/ \E o \in Observations, outcome \in {"CLIENT_RESPONSE_OBSERVED", "CLIENT_RECEIPT_UNKNOWN"} :
             FinishMcp(o, outcome)

Spec == Init /\ [][Next]_vars
-------------------------------------------------------------------------------
TypeOK == /\ stopped \in BOOLEAN
          /\ observed \subseteq Observations
          /\ fence \in [Observations -> {"none", "OPEN", "CLOSED"}]
          /\ attempt \in [Keys -> States]
          /\ mcp \in [Observations -> McpStates]
          /\ active \in [Controllers -> Observations \cup {NoObservation}]
          /\ given \in [Controllers -> Observations \cup {NoObservation}]
          /\ holds \in [Controllers -> SUBSET Keys]
          /\ cleared \in [Controllers -> SUBSET Keys]
          /\ sent \in [Keys -> Nat]

\* What the file says of an attempt is what happened to it, whoever died or lost
\* an acknowledgement: nothing is sent without being counted, within the caps, or
\* twice; RESERVATION_NO_SEND was not sent, a response is of a request that was,
\* a retry was sent only when the result of the first attempt was known, and an
\* unknown result has stopped the run.
AccountedFor ==
  /\ TypeOK
  /\ \A role \in Roles : Cardinality(Rows(role)) <= Cap[role]
  /\ Cardinality(observed) <= MaxObservations
  /\ \A k \in Keys :
       /\ attempt[k] # "none" => k.observation \in observed
       /\ sent[k] <= 1
       /\ sent[k] > 0 => /\ attempt[k] \notin {"none", "RESERVED", "RESERVATION_NO_SEND"}
                         /\ k.retry = 1 => attempt[First(k)] \in Known
       /\ attempt[k] = "RESPONSE_OBSERVED" => sent[k] = 1
       /\ attempt[k] = "UNKNOWN" => stopped

\* An open fence that nobody holds any more, because its holders died or never
\* got its acknowledgement, stays open and lets nothing new begin, be sent or be
\* admitted: what it covers may have been sent, so nothing is sent again.
Orphaned(o) == fence[o] = "OPEN" /\ \A c \in Controllers : active[c] # o /\ given[c] # o
OrphanedFenceBlocks ==
  [][(\E o \in Observations : Orphaned(o)) =>
       /\ fence' = fence /\ sent' = sent
       /\ \A k \in Keys : attempt'[k] \in Pending => attempt'[k] = attempt[k]
       /\ \A o \in Observations : mcp'[o] \in {"RESERVED", "ADMITTED"} => mcp'[o] = mcp[o]]_vars
===============================================================================
