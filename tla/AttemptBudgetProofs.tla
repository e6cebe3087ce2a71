--------------------------- MODULE AttemptBudgetProofs ---------------------------
(***************************************************************************)
(* Theorems about AttemptBudget, for any number of controllers,              *)
(* observations and roles and any limits.                                    *)
(***************************************************************************)
EXTENDS AttemptBudget, FiniteSetTheorems, TLAPS

WithinLimits ==
  /\ \A role \in Roles : IsFiniteSet(Rows(role)) /\ Cardinality(Rows(role)) <= Cap[role]
  /\ IsFiniteSet(observed) /\ Cardinality(observed) <= MaxObservations

\* An attempt is held by one controller at most, and what is cleared to be sent is
\* in flight, held, and not sent yet.
HeldOnce ==
  /\ \A c \in Controllers : \A k \in holds[c] : attempt[k] # "none"
  /\ \A c, d \in Controllers : c # d => holds[c] \cap holds[d] = {}
  /\ \A c \in Controllers : /\ cleared[c] \subseteq holds[c]
                            /\ \A k \in cleared[c] : attempt[k] = "IN_FLIGHT" /\ sent[k] = 0

\* Every state of an attempt says what was sent of it, and a retry that exists has a
\* first attempt whose result is known.
StatesTell ==
  \A k \in Keys :
    /\ attempt[k] # "none" => k.observation \in observed
    /\ attempt[k] # "none" /\ k.retry = 1 => attempt[First(k)] \in Known
    /\ sent[k] <= 1
    /\ sent[k] > 0 => attempt[k] \notin {"none", "RESERVED", "RESERVATION_NO_SEND"}
    /\ attempt[k] = "RESPONSE_OBSERVED" => sent[k] = 1
    /\ attempt[k] = "UNKNOWN" => stopped

\* No two fences are open at once.
OneFence == \A o, p \in Observations : fence[o] = "OPEN" /\ fence[p] = "OPEN" => o = p

IInv == TypeOK /\ WithinLimits /\ HeldOnce /\ StatesTell /\ OneFence
-------------------------------------------------------------------------------
\* The first attempt of an attempt is an attempt.
LEMMA FirstIsKey == \A k \in Keys : First(k) \in Keys /\ First(k).observation = k.observation
BY DEF Keys, First

\* An empty file is within all limits.
LEMMA InitIInv == Init => IInv
<1> SUFFICES ASSUME Init PROVE IInv
  OBVIOUS
<1>1. TypeOK
  BY DEF Init, TypeOK, States, McpStates
<1>2. WithinLimits
  <2>1. observed = {} /\ \A role \in Roles : Rows(role) = {}
    BY DEF Init, Rows
  <2>2. IsFiniteSet({}) /\ Cardinality({}) = 0
    BY FS_EmptySet
  <2> QED BY <2>1, <2>2, BudgetAssumption DEF WithinLimits
<1>3. HeldOnce /\ StatesTell /\ OneFence
  BY DEF Init, HeldOnce, StatesTell, OneFence
<1> QED BY <1>1, <1>2, <1>3 DEF IInv

\* An observation is admitted within the limit, once.
LEMMA ObserveWithinLimits ==
  ASSUME TypeOK, WithinLimits, NEW o \in Observations, CanObserve(o)
  PROVE  /\ IsFiniteSet(observed \cup {o})
         /\ Cardinality(observed \cup {o}) <= MaxObservations
<1>1. IsFiniteSet(observed) /\ Cardinality(observed) \in Nat
  BY FS_CardinalityType DEF WithinLimits
<1>2. /\ IsFiniteSet(observed \cup {o})
      /\ Cardinality(observed \cup {o}) = IF o \in observed THEN Cardinality(observed)
                                          ELSE Cardinality(observed) + 1
  BY <1>1, FS_AddElement
<1> QED BY <1>1, <1>2, BudgetAssumption DEF WithinLimits, CanObserve

\* Steps that touch no attempt, keep what is observed, and open no second fence.
LEMMA NoAttemptIInv ==
  ASSUME IInv, TypeOK', OneFence', UNCHANGED <<attempt, holds, cleared, sent>>,
         stopped => stopped', observed \subseteq observed',
         IsFiniteSet(observed'), Cardinality(observed') <= MaxObservations
  PROVE  IInv'
<1>1. WithinLimits'
  BY DEF IInv, WithinLimits, Rows
<1>2. HeldOnce' /\ StatesTell'
  BY DEF IInv, HeldOnce, StatesTell
<1> QED BY <1>1, <1>2 DEF IInv

\* Such steps that leave the observations alone too.
LEMMA NoObservationIInv ==
  ASSUME IInv, TypeOK', OneFence', UNCHANGED <<observed, attempt, holds, cleared, sent>>,
         stopped => stopped'
  PROVE  IInv'
BY NoAttemptIInv DEF IInv, WithinLimits

\* The run is stopped.
LEMMA HaltIInv == ASSUME IInv, HaltInstead PROVE IInv'
BY NoObservationIInv DEF IInv, HaltInstead, TypeOK, OneFence, memory

\* A fence is opened when none is.
LEMMA BeginIInv ==
  ASSUME IInv, NEW c \in Controllers, NEW o \in Observations, NEW acked \in BOOLEAN,
         Begin(c, o, acked)
  PROVE  IInv'
<1>1. CASE ~CanObserve(o)
  BY <1>1, HaltIInv DEF Begin
<1>2. CASE CanObserve(o)
  <2>1. /\ observed' = observed \cup {o} /\ fence' = [fence EXCEPT ![o] = "OPEN"]
        /\ active' = IF acked THEN [active EXCEPT ![c] = o] ELSE active
        /\ UNCHANGED <<stopped, attempt, mcp, given, holds, cleared, sent>>
    BY <1>2 DEF Begin
  <2>2. TypeOK'
    BY <2>1 DEF IInv, TypeOK
  <2>3. OneFence'
    BY <2>1 DEF IInv, TypeOK, OneFence, Begin, Admitted, FenceAccess
  <2>4. IsFiniteSet(observed') /\ Cardinality(observed') <= MaxObservations
    BY <1>2, <2>1, ObserveWithinLimits DEF IInv
  <2> QED BY <2>1, <2>2, <2>3, <2>4, NoAttemptIInv
<1> QED BY <1>1, <1>2

\* Controllers attach, join and let go of fences.
LEMMA FenceIInv ==
  ASSUME IInv, NEW c \in Controllers,
         \/ \E p \in Controllers : Spawn(p, c)
         \/ Join(c)
         \/ \E o \in Observations, acked \in BOOLEAN : CloseSafe(c, o, acked)
  PROVE  IInv'
<1>1. UNCHANGED <<stopped, observed, attempt, holds, cleared, sent>>
  BY DEF Spawn, Join, CloseSafe, tables
<1>2. TypeOK'
  BY DEF IInv, TypeOK, Spawn, Join, CloseSafe, tables
<1>3. OneFence'
  BY DEF IInv, TypeOK, OneFence, Spawn, Join, CloseSafe, tables
<1> QED BY <1>1, <1>2, <1>3, NoObservationIInv

\* The one MCP call of an observation.
LEMMA McpIInv ==
  ASSUME IInv, NEW o \in Observations,
         \/ \E c \in Controllers : ReserveMcp(c, o) \/ AdmitMcp(c, o)
         \/ \E outcome \in {"CLIENT_RESPONSE_OBSERVED", "CLIENT_RECEIPT_UNKNOWN"} : FinishMcp(o, outcome)
  PROVE  IInv'
<1>1. CASE HaltInstead
  BY <1>1, HaltIInv
<1>2. CASE ~HaltInstead
  <2>1. UNCHANGED <<fence, attempt, active, given, holds, cleared, sent>>
    BY <1>2 DEF ReserveMcp, AdmitMcp, FinishMcp, memory
  <2>2. /\ stopped => stopped'
        /\ stopped' \in BOOLEAN
        /\ mcp' \in [Observations -> McpStates]
        /\ observed' # observed => CanObserve(o) /\ observed' = observed \cup {o}
    <3>1. CASE \E c \in Controllers : ReserveMcp(c, o)
      BY <1>2, <3>1 DEF IInv, TypeOK, ReserveMcp, McpStates
    <3>2. CASE \E c \in Controllers : AdmitMcp(c, o)
      BY <3>2 DEF IInv, TypeOK, AdmitMcp, McpStates
    <3>3. ASSUME NEW outcome \in {"CLIENT_RESPONSE_OBSERVED", "CLIENT_RECEIPT_UNKNOWN"},
                 FinishMcp(o, outcome)
          PROVE  /\ stopped => stopped'
                 /\ stopped' \in BOOLEAN
                 /\ mcp' \in [Observations -> McpStates]
                 /\ observed' = observed
      BY <3>3 DEF IInv, TypeOK, FinishMcp, McpStates
    <3> QED BY <3>1, <3>2, <3>3
  <2>3. TypeOK'
    BY <2>1, <2>2 DEF IInv, TypeOK
  <2>4. OneFence'
    BY <2>1 DEF IInv, OneFence
  <2>5. IsFiniteSet(observed') /\ Cardinality(observed') <= MaxObservations
    BY <2>2, ObserveWithinLimits DEF IInv, WithinLimits
  <2> QED BY <2>1, <2>2, <2>3, <2>4, <2>5, NoAttemptIInv
<1> QED BY <1>1, <1>2

\* A process dies: its controller holds nothing any more.
LEMMA RestartIInv == ASSUME IInv, NEW c \in Controllers, Restart(c) PROVE IInv'
<1>1. /\ holds' = [holds EXCEPT ![c] = {}] /\ cleared' = [cleared EXCEPT ![c] = {}]
      /\ UNCHANGED <<stopped, observed, fence, attempt, mcp, sent>>
  BY DEF Restart, tables
<1>2. TypeOK'
  BY <1>1 DEF IInv, TypeOK, Restart
<1>3. WithinLimits' /\ StatesTell' /\ OneFence'
  BY <1>1 DEF IInv, WithinLimits, Rows, StatesTell, OneFence
<1>4. HeldOnce'
  BY <1>1 DEF IInv, TypeOK, HeldOnce
<1> QED BY <1>2, <1>3, <1>4 DEF IInv

\* An attempt is reserved once, within its cap, and held by who reserved it.
LEMMA ReserveIInv ==
  ASSUME IInv, NEW c \in Controllers, NEW k \in Keys, NEW acked \in BOOLEAN, Reserve(c, k, acked)
  PROVE  IInv'
<1> DEFINE admitted == Cardinality(Rows(k.role)) < Cap[k.role] /\ CanObserve(k.observation)
<1>1. CASE ~admitted
  BY <1>1, HaltIInv DEF Reserve
<1>2. CASE admitted
  <2>1. /\ attempt[k] = "none" /\ Retriable(k)
        /\ k.role \in Roles /\ k.observation \in Observations
        /\ observed' = observed \cup {k.observation}
        /\ attempt' = [attempt EXCEPT ![k] = "RESERVED"]
        /\ holds' = IF acked THEN [holds EXCEPT ![c] = @ \cup {k}] ELSE holds
        /\ UNCHANGED <<stopped, fence, mcp, active, given, cleared, sent>>
    BY <1>2 DEF Reserve, Keys
  <2>2. TypeOK'
    BY <2>1 DEF IInv, TypeOK, States, Pending
  <2>3. WithinLimits'
    <3>1. Rows(k.role)' = Rows(k.role) \cup {k} /\ k \notin Rows(k.role)
      BY <2>1 DEF IInv, TypeOK, Rows
    <3>2. \A role \in Roles \ {k.role} : Rows(role)' = Rows(role)
      BY <2>1 DEF IInv, TypeOK, Rows
    <3>3. IsFiniteSet(Rows(k.role)) /\ Cardinality(Rows(k.role)) \in Nat
      BY <2>1, FS_CardinalityType DEF IInv, WithinLimits
    <3>4. /\ IsFiniteSet(Rows(k.role) \cup {k})
          /\ Cardinality(Rows(k.role) \cup {k}) = Cardinality(Rows(k.role)) + 1
      BY <3>1, <3>3, FS_AddElement
    <3>5. Cap[k.role] \in Nat
      BY <2>1, BudgetAssumption
    <3>6. Cardinality(Rows(k.role) \cup {k}) <= Cap[k.role]
      BY <1>2, <3>3, <3>4, <3>5
    <3>7. \A role \in Roles : IsFiniteSet(Rows(role)') /\ Cardinality(Rows(role)') <= Cap[role]
      BY <3>1, <3>2, <3>4, <3>6 DEF IInv, WithinLimits
    <3>8. IsFiniteSet(observed') /\ Cardinality(observed') <= MaxObservations
      BY <1>2, <2>1, ObserveWithinLimits DEF IInv
    <3> QED BY <3>7, <3>8 DEF WithinLimits
  <2>4. HeldOnce'
    <3>1. \A d \in Controllers : k \notin holds[d] /\ k \notin cleared[d]
      BY <2>1 DEF IInv, HeldOnce
    <3> QED BY <2>1, <3>1 DEF IInv, TypeOK, HeldOnce
  <2>5. StatesTell'
    <3>1. \A j \in Keys : attempt[First(j)] \in Known => attempt'[First(j)] = attempt[First(j)]
      BY <2>1, FirstIsKey DEF IInv, TypeOK, Known
    <3> QED BY <2>1, <3>1 DEF IInv, TypeOK, StatesTell, Retriable
  <2>6. OneFence'
    BY <2>1 DEF IInv, OneFence
  <2> QED BY <2>2, <2>3, <2>4, <2>5, <2>6 DEF IInv
<1> QED BY <1>1, <1>2

\* Attempts that exist already change, so no limit is touched.
LEMMA SameRows ==
  ASSUME IInv, UNCHANGED observed, NEW k \in Keys, attempt[k] # "none",
         NEW s \in States \ {"none"}, attempt' = [attempt EXCEPT ![k] = s]
  PROVE  WithinLimits'
<1>1. \A role \in Roles : Rows(role)' = Rows(role)
  BY DEF IInv, TypeOK, Rows
<1> QED BY <1>1 DEF IInv, WithinLimits

\* A reserved attempt is put in flight, and its holder may send it.
LEMMA StartIInv ==
  ASSUME IInv, NEW c \in Controllers, NEW k \in Keys, NEW acked \in BOOLEAN, Start(c, k, acked)
  PROVE  IInv'
<1>1. /\ k \in holds[c] /\ attempt[k] = "RESERVED"
      /\ attempt' = [attempt EXCEPT ![k] = "IN_FLIGHT"]
      /\ cleared' = IF acked THEN [cleared EXCEPT ![c] = @ \cup {k}] ELSE cleared
      /\ UNCHANGED <<stopped, observed, fence, mcp, active, given, holds, sent>>
  BY DEF Start
<1>2. TypeOK'
  BY <1>1 DEF IInv, TypeOK, States, Pending
<1>3. WithinLimits'
  BY <1>1, SameRows DEF States, Pending
<1>4. HeldOnce'
  <2>1. sent[k] = 0
    BY <1>1 DEF IInv, TypeOK, StatesTell
  <2>2. \A d \in Controllers : k \notin cleared[d]
    BY <1>1 DEF IInv, HeldOnce
  <2> QED BY <1>1, <2>1, <2>2 DEF IInv, TypeOK, HeldOnce
<1>5. StatesTell'
  <2>1. \A j \in Keys : attempt[First(j)] \in Known => attempt'[First(j)] = attempt[First(j)]
    BY <1>1, FirstIsKey DEF IInv, TypeOK, Known
  <2> QED BY <1>1, <2>1 DEF IInv, TypeOK, StatesTell
<1>6. OneFence'
  BY <1>1 DEF IInv, OneFence
<1> QED BY <1>2, <1>3, <1>4, <1>5, <1>6 DEF IInv

\* What is sent was in flight and had not been sent.
LEMMA SendIInv == ASSUME IInv, NEW c \in Controllers, NEW k \in Keys, Send(c, k) PROVE IInv'
<1>1. /\ k \in cleared[c]
      /\ cleared' = [cleared EXCEPT ![c] = @ \ {k}]
      /\ sent' = [sent EXCEPT ![k] = @ + 1]
      /\ UNCHANGED <<stopped, observed, fence, attempt, mcp, active, given, holds>>
  BY DEF Send, tables
<1>2. attempt[k] = "IN_FLIGHT" /\ sent[k] = 0
  BY <1>1 DEF IInv, HeldOnce
<1>3. \A d \in Controllers \ {c} : k \notin cleared[d]
  BY <1>1 DEF IInv, HeldOnce
<1>4. TypeOK'
  BY <1>1 DEF IInv, TypeOK
<1>5. WithinLimits' /\ OneFence'
  BY <1>1 DEF IInv, WithinLimits, Rows, OneFence
<1>6. HeldOnce'
  BY <1>1, <1>3 DEF IInv, TypeOK, HeldOnce
<1>7. StatesTell'
  BY <1>1, <1>2 DEF IInv, TypeOK, StatesTell
<1> QED BY <1>4, <1>5, <1>6, <1>7 DEF IInv

\* An outcome is recorded by the one who holds the attempt.
LEMMA FinishIInv ==
  ASSUME IInv, NEW c \in Controllers, NEW k \in Keys, NEW outcome \in Finished,
         Finish(c, k, outcome)
  PROVE  IInv'
<1>1. /\ k \in holds[c] /\ Accepts(k, outcome)
      /\ outcome = "RESPONSE_OBSERVED" => sent[k] > 0 /\ k \notin cleared[c]
      /\ attempt' = [attempt EXCEPT ![k] = outcome]
      /\ stopped' = (stopped \/ outcome = "UNKNOWN")
      /\ cleared' = [cleared EXCEPT ![c] = @ \ {k}]
      /\ UNCHANGED <<observed, fence, mcp, active, given, holds, sent>>
  BY DEF Finish
<1>2. outcome \in States \ {"none"} /\ attempt[k] \in Pending
  BY <1>1 DEF States, Finished, Known, Accepts
<1>3. TypeOK'
  BY <1>1, <1>2 DEF IInv, TypeOK
<1>4. WithinLimits'
  BY <1>1, <1>2, SameRows DEF Pending
<1>5. HeldOnce'
  <2>1. \A d \in Controllers \ {c} : k \notin cleared[d]
    BY <1>1 DEF IInv, HeldOnce
  <2> QED BY <1>1, <1>2, <2>1 DEF IInv, TypeOK, HeldOnce
<1>6. StatesTell'
  <2>1. \A j \in Keys : attempt[First(j)] \in Known => attempt'[First(j)] = attempt[First(j)]
    BY <1>1, <1>2, FirstIsKey DEF IInv, TypeOK, Known, Pending
  <2>2. ASSUME NEW j \in Keys, j # k
        PROVE  /\ attempt'[j] = attempt[j] /\ sent'[j] = sent[j] /\ observed' = observed
               /\ stopped => stopped'
    BY <1>1, <2>2 DEF IInv, TypeOK
  <2>3. attempt'[k] = outcome /\ sent'[k] = sent[k]
    BY <1>1 DEF IInv, TypeOK
  <2>4. outcome = "RESERVATION_NO_SEND" => sent[k] = 0
    BY <1>1, <1>2 DEF IInv, TypeOK, StatesTell, Accepts
  <2>5. outcome = "RESPONSE_OBSERVED" => sent[k] = 1
    BY <1>1 DEF IInv, TypeOK, StatesTell
  <2>6. outcome = "UNKNOWN" => stopped'
    BY <1>1
  <2>7. outcome \notin {"none", "RESERVED"}
    BY DEF Finished, Known
  <2>8. attempt[k] # "none"
    BY <1>2 DEF Pending
  <2> QED BY <1>1, <2>1, <2>2, <2>3, <2>4, <2>5, <2>6, <2>7, <2>8 DEF IInv, TypeOK, StatesTell
<1>7. OneFence'
  BY <1>1 DEF IInv, OneFence
<1> QED BY <1>3, <1>4, <1>5, <1>6, <1>7 DEF IInv

\* A step that changes nothing keeps the invariant.
LEMMA StutterIInv == ASSUME IInv, UNCHANGED vars PROVE IInv'
BY DEF IInv, vars, tables, memory, TypeOK, WithinLimits, Rows, HeldOnce, StatesTell, OneFence

\* Every step keeps the invariant.
LEMMA NextIInv == IInv /\ [Next]_vars => IInv'
BY HaltIInv, BeginIInv, FenceIInv, McpIInv, RestartIInv, ReserveIInv, StartIInv, SendIInv,
   FinishIInv, StutterIInv DEF Next, Stop, EnsureRecoverable

\* The invariant holds for good.
LEMMA Invariance == Spec => []IInv
BY InitIInv, NextIInv, PTL DEF Spec
-------------------------------------------------------------------------------
\* What the file says of attempts, limits and outcomes is what happened.
THEOREM FileTellsTheTruth == Spec => []AccountedFor
<1>1. IInv => AccountedFor
  BY DEF IInv, AccountedFor, WithinLimits, StatesTell
<1> QED BY Invariance, <1>1, PTL

\* An open fence that no controller holds or was given is passed by nobody.
LEMMA OrphanExcludes ==
  ASSUME NEW p \in Observations, Orphaned(p), NEW c \in Controllers, NEW o
  PROVE  ~FenceAccess(c, o) /\ active[c] # p /\ given[c] # p
BY DEF Orphaned, FenceAccess

\* An open fence without a holder lets nothing begin, be sent or be admitted.
THEOREM OrphansBlock == Spec => OrphanedFenceBlocks
<1> DEFINE Blocked == /\ fence' = fence /\ sent' = sent
                      /\ \A k \in Keys : attempt'[k] \in Pending => attempt'[k] = attempt[k]
                      /\ \A o \in Observations : mcp'[o] \in {"RESERVED", "ADMITTED"} => mcp'[o] = mcp[o]
<1>1. ASSUME IInv, [Next]_vars, NEW p \in Observations, Orphaned(p) PROVE Blocked
  <2>1. CASE UNCHANGED <<fence, sent, attempt, mcp>>
    BY <2>1
  <2>2. ASSUME NEW c \in Controllers, NEW o \in Observations
        PROVE  /\ ~ReserveMcp(c, o) /\ ~AdmitMcp(c, o)
               /\ \A acked \in BOOLEAN : ~Begin(c, o, acked) /\ ~CloseSafe(c, o, acked)
    BY <1>1, OrphanExcludes DEF Begin, CloseSafe, ReserveMcp, AdmitMcp, Admitted
  <2>3. ASSUME NEW c \in Controllers, NEW k \in Keys
        PROVE  /\ ~Send(c, k)
               /\ \A acked \in BOOLEAN : ~Reserve(c, k, acked) /\ ~Start(c, k, acked)
    <3>1. k.observation \in Observations
      BY DEF Keys
    <3>2. ~Send(c, k)
      BY <1>1, <3>1, OrphanExcludes DEF IInv, OneFence, Send, Orphaned
    <3> QED BY <1>1, <3>2, OrphanExcludes DEF Reserve, Start, Admitted
  <2>4. ASSUME NEW c \in Controllers, NEW k \in Keys, NEW outcome \in Finished, Finish(c, k, outcome)
        PROVE  Blocked
    <3>1. attempt' = [attempt EXCEPT ![k] = outcome] /\ outcome \notin Pending
          /\ UNCHANGED <<fence, sent, mcp>>
      BY <2>4 DEF Finish, Finished, Known, Pending
    <3> QED BY <1>1, <3>1 DEF IInv, TypeOK
  <2>5. ASSUME NEW o \in Observations,
               NEW outcome \in {"CLIENT_RESPONSE_OBSERVED", "CLIENT_RECEIPT_UNKNOWN"},
               FinishMcp(o, outcome)
        PROVE  Blocked
    <3>1. mcp' = [mcp EXCEPT ![o] = outcome] /\ outcome \notin {"RESERVED", "ADMITTED"}
          /\ UNCHANGED <<fence, sent, attempt>>
      BY <2>5 DEF FinishMcp
    <3> QED BY <1>1, <3>1 DEF IInv, TypeOK
  <2>6. ASSUME NEW c \in Controllers,
               \/ Stop \/ EnsureRecoverable(c) \/ Join(c) \/ Restart(c)
               \/ \E d \in Controllers : Spawn(d, c)
        PROVE  UNCHANGED <<fence, sent, attempt, mcp>>
    BY <2>6 DEF Stop, EnsureRecoverable, HaltInstead, Join, Restart, Spawn, tables
  <2>7. CASE Stop \/ UNCHANGED vars
    BY <2>7, <2>1 DEF Stop, HaltInstead, vars, tables
  <2> QED BY <1>1, <2>1, <2>2, <2>3, <2>4, <2>5, <2>6, <2>7 DEF Next
<1>2. IInv /\ [Next]_vars => [(\E o \in Observations : Orphaned(o)) => Blocked]_vars
  BY <1>1
<1> QED BY Invariance, <1>2, PTL DEF Spec, OrphanedFenceBlocks
===============================================================================
