------------------------------ MODULE LocalGateway ------------------------------
(***************************************************************************)
(* A gateway with a local durable journal, over the life of several server  *)
(* processes (civicgate/mcp/tools.py Gateway.call and _call; the journal of *)
(* LocalJournal; the policy of Policy).                                     *)
(*                                                                          *)
(* Calls wait for the gateway's asyncio lock, then run one at a time.  The  *)
(* event loop gives way only where a call awaits: at the lock, the judge    *)
(* and the adapter.  A process may die between any two steps, every durable *)
(* write may fail, and every trace record, await or disk delay may end a    *)
(* call with an exception, let credentials run out, or both.                *)
(***************************************************************************)
EXTENDS LocalJournal

P == INSTANCE Policy

CONSTANTS MaxTime,      \* bound: the clock stops there
          MaxAge,       \* max_age_seconds of an authority envelope
          Thresholds    \* the confidence thresholds the host may configure

ASSUME ClockAssumption == MaxTime \in Nat /\ MaxAge \in Nat \ {0} /\ Thresholds # {}

Times == 0..MaxTime

VARIABLES now,
          gateway,      \* per process: _denials, threshold and the lock's holder
          call,         \* per request: where its call is and what it has snapshot
          dispatched,   \* history: the requests the adapter was entered for
          confirmed     \* history: those it confirmed, request and response

journalVars == <<log, owner, journal>>
vars == <<log, owner, journal, now, gateway, call, dispatched, confirmed>>
history == <<dispatched, confirmed>>

\* What a call asks for: text that is a bounded public read, or that trips a wire.
Topics == {"research", "tripwire"}

\* The points between the steps of a call.
Points == {"idle", "waiting", "begun", "judging", "assessed", "permitted", "intended",
           "executing", "settled", "finished", "failing", "ended", "lost"}

\* A context is the part of the policy context that can change in a process.
PolicyContexts == [threshold : Thresholds, denials : Nat]

Calls == [at : Points, process : Processes \cup {NoProcess}, topic : Topics,
          credential : 0..MaxTime + 1,    \* when the caller's credential expires
          context : PolicyContexts,       \* snapshot of _policy_context()
          decision : P!Decisions \cup {"NONE"},
          bound : BOOLEAN,                \* an envelope was issued
          expires : Nat,                  \* when that envelope expires
          unknown : BOOLEAN]              \* executed, and the outcome is not confirmed

Gateways == [denials : Nat, threshold : Thresholds, lock : Requests \cup {NoRequest}]

AnyThreshold == CHOOSE t \in Thresholds : TRUE
NoContext == [threshold |-> AnyThreshold, denials |-> 0]

\* A call at a point where nothing it knows matters any more, or yet.
Blank(point) == [at |-> point, process |-> NoProcess, topic |-> "research",
                 credential |-> 0, context |-> NoContext, decision |-> "NONE",
                 bound |-> FALSE, expires |-> 0, unknown |-> FALSE]

Init == /\ JournalInit
        /\ now = 0
        /\ gateway = [p \in Processes |-> [denials |-> 0, threshold |-> AnyThreshold,
                                           lock |-> NoRequest]]
        /\ call = [r \in Requests |-> Blank("idle")]
        /\ dispatched = {}
        /\ confirmed = {}

-------------------------------------------------------------------------------
\* The live policy context of process p.
LiveContext(p) == [threshold |-> gateway[p].threshold, denials |-> gateway[p].denials]

\* The policy on a call's facts: research is bounded and public, only the topic, the
\* judge and the denials in the call's snapshot decide.
FactsOf(topic) ==
    [tripwires |-> IF topic = "tripwire" THEN {"BYPASS_REQUEST"} ELSE {},
     contractValid |-> TRUE, knownTool |-> TRUE, capabilityAllowed |-> TRUE,
     validInput |-> TRUE, publicSource |-> TRUE, contextConsistent |-> TRUE,
     riskHeld |-> FALSE, literalHeld |-> FALSE, bounded |-> TRUE,
     provenanceAvailable |-> TRUE, adapterAvailable |-> TRUE,
     reviewReason |-> FALSE, semanticRequired |-> TRUE]

Decide(c, judge) ==
    P!Evaluate(FactsOf(c.topic), judge,
               P!Inspect(FactsOf(c.topic).tripwires, judge, c.context.denials, TRUE),
               c.context.threshold).decision

\* A judge that is sure, one that is in between, and one that does not answer.
JudgeAnswers == {P!NoSignal} \cup
    {[available |-> TRUE, classification |-> "IN_SCOPE", confidence |-> c,
      flagged |-> FALSE] : c \in {1, 2}}

Step(r, c) == call' = [call EXCEPT ![r] = c]
At(r, p, point) == call[r].at = point /\ call[r].process = p
Moved(r, point) == [call[r] EXCEPT !.at = point]
\* A call from whose snapshot nothing is read any more.
Past(r, point) == [Blank(point) EXCEPT !.process = call[r].process]
\* Where an append leaves a call: as c, or on its way to failed().
After(r, o, c) == IF o = "ok" THEN c ELSE Past(r, "failing")

Unlocked(p) == gateway' = [gateway EXCEPT ![p].lock = NoRequest]

\* _context(): the caller's credential has not expired.
Credentialed(r) == now < call[r].credential

-------------------------------------------------------------------------------
\* A client's call reaches the gateway of a process in service and waits for the lock.
Arrive(r, p, topic, expiry) ==
    /\ call[r].at = "idle"
    /\ journal[p].state = "open"
    /\ Step(r, [Blank("waiting") EXCEPT !.process = p, !.topic = topic,
                                        !.credential = expiry])
    /\ UNCHANGED <<journalVars, now, gateway, history>>

\* admit() refuses: the exception leaves call() without going through failed().
Refuse(r, p) ==
    /\ At(r, p, "waiting")
    /\ gateway[p].lock = NoRequest
    /\ ~Admits(p) \/ ~Credentialed(r)
    /\ Step(r, Blank("ended"))
    /\ UNCHANGED <<journalVars, now, gateway, history>>

\* mutant: a restarted gateway counts denials from zero
BeginFromZero(r, p, o) ==
    /\ At(r, p, "waiting")
    /\ gateway[p].lock = NoRequest
    /\ Admits(p) /\ Credentialed(r)
    /\ gateway' = [gateway EXCEPT ![p].lock = r]
    /\ JournalBegin(p, r, o)
    /\ Step(r, After(r, o, [Moved(r, "begun") EXCEPT !.context = LiveContext(p)]))
    /\ UNCHANGED <<now, history>>

\* admit() sets _denials to the journal's count, the policy context is snapshot and the
\* begin row is written.
Begin(r, p, o) ==
    /\ At(r, p, "waiting")
    /\ gateway[p].lock = NoRequest
    /\ Admits(p) /\ Credentialed(r)
    /\ gateway' = [gateway EXCEPT ![p].lock = r, ![p].denials = journal[p].denials]
    /\ JournalBegin(p, r, o)
    /\ Step(r, After(r, o, [Moved(r, "begun") EXCEPT
                                !.context = [threshold |-> gateway[p].threshold,
                                             denials |-> journal[p].denials]]))
    /\ UNCHANGED <<now, history>>

\* The proposal is traced and the preflight asks the policy with no judge signal: a
\* denial skips the judge.
Preflight(r, p) ==
    /\ At(r, p, "begun")
    /\ Step(r, IF Decide(call[r], P!NoSignal) = "DENY"
               THEN [Moved(r, "assessed") EXCEPT !.decision = "DENY"]
               ELSE Moved(r, "judging"))
    /\ UNCHANGED <<journalVars, now, gateway, history>>

\* The judge answers and the boundary evaluates the policy; a permit gets an envelope
\* unless its issuance fails (capacity, registry drift, clock).
Answer(r, p, judge, issued) ==
    /\ At(r, p, "judging")
    /\ LET d == Decide(call[r], judge) IN
       /\ issued => d = "PERMIT"
       /\ Step(r, [Moved(r, "assessed") EXCEPT !.decision = d, !.bound = issued,
                      !.expires = IF issued THEN now + MaxAge ELSE 0])
    /\ UNCHANGED <<journalVars, now, gateway, history>>

\* The policy row; then a tripwire denial counts.  Only a bound permit goes on to
\* execute, everything else is settled without a dispatch.
RecordPolicy(r, p, o) ==
    LET c == call[r]
        trips == c.decision = "DENY" /\ c.topic = "tripwire"
    IN  /\ At(r, p, "assessed")
        /\ JournalPolicy(p, r, c.decision, trips, o)
        /\ Step(r, After(r, o, IF c.bound THEN Moved(r, "permitted") ELSE Past(r, "settled")))
        /\ gateway' = IF o = "ok" /\ trips
                      THEN [gateway EXCEPT ![p].denials = @ + 1] ELSE gateway
        /\ UNCHANGED <<now, history>>

\* The execution is traced and the intent row written, under a valid credential.
RecordIntent(r, p, o) ==
    /\ At(r, p, "permitted")
    /\ Credentialed(r)
    /\ JournalIntent(p, r, o)
    /\ Step(r, After(r, o, Moved(r, "intended")))
    /\ UNCHANGED <<now, gateway, history>>

\* The credential ran out: before the intent row, or while it was being written.
Uncredentialed(r, p) ==
    /\ At(r, p, "permitted") \/ At(r, p, "intended")
    /\ ~Credentialed(r)
    /\ Step(r, Past(r, "failing"))
    /\ UNCHANGED <<journalVars, now, gateway, history>>

\* What consume() can still find wrong with the call's own envelope.
Consumable(r, p) == now < call[r].expires /\ call[r].context = LiveContext(p)

\* The envelope is consumed and the adapter entered, with no await in between.
Dispatch(r, p) ==
    /\ At(r, p, "intended")
    /\ Credentialed(r) /\ Consumable(r, p)
    /\ Step(r, Past(r, "executing"))
    /\ dispatched' = dispatched \cup {r}
    /\ UNCHANGED <<journalVars, now, gateway, confirmed>>

\* consume() raises: EXECUTION_BINDING_INVALID, and no backend is invoked.
BindingInvalid(r, p) ==
    /\ At(r, p, "intended")
    /\ Credentialed(r) /\ ~Consumable(r, p)
    /\ Step(r, Past(r, "settled"))
    /\ UNCHANGED <<journalVars, now, gateway, history>>

\* The adapter returns or raises an AdapterError; unknown unless request and response
\* are both confirmed for every attempt.
AdapterReturns(r, p, unknown) ==
    /\ At(r, p, "executing")
    /\ Step(r, [Past(r, "settled") EXCEPT !.unknown = unknown])
    /\ confirmed' = IF unknown THEN confirmed ELSE confirmed \cup {r}
    /\ UNCHANGED <<journalVars, now, gateway, dispatched>>

\* The finish row, with the denials of the gateway.
RecordFinish(r, p, o) ==
    /\ At(r, p, "settled")
    /\ JournalFinish(p, r, gateway[p].denials, call[r].unknown, o)
    /\ Step(r, After(r, o, Past(r, "finished")))
    /\ UNCHANGED <<now, gateway, history>>

\* The completed call is traced and its envelope returned.
Complete(r, p) ==
    /\ At(r, p, "finished")
    /\ Step(r, Blank("ended"))
    /\ Unlocked(p)
    /\ UNCHANGED <<journalVars, now, history>>

\* A trace record cannot be written, the task is cancelled at an await, or the call
\* raises for another reason: anything outside the handled errors leaves _call.
Fault(r, p) ==
    /\ call[r].process = p
    /\ call[r].at \in {"begun", "judging", "assessed", "permitted", "executing", "finished"}
    /\ Step(r, Past(r, "failing"))
    /\ UNCHANGED <<journalVars, now, gateway, history>>

\* mutant: the exception leaves the lock taken
RecordHoldLocked(r, p, o) ==
    /\ At(r, p, "failing")
    /\ JournalFailed(p, o)
    /\ Step(r, Blank("ended"))
    /\ UNCHANGED <<now, gateway, history>>

\* failed(), then the exception releases the lock.
RecordHold(r, p, o) ==
    /\ At(r, p, "failing")
    /\ JournalFailed(p, o)
    /\ Step(r, Blank("ended"))
    /\ Unlocked(p)
    /\ UNCHANGED <<now, history>>

-------------------------------------------------------------------------------
\* The event loop of p runs no call: it gives way at an await only.
Yielding(p) == \A r \in Requests :
                   gateway[p].lock = r => call[r].at \in {"judging", "executing"}

\* The host changes the gateway's threshold.
Reconfigure(p, t) ==
    /\ journal[p].state = "open"
    /\ Yielding(p)
    /\ t # gateway[p].threshold
    /\ gateway' = [gateway EXCEPT ![p].threshold = t]
    /\ UNCHANGED <<journalVars, now, call, history>>

\* A process starts: it recovers the store, then writes its boot row.
Start(p) == Recover(p) /\ UNCHANGED <<now, gateway, call, history>>
BootUp(p, o) == Boot(p, o) /\ UNCHANGED <<now, gateway, call, history>>

\* The server shuts down; a call that awaits is not waited for.
Shutdown(p, o) == Yielding(p) /\ JournalClose(p, o) /\ UNCHANGED <<now, gateway, call, history>>

\* The process dies with everything it remembers and every call it serves.
Crash(p) ==
    /\ JournalCrash(p)
    /\ call' = [r \in Requests |->
                   IF call[r].process = p THEN Blank("lost") ELSE call[r]]
    /\ gateway' = [gateway EXCEPT ![p] = [denials |-> 0, threshold |-> AnyThreshold,
                                          lock |-> NoRequest]]
    /\ UNCHANGED <<now, history>>

Tick == /\ now < MaxTime
        /\ now' = now + 1
        /\ UNCHANGED <<journalVars, gateway, call, history>>

CallStep(r, p) ==
    \/ Refuse(r, p)
    \/ \E o \in Outcomes : Begin(r, p, o)
    \/ Preflight(r, p)
    \/ \E judge \in JudgeAnswers, issued \in BOOLEAN : Answer(r, p, judge, issued)
    \/ \E o \in Outcomes : RecordPolicy(r, p, o)
    \/ \E o \in Outcomes : RecordIntent(r, p, o)
    \/ Uncredentialed(r, p)
    \/ Dispatch(r, p)
    \/ BindingInvalid(r, p)
    \/ \E unknown \in BOOLEAN : AdapterReturns(r, p, unknown)
    \/ \E o \in Outcomes : RecordFinish(r, p, o)
    \/ Complete(r, p)
    \/ \E o \in Outcomes : RecordHold(r, p, o)

ProcessStep(p) ==
    \/ Start(p)
    \/ \E o \in Outcomes : BootUp(p, o)
    \/ \E o \in Outcomes : Shutdown(p, o)
    \/ Crash(p)
    \/ \E t \in Thresholds : Reconfigure(p, t)

Next == \/ \E r \in Requests, p \in Processes, topic \in Topics, expiry \in 1..MaxTime + 1 :
              Arrive(r, p, topic, expiry)
        \/ \E r \in Requests, p \in Processes : CallStep(r, p) \/ Fault(r, p)
        \/ \E p \in Processes : ProcessStep(p)
        \/ Tick

Spec == Init /\ [][Next]_vars

\* The event loop runs what it can run, the judge answers within its 30 s timeout and
\* the adapter within its request budget.
FairSpec == Spec /\ \A r \in Requests, p \in Processes : WF_vars(CallStep(r, p))

-------------------------------------------------------------------------------
TypeOK ==
    /\ Len(log) \in 1..MaxEvents
    /\ \A i \in DOMAIN log : log[i] \in Rows
    /\ owner \in Processes \cup {NoProcess}
    /\ journal \in [Processes -> Journals]
    /\ now \in Times
    /\ gateway \in [Processes -> Gateways]
    /\ call \in [Requests -> Calls]
    /\ dispatched \subseteq Requests
    /\ confirmed \subseteq dispatched

\* The table's reading at a restart is the constructor's row-by-row loop.
ReplayIsLoop ==
    LET s == Replay[Len(log)] IN
    /\ s.held = HeldByRows
    /\ s.open = OpenGeneration
    /\ s.pending = Pending
    /\ s.denials = ReplayedDenials

\* A journal in service that does not hold remembers exactly what a replay of the table
\* would tell it: nothing was lost in a failed write, and nobody else wrote.
MemoryMatchesTable ==
    /\ TypeOK
    /\ \A p \in Processes :
          journal[p].state = "open" /\ ~journal[p].held =>
              /\ owner = p
              /\ journal[p].sequence = Len(log)
              /\ journal[p].denials = ReplayedDenials
              /\ Pending = {journal[p].active} \ {NoRequest}
              /\ ~HeldByRows

\* A row that holds is final: only hold rows ever follow it, in any process.
HoldIsPermanent ==
    [][HeldByRows => \A i \in DOMAIN log' \ DOMAIN log : log'[i].kind = "hold"]_vars

\* Containment is durable: once two tripwire denials are on record, no request is
\* dispatched in this process or in any later one.
TripwireRows == {i \in Indices("policy") : log[i].tripwire}
DurableContainment ==
    [][dispatched' # dispatched => Cardinality(TripwireRows) < 2]_vars

\* A row of kind k of request r is on record.
Recorded(k, r) == \E i \in Indices(k) : log[i].request = r
Settled(r) == Recorded("finish", r) /\ (r \in dispatched => r \in confirmed)

\* The fate of a request, from the table and from what the adapter really did.
FateOf(r) == IF ~Recorded("intent", r) THEN (IF r \in dispatched THEN "dispatched" ELSE "none")
             ELSE IF Settled(r) THEN "settled"
             ELSE IF r \in dispatched THEN "dispatched" ELSE "intended"

Ledger == INSTANCE DispatchLedger WITH fate <- [r \in Requests |-> FateOf(r)]

\* The gateway and its journal implement durable dispatch accounting: the intent is
\* committed before the adapter is entered, and as long as the fate of one intent is
\* unknown, in whatever process, nothing else is intended or dispatched.
ImplementsLedger == Ledger!Spec

\* Every call that waits for the gateway ends, unless its process dies: an exception
\* at any point leaves neither the lock taken nor the journal active.
EveryCallEnds ==
    \A r \in Requests : (call[r].at = "waiting") ~> (call[r].at \in {"ended", "lost"})
===============================================================================
