----------------------------- MODULE GuardedGateway -----------------------------
(***************************************************************************)
(* Gateways over the PostgreSQL journal with the guarded transport between   *)
(* adapter and network (civicgate/mcp/tools.py Gateway.call and _call,      *)
(* civicgate/audit/postgres_transport_guard_v1.py; the journal of           *)
(* PostgresJournal).                                                        *)
(*                                                                          *)
(* A gateway runs its calls one at a time; what it decides is left to       *)
(* LocalGateway.  The guard verifies ownership, history and credential,     *)
(* then hands the request to the inner transport: between the two, and      *)
(* between the sending and the arrival, anything can happen.                *)
(***************************************************************************)
EXTENDS PostgresJournal, FiniteSets

VARIABLES call,         \* per request: where its call is
          delegated,    \* per owner: the _delegated of its guard
          sent,         \* the requests that have left for the network
          arrived,      \* history: the requests upstream has served
          answered      \* history: those whose response was received as a whole

journalVars == <<log, domain, lock, session, commit, journal>>
history == <<sent, arrived, answered>>
vars == <<journalVars, call, delegated, history>>

\* The points between the steps of a call; "executing" is in the adapter and before the
\* guard, "delegated" behind it, "sent" waiting for the response.
Points == {"idle", "admitted", "begun", "permitted", "intended", "executing", "delegated",
           "sent", "settled", "finished", "failing", "ended"}

Calls == [at : Points, owner : Owners \cup {NoOwner},
          valid : BOOLEAN,          \* the caller's credential has not expired
          evidence : Evidence]      \* what the adapter's attempts say

Blank(point) == [at |-> point, owner |-> NoOwner, valid |-> TRUE, evidence |-> "none"]

Init == /\ JournalInit
        /\ call = [r \in Requests |-> Blank("idle")]
        /\ delegated = [o \in Owners |-> {}]
        /\ sent = {} /\ arrived = {} /\ answered = {}

-------------------------------------------------------------------------------
At(r, o, point) == call[r].at = point /\ call[r].owner = o
Step(r, c) == call' = [call EXCEPT ![r] = c]
Moved(r, point) == [call[r] EXCEPT !.at = point]
\* A call whose credential is not read again.
Past(r, point) == [Moved(r, point) EXCEPT !.valid = TRUE, !.evidence = "none"]
After(r, outcome, c) == IF outcome = "ok" THEN c ELSE Past(r, "failing")

\* No call of o holds the gateway's lock.
Unlocked(o) == \A r \in Requests : call[r].owner = o => call[r].at \in {"idle", "ended"}

\* admit(): a refusal for whatever reason, an expired credential too, stops the journal
\* and leaves call() without failed().
Admit(r, o, admitted) ==
    /\ call[r].at = "idle"
    /\ journal[o].state = "open" /\ Unlocked(o)
    /\ JournalAdmit(o, admitted)
    /\ Step(r, IF admitted THEN [Blank("admitted") EXCEPT !.owner = o] ELSE Blank("ended"))
    /\ UNCHANGED <<delegated, history>>

\* begin(), with the credential as evidence.
Begin(r, o, outcome) ==
    /\ At(r, o, "admitted")
    /\ outcome # "lost" => call[r].valid
    /\ Run(o, Event("begin", o, r), outcome)
    /\ Step(r, After(r, outcome, Moved(r, "begun")))
    /\ UNCHANGED <<delegated, history>>

\* The decision and its policy row.
RecordPolicy(r, o, bound, outcome) ==
    /\ At(r, o, "begun")
    /\ Run(o, [Event("policy", o, r) EXCEPT !.bound = bound], outcome)
    /\ Step(r, After(r, outcome, IF bound THEN Moved(r, "permitted") ELSE Past(r, "settled")))
    /\ UNCHANGED <<delegated, history>>

\* intent(): under a valid credential, for the active request.
RecordIntent(r, o, outcome) ==
    /\ At(r, o, "permitted")
    /\ outcome # "lost" => call[r].valid /\ journal[o].known.active = r
    /\ Run(o, Event("intent", o, r), outcome)
    /\ Step(r, After(r, outcome, Moved(r, "intended")))
    /\ UNCHANGED <<delegated, history>>

\* The credential ran out while the intent was being written: the journal stops.
Uncredentialed(r, o) ==
    /\ At(r, o, "intended") /\ ~call[r].valid
    /\ Stopped(o)
    /\ Step(r, Past(r, "failing"))
    /\ UNCHANGED <<log, domain, lock, commit, delegated, history>>

\* consume(): the adapter is entered, or EXECUTION_BINDING_INVALID settles the call.
Consume(r, o, verified) ==
    /\ At(r, o, "intended")
    /\ Step(r, IF verified THEN Moved(r, "executing") ELSE Past(r, "settled"))
    /\ UNCHANGED <<journalVars, delegated, history>>

-------------------------------------------------------------------------------
\* The guard. Its own transaction sees the object's rows and generation.
Checkpoint(r, o) == CanRun(o) /\ call[r].valid

\* mutant: the guard forgets what it has delegated
IntendedUnmarked(r, o) ==
    /\ lock = o
    /\ journal[o].known.active = r /\ journal[o].known.phase = "intent"

\* The lock is still held, and the active intent is committed and not delegated yet.
Intended(r, o) ==
    /\ lock = o
    /\ journal[o].known.active = r /\ journal[o].known.phase = "intent"
    /\ r \notin delegated[o]

\* _verify() passes: the request is marked before it is delegated.
Verify(r, o) ==
    /\ At(r, o, "executing")
    /\ Checkpoint(r, o) /\ Intended(r, o)
    /\ delegated' = [delegated EXCEPT ![o] = @ \cup {r}]
    /\ Step(r, Moved(r, "delegated"))
    /\ UNCHANGED <<journalVars, history>>

\* It refuses on evidence it has seen, or the credential ran out during its commit: the
\* journal is failed, with a hold row if that still can be written.
VerifyRejects(r, o, outcome) ==
    /\ At(r, o, "executing")
    /\ CanRun(o)
    /\ ~call[r].valid \/ ~Intended(r, o)
    /\ JournalFailed(o, outcome)
    /\ Step(r, Past(r, "failing"))
    /\ UNCHANGED <<delegated, history>>

\* A query, the session, the credential or the commit fails: the journal stops, and
\* nothing is written through a session that was not verified.
VerifyStops(r, o) ==
    /\ At(r, o, "executing")
    /\ Stopped(o)
    /\ Step(r, Past(r, "failing"))
    /\ UNCHANGED <<log, domain, lock, commit, delegated, history>>

\* The inner transport sends the request.  Nothing is looked at again (the G2 window).
Send(r, o) ==
    /\ At(r, o, "delegated")
    /\ Step(r, Moved(r, "sent"))
    /\ sent' = sent \cup {r}
    /\ UNCHANGED <<journalVars, delegated, arrived, answered>>

\* The request arrives and is served, whatever has become of its sender.
Arrive(r) ==
    /\ r \in sent \ arrived
    /\ arrived' = arrived \cup {r}
    /\ UNCHANGED <<journalVars, call, delegated, sent, answered>>

\* mutant: a response is taken for confirmed that has not been received
AdapterGuesses(r, o, evidence) ==
    /\ call[r].owner = o /\ call[r].at \in {"executing", "delegated", "sent"}
    /\ evidence # "unknown" => call[r].at = "sent"
    /\ Step(r, [Past(r, "settled") EXCEPT !.evidence = evidence])
    /\ answered' = IF evidence = "confirmed" /\ r \in arrived THEN answered \cup {r} ELSE answered
    /\ UNCHANGED <<journalVars, delegated, sent, arrived>>

\* The adapter returns or raises what the gateway handles.
AdapterReturns(r, o, evidence) ==
    /\ call[r].owner = o /\ call[r].at \in {"executing", "delegated", "sent"}
    /\ evidence # "unknown" => call[r].at = "sent" /\ r \in arrived
    /\ Step(r, [Past(r, "settled") EXCEPT !.evidence = evidence])
    /\ answered' = IF evidence = "confirmed" THEN answered \cup {r} ELSE answered
    /\ UNCHANGED <<journalVars, delegated, sent, arrived>>

\* An adapter that was configured with more than one attempt tries again.
Retry(r, o) ==
    /\ call[r].owner = o /\ call[r].at \in {"delegated", "sent"}
    /\ Step(r, Moved(r, "executing"))
    /\ UNCHANGED <<journalVars, delegated, history>>

-------------------------------------------------------------------------------
\* finish(): anything but a confirmed request and response holds; evidence that the
\* history does not accept stops the journal instead.
RecordFinish(r, o, outcome) ==
    /\ At(r, o, "settled")
    /\ Run(o, [Event("finish", o, r) EXCEPT !.evidence = call[r].evidence,
                                            !.hold = call[r].evidence = "unknown"], outcome)
    /\ Step(r, After(r, outcome, Past(r, "finished")))
    /\ UNCHANGED <<delegated, history>>

\* The completed call is traced and returned.
Complete(r, o) ==
    /\ At(r, o, "finished")
    /\ Step(r, Blank("ended"))
    /\ UNCHANGED <<journalVars, delegated, history>>

\* A trace record cannot be written, the task is cancelled at an await, or the inner
\* transport raises what the adapter does not handle.
Fault(r, o) ==
    /\ call[r].owner = o
    /\ call[r].at \in {"begun", "permitted", "executing", "delegated", "sent", "finished"}
    /\ Step(r, Past(r, "failing"))
    /\ UNCHANGED <<journalVars, delegated, history>>

\* call() fails the journal and raises.
RecordHold(r, o, outcome) ==
    /\ At(r, o, "failing")
    /\ JournalFailed(o, outcome)
    /\ Step(r, Blank("ended"))
    /\ UNCHANGED <<delegated, history>>

\* The caller's credential expires.
Expire(r) ==
    /\ call[r].at \in {"admitted", "begun", "permitted", "intended", "executing",
                       "delegated", "sent"}
    /\ call[r].valid
    /\ Step(r, [call[r] EXCEPT !.valid = FALSE])
    /\ UNCHANGED <<journalVars, delegated, history>>

\* A process boots its journal, and its guard pins the session in a transaction of its
\* own, which may fail.
Start(o, outcome) == Boot(o, outcome) /\ UNCHANGED <<call, delegated, history>>
PinFails(o) == /\ journal[o].state = "open"
               /\ log[Len(log)].kind = "boot" /\ Unlocked(o)
               /\ Stopped(o)
               /\ UNCHANGED <<log, domain, lock, commit, call, delegated, history>>

\* The server shuts down where the event loop gives way; a call that awaits goes on.
Shutdown(o, outcome) ==
    /\ \A r \in Requests :
          call[r].owner = o => call[r].at \in {"begun", "executing", "delegated", "sent", "ended"}
    /\ JournalClose(o, outcome)
    /\ UNCHANGED <<call, delegated, history>>

\* The process dies with its calls; what it has sent is on its way.
Crash(o) ==
    /\ JournalCrash(o)
    /\ call' = [r \in Requests |-> IF call[r].owner = o THEN Blank("ended") ELSE call[r]]
    /\ delegated' = [delegated EXCEPT ![o] = {}]
    /\ UNCHANGED history

\* What happens to sessions and locks without anybody's doing here.
Database(o) == /\ (\E kept \in BOOLEAN : SessionEnds(o, kept)) \/ LockLost(o)
               /\ UNCHANGED <<call, delegated, history>>

CallStep(r, o) ==
    \/ \E admitted \in BOOLEAN : Admit(r, o, admitted)
    \/ \E outcome \in Outcomes :
          \/ Begin(r, o, outcome)
          \/ \E bound \in BOOLEAN : RecordPolicy(r, o, bound, outcome)
          \/ RecordIntent(r, o, outcome)
          \/ VerifyRejects(r, o, outcome)
          \/ RecordFinish(r, o, outcome)
          \/ RecordHold(r, o, outcome)
    \/ Uncredentialed(r, o)
    \/ \E verified \in BOOLEAN : Consume(r, o, verified)
    \/ Verify(r, o)
    \/ VerifyStops(r, o)
    \/ Send(r, o)
    \/ \E evidence \in Evidence \ {"none"} : AdapterReturns(r, o, evidence)
    \/ Retry(r, o)
    \/ Complete(r, o)
    \/ Fault(r, o)

Next == \/ \E r \in Requests, o \in Owners : CallStep(r, o)
        \/ \E r \in Requests : Arrive(r) \/ Expire(r)
        \/ \E o \in Owners : Database(o) \/ Crash(o) \/ PinFails(o)
        \/ \E o \in Owners, outcome \in Outcomes : Start(o, outcome) \/ Shutdown(o, outcome)

Spec == Init /\ [][Next]_vars

-------------------------------------------------------------------------------
\* Every variable keeps its range, and the history its bound.
TypeOK ==
    /\ log \in Seq(Rows) /\ Len(log) \in 1..MaxEvents
    /\ domain \in LedgerStates
    /\ lock \in Owners \cup {NoOwner}
    /\ session \in [Owners -> Sessions]
    /\ commit \in [Owners -> Rows \cup {NoRow}]
    /\ journal \in [Owners -> Journals]
    /\ call \in [Requests -> Calls]
    /\ delegated \in [Owners -> SUBSET Requests]
    /\ arrived \subseteq sent /\ answered \subseteq arrived

\* An object in service knows the whole history, which nothing holds, and is its open
\* owner: although locks are lost, sessions end and COMMITs arrive late, no two objects
\* ever believe so.
OwnerKnowsHistory ==
    \A o \in Owners :
        journal[o].state = "open" /\ ~Held(o) =>
            /\ journal[o].known = domain /\ domain.sequence = Len(log)
            /\ domain.open /\ domain.owner = o
            /\ \A i \in DOMAIN log : log[i].kind # "hold" /\ ~log[i].hold

\* The intent row of r.
IntentRow(r) == CHOOSE i \in DOMAIN log : log[i].kind = "intent" /\ log[i].request = r

\* What the guard has verified of the history still holds when the request leaves, in
\* spite of the window between the two: its intent is the last row, and it has not left
\* before.  (Of lock, session and credential nothing of the kind holds.)
SentUnderIntent ==
    [][\A r \in Requests :
          At(r, call[r].owner, "delegated") /\ call'[r].at = "sent" =>
              /\ log[Len(log)].kind = "intent" /\ log[Len(log)].request = r
              /\ r \notin sent]_vars

\* A request is served in its own epoch only: however late it arrives, no successor of
\* the generation that sent it has booted.
ServedInOwnEpoch ==
    [][\A r \in arrived' \ arrived : domain.epoch = log[IntentRow(r)].epoch]_vars

Recorded(k, r) == \E i \in DOMAIN log : log[i].kind = k /\ log[i].request = r
Settled(r) == Recorded("finish", r) /\ (r \in sent => r \in answered)
FateOf(r) == IF ~Recorded("intent", r) THEN (IF r \in sent THEN "dispatched" ELSE "none")
             ELSE IF Settled(r) THEN "settled"
             ELSE IF r \in sent THEN "dispatched" ELSE "intended"

Ledger == INSTANCE DispatchLedger WITH fate <- [r \in Requests |-> FateOf(r)]

\* The guarded gateways implement durable dispatch accounting: a request leaves only
\* after its intent was committed, and while the fate of one is unknown, in whatever
\* process, nothing else is intended or leaves.
ImplementsLedger == Ledger!Spec
===============================================================================
