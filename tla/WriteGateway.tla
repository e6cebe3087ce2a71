------------------------------ MODULE WriteGateway ------------------------------
(***************************************************************************)
(* WriteGatewayV1 (src/evals/write01/gateway_v1.py) with WriteAuthority      *)
(* (authority_v1.py) over a ReviewStore: several owners, in processes of     *)
(* their own or one after the other, share one store. A call is serialised   *)
(* within its owner only. An error of the store or the trace, and any other  *)
(* that the handlers of _call name, stops the owner for good.                *)
(***************************************************************************)
EXTENDS ReviewStore

CONSTANT Owners

VARIABLES
  alive,      \* the owners whose process runs
  blocked,    \* the owners that stopped
  spent,      \* the approvals each owner has issued a binding for
  call        \* of each operation: owner, query, point and response

vars == <<store, alive, blocked, spent, call>>

Points == {"new", "permitted", "reserved", "open", "entered", "attempted", "mutated",
           "committed", "closed", "ended"}
Response == [transaction : {"NOT_DISPATCHED", "UNKNOWN", "COMMITTED"},
             custody : {"NOT_OPENED", "OPEN", "CLOSED", "UNKNOWN"}]
NoResponse == [transaction |-> "none", custody |-> "none"]
Calls == [owner : Owners, query : Queries, at : Points, response : Response \cup {NoResponse}]

Init == /\ StoreInit
        /\ alive = Owners
        /\ blocked = {}
        /\ spent = [g \in Owners |-> {}]
        /\ call \in [Operations -> {c \in Calls : c.at = "new" /\ c.response = NoResponse}]

Running(o) == call[o].at \notin {"new", "ended"}
Owned(o, point) == call[o].at = point /\ call[o].owner \in alive

Advance(o, point) == /\ call' = [call EXCEPT ![o].at = point]
                     /\ UNCHANGED <<alive, blocked, spent>>
Respond(o, transaction, custody) ==
  call' = [call EXCEPT ![o].at = "ended",
                       ![o].response = [transaction |-> transaction, custody |-> custody]]

ReportedCustodyLate(point) ==
  IF point \in {"open", "entered", "attempted", "mutated", "committed"} THEN "OPEN" ELSE "UNKNOWN"

\* What the handler reports of a call that fails at a point: OPEN only between
\* the confirmed intent and the attempt to close it.
ReportedCustody(point) ==
  IF point \in {"open", "entered", "attempted", "mutated"} THEN "OPEN" ELSE "UNKNOWN"
ReportedTransaction(point) ==
  IF point \in {"committed", "closed"} THEN "COMMITTED"
  ELSE IF point \in {"entered", "attempted", "mutated"} THEN "UNKNOWN" ELSE "NOT_DISPATCHED"

\* The owner stops; custody is UNKNOWN too if not even that can be recorded.
Stop(o) == /\ blocked' = blocked \cup {call[o].owner}
           /\ \E custody \in {ReportedCustody(call[o].at), "UNKNOWN"} :
                Respond(o, ReportedTransaction(call[o].at), custody)
           /\ UNCHANGED <<alive, spent>>

\* The policy reads a snapshot of the award; the store reads it again later.
Permits(o) == /\ version[call[o].query.award] = call[o].query.version
              /\ version[call[o].query.award] = 0
              /\ call[o].query \notin spent[call[o].owner]

\* The call gets its owner's lock, reads the award, and the authority permits it
\* and spends its approval, or does not; or the owner has stopped before.
Propose(o) ==
  LET g == call[o].owner IN
  /\ Owned(o, "new")
  /\ \A p \in Operations : Running(p) => call[p].owner # g
  /\ UNCHANGED <<store, alive>>
  /\ \/ /\ g \in blocked
        /\ Respond(o, "NOT_DISPATCHED", "UNKNOWN")
        /\ UNCHANGED <<blocked, spent>>
     \/ /\ g \notin blocked /\ Valid
        /\ IF Permits(o)
           THEN /\ spent' = [spent EXCEPT ![g] = @ \cup {call[o].query}]
                /\ call' = [call EXCEPT ![o].at = "permitted"]
           ELSE Respond(o, "NOT_DISPATCHED", "NOT_OPENED") /\ UNCHANGED spent
        /\ UNCHANGED blocked
     \/ /\ g \notin blocked          \* the trace or the store fails
        /\ blocked' = blocked \cup {g}
        /\ Respond(o, "NOT_DISPATCHED", "UNKNOWN")
        /\ UNCHANGED spent

\* A transaction of the store on behalf of a call, and how the call goes on.
Transact(o, point, next, outcome) ==
  /\ Owned(o, point)
  /\ IF outcome = "ok" THEN Advance(o, next) ELSE Stop(o)

CallReserve(o, outcome) ==
  Transact(o, "permitted", "reserved", outcome) /\ Reserve(o, call[o].query, outcome)

\* The intent is read back.
Confirm(o) == Owned(o, "reserved") /\ Valid /\ Advance(o, "open") /\ UNCHANGED store

\* The binding is consumed and the adapter entry is on record.
Consume(o) == Owned(o, "open") /\ Advance(o, "entered") /\ UNCHANGED store

CallStart(o, outcome) ==
  Transact(o, "entered", "attempted", outcome) /\ StartAttempt(o, outcome)
CallMutate(o, outcome) ==
  Transact(o, "attempted", "mutated", outcome) /\ Mutate(o, outcome)

\* Receipt and award are read back and agree.
Verify(o) == /\ Owned(o, "mutated") /\ Valid
             /\ o \in Committed /\ version[AwardOf(o)] = 1
             /\ Advance(o, "committed")
             /\ UNCHANGED store

CallAcknowledge(o, outcome) ==
  Transact(o, "committed", "closed", outcome) /\ Acknowledge(o, outcome)

Complete(o) == /\ Owned(o, "closed") /\ Valid
               /\ intents[o].custody = "CLOSED"
               /\ Respond(o, "COMMITTED", "CLOSED")
               /\ UNCHANGED <<store, alive, blocked, spent>>

\* A store error, an expired binding, a trace that cannot be written.
Fail(o) == /\ Running(o) /\ call[o].owner \in alive
           /\ Stop(o)
           /\ UNCHANGED store

\* The owner's process dies; its calls are never answered.
Crash(g) == /\ g \in alive
            /\ alive' = alive \ {g}
            /\ call' = [o \in Operations |-> IF call[o].owner = g /\ Running(o)
                                             THEN [call[o] EXCEPT !.at = "ended"] ELSE call[o]]
            /\ UNCHANGED <<store, blocked, spent>>

Next == \/ \E o \in Operations :
             \/ Propose(o) \/ Confirm(o) \/ Consume(o) \/ Verify(o) \/ Complete(o) \/ Fail(o)
             \/ \E outcome \in Outcomes :
                  CallReserve(o, outcome) \/ CallStart(o, outcome)
                    \/ CallMutate(o, outcome) \/ CallAcknowledge(o, outcome)
        \/ \E g \in Owners : Crash(g)

Spec == Init /\ [][Next]_vars
-------------------------------------------------------------------------------
TypeOK == /\ StoreTypeOK
          /\ alive \subseteq Owners
          /\ blocked \subseteq Owners
          /\ spent \in [Owners -> SUBSET Queries]
          /\ call \in [Operations -> Calls]

\* No sequence of calls, failures and deaths makes a file that _validate()
\* refuses; such a file would stop every owner for good.
StoreValid == TypeOK /\ Valid

\* The response tells the truth about the store, now and for ever: CLOSED is
\* closed with its receipt, OPEN is open, COMMITTED has changed the award and
\* NOT_DISPATCHED has not.
ResponsesTrue == \A o \in Operations :
  LET response == call[o].response IN
  /\ response.custody = "CLOSED" => o \in Committed /\ intents[o].custody = "CLOSED"
  /\ response.custody = "OPEN" => o \in Reserved /\ intents[o].custody = "OPEN"
  /\ response.custody = "NOT_OPENED" => o \notin Reserved
  /\ response.transaction = "COMMITTED" => o \in notes
  /\ response.transaction = "NOT_DISPATCHED" => o \notin notes

\* A call that ended with its intent open fences its award: nothing is done to
\* that intent or that award any more, by any owner, now or after a restart.
Fenced(o) == /\ call[o].at = "ended" /\ o \in Reserved
             /\ intents[o].custody = "OPEN"
OpenIntentFences ==
  [][\A o \in Operations : Fenced(o) => /\ intents'[o] = intents[o]
                                        /\ version'[AwardOf(o)] = version[AwardOf(o)]]_vars
===============================================================================
