------------------------------ MODULE ReviewStore ------------------------------
(***************************************************************************)
(* The transactions of src/evals/write01/store_v1.py: intents, notes and the *)
(* review state of awards in one SQLite file that several processes open.    *)
(* Each method is one transaction (BEGIN IMMEDIATE ... COMMIT), except        *)
(* commit(), which is two: StartAttempt and Mutate.                          *)
(***************************************************************************)
EXTENDS Naturals, FiniteSets

CONSTANTS Operations,   \* operation ids: one fresh id per call
          Queries,      \* [award, key, version]: idempotency key, expected version
          Awards

ASSUME QueryAssumption == \A q \in Queries : q.award \in Awards /\ q.version \in Nat

VARIABLES
  intents,    \* the rows of intents, by operation id
  version,    \* of each award: 0 is UNREVIEWED, 1 is PENDING_REVIEW
  notes       \* the operation of each row of notes

store == <<intents, version, notes>>

Intent == [query : Queries, custody : {"OPEN", "CLOSED"}, attempted : BOOLEAN, receipt : BOOLEAN]

StoreInit == /\ intents = << >>
             /\ version = [a \in Awards |-> 0]
             /\ notes = {}

Reserved == DOMAIN intents
AwardOf(o) == intents[o].query.award
Committed == {o \in Reserved : intents[o].receipt}

\* What _validate() asks of the file before every transaction, apart from digests.
Valid ==
  /\ \A o \in Reserved : \/ ~intents[o].receipt /\ intents[o].custody = "OPEN"
                         \/ intents[o].receipt /\ intents[o].attempted
                                               /\ intents[o].query.version = 0
  /\ \A o, p \in Committed : AwardOf(o) = AwardOf(p) => o = p
  /\ notes = Committed
  /\ \A o \in Reserved \ Committed, n \in notes : AwardOf(o) # AwardOf(n)
  /\ \A a \in Awards : version[a] = IF \E o \in Committed : AwardOf(o) = a THEN 1 ELSE 0

AvailableByKey(q) == /\ \A o \in Reserved : intents[o].query.key # q.key
                     /\ version[q.award] = q.version
                     /\ version[q.award] = 0
AvailableUnlessAttempted(q) ==
  /\ AvailableByKey(q)
  /\ \A o \in Reserved : intents[o].attempted /\ intents[o].custody = "OPEN" => AwardOf(o) # q.award

\* The key is new, no intent is open on the award, and the award is as expected.
Available(q) == /\ \A o \in Reserved : intents[o].query.key # q.key
                /\ \A o \in Reserved : intents[o].custody = "OPEN" => AwardOf(o) # q.award
                /\ version[q.award] = q.version
                /\ version[q.award] = 0

\* A transaction is acknowledged (ok), undone (lost), or committed although the
\* call raises (kept).
Outcomes == {"ok", "lost", "kept"}
Amend(o, row) == intents' = [intents EXCEPT ![o] = row]

CanReserve(o, q) == Valid /\ o \notin Reserved /\ Available(q)
Reserve(o, q, outcome) ==
  /\ CanReserve(o, q)
  /\ intents' = IF outcome = "lost" THEN intents
                ELSE [p \in Reserved \cup {o} |-> IF p = o
                       THEN [query |-> q, custody |-> "OPEN", attempted |-> FALSE, receipt |-> FALSE]
                       ELSE intents[p]]
  /\ UNCHANGED <<version, notes>>

\* The one adapter entry is on record before the mutation is tried.
CanStart(o) == /\ Valid /\ o \in Reserved
               /\ intents[o].custody = "OPEN" /\ ~intents[o].receipt /\ ~intents[o].attempted
StartAttempt(o, outcome) ==
  /\ CanStart(o)
  /\ IF outcome = "lost" THEN UNCHANGED intents
     ELSE Amend(o, [intents[o] EXCEPT !.attempted = TRUE])
  /\ UNCHANGED <<version, notes>>

CanMutate(o) == Valid /\ version[AwardOf(o)] = intents[o].query.version /\ version[AwardOf(o)] = 0
Mutate(o, outcome) ==
  /\ CanMutate(o)
  /\ IF outcome = "lost" THEN UNCHANGED store
     ELSE /\ Amend(o, [intents[o] EXCEPT !.receipt = TRUE])
          /\ version' = [version EXCEPT ![AwardOf(o)] = @ + 1]
          /\ notes' = notes \cup {o}

\* An acknowledgement that raises leaves the row open or closed.
CanAcknowledge(o) == Valid /\ o \in Committed /\ intents[o].custody = "OPEN"
Acknowledge(o, outcome) ==
  /\ CanAcknowledge(o)
  /\ IF outcome = "lost" THEN UNCHANGED intents
     ELSE Amend(o, [intents[o] EXCEPT !.custody = "CLOSED"])
  /\ UNCHANGED <<version, notes>>

StoreTypeOK == /\ Reserved \subseteq Operations
               /\ \A o \in Reserved : intents[o] \in Intent
               /\ version \in [Awards -> Nat]
               /\ notes \subseteq Operations
===============================================================================
