------------------------------ MODULE DeliveryProofs ------------------------------
(***************************************************************************)
(* Theorems about the two ends of a request to another system:             *)
(* FencingReceiver, which receives requests late and more than once, and   *)
(* AttemptLoop, which sends one with bounded retries.  Each has its own    *)
(* specification; the receiver comes first.                                *)
(***************************************************************************)
EXTENDS FencingReceiver, AttemptLoop, SequenceTheorems, TLAPS

\* At most one transaction holds the scope row.
OneTransaction == \A d, o \in Deliveries : LocksScope(d) /\ LocksScope(o) => d = o

\* Effects come from deliveries that committed their own request.
EffectsCommitted == \A e \in effects : /\ at[e.delivery] \in {"committed", "done"}
                                       /\ e.claim = claim[e.delivery]
CommittedApplied == \A d \in Deliveries : at[d] = "committed" => Applied(d)

\* Receipts are the requests that were applied, once the mode keeps receipts.
ReceiptsExact == /\ \A r \in receipts : AppliedAs(r)
                 /\ mode # "U" => \A e \in effects : e.claim \in receipts

\* What a transaction has found still holds while it has its locks.
FoundNoReceipt == \A d \in Deliveries :
  mode # "U" /\ at[d] = "committing" => \A r \in receipts : r.id # claim[d].id
FoundNotOlder == \A d \in Deliveries :
  mode = "F1" /\ at[d] \in {"locked", "committing"} => highest <= claim[d].epoch
FoundAuthority == \A d \in Deliveries :
  mode = "F2" /\ at[d] \in {"checked", "committing"} => Ledger!Authorizes(authority, claim[d])

HighestApplied == mode = "F1" => \A e \in effects : e.claim.epoch <= highest

\* What was told, and that a refused delivery is over.
Told == \A d \in Deliveries :
  /\ outcome[d] = "ACCEPTED" => Applied(d)
  /\ outcome[d] = "DUPLICATE" => AppliedAs(claim[d]) /\ ~Applied(d) /\ at[d] = "done"
  /\ outcome[d] = "REJECTED" => ~Applied(d) /\ at[d] = "done"

IInv == /\ TypeOK /\ OneTransaction
        /\ EffectsCommitted /\ CommittedApplied /\ ReceiptsExact
        /\ FoundNoReceipt /\ FoundNotOlder /\ FoundAuthority /\ HighestApplied
        /\ Told
-------------------------------------------------------------------------------
\* The type invariant of the receiver's tables and transactions.
THEOREM TypeCorrect == Spec => []TypeOK
<1>1. Init => TypeOK
  BY EpochAssumption DEF Init, TypeOK, Points, Outcomes
<1>2. TypeOK /\ [Next]_vars => TypeOK'
  <2> SUFFICES ASSUME TypeOK, [Next]_vars PROVE TypeOK'
    OBVIOUS
  <2>1. ASSUME NEW d \in Deliveries, NEW point \in Points, Advance(d, point) PROVE TypeOK'
    BY <2>1 DEF TypeOK, Advance, rows, tables
  <2>2. ASSUME NEW d \in Deliveries, NEW status \in Outcomes, Answer(d, status) PROVE TypeOK'
    BY <2>2 DEF TypeOK, Answer, rows, tables, Points
  <2>3. ASSUME NEW d \in Deliveries, Step(d) PROVE TypeOK'
    <3>1. CASE Receive(d)
      BY <2>1, <3>1 DEF Receive, Points
    <3>2. CASE LockScope(d)
      BY <2>1, <2>2, <3>2 DEF LockScope, Points, Outcomes
    <3>3. CASE CheckAuthority(d)
      BY <2>1, <2>2, <3>3 DEF CheckAuthority, Points, Outcomes
    <3>4. CASE Write(d)
      BY <2>1, <2>2, <3>4 DEF Write, Points, Outcomes
    <3>5. CASE Commit(d)
      BY <3>5, EpochAssumption DEF TypeOK, Commit, Points, Effects
    <3>6. CASE Abort(d)
      BY <2>2, <3>6 DEF Abort, Outcomes
    <3>7. CASE Acknowledge(d)
      BY <2>2, <3>7 DEF Acknowledge, Outcomes
    <3>8. ASSUME NEW status \in {"UNKNOWN", "none"}, Fail(d, status) PROVE TypeOK'
      BY <3>8 DEF TypeOK, Fail, Points, Outcomes, rows, tables
    <3> QED BY <2>3, <3>1, <3>2, <3>3, <3>4, <3>5, <3>6, <3>7, <3>8 DEF Step
  <2>4. ASSUME NEW b \in Authorities, Publish(b) PROVE TypeOK'
    BY <2>4 DEF TypeOK, Publish, tables
  <2>5. CASE UNCHANGED vars
    BY <2>5 DEF TypeOK, vars
  <2> QED BY <2>3, <2>4, <2>5 DEF Next
<1> QED BY <1>1, <1>2, PTL DEF Spec

LEMMA InitInv == Init => IInv
BY DEF Init, IInv, TypeOK, Points, Outcomes, OneTransaction, EffectsCommitted, CommittedApplied,
       ReceiptsExact, FoundNoReceipt, FoundNotOlder, FoundAuthority, HighestApplied, Told, LocksScope

\* A transaction that advances has found what it needs: the scope row free, no
\* newer epoch, the authority, and no receipt.
LEMMA AdvanceInv ==
  ASSUME IInv, TypeOK', NEW d \in Deliveries, NEW point \in {"started", "locked", "checked", "committing"},
         at[d] \notin {"committing", "committed", "done"}, Advance(d, point),
         point # "started" => \A o \in Deliveries : LocksScope(o) => o = d,
         point \in {"locked", "committing"} /\ mode = "F1" => highest <= claim[d].epoch,
         point \in {"checked", "committing"} /\ mode = "F2" => Ledger!Authorizes(authority, claim[d]),
         point = "committing" /\ mode # "U" => \A r \in receipts : r.id # claim[d].id
  PROVE  IInv'
<1> USE DEF Advance, rows, tables, TypeOK
<1>1. OneTransaction'
  BY DEF IInv, OneTransaction, LocksScope
<1>2. EffectsCommitted'
  BY DEF IInv, EffectsCommitted
<1>3. CommittedApplied'
  BY DEF IInv, CommittedApplied, Applied
<1>4. ReceiptsExact'
  BY DEF IInv, ReceiptsExact, AppliedAs
<1>5. FoundNoReceipt'
  BY DEF IInv, FoundNoReceipt
<1>6. FoundNotOlder'
  BY DEF IInv, FoundNotOlder
<1>7. FoundAuthority'
  BY DEF IInv, FoundAuthority
<1>8. HighestApplied'
  BY DEF IInv, HighestApplied
<1>9. Told'
  BY DEF IInv, Told, Applied, AppliedAs
<1> QED BY <1>1, <1>2, <1>3, <1>4, <1>5, <1>6, <1>7, <1>8, <1>9 DEF IInv

\* An answer is true: before the COMMIT nothing of this delivery was applied.
LEMMA AnswerInv ==
  ASSUME IInv, TypeOK', NEW d \in Deliveries, NEW status \in Outcomes, Answer(d, status),
         status = "ACCEPTED" => at[d] = "committed",
         status \in {"REJECTED", "DUPLICATE"} => at[d] \in {"started", "locked", "checked"},
         status = "DUPLICATE" => claim[d] \in receipts
  PROVE  IInv'
<1> USE DEF Answer, rows, tables, TypeOK
<1>1. OneTransaction'
  BY DEF IInv, OneTransaction, LocksScope
<1>2. EffectsCommitted'
  BY DEF IInv, EffectsCommitted
<1>3. CommittedApplied'
  BY DEF IInv, CommittedApplied, Applied
<1>4. ReceiptsExact'
  BY DEF IInv, ReceiptsExact, AppliedAs
<1>5. FoundNoReceipt'
  BY DEF IInv, FoundNoReceipt
<1>6. FoundNotOlder'
  BY DEF IInv, FoundNotOlder
<1>7. FoundAuthority'
  BY DEF IInv, FoundAuthority
<1>8. HighestApplied'
  BY DEF IInv, HighestApplied
<1>9. Told'
  <2>1. at[d] \in {"started", "locked", "checked"} => ~Applied(d)
    BY DEF IInv, EffectsCommitted, Applied
  <2>2. at[d] = "committed" => Applied(d)
    BY DEF IInv, CommittedApplied
  <2>3. claim[d] \in receipts => AppliedAs(claim[d])
    BY DEF IInv, ReceiptsExact
  <2> QED BY <2>1, <2>2, <2>3 DEF IInv, Told, Applied, AppliedAs
<1> QED BY <1>1, <1>2, <1>3, <1>4, <1>5, <1>6, <1>7, <1>8, <1>9 DEF IInv

\* A COMMIT writes what its transaction has found to be new.
LEMMA CommitInv ==
  ASSUME IInv, TypeOK', NEW d \in Deliveries, Commit(d)
  PROVE  IInv'
<1> USE DEF TypeOK
<1> DEFINE new == [delivery |-> d, claim |-> claim[d]]
<1>a. /\ at[d] = "committing"
      /\ at' = [at EXCEPT ![d] = "committed"]
      /\ effects' = effects \cup {new}
      /\ receipts' = IF mode = "U" THEN receipts ELSE receipts \cup {claim[d]}
      /\ highest' = IF mode = "F1" THEN claim[d].epoch ELSE highest
      /\ UNCHANGED <<mode, authority, claim, outcome>>
  BY DEF Commit
<1>b. \A o \in Deliveries : LocksScope(o) => o = d
  BY <1>a DEF IInv, OneTransaction, LocksScope
<1>c. /\ \A o \in Deliveries : Applied(o) => Applied(o)'
      /\ \A x \in Claims : AppliedAs(x) => AppliedAs(x)'
      /\ Applied(d)' /\ AppliedAs(claim[d])'
  <2>1. effects \subseteq effects' /\ new \in effects' /\ claim' = claim
    BY <1>a
  <2>2. new.delivery = d /\ new.claim = claim[d]
    OBVIOUS
  <2>3. \A x \in Claims : AppliedAs(x) => AppliedAs(x)'
    BY <2>1 DEF AppliedAs
  <2>4. \A o \in Deliveries : Applied(o) => Applied(o)'
    BY <2>1 DEF Applied
  <2>5. Applied(d)' /\ AppliedAs(claim[d])'
    BY <2>1, <2>2 DEF Applied, AppliedAs
  <2> QED BY <2>3, <2>4, <2>5
<1>d. \A o \in Deliveries : o # d => (Applied(o)' <=> Applied(o))
  BY <1>a DEF Applied
<1>1. OneTransaction'
  BY <1>a DEF IInv, OneTransaction, LocksScope
<1>2. EffectsCommitted'
  BY <1>a DEF IInv, EffectsCommitted
<1>3. CommittedApplied'
  BY <1>a, <1>c DEF IInv, CommittedApplied
<1>4. ReceiptsExact'
  <2>1. \A r \in receipts' : AppliedAs(r)'
    BY <1>a, <1>c DEF IInv, ReceiptsExact
  <2>2. mode' # "U" => \A e \in effects' : e.claim \in receipts'
    BY <1>a DEF IInv, ReceiptsExact
  <2> QED BY <2>1, <2>2 DEF ReceiptsExact
<1>5. FoundNoReceipt'
  BY <1>a, <1>b DEF FoundNoReceipt, LocksScope
<1>6. FoundNotOlder'
  BY <1>a, <1>b DEF FoundNotOlder, LocksScope
<1>7. FoundAuthority'
  BY <1>a DEF IInv, FoundAuthority
<1>8. HighestApplied'
  <2> SUFFICES ASSUME mode = "F1", NEW e \in effects' PROVE e.claim.epoch <= claim[d].epoch
    BY <1>a DEF HighestApplied
  <2>1. highest <= claim[d].epoch /\ claim[d].epoch \in Nat
    BY <1>a, EpochAssumption DEF IInv, FoundNotOlder
  <2>2. CASE e = new
    BY <2>1, <2>2
  <2>3. CASE e \in effects
    <3>1. e.claim.epoch <= highest /\ e.claim.epoch \in Nat
      BY <2>3, EpochAssumption DEF IInv, HighestApplied, Effects
    <3>2. highest \in Nat
      BY DEF IInv
    <3> QED BY <2>1, <3>1, <3>2
  <2> QED BY <1>a, <2>2, <2>3
<1>9. Told'
  BY <1>a, <1>c, <1>d DEF IInv, Told
<1> QED BY <1>1, <1>2, <1>3, <1>4, <1>5, <1>6, <1>7, <1>8, <1>9 DEF IInv

\* A failure before the COMMIT undoes, one after it leaves everything as it is.
LEMMA FailInv ==
  ASSUME IInv, TypeOK', NEW d \in Deliveries, NEW status \in {"UNKNOWN", "none"}, Fail(d, status)
  PROVE  IInv'
<1> USE DEF Fail, rows, tables, TypeOK
<1>1. OneTransaction'
  BY DEF IInv, OneTransaction, LocksScope
<1>2. EffectsCommitted'
  BY DEF IInv, EffectsCommitted
<1>3. CommittedApplied'
  BY DEF IInv, CommittedApplied, Applied
<1>4. ReceiptsExact'
  BY DEF IInv, ReceiptsExact, AppliedAs
<1>5. FoundNoReceipt'
  BY DEF IInv, FoundNoReceipt
<1>6. FoundNotOlder'
  BY DEF IInv, FoundNotOlder
<1>7. FoundAuthority'
  BY DEF IInv, FoundAuthority
<1>8. HighestApplied'
  BY DEF IInv, HighestApplied
<1>9. Told'
  BY DEF IInv, Told, Applied, AppliedAs
<1> QED BY <1>1, <1>2, <1>3, <1>4, <1>5, <1>6, <1>7, <1>8, <1>9 DEF IInv

\* The authority row moves only while no transaction relies on it.
LEMMA PublishInv ==
  ASSUME IInv, TypeOK', NEW b \in Authorities, Publish(b)
  PROVE  IInv'
<1> USE DEF Publish, tables, TypeOK
<1>1. OneTransaction'
  BY DEF IInv, OneTransaction, LocksScope
<1>2. EffectsCommitted'
  BY DEF IInv, EffectsCommitted
<1>3. CommittedApplied'
  BY DEF IInv, CommittedApplied, Applied
<1>4. ReceiptsExact'
  BY DEF IInv, ReceiptsExact, AppliedAs
<1>5. FoundNoReceipt'
  BY DEF IInv, FoundNoReceipt
<1>6. FoundNotOlder'
  BY DEF IInv, FoundNotOlder
<1>7. FoundAuthority'
  BY DEF IInv, FoundAuthority, SharesAuthority
<1>8. HighestApplied'
  BY DEF IInv, HighestApplied
<1>9. Told'
  BY DEF IInv, Told, Applied, AppliedAs
<1> QED BY <1>1, <1>2, <1>3, <1>4, <1>5, <1>6, <1>7, <1>8, <1>9 DEF IInv

LEMMA StepInv ==
  ASSUME IInv, TypeOK', NEW d \in Deliveries, Step(d)
  PROVE  IInv'
<1>1. CASE Receive(d)
  BY <1>1, AdvanceInv DEF Receive
<1>2. CASE LockScope(d)
  <2>1. CASE mode = "F1" /\ claim[d].epoch < highest
    BY <1>2, <2>1, AnswerInv DEF LockScope, Outcomes
  <2>2. CASE ~(mode = "F1" /\ claim[d].epoch < highest)
    <3>1. mode = "F1" => highest <= claim[d].epoch
      BY <2>2, EpochAssumption DEF IInv, TypeOK
    <3> QED BY <1>2, <2>2, <3>1, AdvanceInv DEF LockScope
  <2> QED BY <2>1, <2>2
<1>3. CASE CheckAuthority(d)
  <2>1. \A o \in Deliveries : LocksScope(o) => o = d
    BY <1>3 DEF IInv, OneTransaction, LocksScope, CheckAuthority
  <2>2. CASE Ledger!Authorizes(authority, claim[d])
    BY <1>3, <2>1, <2>2, AdvanceInv DEF CheckAuthority
  <2>3. CASE ~Ledger!Authorizes(authority, claim[d])
    BY <1>3, <2>3, AnswerInv DEF CheckAuthority, Outcomes
  <2> QED BY <2>2, <2>3
<1>4. CASE Write(d)
  <2>1. \A o \in Deliveries : LocksScope(o) => o = d
    BY <1>4 DEF IInv, OneTransaction, LocksScope, Write
  <2>2. CASE mode = "U" \/ Prior(d) = {}
    <3>1. mode # "U" => \A r \in receipts : r.id # claim[d].id
      BY <2>2 DEF Prior
    <3>2. mode = "F1" => highest <= claim[d].epoch
      BY <1>4 DEF IInv, FoundNotOlder, Write
    <3>3. mode = "F2" => Ledger!Authorizes(authority, claim[d])
      BY <1>4 DEF IInv, FoundAuthority, Write
    <3>4. Advance(d, "committing") /\ at[d] \in {"locked", "checked"}
      BY <1>4, <2>2 DEF Write
    <3> QED BY <2>1, <3>1, <3>2, <3>3, <3>4, AdvanceInv
  <2>3. CASE ~(mode = "U" \/ Prior(d) = {})
    <3>1. at[d] \in {"locked", "checked"}
      BY <1>4 DEF Write
    <3>2. CASE claim[d] \in Prior(d)
      <4>1. Answer(d, "DUPLICATE") /\ claim[d] \in receipts
        BY <1>4, <2>3, <3>2 DEF Write, Prior
      <4> QED BY <3>1, <4>1, AnswerInv DEF Outcomes
    <3>3. CASE claim[d] \notin Prior(d)
      <4>1. Answer(d, "REJECTED")
        BY <1>4, <2>3, <3>3 DEF Write
      <4> QED BY <3>1, <4>1, AnswerInv DEF Outcomes
    <3> QED BY <3>2, <3>3
  <2> QED BY <2>2, <2>3
<1>5. CASE Commit(d)
  BY <1>5, CommitInv
<1>6. CASE Abort(d)
  BY <1>6, AnswerInv DEF Abort, Outcomes
<1>7. CASE Acknowledge(d)
  BY <1>7, AnswerInv DEF Acknowledge, Outcomes
<1>8. CASE \E status \in {"UNKNOWN", "none"} : Fail(d, status)
  BY <1>8, FailInv
<1> QED BY <1>1, <1>2, <1>3, <1>4, <1>5, <1>6, <1>7, <1>8 DEF Step

LEMMA StutterInv == IInv /\ UNCHANGED vars => IInv'
BY DEF IInv, TypeOK, vars, OneTransaction, EffectsCommitted, CommittedApplied, ReceiptsExact,
       FoundNoReceipt, FoundNotOlder, FoundAuthority, HighestApplied, Told, LocksScope,
       Applied, AppliedAs

THEOREM Invariant == Spec => []IInv
<1>1. IInv /\ TypeOK' /\ [Next]_vars => IInv'
  BY StepInv, PublishInv, StutterInv DEF Next
<1> QED BY <1>1, InitInv, TypeCorrect, PTL DEF Spec

\* What the receiver tells about a delivery is true when it tells it and stays
\* true: ACCEPTED, DUPLICATE and REJECTED of receive().
THEOREM TellsTheTruth == Spec => []OutcomesTrue
<1>1. IInv => OutcomesTrue
  BY DEF IInv, Told, OutcomesTrue
<1> QED BY <1>1, Invariant, PTL

\* The receiver of each mode implements what its mode promises: in F1 and F2 a
\* request id has one effect, in F1 effects never go back to an older epoch,
\* and in F2 they take place only under the authority of their owner.
THEOREM ReceiverIsLedger == Spec => ImplementsLedger
<1>1. Init => Ledger!Init
  BY DEF Init, Ledger!Init
<1>2. IInv /\ [Next]_vars => [Ledger!Next]_(Ledger!ledger)
  <2> SUFFICES ASSUME IInv, [Next]_vars PROVE [Ledger!Next]_(Ledger!ledger)
    OBVIOUS
  <2>1. ASSUME NEW d \in Deliveries, Commit(d) PROVE Ledger!Next
    <3>1. \A e \in effects : e.delivery # d
      BY <2>1 DEF IInv, EffectsCommitted, Commit
    <3>2. mode # "U" => Ledger!Unapplied(claim[d])
      BY <2>1 DEF IInv, FoundNoReceipt, ReceiptsExact, Commit, Ledger!Unapplied
    <3>3. mode = "F1" => Ledger!Newest(claim[d])
      <4> SUFFICES ASSUME mode = "F1", NEW e \in effects PROVE e.claim.epoch <= claim[d].epoch
        BY DEF Ledger!Newest
      <4>1. e.claim.epoch <= highest /\ highest <= claim[d].epoch
        BY <2>1 DEF IInv, HighestApplied, FoundNotOlder, Commit
      <4>2. e.claim.epoch \in Nat /\ highest \in Nat /\ claim[d].epoch \in Nat
        BY EpochAssumption DEF IInv, TypeOK, Effects
      <4> QED BY <4>1, <4>2
    <3>4. mode = "F2" => Ledger!Authorizes(authority, claim[d])
      BY <2>1 DEF IInv, FoundAuthority, Commit
    <3>5. Ledger!Apply(d, claim[d]) /\ claim[d] \in Claims
      BY <2>1, <3>1, <3>2, <3>3, <3>4 DEF Ledger!Apply, Commit, IInv, TypeOK
    <3> QED BY <3>5 DEF Ledger!Next
  <2>2. ASSUME NEW b \in Authorities, Publish(b) PROVE Ledger!Next
    BY <2>2 DEF Publish, tables, Ledger!Publish, Ledger!Next
  <2>3. ASSUME NEW d \in Deliveries, Step(d), ~Commit(d) PROVE UNCHANGED Ledger!ledger
    <3>1. UNCHANGED rows
      BY <2>3 DEF Step, Receive, LockScope, CheckAuthority, Write, Abort, Acknowledge, Fail,
                  Advance, Answer
    <3> QED BY <3>1 DEF rows, tables, Ledger!ledger
  <2>4. CASE UNCHANGED vars
    BY <2>4 DEF vars, Ledger!ledger
  <2> QED BY <2>1, <2>2, <2>3, <2>4 DEF Next
<1> QED BY <1>1, <1>2, Invariant, PTL DEF Spec, ImplementsLedger, Ledger!Spec

\* A request id has one effect.
OneEffect == mode # "U" => \A e, f \in effects : e.claim.id = f.claim.id => e = f

\* What that comes to once receipts are kept: however often a request is delivered, and with
\* whatever other content under its id, it takes effect once, and an effect is never undone.
THEOREM AppliedOnce == Spec => []OneEffect /\ [][effects \subseteq effects']_vars
<1>1. Ledger!Init => OneEffect
  BY DEF Ledger!Init, OneEffect
<1>2. OneEffect /\ [Ledger!Next]_(Ledger!ledger)
        => OneEffect' /\ effects \subseteq effects'
  <2> SUFFICES ASSUME OneEffect, [Ledger!Next]_(Ledger!ledger)
               PROVE  OneEffect' /\ effects \subseteq effects'
    OBVIOUS
  <2>1. ASSUME NEW d \in Deliveries, NEW c \in Claims, Ledger!Apply(d, c)
        PROVE  OneEffect' /\ effects \subseteq effects'
    <3>1. /\ effects' = effects \cup {[delivery |-> d, claim |-> c]} /\ mode' = mode
          /\ mode # "U" => \A e \in effects : e.claim.id # c.id
      BY <2>1 DEF Ledger!Apply, Ledger!Unapplied
    <3> QED BY <3>1 DEF OneEffect
  <2>2. CASE UNCHANGED <<mode, effects>>
    BY <2>2 DEF OneEffect
  <2> QED BY <2>1, <2>2 DEF Ledger!Next, Ledger!Publish, Ledger!ledger
<1>3. effects \subseteq effects' => [effects \subseteq effects']_vars
  OBVIOUS
<1> QED BY <1>1, <1>2, <1>3, ReceiverIsLedger, PTL DEF ImplementsLedger, Ledger!Spec
-------------------------------------------------------------------------------

\* AttemptLoop: any number of attempts, any timeouts, delays and budget.

\* Attempts that have ended are on record, one record each, in their order.
InOrder == \A i \in 1..Len(attempts) : attempts[i].attempt = i

\* Every record so far announces the retry that followed it.
AllRetried == \A i \in 1..Len(attempts) : attempts[i].decision = "RETRY_ALLOWED"

\* Where the loop is tells how many attempts entered the transport and how many are on
\* record, and what is bound in the current attempt is its own.
LoopConsistent ==
  /\ phase # "done" => result = "NONE" /\ InOrder /\ AllRetried
  /\ phase = "top" => requests = attempt - 1 /\ Len(attempts) = attempt - 1
  /\ phase \in {"sent", "answered"} => requests = attempt /\ Len(attempts) = attempt - 1
  /\ phase = "asleep" => requests = attempt /\ Len(attempts) = attempt /\ attempt < MaxAttempts
  /\ phase = "sent" => response = "none" /\ retryAfter = NoAdvice /\ attempt \notin DOMAIN headers
  /\ phase = "answered" => /\ response # "none" /\ attempt \in DOMAIN headers
                           /\ retryAfter = headers[attempt]

\* No deadline is set beyond the budget.
InTime ==
  /\ OverInBudget
  /\ phase \in {"sent", "answered", "asleep"} => deadline <= Budget

LoopInv == /\ RecordedAreRequested /\ RecordsAreTheirOwn /\ AnnouncedRetriesHappen
           /\ LoopConsistent /\ InTime

\* A record that speaks of its own attempt.
Own(r) == /\ r.dispatch = "REQUEST_CONFIRMED" <=> r.attempt \in DOMAIN headers
          /\ r.retryAfter # NoAdvice =>
               r.attempt \in DOMAIN headers /\ r.retryAfter = headers[r.attempt]
-------------------------------------------------------------------------------
\* The smaller of two numbers.
LEMMA MinOfTwo ==
  ASSUME NEW a \in Int, NEW b \in Int
  PROVE  Min({a, b}) \in {a, b} /\ Min({a, b}) <= a /\ Min({a, b}) <= b
<1>1. \E x \in {a, b} : \A y \in {a, b} : x <= y
  <2>1. CASE a <= b
    BY <2>1
  <2>2. CASE b <= a
    BY <2>2
  <2> QED BY <2>1, <2>2
<1>2. Min({a, b}) \in {a, b} /\ \A y \in {a, b} : Min({a, b}) <= y
  BY <1>1 DEF Min
<1> QED BY <1>2

\* Blocking the last record changes its decision and nothing else.
LEMMA BlockLast ==
  ASSUME NEW s \in Seq(Records)
  PROVE  /\ Block(s) \in Seq(Records) /\ Len(Block(s)) = Len(s)
         /\ \A i \in 1..Len(s) :
              /\ Block(s)[i].attempt = s[i].attempt /\ Block(s)[i].dispatch = s[i].dispatch
              /\ Block(s)[i].retryAfter = s[i].retryAfter
              /\ Block(s)[i].decision = IF i = Len(s) THEN "RETRY_BLOCKED" ELSE s[i].decision
<1>1. CASE s = << >>
  BY <1>1, EmptySeq DEF Block
<1>2. CASE s # << >>
  <2> DEFINE n == Len(s)
             e == [s[n] EXCEPT !.decision = "RETRY_BLOCKED"]
  <2>1. n \in 1..n /\ \A i \in 1..n : s[i] \in Records
    BY <1>2, EmptySeq, ElementOfSeq
  <2>2. /\ e \in Records /\ e.attempt = s[n].attempt /\ e.dispatch = s[n].dispatch
        /\ e.retryAfter = s[n].retryAfter /\ e.decision = "RETRY_BLOCKED"
    BY <2>1 DEF Records
  <2>3. Block(s) = [s EXCEPT ![n] = e]
    BY <1>2 DEF Block
  <2> HIDE DEF e, n
  <2>4. /\ Block(s) \in Seq(Records) /\ Len(Block(s)) = Len(s)
        /\ \A i \in 1..Len(s) : Block(s)[i] = IF i = n THEN e ELSE s[i]
    BY <2>1, <2>2, <2>3, ExceptSeq DEF n
  <2> QED BY <2>2, <2>4 DEF n
<1> QED BY <1>1, <1>2

\* What a record of the current attempt says.
LEMMA NewRecord ==
  ASSUME LoopInv, phase \in {"sent", "answered"},
         NEW state \in {"RESPONSE_RECEIVED", "TRANSPORT_ERROR"}, NEW advice \in {retryAfter, NoAdvice},
         NEW decision \in {"NONE", "RETRY_ALLOWED", "RETRY_BLOCKED"}
  PROVE  /\ Record(state, advice, decision) \in Records
         /\ Record(state, advice, decision).attempt = attempt
         /\ Record(state, advice, decision).decision = decision
         /\ Own(Record(state, advice, decision))
<1> DEFINE r == Record(state, advice, decision)
<1>1. LoopTypeOK /\ LoopConsistent
  BY DEF LoopInv, RecordedAreRequested
<1>2. /\ r.attempt = attempt /\ r.decision = decision /\ r.retryAfter = advice
      /\ r.dispatch = IF response = "none" THEN "DISPATCH_UNKNOWN" ELSE "REQUEST_CONFIRMED"
  BY DEF Record
<1>3. r \in Records
  BY <1>1 DEF Record, Records, LoopTypeOK
<1>4. response = "none" <=> attempt \notin DOMAIN headers
  BY <1>1 DEF LoopConsistent
<1>5. advice # NoAdvice => attempt \in DOMAIN headers /\ advice = headers[attempt]
  BY <1>1 DEF LoopConsistent
<1> HIDE DEF r
<1>6. Own(r)
  BY <1>2, <1>4, <1>5 DEF Own
<1> QED BY <1>2, <1>3, <1>6 DEF r

\* Every record on record is its own.
LEMMA RecordsOwn ==
  ASSUME LoopTypeOK
  PROVE  RecordsAreTheirOwn <=> \A i \in 1..Len(attempts) : Own(attempts[i])
BY LenProperties DEF RecordsAreTheirOwn, Own, LoopTypeOK

\* The loop ends: with the records of the attempts before, one for each, and further
\* ones of the last attempt that announce nothing.
LEMMA EndStep ==
  ASSUME LoopInv, phase' = "done", result' \in Results, elapsed' \in Nat, elapsed' <= Budget + Lag,
         UNCHANGED <<attempt, deadline, response, retryAfter, requests, headers>>,
         attempts' \in Seq(Records),
         \A i \in 1..Len(attempts') : Own(attempts'[i]),
         result' # "CANCELLED" =>
           /\ Len(attempts') >= requests
           /\ \A i \in 1..Len(attempts') :
                /\ attempts'[i].attempt = IF i <= requests THEN i ELSE requests
                /\ attempts'[i].decision = "RETRY_ALLOWED" <=> i < requests,
         result' # "CANCELLED" /\ requests = 0 => Len(attempts') = 0
  PROVE  LoopInv'
<1>1. LoopTypeOK
  BY DEF LoopInv, RecordedAreRequested
<1>2. LoopTypeOK'
  BY <1>1 DEF LoopTypeOK
<1>3. requests \in Nat /\ Len(attempts') \in Nat /\ DOMAIN attempts' = 1..Len(attempts')
  BY <1>1, LenProperties, AttemptAssumption DEF LoopTypeOK
<1>4. RecordsAreTheirOwn'
  BY <1>3 DEF RecordsAreTheirOwn, Own
<1>5. RecordedAreRequested'
  <2> SUFFICES ASSUME result' # "CANCELLED"
               PROVE  {attempts'[i].attempt : i \in 1..Len(attempts')} = 1..requests
    BY <1>2, <1>3 DEF RecordedAreRequested, Completed
  <2>1. \A i \in 1..Len(attempts') : attempts'[i].attempt \in 1..requests
    BY <1>3
  <2>2. \A i \in 1..requests : i \in 1..Len(attempts') /\ attempts'[i].attempt = i
    BY <1>3
  <2> QED BY <2>1, <2>2
<1>6. AnnouncedRetriesHappen'
  <2> SUFFICES ASSUME result' # "CANCELLED", NEW i \in 1..Len(attempts')
               PROVE  attempts'[i].decision = "RETRY_ALLOWED" <=> attempts'[i].attempt < requests
    BY <1>3 DEF AnnouncedRetriesHappen, Completed
  <2> QED BY <1>3
<1>7. LoopConsistent' /\ InTime'
  BY DEF LoopConsistent, InTime, OverInBudget
<1> QED BY <1>4, <1>5, <1>6, <1>7 DEF LoopInv

-------------------------------------------------------------------------------
\* Before the first attempt.
LEMMA LoopInitInv == LoopInit => LoopInv
<1> SUFFICES ASSUME LoopInit PROVE LoopInv
  OBVIOUS
<1>1. attempts = << >> /\ attempts \in Seq(Records) /\ Len(attempts) = 0 /\ DOMAIN attempts = {}
  BY EmptySeq DEF LoopInit
<1>2. LoopTypeOK
  BY <1>1, AttemptAssumption DEF LoopInit, LoopTypeOK
<1>3. RecordedAreRequested /\ RecordsAreTheirOwn /\ AnnouncedRetriesHappen
  BY <1>1, <1>2 DEF LoopInit, RecordedAreRequested, RecordsAreTheirOwn, AnnouncedRetriesHappen,
                    Completed
<1>4. LoopConsistent
  BY <1>1 DEF LoopInit, LoopConsistent, InOrder, AllRetried
<1>5. InTime
  BY AttemptAssumption DEF LoopInit, InTime, OverInBudget
<1> QED BY <1>3, <1>4, <1>5 DEF LoopInv

\* An attempt starts with nothing of the one before, and with a timeout within the budget.
LEMMA StartKeeps == ASSUME LoopInv, Start PROVE LoopInv'
<1>1. LoopTypeOK /\ LoopConsistent /\ InTime /\ RecordsAreTheirOwn
  BY DEF LoopInv, RecordedAreRequested
<1>2. /\ phase = "top" /\ elapsed < Budget /\ phase' = "sent" /\ response' = "none"
      /\ retryAfter' = NoAdvice /\ requests' = requests + 1 /\ requests = attempt - 1
      /\ deadline' = elapsed + Min({AttemptTimeout, Budget - elapsed})
      /\ UNCHANGED <<attempt, elapsed, attempts, result, headers>>
  BY <1>1 DEF Start, LoopConsistent
<1>3. deadline' \in Nat /\ deadline' <= Budget
  <2> DEFINE m == Min({AttemptTimeout, Budget - elapsed})
  <2>1. Budget \in Nat /\ AttemptTimeout \in Nat /\ elapsed \in Nat /\ Budget - elapsed \in Nat
    BY <1>1, <1>2, AttemptAssumption DEF LoopTypeOK
  <2>2. m \in {AttemptTimeout, Budget - elapsed} /\ m <= Budget - elapsed
    BY <2>1, MinOfTwo
  <2> HIDE DEF m
  <2> QED BY <1>2, <2>1, <2>2 DEF m
<1>4. LoopTypeOK'
  BY <1>1, <1>2, <1>3, AttemptAssumption DEF LoopTypeOK
<1>5. RecordedAreRequested' /\ AnnouncedRetriesHappen'
  BY <1>2, <1>4 DEF RecordedAreRequested, AnnouncedRetriesHappen, Completed
<1>6. RecordsAreTheirOwn'
  BY <1>1, <1>2 DEF RecordsAreTheirOwn
<1>7. LoopConsistent'
  BY <1>1, <1>2 DEF LoopConsistent, LoopTypeOK, InOrder, AllRetried
<1>8. InTime'
  BY <1>1, <1>2, <1>3 DEF InTime, OverInBudget
<1> QED BY <1>5, <1>6, <1>7, <1>8 DEF LoopInv

\* The budget is gone: the pending retry is blocked.
LEMMA ExhaustedKeeps == ASSUME LoopInv, Exhausted PROVE LoopInv'
<1>1. LoopTypeOK /\ LoopConsistent /\ InTime /\ RecordsAreTheirOwn
  BY DEF LoopInv, RecordedAreRequested
<1>2. /\ phase = "top" /\ phase' = "done" /\ result' = "UPSTREAM_UNAVAILABLE"
      /\ attempts' = Block(attempts)
      /\ UNCHANGED <<attempt, elapsed, deadline, response, retryAfter, requests, headers>>
      /\ requests = Len(attempts) /\ InOrder /\ AllRetried
      /\ attempts \in Seq(Records) /\ Len(attempts) \in Nat
  BY <1>1, LenProperties DEF Exhausted, Leave, LoopConsistent, LoopTypeOK
<1>3. /\ attempts' \in Seq(Records) /\ Len(attempts') = requests
      /\ \A i \in 1..Len(attempts') :
           /\ attempts'[i].attempt = i
           /\ attempts'[i].decision = "RETRY_ALLOWED" <=> i < requests
           /\ Own(attempts'[i])
  BY <1>1, <1>2, BlockLast, RecordsOwn DEF InOrder, AllRetried, Own
<1>4. elapsed' \in Nat /\ elapsed' <= Budget + Lag /\ result' \in Results
  BY <1>1, <1>2 DEF LoopTypeOK, InTime, OverInBudget, Results
<1>5. result' # "CANCELLED" =>
        /\ Len(attempts') >= requests
        /\ \A i \in 1..Len(attempts') :
             /\ attempts'[i].attempt = IF i <= requests THEN i ELSE requests
             /\ attempts'[i].decision = "RETRY_ALLOWED" <=> i < requests
  BY <1>2, <1>3
<1> QED BY <1>2, <1>3, <1>4, <1>5, EndStep

\* The headers of this attempt arrive in time.
LEMMA HeadersKeeps ==
  ASSUME LoopInv, NEW kind \in Responses, NEW advice \in Advices \cup {NoAdvice},
         NEW t \in elapsed..deadline, Headers(kind, advice, t)
  PROVE  LoopInv'
<1>1. LoopTypeOK /\ LoopConsistent /\ InTime /\ RecordsAreTheirOwn
  BY DEF LoopInv, RecordedAreRequested
<1>2. /\ phase = "sent" /\ phase' = "answered" /\ elapsed' = t /\ response' = kind
      /\ retryAfter' = advice /\ kind # "none"
      /\ headers' = [a \in DOMAIN headers \cup {attempt} |-> IF a = attempt THEN advice ELSE headers[a]]
      /\ UNCHANGED <<attempt, deadline, attempts, result, requests>>
      /\ requests = attempt /\ Len(attempts) = attempt - 1 /\ InOrder
      /\ DOMAIN attempts = 1..Len(attempts)
  BY <1>1, LenProperties DEF Headers, Responses, LoopConsistent, LoopTypeOK
<1>3. t \in Nat /\ t <= Budget
  BY <1>1, <1>2, AttemptAssumption DEF LoopTypeOK, InTime
<1>4. /\ DOMAIN headers' = DOMAIN headers \cup {attempt} /\ headers'[attempt] = advice
      /\ \A a \in DOMAIN headers : a # attempt => headers'[a] = headers[a]
  BY <1>2
<1>5. LoopTypeOK'
  BY <1>1, <1>2, <1>3, <1>4 DEF LoopTypeOK
<1>6. RecordedAreRequested' /\ AnnouncedRetriesHappen'
  BY <1>2, <1>5 DEF RecordedAreRequested, AnnouncedRetriesHappen, Completed
<1>7. RecordsAreTheirOwn'
  <2> SUFFICES ASSUME NEW i \in 1..Len(attempts)
               PROVE  /\ attempts[i].dispatch = "REQUEST_CONFIRMED" <=> attempts[i].attempt \in DOMAIN headers'
                      /\ attempts[i].retryAfter # NoAdvice =>
                          /\ attempts[i].attempt \in DOMAIN headers'
                          /\ attempts[i].retryAfter = headers'[attempts[i].attempt]
    BY <1>2 DEF RecordsAreTheirOwn
  <2>1. attempts[i].attempt = i /\ i # attempt
    BY <1>1, <1>2 DEF InOrder, LoopTypeOK
  <2>2. Own(attempts[i])
    BY <1>1, RecordsOwn
  <2> QED BY <1>4, <2>1, <2>2 DEF Own
<1>8. LoopConsistent'
  BY <1>1, <1>2, <1>4 DEF LoopConsistent, InOrder, AllRetried
<1>9. InTime'
  BY <1>1, <1>2, <1>3, AttemptAssumption DEF InTime, OverInBudget
<1> QED BY <1>6, <1>7, <1>8, <1>9 DEF LoopInv

\* A retryable failure, recorded: the loop ends or sleeps within the budget.
LEMMA RetryKeeps ==
  ASSUME LoopInv, phase \in {"sent", "answered"}, NEW r \in Results, r # "CANCELLED",
         NEW record \in Records, record.attempt = attempt, record.decision = Pending, Own(record),
         NEW delay \in [DOMAIN Backoff -> Nat], NEW t \in Until(deadline),
         Retry(r, record, delay, t)
  PROVE  LoopInv'
<1>1. LoopTypeOK /\ LoopConsistent /\ InTime /\ RecordsAreTheirOwn
  BY DEF LoopInv, RecordedAreRequested
<1> DEFINE more == Append(attempts, record)
<1>2. /\ requests = attempt /\ Len(attempts) = attempt - 1 /\ InOrder /\ AllRetried
      /\ attempts \in Seq(Records) /\ attempt \in 1..MaxAttempts /\ MaxAttempts \in Nat
      /\ elapsed' = t /\ UNCHANGED <<attempt, response, retryAfter, requests, headers>>
  BY <1>1, AttemptAssumption DEF Retry, LoopConsistent, LoopTypeOK
<1>3. /\ more \in Seq(Records) /\ Len(more) = attempt /\ more[attempt] = record
      /\ \A i \in 1..attempt - 1 : more[i] = attempts[i]
  <2>1. Len(attempts) + 1 = attempt
    BY <1>2
  <2> QED BY <1>2, <2>1, AppendProperties
<1> HIDE DEF more
<1>4. \A i \in 1..Len(more) :
        /\ more[i].attempt = i /\ Own(more[i])
        /\ i < attempt => more[i].decision = "RETRY_ALLOWED"
  <2> SUFFICES ASSUME NEW i \in 1..attempt
               PROVE  /\ more[i].attempt = i /\ Own(more[i])
                      /\ i < attempt => more[i].decision = "RETRY_ALLOWED"
    BY <1>3
  <2>1. CASE i = attempt
    BY <1>2, <1>3, <2>1
  <2>2. CASE i # attempt
    <3>1. i \in 1..attempt - 1 /\ i \in 1..Len(attempts)
      BY <1>2, <2>2
    <3>2. more[i] = attempts[i] /\ Own(attempts[i])
      BY <1>1, <1>3, <3>1, RecordsOwn
    <3> QED BY <1>2, <3>1, <3>2 DEF InOrder, AllRetried
  <2> QED BY <2>1, <2>2
<1>5. t \in Nat /\ t <= Budget + Lag
  BY <1>1, AttemptAssumption DEF Until, LoopTypeOK, InTime
<1>6. CASE attempt = MaxAttempts
  <2>1. phase' = "done" /\ result' = r /\ attempts' = more /\ deadline' = deadline
    BY <1>6 DEF Retry, Leave, more
  <2>2. record.decision # "RETRY_ALLOWED"
    BY <1>2, <1>6 DEF Pending
  <2>3. /\ Len(attempts') = requests /\ attempts' \in Seq(Records) /\ requests > 0
        /\ \A i \in 1..Len(attempts') :
             /\ attempts'[i].attempt = i /\ Own(attempts'[i])
             /\ attempts'[i].decision = "RETRY_ALLOWED" <=> i < requests
    BY <1>2, <1>3, <1>4, <2>1, <2>2
  <2>4. \A i \in 1..Len(attempts') :
          /\ attempts'[i].attempt = IF i <= requests THEN i ELSE requests
          /\ attempts'[i].decision = "RETRY_ALLOWED" <=> i < requests
    BY <2>3
  <2> QED BY <1>2, <1>5, <2>1, <2>3, <2>4, EndStep
<1>7. CASE attempt # MaxAttempts /\ t + delay[attempt] >= Budget
  <2>1. phase' = "done" /\ result' = r /\ attempts' = Block(more) /\ deadline' = deadline
    BY <1>7 DEF Retry, Leave, more
  <2>2. /\ Block(more) \in Seq(Records) /\ Len(Block(more)) = attempt
        /\ \A i \in 1..attempt :
             /\ Block(more)[i].attempt = more[i].attempt
             /\ Block(more)[i].dispatch = more[i].dispatch
             /\ Block(more)[i].retryAfter = more[i].retryAfter
             /\ Block(more)[i].decision = IF i = attempt THEN "RETRY_BLOCKED" ELSE more[i].decision
    BY <1>3, BlockLast
  <2>3. /\ Len(attempts') = requests /\ attempts' \in Seq(Records) /\ requests > 0
        /\ \A i \in 1..Len(attempts') :
             /\ attempts'[i].attempt = i /\ Own(attempts'[i])
             /\ attempts'[i].decision = "RETRY_ALLOWED" <=> i < requests
    <3>1. Len(attempts') = requests /\ attempts' \in Seq(Records) /\ requests > 0
      BY <1>2, <2>1, <2>2
    <3>2. ASSUME NEW i \in 1..attempt
          PROVE  /\ attempts'[i].attempt = i /\ Own(attempts'[i])
                 /\ attempts'[i].decision = "RETRY_ALLOWED" <=> i < attempt
      <4>1. more[i].attempt = i /\ Own(more[i])
        BY <1>3, <1>4
      <4>2. attempts'[i].attempt = i /\ Own(attempts'[i])
        BY <2>1, <2>2, <4>1 DEF Own
      <4>3. CASE i = attempt
        BY <2>1, <2>2, <4>2, <4>3, <1>2
      <4>4. CASE i # attempt
        <5>1. i < attempt /\ more[i].decision = "RETRY_ALLOWED"
          BY <1>2, <1>3, <1>4, <4>4
        <5> QED BY <2>1, <2>2, <4>2, <4>4, <5>1
      <4> QED BY <4>3, <4>4
    <3> QED BY <1>2, <2>1, <2>2, <3>1, <3>2
  <2>4. \A i \in 1..Len(attempts') :
          /\ attempts'[i].attempt = IF i <= requests THEN i ELSE requests
          /\ attempts'[i].decision = "RETRY_ALLOWED" <=> i < requests
    BY <2>3
  <2> QED BY <1>2, <1>5, <2>1, <2>3, <2>4, EndStep
<1>8. CASE attempt # MaxAttempts /\ ~(t + delay[attempt] >= Budget)
  <2>1. /\ phase' = "asleep" /\ deadline' = t + delay[attempt] /\ attempts' = more
        /\ result' = result /\ result = "NONE"
    BY <1>1, <1>8 DEF Retry, more, LoopConsistent
  <2>2. attempt < MaxAttempts /\ deadline' \in Nat /\ deadline' <= Budget
    <3>1. attempt < MaxAttempts /\ attempt \in DOMAIN Backoff
      BY <1>2, <1>8, AttemptAssumption
    <3>2. delay[attempt] \in Nat
      BY <3>1
    <3> QED BY <1>5, <1>8, <2>1, <3>1, <3>2, AttemptAssumption
  <2>3. LoopTypeOK'
    BY <1>1, <1>2, <1>3, <1>5, <2>1, <2>2 DEF LoopTypeOK
  <2>4. RecordedAreRequested' /\ AnnouncedRetriesHappen'
    BY <2>1, <2>3 DEF RecordedAreRequested, AnnouncedRetriesHappen, Completed
  <2>5. DOMAIN more = 1..Len(more)
    BY <1>3, LenProperties
  <2>6. RecordsAreTheirOwn'
    BY <1>2, <1>4, <2>1, <2>5 DEF RecordsAreTheirOwn, Own
  <2>7. LoopConsistent'
    <3>1. record.decision = "RETRY_ALLOWED"
      BY <2>2 DEF Pending
    <3>2. InOrder' /\ AllRetried'
      BY <1>2, <1>3, <1>4, <2>1, <3>1 DEF InOrder, AllRetried
    <3> QED BY <1>2, <1>3, <2>1, <2>2, <3>2 DEF LoopConsistent
  <2>8. InTime'
    BY <1>2, <1>5, <2>2 DEF InTime, OverInBudget
  <2> QED BY <2>4, <2>6, <2>7, <2>8 DEF LoopInv
<1> QED BY <1>6, <1>7, <1>8

\* The call ends with records of the last attempt that announce nothing.
LEMMA ConcludeKeeps ==
  ASSUME LoopInv, phase \in {"sent", "answered"}, NEW r \in Results, r # "CANCELLED",
         NEW n \in 1..2, NEW records \in Seq(Records), Len(records) = n,
         \A i \in 1..n : /\ records[i].attempt = attempt /\ Own(records[i])
                         /\ records[i].decision = "NONE",
         NEW t \in Until(deadline), Conclude(r, records, t)
  PROVE  LoopInv'
<1>1. LoopTypeOK /\ LoopConsistent /\ InTime /\ RecordsAreTheirOwn
  BY DEF LoopInv, RecordedAreRequested
<1>2. /\ requests = attempt /\ Len(attempts) = attempt - 1 /\ InOrder /\ AllRetried
      /\ attempts \in Seq(Records) /\ attempt \in 1..MaxAttempts /\ MaxAttempts \in Nat
      /\ elapsed' = t /\ phase' = "done" /\ result' = r /\ attempts' = attempts \o records
      /\ UNCHANGED <<attempt, deadline, response, retryAfter, requests, headers>>
  BY <1>1, AttemptAssumption DEF Conclude, Leave, LoopConsistent, LoopTypeOK
<1>3. t \in Nat /\ t <= Budget + Lag
  BY <1>1, AttemptAssumption DEF Until, LoopTypeOK, InTime
<1>4. /\ attempts' \in Seq(Records) /\ Len(attempts') = attempt - 1 + n
      /\ \A i \in 1..attempt - 1 + n :
           attempts'[i] = IF i <= attempt - 1 THEN attempts[i] ELSE records[i - (attempt - 1)]
  <2>1. /\ attempts \o records \in Seq(Records)
        /\ Len(attempts \o records) = Len(attempts) + Len(records)
        /\ \A i \in 1..Len(attempts) + Len(records) :
             (attempts \o records)[i] = IF i <= Len(attempts) THEN attempts[i]
                                        ELSE records[i - Len(attempts)]
    BY <1>2, ConcatProperties
  <2> QED BY <1>2, <2>1
<1>5. ASSUME NEW i \in 1..Len(attempts')
      PROVE  /\ attempts'[i].attempt = IF i <= requests THEN i ELSE requests
             /\ attempts'[i].decision = "RETRY_ALLOWED" <=> i < requests
             /\ Own(attempts'[i])
  <2>1. CASE i <= attempt - 1
    <3>1. i \in 1..Len(attempts) /\ attempts'[i] = attempts[i]
      BY <1>2, <1>4, <2>1
    <3>2. attempts[i].attempt = i /\ attempts[i].decision = "RETRY_ALLOWED" /\ Own(attempts[i])
      BY <1>1, <1>2, <3>1, RecordsOwn DEF InOrder, AllRetried
    <3> QED BY <1>2, <2>1, <3>1, <3>2
  <2>2. CASE i > attempt - 1
    <3>1. i - (attempt - 1) \in 1..n /\ attempts'[i] = records[i - (attempt - 1)] /\ i >= attempt
      BY <1>2, <1>4, <2>2
    <3>2. attempts'[i].attempt = attempt /\ attempts'[i].decision = "NONE" /\ Own(attempts'[i])
      BY <3>1
    <3>3. requests = attempt /\ attempt \in Nat /\ i \in Nat /\ ~(i < requests)
      BY <1>2, <1>4, <3>1
    <3>4. (IF i <= requests THEN i ELSE requests) = attempt
      BY <3>1, <3>3
    <3> QED BY <3>2, <3>3, <3>4
  <2>3. i <= attempt - 1 \/ i > attempt - 1
    <3>1. i \in Nat /\ attempt \in Nat
      BY <1>2, <1>4
    <3> QED BY <3>1
  <2> QED BY <2>1, <2>2, <2>3
<1>6. Len(attempts') >= requests /\ requests > 0
  <2>1. Len(attempts') = attempt - 1 + n
    BY <1>4
  <2>2. attempt \in Nat \ {0} /\ requests = attempt
    BY <1>2
  <2> QED BY <2>1, <2>2
<1>7. \A i \in 1..Len(attempts') : Own(attempts'[i])
  BY <1>5
<1>8. \A i \in 1..Len(attempts') :
        /\ attempts'[i].attempt = IF i <= requests THEN i ELSE requests
        /\ attempts'[i].decision = "RETRY_ALLOWED" <=> i < requests
  BY <1>5
<1> QED BY <1>2, <1>3, <1>4, <1>6, <1>7, <1>8, EndStep

\* The call is cancelled: what was on record stays so.
LEMMA CancelKeeps == ASSUME LoopInv, NEW t \in Until(deadline), Cancel(t) PROVE LoopInv'
<1>1. LoopTypeOK /\ LoopConsistent /\ InTime /\ RecordsAreTheirOwn
  BY DEF LoopInv, RecordedAreRequested
<1>2. /\ phase \in {"sent", "answered", "asleep"}
      /\ elapsed' = t /\ phase' = "done" /\ result' = "CANCELLED" /\ attempts' = attempts
      /\ UNCHANGED <<attempt, deadline, response, retryAfter, requests, headers>>
      /\ attempts \in Seq(Records)
  BY <1>1, ConcatEmptySeq DEF Cancel, Conclude, Leave, LoopTypeOK
<1>3. t \in Nat /\ t <= Budget + Lag
  BY <1>1, <1>2, AttemptAssumption DEF Until, LoopTypeOK, InTime
<1>4. \A i \in 1..Len(attempts') : Own(attempts'[i])
  BY <1>1, <1>2, RecordsOwn
<1>5. result' \in Results
  BY <1>2 DEF Results
<1> QED BY <1>2, <1>3, <1>4, <1>5, EndStep

\* The sleep is over: the retry that was announced is next.
LEMMA WakeKeeps == ASSUME LoopInv, NEW t \in Until(deadline), Wake(t) PROVE LoopInv'
<1>1. LoopTypeOK /\ LoopConsistent /\ InTime /\ RecordsAreTheirOwn
  BY DEF LoopInv, RecordedAreRequested
<1>2. /\ phase = "asleep" /\ phase' = "top" /\ elapsed' = t /\ attempt' = attempt + 1
      /\ attempt < MaxAttempts /\ requests = attempt /\ Len(attempts) = attempt
      /\ UNCHANGED <<deadline, response, retryAfter, attempts, result, requests, headers>>
  BY <1>1 DEF Wake, LoopConsistent
<1>3. t \in Nat /\ t <= Budget + Lag
  BY <1>1, <1>2, AttemptAssumption DEF Until, LoopTypeOK, InTime
<1>4. LoopTypeOK'
  BY <1>1, <1>2, <1>3, AttemptAssumption DEF LoopTypeOK
<1>5. RecordedAreRequested' /\ AnnouncedRetriesHappen' /\ RecordsAreTheirOwn'
  BY <1>1, <1>2, <1>4 DEF RecordedAreRequested, AnnouncedRetriesHappen, Completed, RecordsAreTheirOwn
<1>6. LoopConsistent'
  BY <1>1, <1>2 DEF LoopConsistent, LoopTypeOK, InOrder, AllRetried
<1>7. InTime'
  BY <1>2, <1>3 DEF InTime, OverInBudget
<1> QED BY <1>5, <1>6, <1>7 DEF LoopInv

\* Each way in which an attempt can fail or end.
LEMMA AttemptEnds ==
  ASSUME LoopInv, NEW t \in Until(deadline),
         TimedOut(t) \/ Broken(t) \/ Unavailable(t) \/ Refuse(t) \/ Succeed(t) \/ Malformed(t)
  PROVE  LoopInv'
<1>1. Pending \in {"NONE", "RETRY_ALLOWED", "RETRY_BLOCKED"}
  BY DEF Pending
<1>2. Advised \in [DOMAIN Backoff -> Nat] /\ Backoff \in [DOMAIN Backoff -> Nat]
  BY AttemptAssumption DEF Advised, LoopInv, RecordedAreRequested, LoopTypeOK
<1>3. CASE TimedOut(t)
  BY <1>1, <1>2, <1>3, NewRecord, RetryKeeps DEF TimedOut, Results
<1>4. CASE Broken(t)
  BY <1>1, <1>2, <1>4, NewRecord, RetryKeeps DEF Broken, Results
<1>5. CASE Unavailable(t)
  BY <1>1, <1>2, <1>5, NewRecord, RetryKeeps DEF Unavailable, Results
<1> DEFINE record == Record("RESPONSE_RECEIVED", NoAdvice, "NONE")
<1>6. phase = "answered" => /\ record \in Records /\ record.attempt = attempt
                            /\ record.decision = "NONE" /\ Own(record)
  BY NewRecord
<1>7. CASE Refuse(t) \/ Succeed(t)
  <2>1. phase = "answered" /\ (Conclude("REFUSED", <<record>>, t) \/ Conclude("OUTCOME", <<record>>, t))
    BY <1>7 DEF Refuse, Succeed
  <2> HIDE DEF record
  <2>2. /\ <<record>> \in Seq(Records) /\ Len(<<record>>) = 1 /\ 1 \in 1..2
        /\ \A i \in 1..1 : /\ <<record>>[i].attempt = attempt /\ Own(<<record>>[i])
                            /\ <<record>>[i].decision = "NONE"
    BY <1>6, <2>1
  <2> QED BY <2>1, <2>2, ConcludeKeeps DEF Results
<1>8. CASE Malformed(t)
  <2>1. phase = "answered" /\ Conclude("MALFORMED_RESPONSE", <<record, record>>, t)
    BY <1>8 DEF Malformed
  <2> HIDE DEF record
  <2>2. /\ <<record, record>> \in Seq(Records) /\ Len(<<record, record>>) = 2 /\ 2 \in 1..2
        /\ \A i \in 1..2 : /\ <<record, record>>[i].attempt = attempt /\ Own(<<record, record>>[i])
                            /\ <<record, record>>[i].decision = "NONE"
    BY <1>6, <2>1
  <2> QED BY <2>1, <2>2, ConcludeKeeps DEF Results
<1> QED BY <1>3, <1>4, <1>5, <1>7, <1>8

\* Every step keeps the invariant.
LEMMA LoopNextInv == LoopInv /\ [LoopNext]_loopVars => LoopInv'
<1> SUFFICES ASSUME LoopInv, [LoopNext]_loopVars PROVE LoopInv'
  OBVIOUS
<1>1. CASE UNCHANGED loopVars
  BY <1>1 DEF loopVars, LoopInv, RecordedAreRequested, LoopTypeOK, Completed, RecordsAreTheirOwn,
              AnnouncedRetriesHappen, LoopConsistent, InOrder, AllRetried, InTime, OverInBudget
<1>2. CASE Start
  BY <1>2, StartKeeps
<1>3. CASE Exhausted
  BY <1>3, ExhaustedKeeps
<1>4. CASE \E kind \in Responses, advice \in Advices \cup {NoAdvice}, t \in elapsed..deadline :
             Headers(kind, advice, t)
  BY <1>4, HeadersKeeps
<1>5. CASE \E t \in Until(deadline) : \/ TimedOut(t) \/ Broken(t) \/ Unavailable(t)
                                      \/ Refuse(t) \/ Succeed(t) \/ Malformed(t)
  BY <1>5, AttemptEnds
<1>6. CASE \E t \in Until(deadline) : Wake(t)
  BY <1>6, WakeKeeps
<1>7. CASE \E t \in Until(deadline) : Cancel(t)
  BY <1>7, CancelKeeps
<1> QED BY <1>1, <1>2, <1>3, <1>4, <1>5, <1>6, <1>7 DEF LoopNext

\* The invariant holds in every execution.
LEMMA LoopInvariance == LoopSpec => []LoopInv
BY LoopInitInv, LoopNextInv, PTL DEF LoopSpec

\* Whatever fails and however late, a call that is over has a record of every request that
\* entered the transport, and of no other.
THEOREM RequestsOnRecord == LoopSpec => []RecordedAreRequested
<1>1. LoopInv => RecordedAreRequested
  BY DEF LoopInv
<1> QED BY <1>1, LoopInvariance, PTL

\* A record tells of its own attempt only: nothing of an earlier one is left in it.
THEOREM RecordsTellTheirOwn == LoopSpec => []RecordsAreTheirOwn
<1>1. LoopInv => RecordsAreTheirOwn
  BY DEF LoopInv
<1> QED BY <1>1, LoopInvariance, PTL

\* A record announces a retry exactly if another request followed.
THEOREM AnnouncedAreMade == LoopSpec => []AnnouncedRetriesHappen
<1>1. LoopInv => AnnouncedRetriesHappen
  BY DEF LoopInv
<1> QED BY <1>1, LoopInvariance, PTL

\* The call is over within its budget, but for the lateness of one timer.
THEOREM EndsInBudget == LoopSpec => []OverInBudget
<1>1. LoopInv => OverInBudget
  BY DEF LoopInv, InTime
<1> QED BY <1>1, LoopInvariance, PTL
===============================================================================
