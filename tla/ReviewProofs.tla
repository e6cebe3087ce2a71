------------------------------- MODULE ReviewProofs -------------------------------
(*****************************************************************************)
(* Theorems about what a reviewer's decision goes through, for any number of *)
(* owners, operations, awards and queries, and of workflows, units and       *)
(* positions.                                                                *)
(*                                                                           *)
(* ReviewStore and WriteGateway: an award has one open intent at most        *)
(* (OneOpen), and the row of an operation is as far as its call is (Told).   *)
(*                                                                           *)
(* BundleWorkflow and CohortWorkflow: a bundle's state tells how far its     *)
(* units are (Sound); an operation keeps that and only continues the history *)
(* (Continues); and the cohort remembers, in order, bundles that are final.  *)
(*****************************************************************************)
EXTENDS WriteGateway, CohortWorkflow, SequenceTheorems, TLAPS

\* An award has one open intent at most: the lock of the whole protocol.
OneOpen == \A o, p \in Reserved :
             /\ intents[o].custody = "OPEN" /\ intents[p].custody = "OPEN"
             /\ AwardOf(o) = AwardOf(p)
             => o = p

\* The row of an operation is as far as its call is.
RowMatches(o) ==
  /\ call[o].at \in {"new", "permitted"} => o \notin Reserved
  /\ call[o].at \in {"reserved", "open", "entered"} =>
       o \in Reserved /\ intents[o].custody = "OPEN" /\ ~intents[o].receipt
  /\ call[o].at = "attempted" =>
       /\ o \in Reserved /\ intents[o].custody = "OPEN" /\ ~intents[o].receipt
       /\ intents[o].attempted
  /\ call[o].at \in {"mutated", "committed"} =>
       o \in Reserved /\ intents[o].custody = "OPEN" /\ intents[o].receipt
  /\ call[o].at = "closed" =>
       o \in Reserved /\ intents[o].custody = "CLOSED" /\ intents[o].receipt

ResponseTrue(o) ==
  LET response == call[o].response IN
  /\ response.custody = "CLOSED" => o \in Committed /\ intents[o].custody = "CLOSED"
  /\ response.custody = "OPEN" => o \in Reserved /\ intents[o].custody = "OPEN"
  /\ response.custody = "NOT_OPENED" => o \notin Reserved
  /\ response.transaction = "COMMITTED" => o \in notes
  /\ response.transaction = "NOT_DISPATCHED" => o \notin notes

Told(o) == /\ RowMatches(o) /\ ResponseTrue(o)
           /\ call[o].at # "ended" => call[o].response = NoResponse

StoreInv == StoreTypeOK /\ Valid /\ OneOpen
GatewayInv == TypeOK /\ StoreInv /\ \A o \in Operations : Told(o)

\* What a step on behalf of one operation leaves alone.
SameRow(p) == /\ p \in Reserved' <=> p \in Reserved
              /\ p \in Reserved => intents'[p] = intents[p]
              /\ p \in notes' <=> p \in notes
-------------------------------------------------------------------------------
\* The awards of queries and rows are awards, and versions are numbers.
LEMMA AwardsAreAwards ==
  ASSUME StoreTypeOK
  PROVE  /\ \A q \in Queries : q.award \in Awards /\ q.version \in Nat
         /\ \A o \in Reserved : AwardOf(o) \in Awards /\ intents[o] \in Intent
         /\ \A a \in Awards : version[a] \in Nat
BY QueryAssumption DEF StoreTypeOK, Intent, AwardOf

\* An intent is reserved on an award that nothing is open on and nothing was done to.
LEMMA ReserveStore ==
  ASSUME StoreInv, NEW o \in Operations, NEW q \in Queries, NEW outcome \in Outcomes,
         Reserve(o, q, outcome)
  PROVE  /\ StoreInv' /\ \A p \in Operations \ {o} : SameRow(p)
         /\ version' = version /\ notes' = notes /\ o \notin Reserved /\ Available(q)
         /\ outcome = "ok" => o \in Reserved' /\ intents'[o].custody = "OPEN" /\ ~intents'[o].receipt
<1> DEFINE row == [query |-> q, custody |-> "OPEN", attempted |-> FALSE, receipt |-> FALSE]
<1>1. CanReserve(o, q) /\ UNCHANGED <<version, notes>>
  BY DEF Reserve
<1>2. CASE outcome = "lost"
  BY <1>1, <1>2 DEF Reserve, CanReserve, StoreInv, StoreTypeOK, Valid, OneOpen, SameRow, Reserved,
                    Committed, AwardOf
<1>3. CASE outcome # "lost"
  <2>1. intents' = [p \in Reserved \cup {o} |-> IF p = o THEN row ELSE intents[p]]
    BY <1>3 DEF Reserve
  <2>2. /\ Reserved' = Reserved \cup {o} /\ o \notin Reserved
        /\ intents'[o] = row
        /\ \A p \in Reserved : intents'[p] = intents[p]
    BY <1>1, <2>1 DEF Reserved, CanReserve
  <2>3. row \in Intent
    BY DEF Intent
  <2>4. StoreTypeOK'
    BY <1>1, <2>2, <2>3 DEF StoreInv, StoreTypeOK
  <2>5. Committed' = Committed /\ (AwardOf(o))' = q.award /\ \A p \in Reserved : (AwardOf(p))' = AwardOf(p)
    BY <2>2 DEF Committed, AwardOf
  <2>6. \A p \in Committed : AwardOf(p) # q.award
    BY <1>1, AwardsAreAwards DEF StoreInv, Valid, CanReserve, Available
  <2>7. Valid'
    BY <1>1, <2>2, <2>5, <2>6 DEF StoreInv, Valid, Committed
  <2>8. OneOpen'
    BY <1>1, <2>2, <2>5 DEF StoreInv, OneOpen, CanReserve, Available
  <2>9. \A p \in Operations \ {o} : SameRow(p)
    BY <1>1, <2>2 DEF SameRow
  <2> QED BY <1>1, <2>2, <2>4, <2>7, <2>8, <2>9 DEF StoreInv, CanReserve
<1> QED BY <1>2, <1>3

\* Changing one row without its query.
LEMMA AmendStore ==
  ASSUME StoreInv, NEW o \in Reserved, NEW row \in Intent, row.query = intents[o].query, Amend(o, row)
  PROVE  /\ Reserved' = Reserved /\ intents'[o] = row
         /\ \A p \in Reserved \ {o} : intents'[p] = intents[p]
         /\ \A p \in Reserved : (AwardOf(p))' = AwardOf(p)
         /\ StoreTypeOK /\ version' \in [Awards -> Nat] /\ notes' \subseteq Operations => StoreTypeOK'
<1>1. /\ Reserved' = Reserved /\ intents'[o] = row
      /\ \A p \in Reserved \ {o} : intents'[p] = intents[p]
  BY DEF Amend, Reserved
<1> QED BY <1>1 DEF StoreInv, StoreTypeOK, AwardOf

\* The attempt is on record, nothing else changes.
LEMMA StartStore ==
  ASSUME StoreInv, NEW o \in Operations, NEW outcome \in Outcomes, StartAttempt(o, outcome)
  PROVE  /\ StoreInv' /\ \A p \in Operations \ {o} : SameRow(p)
         /\ version' = version /\ notes' = notes /\ Reserved' = Reserved /\ o \in Reserved
         /\ intents'[o].custody = "OPEN" /\ ~intents'[o].receipt
         /\ outcome = "ok" => intents'[o].attempted
<1> DEFINE row == [intents[o] EXCEPT !.attempted = TRUE]
<1>1. CanStart(o) /\ UNCHANGED <<version, notes>>
  BY DEF StartAttempt
<1>2. CASE outcome = "lost"
  BY <1>1, <1>2 DEF StartAttempt, CanStart, StoreInv, StoreTypeOK, Valid, OneOpen, SameRow, Reserved,
                    Committed, AwardOf
<1>3. CASE outcome # "lost"
  <2>1. o \in Reserved /\ intents[o] \in Intent /\ Amend(o, row)
    BY <1>1, <1>3 DEF StartAttempt, CanStart, StoreInv, StoreTypeOK
  <2>2. /\ row \in Intent /\ row.query = intents[o].query /\ row.attempted
        /\ row.custody = "OPEN" /\ ~row.receipt
    BY <1>1, <2>1 DEF Intent, CanStart
  <2> HIDE DEF row
  <2>3. /\ Reserved' = Reserved /\ intents'[o] = row /\ StoreTypeOK'
        /\ \A p \in Reserved \ {o} : intents'[p] = intents[p]
        /\ \A p \in Reserved : (AwardOf(p))' = AwardOf(p)
    BY <1>1, <2>1, <2>2, AmendStore DEF StoreInv, StoreTypeOK
  <2>4. Committed' = Committed
    BY <1>1, <2>2, <2>3 DEF Committed, CanStart
  <2>5. Valid'
    <3>1. \A p \in Reserved' :
            \/ ~intents'[p].receipt /\ intents'[p].custody = "OPEN"
            \/ intents'[p].receipt /\ intents'[p].attempted /\ intents'[p].query.version = 0
      BY <2>2, <2>3 DEF StoreInv, Valid
    <3>2. \A p \in Committed : p \in Reserved
      BY DEF Committed
    <3> QED BY <1>1, <2>3, <2>4, <3>1, <3>2 DEF StoreInv, Valid
  <2>6. OneOpen'
    BY <1>1, <2>3 DEF StoreInv, OneOpen, CanStart
  <2>7. \A p \in Operations \ {o} : SameRow(p)
    BY <1>1, <2>3 DEF SameRow
  <2> QED BY <1>1, <2>1, <2>2, <2>3, <2>5, <2>6, <2>7 DEF StoreInv
<1> QED BY <1>2, <1>3

\* The mutation: the one open intent of its award becomes its one receipt.
LEMMA MutateStore ==
  ASSUME StoreInv, NEW o \in Operations, NEW outcome \in Outcomes, Mutate(o, outcome),
         o \in Reserved, intents[o].custody = "OPEN", ~intents[o].receipt, intents[o].attempted
  PROVE  /\ StoreInv' /\ \A p \in Operations \ {o} : SameRow(p)
         /\ Reserved' = Reserved /\ intents'[o].custody = "OPEN"
         /\ \A a \in Awards : a # AwardOf(o) => version'[a] = version[a]
         /\ outcome = "ok" => intents'[o].receipt
<1> DEFINE row == [intents[o] EXCEPT !.receipt = TRUE]
<1>1. CanMutate(o) /\ AwardOf(o) \in Awards /\ intents[o] \in Intent
  BY AwardsAreAwards DEF Mutate, StoreInv
<1>2. CASE outcome = "lost"
  BY <1>1, <1>2 DEF Mutate, store, StoreInv, StoreTypeOK, Valid, OneOpen, SameRow, Reserved,
                    Committed, AwardOf
<1>3. CASE outcome # "lost"
  <2>1. /\ Amend(o, row) /\ version' = [version EXCEPT ![AwardOf(o)] = @ + 1]
        /\ notes' = notes \cup {o}
    BY <1>3 DEF Mutate
  <2>2. /\ row \in Intent /\ row.query = intents[o].query /\ row.attempted
        /\ row.custody = "OPEN" /\ row.receipt
    BY <1>1 DEF Intent
  <2> HIDE DEF row
  <2>3. /\ version' = [version EXCEPT ![AwardOf(o)] = 1] /\ version[AwardOf(o)] = 0
        /\ version \in [Awards -> Nat]
    BY <1>1, <2>1 DEF CanMutate, StoreInv, StoreTypeOK
  <2>4. version' \in [Awards -> Nat] /\ notes' \subseteq Operations
    <3>1. version' \in [Awards -> Nat]
      BY <2>3
    <3> QED BY <2>1, <3>1 DEF StoreInv, StoreTypeOK
  <2>5. /\ Reserved' = Reserved /\ intents'[o] = row /\ StoreTypeOK'
        /\ \A p \in Reserved \ {o} : intents'[p] = intents[p]
        /\ \A p \in Reserved : (AwardOf(p))' = AwardOf(p)
    BY <2>1, <2>2, <2>4, AmendStore DEF StoreInv
  <2>6. Committed' = Committed \cup {o} /\ o \notin Committed
    BY <2>2, <2>5 DEF Committed
  <2>7. \A p \in Committed : AwardOf(p) # AwardOf(o)
    BY <1>1, <2>3 DEF StoreInv, Valid
  <2>8. \A p \in Reserved \ Committed : p # o => AwardOf(p) # AwardOf(o)
    BY DEF StoreInv, Valid, OneOpen, Committed
  <2>9. Valid'
    <3>1. \A p \in Reserved' :
            \/ ~intents'[p].receipt /\ intents'[p].custody = "OPEN"
            \/ intents'[p].receipt /\ intents'[p].attempted /\ intents'[p].query.version = 0
      <4>1. /\ intents'[o].receipt /\ intents'[o].attempted
            /\ intents'[o].query.version = 0
        BY <1>1, <2>2, <2>5 DEF CanMutate
      <4>2. \A p \in Reserved :
              \/ ~intents[p].receipt /\ intents[p].custody = "OPEN"
              \/ intents[p].receipt /\ intents[p].attempted /\ intents[p].query.version = 0
        BY DEF StoreInv, Valid
      <4>3. \A p \in Reserved \ {o} :
              \/ ~intents'[p].receipt /\ intents'[p].custody = "OPEN"
              \/ intents'[p].receipt /\ intents'[p].attempted /\ intents'[p].query.version = 0
        BY <2>5, <4>2
      <4> QED BY <2>5, <4>1, <4>3
    <3>2. \A p, r \in Committed' : (AwardOf(p))' = (AwardOf(r))' => p = r
      BY <2>5, <2>6, <2>7 DEF StoreInv, Valid, Committed
    <3>3. notes' = Committed'
      BY <2>1, <2>6 DEF StoreInv, Valid
    <3>4. \A p \in Reserved' \ Committed', n \in notes' : (AwardOf(p))' # (AwardOf(n))'
      BY <2>1, <2>5, <2>6, <2>8 DEF StoreInv, Valid, Committed
    <3>5. \A a \in Awards : version'[a] = IF \E p \in Committed' : (AwardOf(p))' = a THEN 1 ELSE 0
      <4>1. \A p \in Committed' : p \in Reserved
        BY <2>5 DEF Committed
      <4>2. \A a \in Awards : (\E p \in Committed' : (AwardOf(p))' = a)
                               <=> a = AwardOf(o) \/ \E p \in Committed : AwardOf(p) = a
        BY <2>5, <2>6, <4>1
      <4> QED BY <2>3, <4>2 DEF StoreInv, Valid
    <3> QED BY <3>1, <3>2, <3>3, <3>4, <3>5 DEF Valid
  <2>10. OneOpen'
    BY <2>5 DEF StoreInv, OneOpen
  <2>11. \A p \in Operations \ {o} : SameRow(p)
    BY <2>1, <2>5 DEF SameRow
  <2> QED BY <2>2, <2>3, <2>5, <2>9, <2>10, <2>11 DEF StoreInv
<1> QED BY <1>2, <1>3

\* A receipt is acknowledged: its intent is closed.
LEMMA AcknowledgeStore ==
  ASSUME StoreInv, NEW o \in Operations, NEW outcome \in Outcomes, Acknowledge(o, outcome)
  PROVE  /\ StoreInv' /\ \A p \in Operations \ {o} : SameRow(p)
         /\ version' = version /\ notes' = notes /\ Reserved' = Reserved /\ o \in Reserved
         /\ intents'[o].receipt
         /\ outcome = "ok" => intents'[o].custody = "CLOSED"
<1> DEFINE row == [intents[o] EXCEPT !.custody = "CLOSED"]
<1>1. CanAcknowledge(o) /\ UNCHANGED <<version, notes>>
  BY DEF Acknowledge
<1>2. CASE outcome = "lost"
  BY <1>1, <1>2 DEF Acknowledge, CanAcknowledge, StoreInv, StoreTypeOK, Valid, OneOpen, SameRow,
                    Reserved, Committed, AwardOf
<1>3. CASE outcome # "lost"
  <2>1. /\ o \in Reserved /\ intents[o] \in Intent /\ intents[o].receipt /\ Amend(o, row)
        /\ intents[o].attempted /\ intents[o].query.version = 0
    BY <1>1, <1>3 DEF Acknowledge, CanAcknowledge, StoreInv, StoreTypeOK, Committed, Valid
  <2>2. /\ row \in Intent /\ row.query = intents[o].query /\ row.attempted
        /\ row.custody = "CLOSED" /\ row.receipt
    BY <2>1 DEF Intent
  <2> HIDE DEF row
  <2>3. /\ Reserved' = Reserved /\ intents'[o] = row /\ StoreTypeOK'
        /\ \A p \in Reserved \ {o} : intents'[p] = intents[p]
        /\ \A p \in Reserved : (AwardOf(p))' = AwardOf(p)
    BY <1>1, <2>1, <2>2, AmendStore DEF StoreInv, StoreTypeOK
  <2>4. Committed' = Committed
    BY <2>1, <2>2, <2>3 DEF Committed
  <2>5. Valid'
    BY <1>1, <2>1, <2>2, <2>3, <2>4 DEF StoreInv, Valid, Committed
  <2>6. OneOpen'
    BY <2>2, <2>3 DEF StoreInv, OneOpen
  <2>7. \A p \in Operations \ {o} : SameRow(p)
    BY <1>1, <2>3 DEF SameRow
  <2> QED BY <1>1, <2>1, <2>2, <2>3, <2>5, <2>6, <2>7 DEF StoreInv
<1> QED BY <1>2, <1>3
-------------------------------------------------------------------------------
\* A step on behalf of one operation, which leaves the others alone.
LEMMA OneCallStep ==
  ASSUME GatewayInv, TypeOK', StoreInv', NEW o \in Operations, Told(o)',
         \A p \in Operations \ {o} : SameRow(p) /\ call'[p] = call[p]
  PROVE  GatewayInv'
<1>1. ASSUME NEW p \in Operations \ {o} PROVE Told(p)'
  <2>1. Told(p) /\ SameRow(p) /\ call'[p] = call[p]
    BY DEF GatewayInv
  <2>2. RowMatches(p)'
    BY <2>1 DEF Told, SameRow, RowMatches
  <2>3. ResponseTrue(p)'
    BY <2>1 DEF Told, SameRow, ResponseTrue, Committed
  <2> QED BY <2>1, <2>2, <2>3 DEF Told
<1> QED BY <1>1 DEF GatewayInv

\* A store that is not changed.
LEMMA SameStore ==
  ASSUME UNCHANGED store
  PROVE  /\ StoreInv => StoreInv'
         /\ StoreTypeOK => StoreTypeOK'
         /\ \A p \in Operations : SameRow(p)
BY DEF store, StoreInv, StoreTypeOK, Valid, OneOpen, Committed, AwardOf, Reserved, SameRow

\* A call goes on, or is answered.
LEMMA AdvanceCall ==
  ASSUME TypeOK, NEW o \in Operations, NEW point \in Points, Advance(o, point)
  PROVE  /\ call' \in [Operations -> Calls] /\ call'[o].at = point
         /\ call'[o].response = call[o].response
         /\ \A p \in Operations \ {o} : call'[p] = call[p]
         /\ UNCHANGED <<alive, blocked, spent>>
BY DEF TypeOK, Advance, Calls

LEMMA RespondCall ==
  ASSUME TypeOK, NEW o \in Operations, NEW transaction \in {"NOT_DISPATCHED", "UNKNOWN", "COMMITTED"},
         NEW custody \in {"NOT_OPENED", "OPEN", "CLOSED", "UNKNOWN"}, Respond(o, transaction, custody)
  PROVE  /\ call' \in [Operations -> Calls] /\ call'[o].at = "ended"
         /\ call'[o].response.transaction = transaction /\ call'[o].response.custody = custody
         /\ \A p \in Operations \ {o} : call'[p] = call[p]
<1> DEFINE response == [transaction |-> transaction, custody |-> custody]
<1>1. response \in Response
  BY DEF Response
<1>2. call' = [call EXCEPT ![o].at = "ended", ![o].response = response]
  BY DEF Respond
<1> QED BY <1>1, <1>2 DEF TypeOK, Calls, Points

\* The owner stops, and what it reports of the call is true of the row it leaves.
LEMMA StopGatewayInv ==
  ASSUME GatewayInv, StoreInv', NEW o \in Operations, Stop(o),
         \A p \in Operations \ {o} : SameRow(p),
         ReportedCustody(call[o].at) = "OPEN" => o \in Reserved' /\ intents'[o].custody = "OPEN",
         ReportedTransaction(call[o].at) = "COMMITTED" => o \in notes',
         ReportedTransaction(call[o].at) = "NOT_DISPATCHED" => o \notin notes'
  PROVE  GatewayInv'
<1>1. PICK custody \in {ReportedCustody(call[o].at), "UNKNOWN"} :
        Respond(o, ReportedTransaction(call[o].at), custody)
  BY DEF Stop
<1>2. custody \in {"OPEN", "UNKNOWN"} /\ TypeOK
  BY DEF ReportedCustody, GatewayInv
<1>3. ReportedTransaction(call[o].at) \in {"NOT_DISPATCHED", "UNKNOWN", "COMMITTED"}
  BY DEF ReportedTransaction
<1>4. /\ call' \in [Operations -> Calls] /\ call'[o].at = "ended"
      /\ call'[o].response.transaction = ReportedTransaction(call[o].at)
      /\ call'[o].response.custody = custody
      /\ \A p \in Operations \ {o} : call'[p] = call[p]
  BY <1>1, <1>2, <1>3, RespondCall
<1>5. TypeOK'
  <2>1. call[o].owner \in Owners
    BY <1>2 DEF TypeOK, Calls
  <2> QED BY <1>2, <1>4, <2>1 DEF TypeOK, StoreInv, Stop
<1>6. Told(o)'
  BY <1>1, <1>2, <1>4 DEF Told, RowMatches, ResponseTrue, ReportedCustody
<1> QED BY <1>4, <1>5, <1>6, OneCallStep

\* A call goes on to a point that its row has reached.
LEMMA AdvanceGatewayInv ==
  ASSUME GatewayInv, StoreInv', NEW o \in Operations, NEW point \in Points \ {"ended"}, Advance(o, point),
         call[o].at # "ended", \A p \in Operations \ {o} : SameRow(p),
         RowMatches(o)'
  PROVE  GatewayInv'
<1>1. /\ call' \in [Operations -> Calls] /\ call'[o].at = point
      /\ call'[o].response = NoResponse
      /\ \A p \in Operations \ {o} : call'[p] = call[p]
      /\ UNCHANGED <<alive, blocked, spent>>
  BY AdvanceCall DEF GatewayInv, Told
<1>2. TypeOK'
  BY <1>1 DEF GatewayInv, TypeOK, StoreInv
<1>3. Told(o)'
  BY <1>1 DEF Told, ResponseTrue, NoResponse
<1> QED BY <1>1, <1>2, <1>3, OneCallStep

\* A call that is not dispatched ends without an intent.
LEMMA ProposeGatewayInv == ASSUME GatewayInv, NEW o \in Operations, Propose(o) PROVE GatewayInv'
<1>1. /\ UNCHANGED <<store, alive>> /\ call[o].at = "new" /\ TypeOK /\ call[o].owner \in Owners
      /\ call[o].query \in Queries
  BY DEF Propose, Owned, GatewayInv, TypeOK, Calls
<1>2. StoreInv' /\ \A p \in Operations : SameRow(p)
  BY <1>1, SameStore DEF GatewayInv
<1>3. o \notin Reserved /\ o \notin notes /\ call[o].response = NoResponse
  BY <1>1 DEF GatewayInv, Told, RowMatches, StoreInv, Valid, Committed
<1>4. o \notin Reserved' /\ o \notin notes'
  BY <1>2, <1>3 DEF SameRow
<1>5. ASSUME NEW custody \in {"NOT_OPENED", "UNKNOWN"}, Respond(o, "NOT_DISPATCHED", custody),
             blocked' \subseteq Owners, spent' = spent
      PROVE  GatewayInv'
  <2>1. /\ call' \in [Operations -> Calls] /\ call'[o].at = "ended"
        /\ call'[o].response.transaction = "NOT_DISPATCHED" /\ call'[o].response.custody = custody
        /\ \A p \in Operations \ {o} : call'[p] = call[p]
    BY <1>1, <1>5, RespondCall
  <2>2. TypeOK'
    BY <1>1, <1>2, <1>5, <2>1 DEF TypeOK, StoreInv
  <2>3. Told(o)'
    BY <1>4, <1>5, <2>1 DEF Told, RowMatches, ResponseTrue
  <2> QED BY <1>2, <2>1, <2>2, <2>3, OneCallStep
<1>6. CASE /\ spent' = [spent EXCEPT ![call[o].owner] = @ \cup {call[o].query}]
           /\ call' = [call EXCEPT ![o].at = "permitted"]
           /\ UNCHANGED blocked
  <2>1. /\ call' \in [Operations -> Calls] /\ call'[o].at = "permitted"
        /\ call'[o].response = NoResponse
        /\ \A p \in Operations \ {o} : call'[p] = call[p]
    BY <1>1, <1>3, <1>6 DEF TypeOK, Calls, Points
  <2>2. spent' \in [Owners -> SUBSET Queries]
    BY <1>1, <1>6 DEF TypeOK
  <2>3. TypeOK'
    BY <1>1, <1>2, <1>6, <2>1, <2>2 DEF TypeOK, StoreInv
  <2>4. Told(o)'
    BY <1>4, <2>1 DEF Told, RowMatches, ResponseTrue, NoResponse
  <2> QED BY <1>2, <2>1, <2>3, <2>4, OneCallStep
<1>7. blocked \subseteq Owners /\ blocked \cup {call[o].owner} \subseteq Owners
  BY <1>1 DEF TypeOK
<1> QED BY <1>1, <1>5, <1>6, <1>7 DEF Propose

\* The transactions of a call, acknowledged or not.
LEMMA ReserveGatewayInv ==
  ASSUME GatewayInv, NEW o \in Operations, NEW outcome \in Outcomes, CallReserve(o, outcome) PROVE GatewayInv'
<1>1. /\ call[o].at = "permitted" /\ call[o].query \in Queries
      /\ Reserve(o, call[o].query, outcome)
  BY DEF CallReserve, Transact, Owned, GatewayInv, TypeOK, Calls
<1>2. /\ StoreInv' /\ \A p \in Operations \ {o} : SameRow(p)
      /\ notes' = notes /\ o \notin Reserved
      /\ outcome = "ok" => o \in Reserved' /\ intents'[o].custody = "OPEN" /\ ~intents'[o].receipt
  BY <1>1, ReserveStore DEF GatewayInv
<1>3. CASE outcome = "ok"
  <2>1. Advance(o, "reserved")
    BY <1>3 DEF CallReserve, Transact
  <2>2. RowMatches(o)'
    BY <1>2, <1>3, <2>1, AdvanceCall DEF RowMatches, GatewayInv, Points
  <2> QED BY <1>1, <1>2, <2>1, <2>2, AdvanceGatewayInv DEF Points
<1>4. CASE outcome # "ok"
  <2>1. Stop(o)
    BY <1>4 DEF CallReserve, Transact
  <2>2. o \notin notes'
    BY <1>2 DEF GatewayInv, StoreInv, Valid, Committed
  <2> QED BY <1>1, <1>2, <2>1, <2>2, StopGatewayInv DEF ReportedCustody, ReportedTransaction
<1> QED BY <1>3, <1>4

LEMMA StartGatewayInv ==
  ASSUME GatewayInv, NEW o \in Operations, NEW outcome \in Outcomes, CallStart(o, outcome) PROVE GatewayInv'
<1>1. call[o].at = "entered" /\ StartAttempt(o, outcome)
  BY DEF CallStart, Transact, Owned
<1>2. /\ StoreInv' /\ \A p \in Operations \ {o} : SameRow(p)
      /\ Reserved' = Reserved /\ o \in Reserved
      /\ intents'[o].custody = "OPEN" /\ ~intents'[o].receipt
      /\ outcome = "ok" => intents'[o].attempted
  BY <1>1, StartStore DEF GatewayInv
<1>3. CASE outcome = "ok"
  <2>1. Advance(o, "attempted")
    BY <1>3 DEF CallStart, Transact
  <2>2. RowMatches(o)'
    BY <1>2, <1>3, <2>1, AdvanceCall DEF RowMatches, GatewayInv, Points
  <2> QED BY <1>1, <1>2, <2>1, <2>2, AdvanceGatewayInv DEF Points
<1>4. CASE outcome # "ok"
  <2>1. Stop(o)
    BY <1>4 DEF CallStart, Transact
  <2> QED BY <1>1, <1>2, <2>1, StopGatewayInv DEF ReportedCustody, ReportedTransaction
<1> QED BY <1>3, <1>4

LEMMA MutateGatewayInv ==
  ASSUME GatewayInv, NEW o \in Operations, NEW outcome \in Outcomes, CallMutate(o, outcome) PROVE GatewayInv'
<1>1. call[o].at = "attempted" /\ Mutate(o, outcome)
  BY DEF CallMutate, Transact, Owned
<1>2. o \in Reserved /\ intents[o].custody = "OPEN" /\ ~intents[o].receipt /\ intents[o].attempted
  BY <1>1 DEF GatewayInv, Told, RowMatches
<1>3. /\ StoreInv' /\ \A p \in Operations \ {o} : SameRow(p)
      /\ Reserved' = Reserved /\ intents'[o].custody = "OPEN"
      /\ outcome = "ok" => intents'[o].receipt
  BY <1>1, <1>2, MutateStore DEF GatewayInv
<1>4. CASE outcome = "ok"
  <2>1. Advance(o, "mutated")
    BY <1>4 DEF CallMutate, Transact
  <2>2. RowMatches(o)'
    BY <1>2, <1>3, <1>4, <2>1, AdvanceCall DEF RowMatches, GatewayInv, Points
  <2> QED BY <1>1, <1>3, <2>1, <2>2, AdvanceGatewayInv DEF Points
<1>5. CASE outcome # "ok"
  <2>1. Stop(o)
    BY <1>5 DEF CallMutate, Transact
  <2> QED BY <1>1, <1>2, <1>3, <2>1, StopGatewayInv DEF ReportedCustody, ReportedTransaction
<1> QED BY <1>4, <1>5

LEMMA AcknowledgeGatewayInv ==
  ASSUME GatewayInv, NEW o \in Operations, NEW outcome \in Outcomes, CallAcknowledge(o, outcome) PROVE GatewayInv'
<1>1. call[o].at = "committed" /\ Acknowledge(o, outcome)
  BY DEF CallAcknowledge, Transact, Owned
<1>2. /\ StoreInv' /\ \A p \in Operations \ {o} : SameRow(p)
      /\ Reserved' = Reserved /\ o \in Reserved /\ intents'[o].receipt
      /\ outcome = "ok" => intents'[o].custody = "CLOSED"
  BY <1>1, AcknowledgeStore DEF GatewayInv
<1>3. CASE outcome = "ok"
  <2>1. Advance(o, "closed")
    BY <1>3 DEF CallAcknowledge, Transact
  <2>2. RowMatches(o)'
    BY <1>2, <1>3, <2>1, AdvanceCall DEF RowMatches, GatewayInv, Points
  <2> QED BY <1>1, <1>2, <2>1, <2>2, AdvanceGatewayInv DEF Points
<1>4. CASE outcome # "ok"
  <2>1. Stop(o)
    BY <1>4 DEF CallAcknowledge, Transact
  <2>2. o \in notes'
    BY <1>2 DEF StoreInv, Valid, Committed
  <2> QED BY <1>1, <1>2, <2>1, <2>2, StopGatewayInv DEF ReportedCustody, ReportedTransaction
<1> QED BY <1>3, <1>4

\* Steps that read the store only.
LEMMA ReadGatewayInv ==
  ASSUME GatewayInv, NEW o \in Operations, Confirm(o) \/ Consume(o) \/ Verify(o) PROVE GatewayInv'
<1>1. UNCHANGED store
  BY DEF Confirm, Consume, Verify
<1>2. StoreInv' /\ \A p \in Operations : SameRow(p)
  BY <1>1, SameStore DEF GatewayInv
<1>3. /\ intents' = intents /\ Reserved' = Reserved /\ RowMatches(o) /\ TypeOK
  BY <1>1 DEF store, Reserved, GatewayInv, Told
<1>4. CASE Confirm(o)
  <2>1. call[o].at = "reserved" /\ Advance(o, "open")
    BY <1>4 DEF Confirm, Owned
  <2>2. RowMatches(o)'
    BY <1>3, <2>1, AdvanceCall DEF RowMatches, Points
  <2> QED BY <1>2, <2>1, <2>2, AdvanceGatewayInv DEF Points
<1>5. CASE Consume(o)
  <2>1. call[o].at = "open" /\ Advance(o, "entered")
    BY <1>5 DEF Consume, Owned
  <2>2. RowMatches(o)'
    BY <1>3, <2>1, AdvanceCall DEF RowMatches, Points
  <2> QED BY <1>2, <2>1, <2>2, AdvanceGatewayInv DEF Points
<1>6. CASE Verify(o)
  <2>1. call[o].at = "mutated" /\ Advance(o, "committed")
    BY <1>6 DEF Verify, Owned
  <2>2. RowMatches(o)'
    BY <1>3, <2>1, AdvanceCall DEF RowMatches, Points
  <2> QED BY <1>2, <2>1, <2>2, AdvanceGatewayInv DEF Points
<1> QED BY <1>4, <1>5, <1>6

\* A complete answer is of a closed intent with its receipt.
LEMMA CompleteGatewayInv == ASSUME GatewayInv, NEW o \in Operations, Complete(o) PROVE GatewayInv'
<1>1. /\ call[o].at = "closed" /\ Respond(o, "COMMITTED", "CLOSED") /\ TypeOK
      /\ UNCHANGED <<intents, version, notes, alive, blocked, spent>>
  BY DEF Complete, Owned, store, GatewayInv
<1>2. StoreInv' /\ \A p \in Operations : SameRow(p)
  BY <1>1, SameStore DEF GatewayInv, store
<1>3. /\ call' \in [Operations -> Calls] /\ call'[o].at = "ended"
      /\ call'[o].response.transaction = "COMMITTED" /\ call'[o].response.custody = "CLOSED"
      /\ \A p \in Operations \ {o} : call'[p] = call[p]
  BY <1>1, RespondCall
<1>4. o \in Committed' /\ o \in notes' /\ intents'[o].custody = "CLOSED"
  BY <1>1, <1>2 DEF GatewayInv, Told, RowMatches, StoreInv, Valid, Committed
<1>5. Told(o)'
  BY <1>3, <1>4 DEF Told, RowMatches, ResponseTrue
<1>6. TypeOK'
  BY <1>1, <1>2, <1>3 DEF TypeOK, StoreInv
<1> QED BY <1>2, <1>3, <1>5, <1>6, OneCallStep

\* A call fails between its transactions.
LEMMA FailGatewayInv == ASSUME GatewayInv, NEW o \in Operations, Fail(o) PROVE GatewayInv'
<1>1. UNCHANGED <<intents, notes>> /\ Stop(o) /\ Reserved' = Reserved
  BY DEF Fail, store, Reserved
<1>2. StoreInv' /\ \A p \in Operations : SameRow(p)
  BY SameStore DEF Fail, GatewayInv
<1>3. RowMatches(o) /\ call[o].at \in Points \ {"new", "ended"} /\ notes = Committed
  BY DEF GatewayInv, TypeOK, Calls, Told, Fail, Running, StoreInv, Valid
<1>4. ReportedCustody(call[o].at) = "OPEN" => o \in Reserved' /\ intents'[o].custody = "OPEN"
  BY <1>1, <1>3 DEF ReportedCustody, RowMatches
<1>5. ReportedTransaction(call[o].at) = "COMMITTED" => o \in notes'
  BY <1>1, <1>3 DEF ReportedTransaction, RowMatches, Committed
<1>6. ReportedTransaction(call[o].at) = "NOT_DISPATCHED" => o \notin notes'
  BY <1>1, <1>3 DEF ReportedTransaction, RowMatches, Committed, Points
<1> QED BY <1>1, <1>2, <1>4, <1>5, <1>6, StopGatewayInv

\* A process dies and answers nothing.
LEMMA CrashGatewayInv == ASSUME GatewayInv, NEW g \in Owners, Crash(g) PROVE GatewayInv'
<1>1. /\ alive' = alive \ {g} /\ UNCHANGED <<store, blocked, spent>> /\ TypeOK
      /\ call' = [o \in Operations |-> IF call[o].owner = g /\ Running(o)
                                       THEN [call[o] EXCEPT !.at = "ended"] ELSE call[o]]
  BY DEF Crash, GatewayInv
<1>2. StoreInv' /\ \A p \in Operations : SameRow(p)
  BY <1>1, SameStore DEF GatewayInv
<1>3. ASSUME NEW o \in Operations PROVE call'[o] \in Calls /\ Told(o)'
  <2>1. /\ call'[o] \in Calls /\ call'[o].response = call[o].response
        /\ call'[o].at = call[o].at \/ call'[o].at = "ended"
    BY <1>1 DEF TypeOK, Calls, Points
  <2>2. Told(o) /\ SameRow(o)
    BY <1>2 DEF GatewayInv
  <2>3. RowMatches(o)'
    BY <2>1, <2>2 DEF Told, SameRow, RowMatches
  <2>4. ResponseTrue(o)'
    BY <2>1, <2>2 DEF Told, SameRow, ResponseTrue, Committed
  <2> QED BY <2>1, <2>2, <2>3, <2>4 DEF Told
<1>4. TypeOK'
  BY <1>1, <1>2, <1>3 DEF TypeOK, StoreInv
<1> QED BY <1>2, <1>3, <1>4 DEF GatewayInv

\* An empty store, and calls that have not begun.
LEMMA InitGatewayInv == Init => GatewayInv
<1> SUFFICES ASSUME Init PROVE GatewayInv
  OBVIOUS
<1>1. /\ intents = << >> /\ version = [a \in Awards |-> 0] /\ notes = {}
      /\ alive = Owners /\ blocked = {} /\ spent = [g \in Owners |-> {}]
      /\ call \in [Operations -> {c \in Calls : c.at = "new" /\ c.response = NoResponse}]
  BY DEF Init, StoreInit
<1>2. Reserved = {} /\ Committed = {}
  BY <1>1 DEF Reserved, Committed
<1>3. StoreInv
  BY <1>1, <1>2 DEF StoreInv, StoreTypeOK, Valid, OneOpen
<1>4. TypeOK
  BY <1>1, <1>3 DEF TypeOK, StoreInv
<1>5. \A o \in Operations : Told(o)
  BY <1>1, <1>2 DEF Told, RowMatches, ResponseTrue, NoResponse
<1> QED BY <1>3, <1>4, <1>5 DEF GatewayInv

\* A step that changes nothing keeps the invariant.
LEMMA StutterGatewayInv == ASSUME GatewayInv, UNCHANGED vars PROVE GatewayInv'
<1>1. UNCHANGED <<store, intents, notes, alive, blocked, spent, call>>
  BY DEF vars, store
<1>2. StoreInv' /\ TypeOK'
  BY <1>1, SameStore DEF GatewayInv, TypeOK
<1>3. \A o \in Operations : Told(o)'
  BY <1>1 DEF GatewayInv, Told, RowMatches, ResponseTrue, Committed, Reserved
<1> QED BY <1>2, <1>3 DEF GatewayInv

\* Every step keeps the invariant.
LEMMA NextGatewayInv == GatewayInv /\ [Next]_vars => GatewayInv'
BY ProposeGatewayInv, ReserveGatewayInv, StartGatewayInv, MutateGatewayInv, AcknowledgeGatewayInv, ReadGatewayInv, CompleteGatewayInv,
   FailGatewayInv, CrashGatewayInv, StutterGatewayInv DEF Next

\* The invariant holds for good.
LEMMA GatewayInvariance == Spec => []GatewayInv
BY InitGatewayInv, NextGatewayInv, PTL DEF Spec
-------------------------------------------------------------------------------
\* No file comes about that _validate() refuses.
THEOREM FileIsValid == Spec => []StoreValid
<1>1. GatewayInv => StoreValid
  BY DEF GatewayInv, StoreInv, StoreValid
<1> QED BY GatewayInvariance, <1>1, PTL

\* What a response says of the store is true when it is given and ever after.
THEOREM ResponsesStayTrue == Spec => []ResponsesTrue
<1>1. GatewayInv => ResponsesTrue
  BY DEF GatewayInv, Told, ResponseTrue, ResponsesTrue
<1> QED BY GatewayInvariance, <1>1, PTL

\* Once a call has ended with its intent open, neither that intent nor its award changes.
THEOREM OpenIntentsFence == Spec => OpenIntentFences
<1> DEFINE Untouched(o) == /\ intents'[o] = intents[o]
                           /\ version'[AwardOf(o)] = version[AwardOf(o)]
<1>1. ASSUME GatewayInv, [Next]_vars, NEW o \in Operations, Fenced(o) PROVE Untouched(o)
  <2>1. /\ call[o].at = "ended" /\ o \in Reserved /\ intents[o].custody = "OPEN" /\ StoreInv
        /\ AwardOf(o) \in Awards
    BY <1>1, AwardsAreAwards DEF Fenced, GatewayInv, StoreInv
  <2>2. CASE UNCHANGED store
    BY <2>2 DEF store
  <2>3. ASSUME NEW p \in Operations, NEW outcome \in Outcomes, CallReserve(p, outcome)
        PROVE  Untouched(o)
    <3>1. /\ call[p].at = "permitted" /\ call[p].query \in Queries
          /\ Reserve(p, call[p].query, outcome)
      BY <1>1, <2>3 DEF CallReserve, Transact, Owned, GatewayInv, TypeOK, Calls
    <3>2. SameRow(o) /\ version' = version
      BY <2>1, <3>1, ReserveStore
    <3> QED BY <2>1, <3>2 DEF SameRow
  <2>4. ASSUME NEW p \in Operations, NEW outcome \in Outcomes, CallStart(p, outcome)
        PROVE  Untouched(o)
    <3>1. call[p].at = "entered" /\ StartAttempt(p, outcome)
      BY <2>4 DEF CallStart, Transact, Owned
    <3>2. SameRow(o) /\ version' = version
      BY <2>1, <3>1, StartStore
    <3> QED BY <2>1, <3>2 DEF SameRow
  <2>5. ASSUME NEW p \in Operations, NEW outcome \in Outcomes, CallMutate(p, outcome)
        PROVE  Untouched(o)
    <3>1. call[p].at = "attempted" /\ Mutate(p, outcome)
      BY <2>5 DEF CallMutate, Transact, Owned
    <3>2. p \in Reserved /\ intents[p].custody = "OPEN" /\ ~intents[p].receipt /\ intents[p].attempted
      BY <1>1, <3>1 DEF GatewayInv, Told, RowMatches
    <3>3. /\ SameRow(o)
          /\ \A a \in Awards : a # AwardOf(p) => version'[a] = version[a]
      BY <2>1, <3>1, <3>2, MutateStore
    <3>4. AwardOf(o) # AwardOf(p)
      BY <2>1, <3>1, <3>2 DEF StoreInv, OneOpen
    <3> QED BY <2>1, <3>3, <3>4 DEF SameRow
  <2>6. ASSUME NEW p \in Operations, NEW outcome \in Outcomes, CallAcknowledge(p, outcome)
        PROVE  Untouched(o)
    <3>1. call[p].at = "committed" /\ Acknowledge(p, outcome)
      BY <2>6 DEF CallAcknowledge, Transact, Owned
    <3>2. SameRow(o) /\ version' = version
      BY <2>1, <3>1, AcknowledgeStore
    <3> QED BY <2>1, <3>2 DEF SameRow
  <2>7. ASSUME NEW p \in Operations,
               \/ Propose(p) \/ Confirm(p) \/ Consume(p) \/ Verify(p) \/ Complete(p) \/ Fail(p)
        PROVE  UNCHANGED store
    BY <2>7 DEF Propose, Confirm, Consume, Verify, Complete, Fail
  <2>8. CASE (\E g \in Owners : Crash(g)) \/ UNCHANGED vars
    BY <2>2, <2>8 DEF Crash, vars
  <2> QED BY <1>1, <2>2, <2>3, <2>4, <2>5, <2>6, <2>7, <2>8 DEF Next
<1>2. GatewayInv /\ [Next]_vars =>
        [\A o \in Operations : Fenced(o) => /\ intents'[o] = intents[o]
                                            /\ version'[AwardOf(o)] = version[AwardOf(o)]]_vars
  BY <1>1
<1> QED BY GatewayInvariance, <1>2, PTL DEF Spec, OpenIntentFences
-------------------------------------------------------------------------------
Revealed == {"BUNDLE_MAPPING_REVEALED", "MECHANICAL_COMPARISON_RECORDED",
             "RATIONALE_ASSESSMENT_FIXED", "BUNDLE_CHARACTERIZATION_FIXED", DEFERRED}

\* How many units are released, coded and closed in each state: all are closed but
\* the one at hand, which may be coded already.
UnitByUnit(w) ==
  /\ \/ w.receipts = w.closures
     \/ \E c \in Codings : w.receipts = Append(w.closures, c)
  /\ w.state \in {"FROZEN", "ALIAS_COMMITMENT_FIXED", "UNIT_CLOSURE_VERIFIED"} =>
       w.receipts = w.closures /\ w.cards = Len(w.closures)
  /\ w.state = "UNIT_RELEASED" => w.receipts = w.closures /\ w.cards = Len(w.closures) + 1
  /\ w.state = "HUMAN_RECEIPT_FIXED" => /\ \E c \in Codings : w.receipts = Append(w.closures, c)
                                        /\ w.cards = Len(w.closures) + 1

\* The mapping is revealed after the last unit, and nothing is coded any more.
MappingLast(w) ==
  /\ w.state \in Revealed => w.mapping
  /\ w.mapping => /\ w.receipts = w.closures /\ Len(w.closures) = Units
                  /\ w.state \in Revealed \cup TERMINAL_STATES

AssessedAsCoded(w) == w.rationale # Unset => w.mapping /\ w.assessed = w.receipts

ClosedAsDone(w) ==
  /\ w.closure # NoClosure <=> w.state \in TERMINAL_STATES
  /\ w.state \in TERMINAL_STATES => /\ w.closure.receipts = w.receipts
                                    /\ w.closure.closures = w.closures
                                    /\ w.closure.mapping = w.mapping
  /\ w.state = INSUFFICIENT => /\ w.closure.mechanical = w.mechanical
                               /\ w.closure.rationale = w.rationale

Sound(w) == UnitByUnit(w) /\ MappingLast(w) /\ AssessedAsCoded(w) /\ ClosedAsDone(w)

\* What an operation may make of a bundle.
Continues(w, v) == /\ ~Final(w) /\ v.state # "FROZEN"
                   /\ IsExtension(w.receipts, v.receipts)
                   /\ IsExtension(w.closures, v.closures)
                   /\ w.mapping => v.receipts = w.receipts /\ v.closures = w.closures
-------------------------------------------------------------------------------
\* Codes are the sequences of at most Units codings, and an appended one extends them.
LEMMA CodesAreSequences ==
  /\ << >> \in Codes /\ Len(<< >>) = 0
  /\ \A s \in Codes : /\ s \in Seq(Codings) /\ Len(s) \in Nat /\ Len(s) <= Units
                      /\ SubSeq(s, 1, Len(s)) = s
  /\ \A s \in Codes, c \in Codings : /\ Len(s) < Units => Append(s, c) \in Codes
                                     /\ Len(Append(s, c)) = Len(s) + 1
                                     /\ Append(s, c)[Len(s) + 1] = c
                                     /\ SubSeq(Append(s, c), 1, Len(s)) = s
<1>0. Units \in Nat \ {0}
  BY BundleAssumption
<1>1. << >> \in Codes /\ Len(<< >>) = 0
  <2>1. << >> \in [1..0 -> Codings]
    OBVIOUS
  <2> QED BY <1>0, <2>1 DEF Codes
<1>2. ASSUME NEW s \in Codes
      PROVE  s \in Seq(Codings) /\ Len(s) \in Nat /\ Len(s) <= Units /\ SubSeq(s, 1, Len(s)) = s
  <2>1. PICK n \in 0..Units : s \in [1..n -> Codings]
    BY DEF Codes
  <2>2. s \in Seq(Codings) /\ Len(s) = n
    BY <1>0, <2>1
  <2>3. SubSeq(s, 1, Len(s)) = s
    BY <2>2, SubSeqFull
  <2> QED BY <1>0, <2>2, <2>3
<1>3. ASSUME NEW s \in Codes, NEW c \in Codings
      PROVE  /\ Len(s) < Units => Append(s, c) \in Codes
             /\ Len(Append(s, c)) = Len(s) + 1
             /\ Append(s, c)[Len(s) + 1] = c
             /\ SubSeq(Append(s, c), 1, Len(s)) = s
  <2>1. s \in Seq(Codings) /\ Len(s) \in Nat /\ <<c>> \in Seq(Codings)
    BY <1>2
  <2>2. Append(s, c) \in Seq(Codings) /\ Len(Append(s, c)) = Len(s) + 1 /\ Append(s, c)[Len(s) + 1] = c
    BY <2>1
  <2>3. Append(s, c) \in [1..(Len(s) + 1) -> Codings]
    <3>1. Append(s, c) \in [1..Len(Append(s, c)) -> Codings]
      BY <2>2, LenProperties
    <3> QED BY <3>1, <2>2
  <2>4. Len(s) < Units => Append(s, c) \in Codes
    BY <1>0, <2>1, <2>3 DEF Codes
  <2>5. SubSeq(Append(s, c), 1, Len(s)) = s
    <3>1. Append(s, c) = s \o <<c>>
      BY <2>1, AppendIsConcat
    <3>2. SubSeq(s \o <<c>>, 1, Len(s)) = SubSeq(s, 1, Len(s))
      BY <2>1, SubSeqOfConcat1
    <3> QED BY <3>1, <3>2, <1>2
  <2> QED BY <2>2, <2>4, <2>5
<1> QED BY <1>1, <1>2, <1>3

\* Every sequence extends itself, and an appended one extends what it was.
LEMMA Extensions ==
  ASSUME NEW s \in Codes
  PROVE  /\ IsExtension(s, s)
         /\ \A c \in Codings : IsExtension(s, Append(s, c))
BY CodesAreSequences DEF IsExtension

\* FixAliasCommitment: nothing is released yet.
LEMMA FixAliasCommitmentSound ==
  ASSUME NEW b \in Bundles, bundle \in [Bundles -> Workflows], Sound(bundle[b]),
         FixAliasCommitment(b)
  PROVE  \E v \in Workflows : Becomes(b, v) /\ Sound(v) /\ Continues(bundle[b], v)
<1> DEFINE w == bundle[b]
           v == [w EXCEPT !.state = "ALIAS_COMMITMENT_FIXED"]
<1>1. w \in Workflows /\ w.state = "FROZEN" /\ Becomes(b, v)
  BY DEF FixAliasCommitment, In
<1>2. v \in Workflows
  BY <1>1 DEF Workflows, States
<1>3. Sound(v)
  BY <1>1 DEF Workflows, Sound, UnitByUnit, MappingLast, AssessedAsCoded, ClosedAsDone,
              TERMINAL_STATES, CLOSED, INSUFFICIENT, DEFERRED, Revealed
<1>4. Continues(w, v)
  BY <1>1, Extensions DEF Workflows, Continues, Final, TERMINAL_STATES, CLOSED, INSUFFICIENT, DEFERRED
<1> QED BY <1>1, <1>2, <1>3, <1>4

\* ReleaseUnit: the next unit, when all before it are closed.
LEMMA ReleaseUnitSound ==
  ASSUME NEW b \in Bundles, bundle \in [Bundles -> Workflows], Sound(bundle[b]),
         ReleaseUnit(b)
  PROVE  \E v \in Workflows : Becomes(b, v) /\ Sound(v) /\ Continues(bundle[b], v)
<1> DEFINE w == bundle[b]
           v == [w EXCEPT !.state = "UNIT_RELEASED", !.cards = w.cards + 1]
<1>1. /\ w \in Workflows /\ w.state \in {"ALIAS_COMMITMENT_FIXED", "UNIT_CLOSURE_VERIFIED"}
      /\ w.cards < Units /\ Len(w.closures) = w.cards /\ Becomes(b, v)
  BY DEF ReleaseUnit
<1>2. v \in Workflows
  <2>1. w.cards \in 0..Units
    BY <1>1 DEF Workflows
  <2>2. w.cards + 1 \in 0..Units
    BY <1>1, <2>1, BundleAssumption
  <2> QED BY <1>1, <2>2 DEF Workflows, States
<1>3. Sound(v)
  BY <1>1 DEF Workflows, Sound, UnitByUnit, MappingLast, AssessedAsCoded, ClosedAsDone,
              TERMINAL_STATES, CLOSED, INSUFFICIENT, DEFERRED, Revealed
<1>4. Continues(w, v)
  BY <1>1, Extensions DEF Workflows, Continues, Final, TERMINAL_STATES, CLOSED, INSUFFICIENT, DEFERRED
<1> QED BY <1>1, <1>2, <1>3, <1>4

\* FixHumanReceipt: the unit released is coded, while the mapping is not known.
LEMMA FixHumanReceiptSound ==
  ASSUME NEW b \in Bundles, bundle \in [Bundles -> Workflows], Sound(bundle[b]),
         NEW coding \in Codings, FixHumanReceipt(b, coding)
  PROVE  \E v \in Workflows : Becomes(b, v) /\ Sound(v) /\ Continues(bundle[b], v)
<1> DEFINE w == bundle[b]
           v == [w EXCEPT !.state = "HUMAN_RECEIPT_FIXED", !.receipts = Append(@, coding)]
<1>1. w \in Workflows /\ w.state = "UNIT_RELEASED" /\ Becomes(b, v)
  BY DEF FixHumanReceipt, In
<1>2. w.receipts = w.closures /\ w.cards = Len(w.closures) + 1 /\ ~w.mapping
  BY <1>1 DEF Workflows, Sound, UnitByUnit, MappingLast, Revealed, TERMINAL_STATES, CLOSED,
              INSUFFICIENT, DEFERRED
<1>3. Append(w.receipts, coding) \in Codes
  BY <1>1, <1>2, CodesAreSequences, BundleAssumption DEF Workflows
<1>4. v \in Workflows
  BY <1>1, <1>3 DEF Workflows, States
<1>5. Sound(v)
  BY <1>1, <1>2 DEF Workflows, Sound, UnitByUnit, MappingLast, AssessedAsCoded, ClosedAsDone,
              TERMINAL_STATES, CLOSED, INSUFFICIENT, DEFERRED, Revealed
<1>6. Continues(w, v)
  BY <1>1, <1>2, Extensions DEF Workflows, Continues, Final, TERMINAL_STATES, CLOSED, INSUFFICIENT, DEFERRED
<1> QED BY <1>1, <1>4, <1>5, <1>6

\* VerifyUnitClosure: what the unit closure freezes is the coding of that unit.
LEMMA VerifyUnitClosureSound ==
  ASSUME NEW b \in Bundles, bundle \in [Bundles -> Workflows], Sound(bundle[b]),
         NEW coding \in Codings, VerifyUnitClosure(b, coding)
  PROVE  \E v \in Workflows : Becomes(b, v) /\ Sound(v) /\ Continues(bundle[b], v)
<1> DEFINE w == bundle[b]
           v == [w EXCEPT !.state = "UNIT_CLOSURE_VERIFIED", !.closures = Append(@, coding)]
<1>1. w \in Workflows /\ w.state = "HUMAN_RECEIPT_FIXED" /\ coding = w.receipts[Len(w.closures) + 1] /\ Becomes(b, v)
  BY DEF VerifyUnitClosure
<1>2. w.receipts = Append(w.closures, coding) /\ w.cards = Len(w.closures) + 1 /\ ~w.mapping
  <2>1. PICK c \in Codings : w.receipts = Append(w.closures, c)
    BY <1>1 DEF Sound, UnitByUnit
  <2>2. w.receipts[Len(w.closures) + 1] = c
    BY <1>1, <2>1, CodesAreSequences DEF Workflows
  <2>3. w.cards = Len(w.closures) + 1 /\ ~w.mapping
    BY <1>1 DEF Workflows, Sound, UnitByUnit, MappingLast, Revealed, TERMINAL_STATES, CLOSED,
                INSUFFICIENT, DEFERRED
  <2> QED BY <1>1, <2>1, <2>2, <2>3
<1>0. Len(Append(w.closures, coding)) = Len(w.closures) + 1
  BY <1>1, CodesAreSequences DEF Workflows
<1>3. v \in Workflows
  BY <1>1, <1>2 DEF Workflows, States
<1>4. Sound(v)
  BY <1>1, <1>2, <1>0 DEF Workflows, Sound, UnitByUnit, MappingLast, AssessedAsCoded, ClosedAsDone,
              TERMINAL_STATES, CLOSED, INSUFFICIENT, DEFERRED, Revealed
<1>5. Continues(w, v)
  BY <1>1, <1>2, <1>0, Extensions DEF Workflows, Continues, Final, TERMINAL_STATES, CLOSED, INSUFFICIENT, DEFERRED
<1> QED BY <1>1, <1>3, <1>4, <1>5

\* RevealMapping: after the last unit is closed.
LEMMA RevealMappingSound ==
  ASSUME NEW b \in Bundles, bundle \in [Bundles -> Workflows], Sound(bundle[b]),
         NEW receipts \in Codes, NEW closures \in Codes,
         RevealMapping(b, receipts, closures)
  PROVE  \E v \in Workflows : Becomes(b, v) /\ Sound(v) /\ Continues(bundle[b], v)
<1> DEFINE w == bundle[b]
           v == [w EXCEPT !.state = "BUNDLE_MAPPING_REVEALED", !.mapping = TRUE]
<1>1. w \in Workflows /\ w.state = "UNIT_CLOSURE_VERIFIED" /\ Len(w.closures) = Units /\ Becomes(b, v)
  BY DEF RevealMapping, AllUnitsClosed
<1>3. v \in Workflows
  BY <1>1 DEF Workflows, States
<1>4. Sound(v)
  BY <1>1 DEF Workflows, Sound, UnitByUnit, MappingLast, AssessedAsCoded, ClosedAsDone,
              TERMINAL_STATES, CLOSED, INSUFFICIENT, DEFERRED, Revealed
<1>5. Continues(w, v)
  BY <1>1, Extensions DEF Workflows, Continues, Final, TERMINAL_STATES, CLOSED, INSUFFICIENT, DEFERRED
<1> QED BY <1>1, <1>3, <1>4, <1>5

\* RecordMechanical: no unit is touched.
LEMMA RecordMechanicalSound ==
  ASSUME NEW b \in Bundles, bundle \in [Bundles -> Workflows], Sound(bundle[b]),
         NEW comparison \in Comparisons, RecordMechanical(b, comparison)
  PROVE  \E v \in Workflows : Becomes(b, v) /\ Sound(v) /\ Continues(bundle[b], v)
<1> DEFINE w == bundle[b]
           v == [w EXCEPT !.state = "MECHANICAL_COMPARISON_RECORDED", !.mechanical = comparison]
<1>1. w \in Workflows /\ w.state = "BUNDLE_MAPPING_REVEALED" /\ Becomes(b, v)
  BY DEF RecordMechanical, In
<1>3. v \in Workflows
  BY <1>1 DEF Workflows, States
<1>4. Sound(v)
  BY <1>1 DEF Workflows, Sound, UnitByUnit, MappingLast, AssessedAsCoded, ClosedAsDone,
              TERMINAL_STATES, CLOSED, INSUFFICIENT, DEFERRED, Revealed
<1>5. Continues(w, v)
  BY <1>1, Extensions DEF Workflows, Continues, Final, TERMINAL_STATES, CLOSED, INSUFFICIENT, DEFERRED
<1> QED BY <1>1, <1>3, <1>4, <1>5

\* FixRationaleAssessment: the codings assessed are the receipts.
LEMMA FixRationaleAssessmentSound ==
  ASSUME NEW b \in Bundles, bundle \in [Bundles -> Workflows], Sound(bundle[b]),
         NEW coding \in Codes, NEW variation \in Variations,
         FixRationaleAssessment(b, coding, variation)
  PROVE  \E v \in Workflows : Becomes(b, v) /\ Sound(v) /\ Continues(bundle[b], v)
<1> DEFINE w == bundle[b]
           v == [w EXCEPT !.state = "RATIONALE_ASSESSMENT_FIXED",
                           !.assessed = coding, !.rationale = variation]
<1>1. w \in Workflows /\ w.state = "MECHANICAL_COMPARISON_RECORDED" /\ coding = w.receipts /\ Becomes(b, v)
  BY DEF FixRationaleAssessment
<1>3. v \in Workflows
  BY <1>1 DEF Workflows, States
<1>4. Sound(v)
  BY <1>1 DEF Workflows, Sound, UnitByUnit, MappingLast, AssessedAsCoded, ClosedAsDone,
              TERMINAL_STATES, CLOSED, INSUFFICIENT, DEFERRED, Revealed
<1>5. Continues(w, v)
  BY <1>1, Extensions DEF Workflows, Continues, Final, TERMINAL_STATES, CLOSED, INSUFFICIENT, DEFERRED
<1> QED BY <1>1, <1>3, <1>4, <1>5

\* FixCharacterization: either way the bundle stays as it was coded.
LEMMA FixCharacterizationSound ==
  ASSUME NEW b \in Bundles, bundle \in [Bundles -> Workflows], Sound(bundle[b]),
         NEW sufficient \in BOOLEAN, FixCharacterization(b, sufficient)
  PROVE  \E v \in Workflows : Becomes(b, v) /\ Sound(v) /\ Continues(bundle[b], v)
<1> DEFINE w == bundle[b]
           v == [w EXCEPT !.sufficient = sufficient,
                           !.state = IF Deferred(w) THEN DEFERRED ELSE "BUNDLE_CHARACTERIZATION_FIXED"]
<1>1. w \in Workflows /\ w.state = "RATIONALE_ASSESSMENT_FIXED" /\ Becomes(b, v)
  BY DEF FixCharacterization
<1>3. v \in Workflows
  BY <1>1 DEF Workflows, States
<1>4. Sound(v)
  BY <1>1 DEF Workflows, Sound, UnitByUnit, MappingLast, AssessedAsCoded, ClosedAsDone,
              TERMINAL_STATES, CLOSED, INSUFFICIENT, DEFERRED, Revealed
<1>5. Continues(w, v)
  BY <1>1, Extensions DEF Workflows, Continues, Final, TERMINAL_STATES, CLOSED, INSUFFICIENT, DEFERRED
<1> QED BY <1>1, <1>3, <1>4, <1>5

\* Both ways of closing a bundle, with a mapping, a comparison and a rationale record
\* that an insufficient closure takes from the bundle.
LEMMA CloseSound ==
  ASSUME NEW b \in Bundles, bundle \in [Bundles -> Workflows], Sound(bundle[b]), ~Final(bundle[b]),
         NEW state \in TERMINAL_STATES, NEW mechanical \in Comparisons \cup {Unset},
         NEW rationale \in Variations \cup {Unset}, NEW position \in Positions,
         state = INSUFFICIENT => /\ mechanical = bundle[b].mechanical
                                 /\ rationale = bundle[b].rationale,
         Close(b, state, bundle[b].mapping, mechanical, rationale, position)
  PROVE  \E v \in Workflows : Becomes(b, v) /\ Sound(v) /\ Continues(bundle[b], v)
<1> DEFINE w == bundle[b]
           c == [cards |-> w.cards, receipts |-> w.receipts, closures |-> w.closures,
                 mapping |-> w.mapping, mechanical |-> mechanical, rationale |-> rationale,
                 position |-> position]
           v == [w EXCEPT !.state = state, !.closure = c]
<1>1. w \in Workflows /\ Becomes(b, v)
  BY DEF Close
<1>2. c \in Closures
  BY <1>1 DEF Workflows, Closures
<1>3. c # NoClosure
  <2>1. c.position # NoClosure.position
    BY BundleAssumption DEF NoClosure
  <2> QED BY <2>1
<1> HIDE DEF c
<1>4. /\ c.receipts = w.receipts /\ c.closures = w.closures /\ c.mapping = w.mapping
      /\ c.mechanical = mechanical /\ c.rationale = rationale
  BY DEF c
<1>5. v \in Workflows
  BY <1>1, <1>2 DEF Workflows, States
<1>6. Sound(v)
  BY <1>1, <1>3, <1>4 DEF Workflows, Sound, UnitByUnit, MappingLast, AssessedAsCoded, ClosedAsDone,
              TERMINAL_STATES, CLOSED, INSUFFICIENT, DEFERRED, Revealed
<1>7. Continues(w, v)
  BY <1>1, Extensions DEF Workflows, Continues, TERMINAL_STATES, CLOSED, INSUFFICIENT
<1> QED BY <1>1, <1>5, <1>6, <1>7

\* CloseBundle: the mapping is revealed by then, as the closure says.
LEMMA CloseBundleSound ==
  ASSUME NEW b \in Bundles, bundle \in [Bundles -> Workflows], Sound(bundle[b]),
         NEW mechanical \in Comparisons, NEW rationale \in Variations, NEW position \in Positions,
         CloseBundle(b, mechanical, rationale, position)
  PROVE  \E v \in Workflows : Becomes(b, v) /\ Sound(v) /\ Continues(bundle[b], v)
<1> DEFINE w == bundle[b]
<1>1. w \in Workflows /\ w.state = "BUNDLE_CHARACTERIZATION_FIXED"
      /\ Close(b, CLOSED, TRUE, mechanical, rationale, position)
  BY DEF CloseBundle, In
<1>2. w.mapping = TRUE /\ w.receipts = w.closures /\ ~Final(w)
  BY <1>1 DEF Workflows, Sound, MappingLast, Revealed, Final, TERMINAL_STATES, CLOSED,
              INSUFFICIENT, DEFERRED
<1>3. CLOSED \in TERMINAL_STATES /\ CLOSED # INSUFFICIENT
  BY DEF TERMINAL_STATES, CLOSED, INSUFFICIENT
<1> QED BY <1>1, <1>2, <1>3, CloseSound

\* CloseInsufficient: names what was done.
LEMMA CloseInsufficientSound ==
  ASSUME NEW b \in Bundles, bundle \in [Bundles -> Workflows], Sound(bundle[b]),
         NEW position \in Positions, CloseInsufficient(b, position)
  PROVE  \E v \in Workflows : Becomes(b, v) /\ Sound(v) /\ Continues(bundle[b], v)
<1> DEFINE w == bundle[b]
<1>1. w \in Workflows /\ ~Final(w)
      /\ Close(b, INSUFFICIENT, w.mapping, w.mechanical, w.rationale, position)
  BY DEF CloseInsufficient, Insufficient, Final
<1>2. w.mechanical \in Comparisons \cup {Unset} /\ w.rationale \in Variations \cup {Unset}
  BY <1>1 DEF Workflows
<1>3. INSUFFICIENT \in TERMINAL_STATES
  BY DEF TERMINAL_STATES
<1> QED BY <1>1, <1>2, <1>3, CloseSound

\* Every operation keeps a bundle sound and only continues its history.
LEMMA OperationSound ==
  ASSUME NEW b \in Bundles, bundle \in [Bundles -> Workflows], Sound(bundle[b]), Operation(b)
  PROVE  \E v \in Workflows : Becomes(b, v) /\ Sound(v) /\ Continues(bundle[b], v)
BY FixAliasCommitmentSound, ReleaseUnitSound, FixHumanReceiptSound, VerifyUnitClosureSound,
   RevealMappingSound, RecordMechanicalSound, FixRationaleAssessmentSound,
   FixCharacterizationSound, CloseBundleSound, CloseInsufficientSound DEF Operation
-------------------------------------------------------------------------------
BundlesSound == \A b \in Bundles : Sound(bundle[b])

\* A workflow that began knows how many were recorded by then.
BegunAsRecorded ==
  /\ \A b \in Bundles : In(b, "FROZEN") <=> begun[b] = Unbegun
  /\ \A i \in 1..Len(closed) : /\ bundle[closed[i]].state \in TERMINAL_STATES
                               /\ begun[closed[i]] = i - 1
                               /\ ClosureOf(i).position = i

\* The open bundle began after the last one was recorded, or did not yet.
CurrentIsNext == current # NoBundle => /\ Len(closed) < Cohort
                                       /\ begun[current] \in {Unbegun, Len(closed)}

\* The aggregate comes last, then its review, then the judge.
AggregateLast ==
  /\ aggregate # << >> => /\ Len(closed) = Cohort /\ current = NoBundle
                          /\ aggregate = ClosedClosures
  /\ reviewed => aggregate # << >>
  /\ judging => reviewed

CohortInv == CohortTypeOK /\ BundlesSound /\ BegunAsRecorded /\ CurrentIsNext /\ AggregateLast

\* In the initial state nothing is done.
LEMMA InitCohortInv == CohortInit => CohortInv
<1> SUFFICES ASSUME CohortInit PROVE CohortInv
  OBVIOUS
<1> DEFINE w == [state |-> "FROZEN", cards |-> 0, receipts |-> << >>, closures |-> << >>,
                 mapping |-> FALSE, mechanical |-> Unset, assessed |-> << >>,
                 rationale |-> Unset, sufficient |-> FALSE, closure |-> NoClosure]
<1>1. bundle = [b \in Bundles |-> w] /\ Units \in Nat \ {0} /\ Cohort \in Nat \ {0}
  BY BundleAssumption, CohortAssumption DEF CohortInit, BundleInit
<1>2. w \in Workflows
  BY <1>1, CodesAreSequences DEF Workflows, States
<1>3. Sound(w)
  BY CodesAreSequences DEF Sound, UnitByUnit, MappingLast, AssessedAsCoded, ClosedAsDone,
              TERMINAL_STATES, CLOSED, INSUFFICIENT, DEFERRED, Revealed
<1>4. w.state = "FROZEN"
  OBVIOUS
<1> HIDE DEF w
<1>5. CohortTypeOK
  <2>1. bundle \in [Bundles -> Workflows] /\ begun \in [Bundles -> 0..Unbegun]
    BY <1>1, <1>2 DEF CohortInit, Unbegun
  <2>2. /\ closed \in Seq(Bundles) /\ Len(closed) <= Cohort
        /\ aggregate \in Seq(Closures)
    BY <1>1 DEF CohortInit
  <2> QED BY <2>1, <2>2 DEF CohortInit, CohortTypeOK
<1>6. BundlesSound
  BY <1>1, <1>3 DEF BundlesSound
<1>7. BegunAsRecorded
  BY <1>1, <1>4 DEF CohortInit, BegunAsRecorded, In
<1>8. CurrentIsNext /\ AggregateLast
  BY DEF CohortInit, CurrentIsNext, AggregateLast
<1> QED BY <1>5, <1>6, <1>7, <1>8 DEF CohortInv

\* What is recorded is closed, so no operation changes it.
LEMMA ReviewCohortInv == ASSUME CohortInv, NEW b \in Bundles, Review(b) PROVE CohortInv'
<1>1. /\ bundle \in [Bundles -> Workflows] /\ closed \in Seq(Bundles) /\ Len(closed) \in Nat
      /\ Len(closed) <= Cohort /\ begun \in [Bundles -> 0..Unbegun] /\ Cohort \in Nat \ {0}
      /\ Len(closed) # Unbegun
  BY CohortAssumption DEF CohortInv, CohortTypeOK, Unbegun
<1>2. PICK v \in Workflows : Becomes(b, v) /\ Sound(v) /\ Continues(bundle[b], v)
  BY <1>1, OperationSound DEF CohortInv, BundlesSound, Review
<1>3. /\ bundle' = [bundle EXCEPT ![b] = v]
      /\ begun' = IF In(b, "FROZEN") THEN [begun EXCEPT ![b] = Len(closed)] ELSE begun
      /\ UNCHANGED <<current, closed, aggregate, reviewed, judging>>
  BY <1>2 DEF Review, Becomes, cohortVars
<1>4. \A i \in 1..Len(closed) : closed[i] \in Bundles /\ closed[i] # b
  BY <1>1, <1>2, ElementOfSeq DEF CohortInv, BegunAsRecorded, Continues, Final
<1>5. \A i \in 1..Len(closed) : bundle'[closed[i]] = bundle[closed[i]] /\ begun'[closed[i]] = begun[closed[i]]
  BY <1>1, <1>3, <1>4
<1>6. CohortTypeOK'
  BY <1>1, <1>3 DEF CohortInv, CohortTypeOK, Unbegun
<1>7. BundlesSound'
  BY <1>1, <1>2, <1>3 DEF CohortInv, BundlesSound
<1>8. BegunAsRecorded'
  <2>1. \A a \in Bundles : In(a, "FROZEN")' <=> begun'[a] = Unbegun
    BY <1>1, <1>2, <1>3 DEF CohortInv, BegunAsRecorded, In, Continues
  <2>2. \A i \in 1..Len(closed') : /\ bundle'[closed'[i]].state \in TERMINAL_STATES
                                   /\ begun'[closed'[i]] = i - 1
                                   /\ ClosureOf(i)'.position = i
    BY <1>3, <1>5 DEF CohortInv, BegunAsRecorded, ClosureOf
  <2> QED BY <2>1, <2>2 DEF BegunAsRecorded, Unbegun
<1>9. CurrentIsNext'
  <2>1. current # NoBundle => current \in Bundles
    BY DEF CohortInv, CohortTypeOK
  <2> QED BY <1>1, <1>3, <2>1 DEF CohortInv, CurrentIsNext, Unbegun
<1>10. AggregateLast'
  <2>1. ClosedClosures' = ClosedClosures
    BY <1>3, <1>5 DEF ClosedClosures, ClosureOf
  <2> QED BY <1>3, <2>1 DEF CohortInv, AggregateLast
<1> QED BY <1>6, <1>7, <1>8, <1>9, <1>10 DEF CohortInv

\* The bundle that is opened has not begun.
LEMMA OpenBundleCohortInv ==
  ASSUME CohortInv, NEW b \in Bundles, NEW position \in Positions, OpenBundle(b, position) PROVE CohortInv'
<1>1. CohortTypeOK' /\ BundlesSound'
  BY DEF CohortInv, OpenBundle, CohortTypeOK, BundlesSound
<1>2. BegunAsRecorded'
  BY DEF CohortInv, OpenBundle, BegunAsRecorded, ClosureOf, In, Unbegun
<1>3. CurrentIsNext'
  BY DEF CohortInv, OpenBundle, CurrentIsNext, BegunAsRecorded, Openable, Unbegun
<1>4. AggregateLast'
  <2>1. Len(closed) \in Nat /\ Cohort \in Nat
    BY CohortAssumption DEF CohortInv, CohortTypeOK
  <2> QED BY <2>1 DEF CohortInv, OpenBundle, AggregateLast, ClosedClosures, ClosureOf
<1> QED BY <1>1, <1>2, <1>3, <1>4 DEF CohortInv

\* The bundle that is recorded is the open one, closed at its position.
LEMMA RecordTerminalCohortInv == ASSUME CohortInv, NEW b \in Bundles, RecordTerminal(b) PROVE CohortInv'
<1>1. /\ closed \in Seq(Bundles) /\ Len(closed) \in Nat /\ Cohort \in Nat /\ NoBundle \notin Bundles
      /\ current = b /\ b # NoBundle /\ closed' = Append(closed, b) /\ current' = NoBundle
      /\ UNCHANGED <<bundle, aggregate, reviewed, begun, judging>>
  BY CohortAssumption DEF CohortInv, CohortTypeOK, RecordTerminal
<1>2. Len(closed) < Cohort /\ begun[b] = Len(closed)
  <2>1. ~In(b, "FROZEN")
    BY DEF RecordTerminal, In, TERMINAL_STATES, CLOSED, INSUFFICIENT
  <2> QED BY <1>1, <2>1 DEF CohortInv, CurrentIsNext, BegunAsRecorded
<1>3. /\ closed' \in Seq(Bundles) /\ Len(closed') = Len(closed) + 1
      /\ \A i \in 1..Len(closed) : closed'[i] = closed[i]
      /\ closed'[Len(closed) + 1] = b
  BY <1>1
<1>4. CohortTypeOK'
  BY <1>1, <1>2, <1>3 DEF CohortInv, CohortTypeOK
<1>5. BundlesSound' /\ CurrentIsNext'
  BY <1>1 DEF CohortInv, BundlesSound, CurrentIsNext
<1>6. BegunAsRecorded'
  <2>1. \A a \in Bundles : In(a, "FROZEN")' <=> begun'[a] = Unbegun
    BY <1>1 DEF CohortInv, BegunAsRecorded, In
  <2>2. ASSUME NEW i \in 1..Len(closed')
        PROVE  /\ bundle'[closed'[i]].state \in TERMINAL_STATES
               /\ begun'[closed'[i]] = i - 1
               /\ bundle'[closed'[i]].closure.position = i
    <3>1. CASE i \in 1..Len(closed)
      BY <1>1, <1>3, <3>1 DEF CohortInv, BegunAsRecorded, ClosureOf
    <3>2. CASE i = Len(closed) + 1
      BY <1>1, <1>2, <1>3, <3>2 DEF RecordTerminal
    <3> QED BY <1>1, <1>3, <3>1, <3>2
  <2> QED BY <2>1, <2>2 DEF BegunAsRecorded, ClosureOf, Unbegun
<1>7. AggregateLast'
  BY <1>1 DEF CohortInv, AggregateLast
<1> QED BY <1>4, <1>5, <1>6, <1>7 DEF CohortInv

\* The aggregate of closures that are all of closed bundles.
LEMMA RecordAggregateCohortInv == ASSUME CohortInv, RecordAggregateCompletion PROVE CohortInv'
<1>1. /\ closed \in Seq(Bundles) /\ Len(closed) \in Nat /\ Len(closed) = Cohort /\ Cohort # 0
      /\ current = NoBundle /\ aggregate' = ClosedClosures
      /\ UNCHANGED <<bundle, current, closed, reviewed, begun, judging>>
  BY CohortAssumption DEF CohortInv, CohortTypeOK, RecordAggregateCompletion
<1>2. \A i \in 1..Len(closed) : ClosureOf(i) \in Closures
  <2>1. SUFFICES ASSUME NEW i \in 1..Len(closed) PROVE ClosureOf(i) \in Closures
    OBVIOUS
  <2>2. ClosureOf(i) \in Closures \cup {NoClosure}
    BY <1>1, ElementOfSeq DEF CohortInv, CohortTypeOK, ClosureOf, Workflows
  <2>3. ClosureOf(i).position = i /\ i # 0 /\ NoClosure.position = 0
    BY <1>1 DEF CohortInv, BegunAsRecorded, NoClosure
  <2> QED BY <2>2, <2>3
<1>3. ClosedClosures \in Seq(Closures)
  BY <1>1, <1>2, IsASeq DEF ClosedClosures
<1>4. CohortTypeOK' /\ BundlesSound' /\ CurrentIsNext'
  BY <1>1, <1>3 DEF CohortInv, CohortTypeOK, BundlesSound, CurrentIsNext
<1>5. BegunAsRecorded'
  BY <1>1 DEF CohortInv, BegunAsRecorded, ClosureOf, In, Unbegun
<1>6. AggregateLast'
  <2>1. ClosedClosures' = ClosedClosures
    BY <1>1 DEF ClosedClosures, ClosureOf
  <2>2. ClosedClosures # << >>
    <3>1. DOMAIN ClosedClosures = 1..Cohort /\ 1 \in 1..Cohort
      BY <1>1, CohortAssumption DEF ClosedClosures
    <3>2. DOMAIN << >> = {}
      OBVIOUS
    <3> QED BY <3>1, <3>2
  <2> QED BY <1>1, <2>1, <2>2 DEF CohortInv, AggregateLast
<1> QED BY <1>4, <1>5, <1>6 DEF CohortInv

\* The review and the choice of a judge change no bundle and no order.
LEMMA AfterAggregateCohortInv == ASSUME CohortInv, RecordAggregateReview \/ RequireJudgeAuthority PROVE CohortInv'
<1>1. UNCHANGED <<bundle, current, closed, aggregate, begun>>
  BY DEF RecordAggregateReview, RequireJudgeAuthority, cohortVars
<1>2. CohortTypeOK' /\ BundlesSound' /\ CurrentIsNext'
  BY <1>1 DEF CohortInv, CohortTypeOK, BundlesSound, CurrentIsNext, RecordAggregateReview,
              RequireJudgeAuthority, cohortVars
<1>3. BegunAsRecorded'
  BY <1>1 DEF CohortInv, BegunAsRecorded, ClosureOf, In, Unbegun
<1>4. AggregateLast'
  BY <1>1 DEF CohortInv, AggregateLast, ClosedClosures, ClosureOf, RecordAggregateReview,
              RequireJudgeAuthority, cohortVars
<1> QED BY <1>2, <1>3, <1>4 DEF CohortInv

\* A step that changes nothing keeps the invariant.
LEMMA StutterCohortInv == ASSUME CohortInv, UNCHANGED workflowVars PROVE CohortInv'
BY DEF CohortInv, workflowVars, cohortVars, CohortTypeOK, BundlesSound, BegunAsRecorded, CurrentIsNext, AggregateLast,
       ClosedClosures, ClosureOf, In, Unbegun

\* Every step keeps the invariant.
LEMMA NextCohortInv == CohortInv /\ [CohortNext]_workflowVars => CohortInv'
BY ReviewCohortInv, OpenBundleCohortInv, RecordTerminalCohortInv, RecordAggregateCohortInv, AfterAggregateCohortInv,
   StutterCohortInv DEF CohortNext

\* The invariant holds for good.
LEMMA CohortInvariance == CohortSpec => []CohortInv
BY InitCohortInv, NextCohortInv, PTL DEF CohortSpec
-------------------------------------------------------------------------------
\* Every bundle that is sound is coded blind.
LEMMA SoundIsBlind == BundlesSound /\ CohortTypeOK => CodedBlind
<1> SUFFICES ASSUME BundlesSound, CohortTypeOK, NEW b \in Bundles
             PROVE  LET w == bundle[b] IN
                    /\ Disclosed(w) => Len(w.receipts) = Units /\ w.closures = w.receipts
                    /\ w.rationale # Unset => w.assessed = w.receipts
                    /\ w.closure # NoClosure => w.closure.receipts = w.receipts /\ w.closure.closures = w.closures
                    /\ w.state = INSUFFICIENT => /\ w.closure.mapping = w.mapping
                                                 /\ w.closure.mechanical = w.mechanical
                                                 /\ w.closure.rationale = w.rationale
  BY DEF CodedBlind
<1> DEFINE w == bundle[b]
<1>1. Sound(w)
  BY DEF BundlesSound
<1>2. Disclosed(w) => w.mapping
  BY <1>1 DEF Disclosed, Sound, ClosedAsDone, NoClosure
<1> QED BY <1>1, <1>2 DEF Sound, MappingLast, AssessedAsCoded, ClosedAsDone, TERMINAL_STATES

\* Nothing is coded with the mapping in sight, and closures name what was done.
THEOREM BlindCoding == CohortSpec => []CodedBlind
<1>1. CohortInv => CodedBlind
  BY SoundIsBlind DEF CohortInv
<1> QED BY CohortInvariance, <1>1, PTL

\* Recorded bundles were worked on in the order of the manifest, and a judge is chosen
\* on a reviewed aggregate of the whole cohort.
THEOREM OrderOfTheCohort == CohortSpec => []CohortInOrder
<1>1. CohortInv => CohortInOrder
  BY DEF CohortInv, CohortInOrder, BegunAsRecorded, AggregateLast
<1> QED BY CohortInvariance, <1>1, PTL

\* What a step may make of a bundle.
Kept(w, v) == /\ IsExtension(w.receipts, v.receipts)
              /\ IsExtension(w.closures, v.closures)
              /\ Disclosed(w) => v.receipts = w.receipts /\ v.closures = w.closures
              /\ Final(w) => v = w

\* A bundle that no operation touches is kept.
LEMMA UntouchedIsKept == ASSUME NEW w \in Workflows PROVE Kept(w, w)
BY Extensions DEF Kept, Workflows

\* Receipts and unit closures are only added, none after the mapping is revealed, and
\* closed and deferred bundles never change.
THEOREM FinalHistory == CohortSpec => HistoryIsFinal
<1>1. ASSUME CohortInv, [CohortNext]_workflowVars PROVE \A a \in Bundles : Kept(bundle[a], bundle'[a])
  <2>1. bundle \in [Bundles -> Workflows] /\ \A a \in Bundles : Kept(bundle[a], bundle[a])
    BY <1>1, UntouchedIsKept DEF CohortInv, CohortTypeOK
  <2>2. CASE \E b \in Bundles : Review(b)
    <3>1. PICK b \in Bundles : Review(b)
      BY <2>2
    <3>2. PICK v \in Workflows : Becomes(b, v) /\ Sound(v) /\ Continues(bundle[b], v)
      BY <1>1, <2>1, <3>1, OperationSound DEF CohortInv, BundlesSound, Review
    <3>3. Disclosed(bundle[b]) => bundle[b].mapping
      BY <1>1 DEF CohortInv, BundlesSound, Disclosed, Sound, ClosedAsDone, NoClosure
    <3>4. Kept(bundle[b], v)
      BY <3>2, <3>3 DEF Kept, Continues
    <3> QED BY <2>1, <3>2, <3>4 DEF Becomes
  <2>3. CASE UNCHANGED bundle
    BY <2>1, <2>3
  <2> QED BY <1>1, <2>2, <2>3 DEF CohortNext, OpenBundle, RecordTerminal, RecordAggregateCompletion,
             RecordAggregateReview, RequireJudgeAuthority, workflowVars
<1>2. CohortInv /\ [CohortNext]_workflowVars =>
        [\A b \in Bundles : LET w == bundle[b] IN
           /\ IsExtension(w.receipts, bundle'[b].receipts)
           /\ IsExtension(w.closures, bundle'[b].closures)
           /\ Disclosed(w) => bundle'[b].receipts = w.receipts /\ bundle'[b].closures = w.closures
           /\ Final(w) => bundle'[b] = w]_workflowVars
  BY <1>1 DEF Kept
<1> QED BY CohortInvariance, <1>2, PTL DEF CohortSpec, HistoryIsFinal
===============================================================================
