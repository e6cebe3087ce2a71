---------------------------- MODULE FencingReceiver ----------------------------
(***************************************************************************)
(* PostgresReceiver of audit/fencing_receiver_experiment_v1.py: the receiver *)
(* of requests that carry an owner and an epoch, in its modes U, F1 and F2,  *)
(* for one registered scope. Requests arrive in any order, late and more     *)
(* than once; each delivery is a transaction of its own, on a connection of  *)
(* its own; the authority row is updated by others meanwhile.                *)
(***************************************************************************)
EXTENDS Naturals

CONSTANTS Deliveries, Claims, Authorities

ASSUME EpochAssumption == /\ \A c \in Claims : c.epoch \in Nat
                          /\ \A a \in Authorities : a.epoch \in Nat

VARIABLES
  mode,       \* which receiver it is
  authority,  \* the authority row: [known, epoch, owner, revoked]
  highest,    \* highest_epoch of the scope row, committed
  receipts,   \* the receipts table: the fingerprint is the claim itself
  effects,    \* the effects table: one row per delivery that was applied
  at,         \* how far the transaction of each delivery has come
  claim,      \* the request of each delivery
  outcome     \* what the receiver has told about each delivery

vars == <<mode, authority, highest, receipts, effects, at, claim, outcome>>

Ledger == INSTANCE EffectLedger

Points == {"waiting", "started", "locked", "checked", "committing", "committed", "done"}
Outcomes == {"none", "REJECTED", "DUPLICATE", "ACCEPTED", "UNKNOWN"}
Effects == [delivery : Deliveries, claim : Claims]

Init == /\ mode \in Ledger!Modes
        /\ authority \in Authorities
        /\ highest = 0
        /\ receipts = {}
        /\ effects = {}
        /\ at = [d \in Deliveries |-> "waiting"]
        /\ claim \in [Deliveries -> Claims]
        /\ outcome = [d \in Deliveries |-> "none"]

tables == <<receipts, effects, highest>>
rows == <<mode, authority, tables>>

\* Row locks last until the transaction ends: the scope row FOR UPDATE, and in
\* F2 the authority row FOR SHARE from the check on.
LocksScope(d) == at[d] \in {"locked", "checked", "committing"}
SharesAuthorityUntilWrite(d) == mode = "F2" /\ at[d] = "checked"
SharesAuthority(d) == mode = "F2" /\ at[d] \in {"checked", "committing"}

\* The transaction ends without having written, and the receiver says why.
Answer(d, status) == /\ at' = [at EXCEPT ![d] = "done"]
                     /\ outcome' = [outcome EXCEPT ![d] = status]
                     /\ UNCHANGED <<rows, claim>>

Advance(d, point) == /\ at' = [at EXCEPT ![d] = point]
                     /\ UNCHANGED <<rows, claim, outcome>>

Receive(d) == at[d] = "waiting" /\ Advance(d, "started")

\* The scope row is locked; F1 compares with it.
LockScope(d) == /\ at[d] = "started"
                /\ \A o \in Deliveries : ~LocksScope(o)
                /\ IF mode = "F1" /\ claim[d].epoch < highest
                   THEN Answer(d, "REJECTED")
                   ELSE Advance(d, "locked")

\* F2 locks the authority row and checks it.
CheckAuthority(d) == /\ mode = "F2"
                     /\ at[d] = "locked"
                     /\ IF Ledger!Authorizes(authority, claim[d])
                        THEN Advance(d, "checked")
                        ELSE Answer(d, "REJECTED")

Prior(d) == {r \in receipts : r.id = claim[d].id}

WriteById(d) ==
  /\ at[d] = IF mode = "F2" THEN "checked" ELSE "locked"
  /\ IF mode = "U" \/ Prior(d) = {} THEN Advance(d, "committing") ELSE Answer(d, "DUPLICATE")

\* Deduplication, the two inserts, and the COMMIT is sent. Receipts of refused
\* and duplicate requests leave F1's highest epoch as it was: they roll back.
Write(d) == /\ at[d] = IF mode = "F2" THEN "checked" ELSE "locked"
            /\ IF mode = "U" \/ Prior(d) = {}
               THEN Advance(d, "committing")
               ELSE Answer(d, IF claim[d] \in Prior(d) THEN "DUPLICATE" ELSE "REJECTED")

\* The server commits: receipt, effect and highest epoch at once.
Commit(d) == /\ at[d] = "committing"
             /\ at' = [at EXCEPT ![d] = "committed"]
             /\ effects' = effects \cup {[delivery |-> d, claim |-> claim[d]]}
             /\ receipts' = IF mode = "U" THEN receipts ELSE receipts \cup {claim[d]}
             /\ highest' = IF mode = "F1" THEN claim[d].epoch ELSE highest
             /\ UNCHANGED <<mode, authority, claim, outcome>>

\* The server ends the session instead, with the COMMIT undone.
Abort(d) == /\ at[d] = "committing"
            /\ Answer(d, "UNKNOWN")

Acknowledge(d) == /\ at[d] = "committed"
                  /\ outcome[d] = "none"
                  /\ Answer(d, "ACCEPTED")

\* The receiver fails (UNKNOWN) or dies (none). A COMMIT already sent is then
\* the server's business: it may still commit, or abort.
Fail(d, status) == /\ at[d] \notin {"waiting", "done"}
                   /\ outcome[d] = "none"
                   /\ at' = [at EXCEPT ![d] = IF @ = "committing" THEN @ ELSE "done"]
                   /\ outcome' = [outcome EXCEPT ![d] = status]
                   /\ UNCHANGED <<rows, claim>>

\* A publisher updates the authority row, unless a receiver shares its lock.
Publish(b) == /\ \A d \in Deliveries : ~SharesAuthority(d)
              /\ Ledger!Succeeds(authority, b)
              /\ authority' = b
              /\ UNCHANGED <<mode, tables, at, claim, outcome>>

Step(d) == \/ Receive(d) \/ LockScope(d) \/ CheckAuthority(d) \/ Write(d)
           \/ Commit(d) \/ Abort(d) \/ Acknowledge(d)
           \/ \E status \in {"UNKNOWN", "none"} : Fail(d, status)

Next == (\E d \in Deliveries : Step(d)) \/ (\E b \in Authorities : Publish(b))

Spec == Init /\ [][Next]_vars
-------------------------------------------------------------------------------
TypeOK == /\ mode \in Ledger!Modes
          /\ authority \in Authorities
          /\ highest \in Nat
          /\ receipts \subseteq Claims
          /\ effects \subseteq Effects
          /\ at \in [Deliveries -> Points]
          /\ claim \in [Deliveries -> Claims]
          /\ outcome \in [Deliveries -> Outcomes]

Applied(d) == \E e \in effects : e.delivery = d
AppliedAs(c) == \E e \in effects : e.claim = c

\* What the receiver says is true for good: ACCEPTED means that this delivery
\* has its effect, DUPLICATE that the same request has one although not from
\* this delivery, REJECTED that this delivery has none. Only UNKNOWN leaves it
\* open, and so it must be for a COMMIT that outlives its connection.
OutcomesTrue ==
  /\ TypeOK
  /\ \A d \in Deliveries :
       /\ outcome[d] = "ACCEPTED" => Applied(d)
       /\ outcome[d] = "DUPLICATE" => AppliedAs(claim[d]) /\ ~Applied(d)
       /\ outcome[d] = "REJECTED" => ~Applied(d)

\* The receivers keep the promises of their modes (EffectLedger), in spite of
\* late, repeated and overlapping deliveries, lost acknowledgements and an
\* authority that moves on between any two of their statements.
ImplementsLedger == Ledger!Spec
===============================================================================
