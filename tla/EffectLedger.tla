------------------------------ MODULE EffectLedger ------------------------------
(***************************************************************************)
(* What a receiver of fenced requests promises in each of its modes, with   *)
(* no rows, locks or transactions: every delivery has at most one effect,   *)
(* and                                                                      *)
(*   U    nothing else;                                                     *)
(*   F1   a request id has one effect, and effects never go back to an      *)
(*        older epoch;                                                      *)
(*   F2   a request id has one effect, and an effect takes place only while *)
(*        the authority is its owner's, at its epoch and not revoked.       *)
(* FencingReceiver is shown to implement it.                                *)
(***************************************************************************)
EXTENDS Naturals

CONSTANTS Deliveries,   \* one arrival of a request
          Claims,       \* the requests: [owner, epoch, id, payload]
          Authorities   \* what the authority's publisher may state

VARIABLES mode, authority, effects
ledger == <<mode, authority, effects>>

Modes == {"U", "F1", "F2"}

Authorizes(a, c) == a.known /\ ~a.revoked /\ a.epoch = c.epoch /\ a.owner = c.owner

Init == /\ mode \in Modes
        /\ authority \in Authorities
        /\ effects = {}

\* The authority moves to a later epoch, or is revoked.
Succeeds(a, b) == \/ b.epoch > a.epoch
                  \/ b = [a EXCEPT !.revoked = TRUE]

Publish(b) == /\ Succeeds(authority, b)
              /\ authority' = b
              /\ UNCHANGED <<mode, effects>>

Unapplied(c) == \A e \in effects : e.claim.id # c.id
Newest(c) == \A e \in effects : e.claim.epoch <= c.epoch

Apply(d, c) == /\ \A e \in effects : e.delivery # d
               /\ mode # "U" => Unapplied(c)
               /\ mode = "F1" => Newest(c)
               /\ mode = "F2" => Authorizes(authority, c)
               /\ effects' = effects \cup {[delivery |-> d, claim |-> c]}
               /\ UNCHANGED <<mode, authority>>

Next == \/ \E b \in Authorities : Publish(b)
        \/ \E d \in Deliveries, c \in Claims : Apply(d, c)

Spec == Init /\ [][Next]_ledger
===============================================================================
