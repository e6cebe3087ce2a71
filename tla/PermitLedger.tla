----------------------------- MODULE PermitLedger -----------------------------
(***************************************************************************)
(* What an issuer of single-use permits promises, with no clock, no object *)
(* identity and no dictionary: a permit is granted once, is outstanding     *)
(* until it is used or voided, is used at most once and only while it is    *)
(* outstanding, and never more than Capacity of them are outstanding.       *)
(* ExecutionBoundary is shown to implement it.                              *)
(***************************************************************************)
EXTENDS Naturals, FiniteSets

CONSTANTS Permits,      \* the identities of all permits there will ever be
          Capacity      \* the largest number of outstanding permits

VARIABLES granted,      \* the permits granted so far
          open,         \* the permits that can still be used
          uses          \* how often each permit was used

ledger == <<granted, open, uses>>

Init == /\ granted = {}
        /\ open = {}
        /\ uses = [p \in Permits |-> 0]

\* Outstanding permits in V lapse; the other ones stay.
Void(V) == /\ V \subseteq open
           /\ open' = open \ V
           /\ UNCHANGED <<granted, uses>>

\* Permits in V lapse and a permit that never existed before is granted.
Grant(p, V) == /\ p \notin granted
               /\ V \subseteq open
               /\ Cardinality(open \ V) < Capacity
               /\ granted' = granted \cup {p}
               /\ open' = (open \ V) \cup {p}
               /\ UNCHANGED uses

\* An outstanding permit is spent, and can never be used again.
Use(p) == /\ p \in open
          /\ open' = open \ {p}
          /\ uses' = [uses EXCEPT ![p] = @ + 1]
          /\ UNCHANGED granted

Next == \/ \E V \in SUBSET open : Void(V)
        \/ \E p \in Permits, V \in SUBSET open : Grant(p, V)
        \/ \E p \in Permits : Use(p)

Spec == Init /\ [][Next]_ledger
===============================================================================
