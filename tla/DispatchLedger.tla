----------------------------- MODULE DispatchLedger -----------------------------
(***************************************************************************)
(* What durable dispatch accounting promises, without rows, processes or    *)
(* time: a request is dispatched only after its intent was committed, at    *)
(* most once, and only while the fate of every other intent is settled.     *)
(* An intent whose fate stays unknown therefore stops the system for good.  *)
(***************************************************************************)
CONSTANT Requests
VARIABLE fate       \* of each request: "none", "intended", "dispatched", "settled"

Init == fate = [r \in Requests |-> "none"]

AllOthersSettled(r) == \A q \in Requests \ {r} : fate[q] \in {"none", "settled"}

\* The intent to dispatch r is committed.
Intend(r) == /\ fate[r] = "none"
             /\ AllOthersSettled(r)
             /\ fate' = [fate EXCEPT ![r] = "intended"]

\* The backend is entered for r.
Dispatch(r) == /\ fate[r] = "intended"
               /\ fate' = [fate EXCEPT ![r] = "dispatched"]

\* The outcome of r is known and committed, or r was never dispatched.
Settle(r) == /\ fate[r] \in {"intended", "dispatched"}
             /\ fate' = [fate EXCEPT ![r] = "settled"]

Next == \E r \in Requests : Intend(r) \/ Dispatch(r) \/ Settle(r)

Spec == Init /\ [][Next]_fate
===============================================================================
