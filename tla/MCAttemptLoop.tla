----------------------------- MODULE MCAttemptLoop -----------------------------
(***************************************************************************)
(* Three attempts of up to three units; the budget is what the code's is:   *)
(* all timeouts and all backoffs together.  A Retry-After may ask for less  *)
(* than the backoff, for more, or for more than the budget.                 *)
(***************************************************************************)
EXTENDS AttemptLoop

MCBackoff == <<1, 2>>
MCBudget == MaxAttempts * AttemptTimeout + 3
===============================================================================
