------------------------------ MODULE BundleWorkflow ------------------------------
(***************************************************************************)
(* BundleWorkflow (civicgate/rq6/workflow.py): the blind review of a frozen  *)
(* bundle.  Units are released, coded and closed one after another, then the *)
(* mapping of the bundle is revealed, compared, assessed, and the bundle is   *)
(* closed; a bundle short of evidence is closed as insufficient.             *)
(*                                                                          *)
(* Every operation validates all it is given and all that was fixed before   *)
(* it changes anything; one that is refused changes nothing and is no step   *)
(* here.  The verifier may refuse at any time.  An artifact stands for its   *)
(* hash, and only what a later operation compares is kept of it.             *)
(***************************************************************************)
EXTENDS Integers, Sequences

CONSTANTS Bundles,        \* the workflows that are constructed
          CustodyOnly,    \* those made by pre_mapping_failure: no units
          Units,          \* how many units the others have (three in the code)
          Codings,        \* what a human may find of a unit
          Positions       \* the positions of the frozen manifest

ASSUME BundleAssumption == CustodyOnly \subseteq Bundles /\ Units \in Nat \ {0} /\ Positions \subseteq Nat \ {0}

VARIABLE bundle           \* per workflow: what is fixed in it

DEFERRED == "RQ6_REVIEW_DEFERRED_PENDING_HUMAN_RESOLUTION"
CLOSED == "RQ6_BUNDLE_CLOSED"
INSUFFICIENT == "RQ6_BUNDLE_CLOSED_INSUFFICIENT_REPEAT_EVIDENCE"
TERMINAL_STATES == {CLOSED, INSUFFICIENT}

States == {"FROZEN", "ALIAS_COMMITMENT_FIXED", "UNIT_RELEASED", "HUMAN_RECEIPT_FIXED",
           "UNIT_CLOSURE_VERIFIED", "BUNDLE_MAPPING_REVEALED", "MECHANICAL_COMPARISON_RECORDED",
           "RATIONALE_ASSESSMENT_FIXED", "BUNDLE_CHARACTERIZATION_FIXED", DEFERRED}
          \cup TERMINAL_STATES

\* The codings of the first units, one after another.
Codes == UNION {[1..n -> Codings] : n \in 0..Units}

\* Whether the models' classes and flags changed over the repetitions, and what the
\* human assessment says of their rationales ("NONE" stands for any confirmed answer
\* that leaves the boundary where it is).
Comparisons == {"stable", "changed"}
Variations == {"NONE", "MATERIAL_BOUNDARY_CHANGE", "UNRESOLVED"}
Unset == "none"

\* What a closure names of the history, and the position it claims.
Closures == [cards : 0..Units, receipts : Codes, closures : Codes, mapping : BOOLEAN,
             mechanical : Comparisons \cup {Unset}, rationale : Variations \cup {Unset},
             position : Positions]
NoClosure == [cards |-> 0, receipts |-> << >>, closures |-> << >>, mapping |-> FALSE,
              mechanical |-> Unset, rationale |-> Unset, position |-> 0]

Workflows == [state : States,
              cards : 0..Units,              \* how many units were released
              receipts : Codes,              \* the human receipts
              closures : Codes,              \* what each unit closure froze
              mapping : BOOLEAN,             \* the unblind receipt is fixed
              mechanical : Comparisons \cup {Unset},
              assessed : Codes,              \* the codings that were assessed
              rationale : Variations \cup {Unset},
              sufficient : BOOLEAN,          \* characterized with another disposition than INSUFFICIENT
              closure : Closures \cup {NoClosure}]

BundleInit == bundle = [b \in Bundles |->
                [state |-> "FROZEN", cards |-> 0, receipts |-> << >>, closures |-> << >>,
                 mapping |-> FALSE, mechanical |-> Unset, assessed |-> << >>,
                 rationale |-> Unset, sufficient |-> FALSE, closure |-> NoClosure]]

In(b, state) == bundle[b].state = state
Becomes(b, w) == bundle' = [bundle EXCEPT ![b] = w]
-------------------------------------------------------------------------------
FixAliasCommitment(b) ==
    /\ b \notin CustodyOnly
    /\ In(b, "FROZEN")
    /\ Becomes(b, [bundle[b] EXCEPT !.state = "ALIAS_COMMITMENT_FIXED"])

\* The next unit, when the one before is closed.
ReleaseUnit(b) ==
    LET w == bundle[b] IN
    /\ b \notin CustodyOnly
    /\ w.state \in {"ALIAS_COMMITMENT_FIXED", "UNIT_CLOSURE_VERIFIED"}
    /\ w.cards < Units
    /\ Len(w.closures) = w.cards
    /\ Becomes(b, [w EXCEPT !.state = "UNIT_RELEASED", !.cards = w.cards + 1])

FixHumanReceipt(b, coding) ==
    /\ In(b, "UNIT_RELEASED")
    /\ Becomes(b, [bundle[b] EXCEPT !.state = "HUMAN_RECEIPT_FIXED",
                                    !.receipts = Append(@, coding)])

\* The closure of a unit links the receipt of that unit.
VerifyUnitClosure(b, coding) ==
    LET w == bundle[b] IN
    /\ w.state = "HUMAN_RECEIPT_FIXED"
    /\ coding = w.receipts[Len(w.closures) + 1]
    /\ Becomes(b, [w EXCEPT !.state = "UNIT_CLOSURE_VERIFIED",
                            !.closures = Append(@, coding)])

\* A reveal that looks at the unit at hand only.
UnitClosed(w) == w.closures # << >>
AllUnitsClosed(w) == Len(w.closures) = Units

\* The unblind receipt lists every receipt and every unit closure.  The frozen
\* artifacts are verified once more when the mapping has been revealed: should that
\* raise, the mapping stays revealed.
RevealMapping(b, receipts, closures) ==
    LET w == bundle[b] IN
    /\ w.state = "UNIT_CLOSURE_VERIFIED"
    /\ AllUnitsClosed(w)
    /\ receipts = w.receipts /\ closures = w.closures
    /\ Becomes(b, [w EXCEPT !.state = "BUNDLE_MAPPING_REVEALED", !.mapping = TRUE])

RecordMechanical(b, comparison) ==
    /\ In(b, "BUNDLE_MAPPING_REVEALED")
    /\ Becomes(b, [bundle[b] EXCEPT !.state = "MECHANICAL_COMPARISON_RECORDED",
                                    !.mechanical = comparison])

\* The assessment repeats the human coding of every unit as it was frozen.
FixRationaleAssessment(b, coding, variation) ==
    LET w == bundle[b] IN
    /\ w.state = "MECHANICAL_COMPARISON_RECORDED"
    /\ coding = w.receipts
    /\ Becomes(b, [w EXCEPT !.state = "RATIONALE_ASSESSMENT_FIXED",
                            !.assessed = coding, !.rationale = variation])

\* Models that agree on class and flags while the boundary changed need a human.
Deferred(w) == \/ w.rationale = "UNRESOLVED"
               \/ w.mechanical = "stable" /\ w.rationale = "MATERIAL_BOUNDARY_CHANGE"

FixCharacterization(b, sufficient) ==
    LET w == bundle[b] IN
    /\ w.state = "RATIONALE_ASSESSMENT_FIXED"
    /\ Deferred(w) => ~sufficient       \* there is no disposition then
    /\ Becomes(b, [w EXCEPT !.sufficient = sufficient,
                            !.state = IF Deferred(w) THEN DEFERRED
                                      ELSE "BUNDLE_CHARACTERIZATION_FIXED"])

\* _close_common(): the closure names every unit, receipt and unit closure; the frozen
\* artifacts, the closure among them, are verified when the bundle is closed already.
Close(b, state, mapping, mechanical, rationale, position) ==
    LET w == bundle[b] IN
    Becomes(b, [w EXCEPT !.state = state,
                         !.closure = [cards |-> w.cards, receipts |-> w.receipts,
                                      closures |-> w.closures, mapping |-> mapping,
                                      mechanical |-> mechanical, rationale |-> rationale,
                                      position |-> position]])

\* A complete closure links unblind receipt and assessment by hash; the comparison and
\* the rationale record it carries besides are not compared with what is fixed.
CloseBundle(b, mechanical, rationale, position) ==
    /\ In(b, "BUNDLE_CHARACTERIZATION_FIXED")
    /\ bundle[b].sufficient
    /\ AllUnitsClosed(bundle[b])
    /\ Close(b, CLOSED, TRUE, mechanical, rationale, position)

\* A deferred bundle that may be closed all the same.
NotTerminal(w) == w.state \notin TERMINAL_STATES
Insufficient(w) == w.state \notin TERMINAL_STATES /\ w.state # DEFERRED

\* From any other state, naming no more and no less than was done.  The schema wants the
\* commitment to a mapping from all but the custody-only workflows, hence not before
\* one is fixed.
CloseInsufficient(b, position) ==
    LET w == bundle[b] IN
    /\ Insufficient(w)
    /\ w.state = "FROZEN" => b \in CustodyOnly
    /\ Close(b, INSUFFICIENT, w.mapping, w.mechanical, w.rationale, position)

Operation(b) ==
    \/ FixAliasCommitment(b)
    \/ ReleaseUnit(b)
    \/ \E coding \in Codings : FixHumanReceipt(b, coding) \/ VerifyUnitClosure(b, coding)
    \/ \E receipts, closures \in Codes : RevealMapping(b, receipts, closures)
    \/ \E comparison \in Comparisons : RecordMechanical(b, comparison)
    \/ \E coding \in Codes, variation \in Variations : FixRationaleAssessment(b, coding, variation)
    \/ \E sufficient \in BOOLEAN : FixCharacterization(b, sufficient)
    \/ \E mechanical \in Comparisons, rationale \in Variations, position \in Positions :
          CloseBundle(b, mechanical, rationale, position)
    \/ \E position \in Positions : CloseInsufficient(b, position)
===============================================================================
