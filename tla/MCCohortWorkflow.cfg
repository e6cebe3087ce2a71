SPECIFICATION CohortSpec
CONSTANTS
    Bundles = {b1, b2, b3}
    CustodyOnly = {b3}
    Units = 2
    Codings = {supported, unclear}
    Positions <- MCPositions
    Cohort = 2
    NoBundle = NoBundle
SYMMETRY Symmetry
INVARIANT CodedBlind
INVARIANT CohortInOrder
PROPERTY HistoryIsFinal
CHECK_DEADLOCK FALSE
