SPECIFICATION Spec
CONSTANTS
    Owners = {o1, o2, o3}
    Requests = {r1, r2, r3}
    MaxEvents = 13
    NoOwner = NoOwner
    NoRequest = NoRequest
    NoRow = NoRow
SYMMETRY Symmetry
INVARIANTS TypeOK OwnerKnowsHistory
PROPERTIES SentUnderIntent ServedInOwnEpoch ImplementsLedger
CHECK_DEADLOCK FALSE
