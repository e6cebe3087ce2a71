SPECIFICATION Spec
CONSTANTS
    e1 = e1
    e2 = e2
    e3 = e3
    a1 = a1
    a2 = a2
    a3 = a3
    r1 = r1
    r2 = r2
    r3 = r3
    Envelopes = {e1, e2, e3}
    Addresses = {a1, a2, a3}
    Requests = {r1, r2, r3}
    Invocations = {i1, i2}
    Contexts = {c1, c2}
    Times <- MCTimes
    MaxAge = 1
    Capacity = 2
SYMMETRY Symmetry
CONSTRAINT SpareExceeds
INVARIANTS TypeOK ExactBinding FreshWhenUsed OneAuthorizationPerRequest
PROPERTIES PresentedIsSpent OnlyOwnerOrExpiryRemoves ImplementsLedger
CHECK_DEADLOCK FALSE
