SPECIFICATION Spec
CONSTANTS
    b1 = b1
    b2 = b2
    w1 = w1
    w2 = w2
    c1 = c1
    c2 = c2
    Jobs = {b1}
    Holders = {w1}
    TTL = 2
    MaxTime = 1
    MaxToken = 1
    Requests <- SharedReviewRequests
    RevisionOf <- Revision
    Callers = {c1, c2}
    DirectVerifier = FALSE
SYMMETRY Symmetry
CHECK_DEADLOCK FALSE
INVARIANTS
    ProjectionRebuilds
