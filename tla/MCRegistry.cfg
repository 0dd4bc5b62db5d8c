SPECIFICATION MCSpec
CONSTANTS
    b1 = b1
    b2 = b2
    w1 = w1
    w2 = w2
    c1 = c1
    c2 = c2
    Jobs = {b1, b2}
    Holders = {w1}
    TTL = 2
    MaxTime = 0
    MaxToken = 1
    Requests <- BothRequests
    RevisionOf <- Revision
    Callers = {c1, c2}
    DirectVerifier = TRUE
    GraphsOf <- Documents
    NodeLimit = 3
SYMMETRY Symmetry
CHECK_DEADLOCK FALSE
INVARIANTS
    VerdictSound
    ReopenSucceeds
    NonceSpentOnce
    LogWhole
    SnapshotSound
