SPECIFICATION LeaseSpec
CONSTANTS
    j1 = j1
    w1 = w1
    w2 = w2
    Jobs = {j1}
    Holders = {w1, w2}
    TTL = 2
    MaxTime = 3
    MaxToken = 2
SYMMETRY Symmetry
CHECK_DEADLOCK FALSE
INVARIANTS
    LeaseTypeOK
    LeaseRowsSound
    TokenNamesOneHolder
PROPERTIES
    LiveLeaseNotStolen
