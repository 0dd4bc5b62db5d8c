SPECIFICATION GSpec
CONSTANTS
    b1 = b1
    w1 = w1
    Jobs = {b1}
    Holders = {w1}
    TTL = 2
    MaxTime = 1
    MaxToken = 1
    Requests <- GatewayRequests
    RevisionOf <- Revision
    Callers = {c1}
    DirectVerifier = FALSE
    Gateways = {g1, g2}
    Tickets <- GatewayTickets
    MaxTtl = 2
    Margin = 0
SYMMETRY Symmetry
CHECK_DEADLOCK FALSE
INVARIANTS
    GatewayTypeOK
    PayloadSignedOnce
    RetriesAgree
    ReservationKept
    NothingOutlivesLease
PROPERTIES
    FailsClosed
    ImplementsSign
