SPECIFICATION MCSpec
CONSTANTS
    b1 = b1
    p1 = p1
    p2 = p2
    i1 = i1
    i2 = i2
    Jobs = {b1}
    Holders = {w1}
    TTL = 1
    MaxTime = 1
    MaxToken = 2
    Approvals <- OneApproval
    Offers <- FourOffers
    Reasons = {"r"}
    Keys <- TwoKeys
    Issuers = {i1, i2}
    MaxIssueTtl = 2
    Threshold = 1
    Cooldown = 1
    Provers = {p1, p2}
    Prompts <- Prompt
SYMMETRY Symmetry
CHECK_DEADLOCK FALSE
INVARIANTS
    OneCapability
    BudgetHolds
    LedgerSound
    CallsWithinAttempts
    CallsAccounted
    CircuitJustified
