SPECIFICATION FairRSpec
CONSTANTS
    b1 = b1
    p1 = p1
    p2 = p2
    Jobs = {b1}
    Holders = {w1}
    TTL = 1
    MaxTime = 1
    MaxToken = 1
    Approvals <- OneApproval
    Offers <- OneOffer
    Reasons = {"r"}
    Keys <- OneKey
    Issuers = {i1}
    MaxIssueTtl = 1
    Threshold = 2
    Cooldown = 1
    Provers = {p1, p2}
    Prompts <- Prompt
CHECK_DEADLOCK FALSE
PROPERTIES
    CallsEnd
