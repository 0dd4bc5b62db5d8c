SPECIFICATION MCSpec
CONSTANTS
    None = None
    Link = Link
    Torn = Torn
    Symlink = Symlink
    doc = doc
    w1 = w1
    w2 = w2
    c1 = c1
    Workers = {w1, w2}
    Callers = {w1, w2, c1}
    Submissions <- MCSubmissions
    Registered <- MCRegistered
    Bundle <- MCBundle
    Lean <- MCLean
    Forgeries <- MCForgeries
    ImageOf <- MCImageOf
    MaxFence = 3
    MaxTamper = 3
    MaxDamage = 1
    Documents = {doc}
CHECK_DEADLOCK FALSE
INVARIANTS
    VerdictFaithful
    OneLeasePerVerdict
    NoContainerLeft
    BlobsSound
    VerdictAdmitted
