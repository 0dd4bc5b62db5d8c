SPECIFICATION MCSpec
CONSTANTS
    None = None
    a1 = a1
    a2 = a2
    ops = ops
    t1 = t1
    t2 = t2
    x = x
    r = r
    Manifests <- MCManifests
    Processes = {a1, a2, ops}
    Threads = {"o1", "o2", "o3"}
    ProcessOf <- MCProcessOf
    Supplies = {"pdf", "txt", "junk"}
    MaxDamage = 1
    Authors = {a1, a2}
    Agents = {t1, t2, x, r}
    Identities <- MCIdentities
    Casts <- MCCasts
    Proposals <- MCProposals
    Suites <- MCSuites
    Verdicts <- MCVerdicts
    TypeOf <- MCTypeOf
    Environments <- MCEnvironments
    Form <- MCForm
    ImportLists = {{"Init"}, {"Init", "Extra"}}
    MutationKinds = {"drop", "swap"}
    BaseMutations = {"drop", "swap"}
    MaxTime = 2
    Requests <- MCRequests
    Obligations <- MCObligations
    NoHarness = NoHarness
    Harnesses = {a1, a2}
    PilotManifests <- MCPilotManifests
    RightsRecords <- MCRightsRecords
    TestOnly = TRUE
    Rounds <- MCRounds
    Libraries <- MCLibraries
    ModulePaths = {"M", "N"}
    Rank <- MCRank
    Stripped <- MCStripped
    Genuine <- MCGenuine
    Workspaces <- MCWorkspaces
    ByteLength <- MCByteLength
    RecordInputs <- MCRecordInputs
    QueryInputs <- MCQueryInputs
    EnvelopeSize = 3500
    HashSize = 66
    Readers = {a1, a2}
    NoCatalog = NoCatalog
CHECK_DEADLOCK FALSE
INVARIANTS
    OneDraftPerRevision
    NoSelfReview
    SourceAdmitted
    HandoffAdmitted
    PilotEvidenceSound
    ExperienceSound
PROPERTIES
    KeepsGoodCopies
