SPECIFICATION StalledWalkSpec
CONSTANTS
    f1 = f1
    f2 = f2
    f3 = f3
    Files = {f1, f2}
    Workers = {w1, w2}
    Caller = caller
    Rank <- MCRank
    DiscoveryBatch = 2
    Contents = {"formatted", "unformatted", "readonly", "broken"}
INVARIANTS
    ClaimedOnce
    NoUnderWake
    NoSleeperAfterFinish
    ReportFaithful
    ExitTells
PROPERTIES
    Termination
    Streams
    ImplementsFormatOnce
