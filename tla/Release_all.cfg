SPECIFICATION FairSpec
CONSTANTS
    NumWasm = 2
    NumPlatforms = 1
    Crate = {"tsv_lang", "tsv"}
    Needs <- MCNeeds
    Burst = 1
    MaxVersion = 2
    MaxFixes = 2
    MaxFaults = 2
    NoGit <- Either
    EditsAt <- Anywhere
    PullsAt <- Anywhere
CHECK_DEADLOCK FALSE
INVARIANT
    SentinelCovers
    TagIsRelease
    SameSource
    CratesAreTagged
PROPERTY
    ImplementsReleaseOrder
    EventuallyOut
