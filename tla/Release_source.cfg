SPECIFICATION Spec
CONSTANTS
    NumWasm = 2
    NumPlatforms = 1
    Crate = {"tsv_lang", "tsv"}
    Needs <- MCNeeds
    Burst = 1
    MaxVersion = 1
    MaxFixes = 2
    MaxFaults = 1
    NoGit <- ByScript
    EditsAt <- AtRest
    PullsAt <- Never
CHECK_DEADLOCK FALSE
INVARIANT OneSource
