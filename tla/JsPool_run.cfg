SPECIFICATION Spec
CONSTANTS
    FileCount = 3
    MaxJobs = 2
    Trees <- MCTrees
CHECK_DEADLOCK FALSE
INVARIANTS
    ReportTrue
    ErrorsAreUntouched
    SameVerdict
PROPERTIES
    EveryRunReports
