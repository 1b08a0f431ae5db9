CONSTANTS
    a = a
    b = b
    NumJobs = 2
    Exports = {1}
    Workers = {a, b}
    MaxStops = 2
\* When every job has gone nothing is left to do.
CHECK_DEADLOCK FALSE
SPECIFICATION FairSpec
INVARIANTS FailedWroteNothing RunOnce ExportLeavesNoOrphan
PROPERTY JobEnds
