CONSTANTS
    a = a
    b = b
    NumJobs = 1
    Exports = {1}
    Workers = {a}
    MaxStops = 1
\* When every job has gone nothing is left to do.
CHECK_DEADLOCK FALSE
SPECIFICATION Spec
INVARIANT CommittedFileStays
