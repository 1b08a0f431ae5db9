CONSTANTS
    j1 = j1
    j2 = j2
    m1 = m1
    m2 = m2
    Jobs = {j1, j2}
    Maps = {m1, m2}
    Cleanup = Cleanup
    File = File
    User = User
\* A raster's import does what that of a file of features does, and one statement more.
    Raster = TRUE
\* When the upload is gone and every job has ended the cleanup has nothing to do.
CHECK_DEADLOCK FALSE
SPECIFICATION FairSpec
INVARIANTS DeadlockOnlyAtQuota OriginalDated
PROPERTIES SweepSparesImports ReturnedOwnerKeepsMap ExpiredGoes
