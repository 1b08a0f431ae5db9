CONSTANTS
    c1 = c1
    c2 = c2
    u1 = u1
    u2 = u2
    national = national
    regional = regional
    MaxVersions = 4
    MaxFeature = 1
    Floor = 1
\* No property of this run reads a revision.
    MaxRevision = 0
    EarlierLoadsKept = 1
    Contents = {c1, c2}
    Units = {u1}
    NoUnit = NoUnit
    Rule <- MCRule
    Users = {national}
    Jurisdiction <- MCJurisdiction
    MaxPins = 0
\* What the edit copies, the drafts that outlive a request, pass.
    UntouchedFrom = {"active"}
\* A layer whose versions are used up does nothing more.
CHECK_DEADLOCK FALSE
SPECIFICATION HistorySpec
INVARIANT CurrentIsResolved
PROPERTY NoSilentOverwrite
