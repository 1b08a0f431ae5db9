CONSTANTS
    c1 = c1
    c2 = c2
    u1 = u1
    u2 = u2
    national = national
    regional = regional
    MaxVersions = 3
    MaxFeature = 1
    Floor = 1
    MaxRevision = 1
    EarlierLoadsKept = 0
    Contents = {c1, c2}
    Units = {u1, u2}
    NoUnit = NoUnit
    Rule <- MCRule
    Users = {national, regional}
    Jurisdiction <- MCJurisdiction
    MaxPins = 1
    UntouchedFrom = {"draft", "active"}
\* A layer whose versions are used up does nothing more.
CHECK_DEADLOCK FALSE
SPECIFICATION Spec
INVARIANT ForestIntact
PROPERTIES WithinJurisdiction UnitSurvivesLoad DraftIsolation ImplementsPublishedLayer
