CONSTANTS
    dem = dem
    contours = contours
    rivers = rivers
    Dataset = {dem, contours}
    DependsOn <- MCDependsOn
    StageCount <- MCStageCount
    Loads <- MCLoads
    b1 = b1
    b2 = b2
    Build = {b1, b2}
    MaxContent = 1
    MaxEdits = 2
    MaxCommands = 2
    Nothing = Nothing
    Missing = Missing
    Partial = Partial
SPECIFICATION Spec
SYMMETRY Symmetry
INVARIANTS OkIsBuilt LineageNeverBehind
