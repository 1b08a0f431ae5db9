CONSTANTS
    gapped = gapped
    upper = upper
    lower = lower
    Null = Null
    d1 = d1
    d2 = d2
    Reach = {1, 2, 3, 4, 5}
    Way = {1, 2, 3}
    Name = {1, 2}
    Course = {gapped, upper, lower}
    Samples = 3
    MinVotes = 2
    Tolerance = 2
    MaxMedian = 1
    Draft = {d1, d2}
    MaxVersions = 3
    MaxEdits = 2
    DistanceOf <- MCDistanceOf
    Networks <- MCNetworks
    Baseline <- MCBaseline
CHECK_DEADLOCK FALSE
SPECIFICATION RiverSpec
SYMMETRY MCSymmetry
INVARIANTS RiversAreConnectedNames RiverRowsFollowMembers RebuildWritesNothing EditsPassGates
