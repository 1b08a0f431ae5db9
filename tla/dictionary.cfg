SPECIFICATION Spec
CONSTANTS
    m = m
    km = km
    s = s
    c1 = c1
    c2 = c2
    old = old
    new = new
    mine = mine
    Null = Null
    Nobody = Nobody
    u1 = u1
    u2 = u2
    Staff = {u1, u2}
    Code = {c1, c2}
    Unit = {m, km, s}
    Text = {mine}
    Today = 1
    MaxWrites = 3
    DimensionOf <- MCDimensionOf
    Releases <- MCReleases
SYMMETRY MCSymmetry
INVARIANTS UnitsAgree HistoryExplainsRow SyncedRowsFollowCode
PROPERTY NoLostUpdate
CHECK_DEADLOCK FALSE
