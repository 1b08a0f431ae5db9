CONSTANTS
    o = o
    r = r
    g = g
    t1 = t1
    t2 = t2
    m1 = m1
    m2 = m2
    Nothing = Nothing
    Users = {o, r}
    Members <- MCMembers
    Tabs = {t1, t2}
    UserOf <- MCUserOf
    Maps = {m1, m2}
    Layers = {1, 2, 3, 4}
    Kinds = {"edit_copy", "raster"}
    MaxRevision = 2
\* Maps whose ids and revisions are used up change no more.
CHECK_DEADLOCK FALSE
SPECIFICATION Spec
SYMMETRY MCSymmetry
INVARIANT LayersIntact
PROPERTY NoLostUpdate
