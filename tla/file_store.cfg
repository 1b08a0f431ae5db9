CONSTANTS
    o = o
    r = r
    up1 = up1
    up2 = up2
    copy1 = copy1
    import1 = import1
    Nothing = Nothing
    Users = {o, r}
    MapOwner = o
    Files = {1, 2, 3, 4}
    Sources = {1}
    Requests = {up1, copy1, import1}
    KindOf <- MCKindOf
    UserOf <- MCUserOf
    Quota = 1
    MaxShare = 2
\* A store whose requests have ended may do nothing more.
CHECK_DEADLOCK FALSE
SPECIFICATION Spec
INVARIANTS QuotaKept RowHasFile CogsMatchLayers
