CONSTANTS
    w1 = w1
    w2 = w2
    e1 = e1
    l1 = l1
    l2 = l2
    older = older
    newer = newer
    d = d
    None = None
    Writers = {w1, w2}
    Editors = {e1}
    Loads = {l1, l2}
    Superseding = {l2}
    Creating = {w1, e1}
    Base <- MCBase
    FirstActive = newer
    TheDraft = d
    Casts <- MCCasts
\* A transaction that has ended does nothing more.
CHECK_DEADLOCK FALSE
SPECIFICATION FairSpec
INVARIANTS EditorNeverInDeadlock NumberedOnce
PROPERTIES ImplementsSerialPublishing LoadNeverHidesEdit EveryTransactionEnds
