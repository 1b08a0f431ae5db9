CONSTANTS
    Null = Null
    Sent = Sent
    MaxElsewhere = 1
    MaxChoices = 2
    MaxForms = 1
\* A map that is gone and forgotten has nothing left to do but read it again.
CHECK_DEADLOCK FALSE
SPECIFICATION FairTab
INVARIANTS LastChoiceKept OwnSaveShown
PROPERTIES ChoicesInOrder EveryWriteSettles
