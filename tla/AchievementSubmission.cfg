SPECIFICATION FairSpec
CONSTANTS
    Achievements = {a1, a2}
    Entries = {e1}
    Nothing = Nothing
    MaxPending = 3
    LateLookups = FALSE
INVARIANTS NothingForgotten NoLostWakeUp CleanExit
PROPERTIES SubmittedInTheEnd
