SPECIFICATION Spec
CONSTANTS
    Settings <- MCSettings
    Buffers = {b1, b2, b3}
    MaxFrames = 4
INVARIANTS WindowOrdered WindowBounded BuffersOwned ScreenIsTrue
PROPERTY ResumesFromChosen
CHECK_DEADLOCK FALSE
