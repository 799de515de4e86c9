SPECIFICATION Spec
CONSTANT
    MaxLaunches = 3
INVARIANT ReallyPaused
CHECK_DEADLOCK FALSE
