SPECIFICATION FairSpec
CONSTANT
    MaxLaunches = 3
INVARIANTS MachineExclusive MachineAlive
PROPERTIES CallsReturn ResumedRuns
CHECK_DEADLOCK FALSE
