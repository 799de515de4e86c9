SPECIFICATION FairSpec
CONSTANTS
    SaveLen = 3
    MaxWrites = 3
INVARIANTS BufferIsCurrent FileIsFlushedVersion SavedAtExit  FileIsOfOneVersion
PROPERTY EventuallyFlushed
CHECK_DEADLOCK FALSE
