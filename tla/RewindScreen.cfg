SPECIFICATION Spec
CONSTANTS
    Settings <- MCSettings
    Buffers = {b1, b2, b3}
    MaxFrames = 4
PROPERTY ResumesAsSelected
CHECK_DEADLOCK FALSE
