\* The renderer with no event in mid-frame, asked whether SetupRenderThread is told.
CONSTANTS
  LINES = 2
  MaxEvents = 0
SPECIFICATION Spec
PROPERTIES AlwaysTold
CHECK_DEADLOCK FALSE
