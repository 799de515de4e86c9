\* The renderer with two lines in a frame; at most one mid-frame event.  The
\* system stops when the renderer is destroyed.
CONSTANTS
  LINES = 2
  MaxEvents = 1
SPECIFICATION Spec
INVARIANT OneOrderAtATime
PROPERTIES LinesTrue FrameQuiet EveryFrameEnds
CHECK_DEADLOCK FALSE
