\* Two events that come and go, on either side of the clock chip's.
CONSTANTS
  Others = {2, 4}
  Period <- Periods
  Delays = {1, 3}
  kMaxIterationCycles = 1
  kIterationCycleMargin = 2
  OVER = 2
  LINES = 2
  FRAME = 7
SPECIFICATION Spec
VIEW Relative
INVARIANTS OnTime InStep BeamRuns ClockGoesOn
