SPECIFICATION Spec
CONSTANTS
  Sweep <- ShortSweep
  PreRoll = 1
  Secs = 4
  CAP = 7
  Settle = 1
  Nap = 2
  MaxLatency = 1
  MaxClock = 8
  Buffer = 4
  MaxDeaths = 1
INVARIANTS PaceHeld InsideCapture LineTrue
PROPERTIES SweepEnds HandlersEnd
