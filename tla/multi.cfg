SPECIFICATION Spec
CONSTANTS
  NApps <- TwoThenOne
  PreRoll = 1
  APPDUR = 7
  WARMUP = 1
  WINDOW = 4
  CAP = 8
  KillAfter = 1
  Settle = 3
  MaxLatency = 1
  MaxIteration = 5
  NoRun = NoRun
INVARIANTS HomogeneousPhase CountsAreOwn
