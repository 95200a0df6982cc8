SPECIFICATION Spec
CONSTANTS
  MaxChecks = 4
  MaxBacklog = 1
  Steady = TRUE
  NoSize = NoSize
INVARIANTS NoBlindGo
