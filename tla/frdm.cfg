SPECIFICATION Spec
CONSTANTS
  MaxChecks = 4
  MaxBacklog = 3
  Steady = TRUE
  NoSize = NoSize
INVARIANTS SingleBootGo LiveIsFresh
PROPERTIES ScriptEnds LinuxRestored
