SPECIFICATION DiagSpec
CONSTANTS
  ArmTicks = 3
  PollLimit = 5
INVARIANTS AnswersTrue
PROPERTIES ReachesWfi HangMeansBoard
