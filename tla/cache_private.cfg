SPECIFICATION Spec
CONSTANTS
  NumVcpus = 2
  cores = 2
  LoadLine = {2}
  StoreLine = {1, 2, 3}
  FetchLine = {9}
  geometry <- TinyGeometry
  use_l2 = TRUE
  use_l3 = TRUE
  use_wstream = TRUE
  StreamAfter = 2
  MaxOps = 3
  NoVcpu = NoVcpu
INVARIANTS MissFlow EachAccessOnce StreamsAreRuns LockDiscipline ReportBalanced
PROPERTIES OneBurstPerLine
