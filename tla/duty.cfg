SPECIFICATION Spec
CONSTANTS
  Windows = 3
  ActiveTicks = 4
  Duties = {25, 50, 60, 100}
  ChunkTicks = {1, 3}
  LongestChunk = 3
INVARIANTS TypeOK NeverWokenEarly ActiveInv
PROPERTIES Completes KeepsDuty
