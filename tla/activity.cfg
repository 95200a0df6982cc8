SPECIFICATION Spec
CONSTANTS
  NumCpus = 2
  TMO = 2
  MaxInsns = 2
  LineBytes = 64
  Images <- MCImages
  Models <- MCModels
INVARIANTS VectorTrue EstimateTrue
PROPERTIES HarnessEnds
