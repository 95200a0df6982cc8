SPECIFICATION Spec
CONSTANTS
  NumBins = 11
  Captures <- MCCaptures
  None = None
INVARIANTS LongestRun WindowInPlateau SameRows
PROPERTIES FindsPlateau
