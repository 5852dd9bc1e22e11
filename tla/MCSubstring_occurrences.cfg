CONSTANTS
  Chars = {"a", "b"}
  Patterns <- ShortPatterns
  MAX_OCCURANCE = 3
  INT_MAX = 7
  MaxPiece = 3
  MaxText = 5
SPECIFICATION Spec
INVARIANT FindsPattern
