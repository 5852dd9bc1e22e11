CONSTANTS
  MAX_CONFIGS = 5
  Chars <- Words
  Files <- SmallFiles
  Spelling <- Parts
SPECIFICATION Spec
INVARIANT UseBuffersInRange
