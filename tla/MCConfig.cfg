CONSTANTS
  MAX_CONFIGS = 5
  Chars <- Words
  Files <- SmallFiles
  Spelling <- Parts
SPECIFICATION Spec
INVARIANTS
  TypeOK
  ReadsWhatIsWritten
  ValuesStayWhole
  AcceptedIffAgreed
