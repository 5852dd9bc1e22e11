CONSTANTS
  Buffers = 2
  UseBuffers = 1
  NChunks = 3
  MaxConns = 5
  DoSearch = TRUE
  MaxCopies = 2
  MaxFaults <- AnyFault
SPECIFICATION Spec
CONSTRAINT FewFaults
INVARIANTS
  TypeOK
  SameAreaEveryRound
  RetryKeepsBuffer
  NoConcurrentUse
  CorruptionDetected
  NoTornRead
  OutputFollowsInput
  ScannedIsWritten
PROPERTIES
  NoHoleAfterDiskFault
  CopiesFile
\* After a failed write Jane and Thor may wait for each other for ever.
CHECK_DEADLOCK FALSE
