CONSTANTS
  Buffers = 2
  UseBuffers = 1
  NChunks = 3
  MaxConns = 3
  DoSearch = FALSE
  MaxCopies = 2
  MaxFaults <- JaneFaults
SPECIFICATION FairSpec
PROPERTIES
  RequestAnswered
  JaneFinishes
  CopyCompletes
