CONSTANTS
  Buffers = 2
  UseBuffers = 1
  NChunks = 3
  MaxConns = 2
  DoSearch = FALSE
  MaxCopies = 2
  MaxFaults <- OneKill
SPECIFICATION FairSpec
PROPERTY EverythingArrives
