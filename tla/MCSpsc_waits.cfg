CONSTANTS
  Buffers = 2
  UseBuffers = 1
  NChunks = 3
  MaxConns = 2
  DoSearch = FALSE
  MaxCopies = 2
  MaxFaults <- FewSockets
SPECIFICATION FairSpec
PROPERTY WaitsForThor
