CONSTANTS
  Buffers = 2
  UseBuffers = 1
  NChunks = 3
  MaxConns = 1
  DoSearch = FALSE
  MaxCopies = 2
  MaxFaults <- OneChange
SPECIFICATION Spec
PROPERTY RetriesRejectedChunk
