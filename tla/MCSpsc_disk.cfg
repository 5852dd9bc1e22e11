CONSTANTS
  Buffers = 2
  UseBuffers = 1
  NChunks = 3
  MaxConns = 1
  DoSearch = FALSE
  MaxCopies = 2
  MaxFaults <- OneDiskFault
SPECIFICATION Spec
PROPERTY AcceptAfterFailedSend
\* After a failed write Jane and Thor may wait for each other for ever.
CHECK_DEADLOCK FALSE
