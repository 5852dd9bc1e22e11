\* Areas of two and three blocks, freed in any order.
CONSTANTS
  Buffers = 11
  Requests = {2, 3}
  MaxHeld = 3
SPECIFICATION Spec
INVARIANTS
  TypeOK
  BlockListedOnce
  FreePoolInOrder
  AreasAccounted
  SortedByDigits
\* A client may hold only areas whose release fails the assertion of shm_dealloc.
CHECK_DEADLOCK FALSE
