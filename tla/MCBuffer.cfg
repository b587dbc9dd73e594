CONSTANTS
  Byte = {a, b, zero}
  Zero = zero
  kCheapPrepend = 1
  kInitialSize = 2
  ExtraSize = 2
  Chunks <- MCChunks
  MaxBytes = 4
SPECIFICATION Spec
INVARIANTS
  TypeOK
  IndicesInOrder
PROPERTIES
  GrowsOnlyWhenFull
  RefinesByteQueue
