SPECIFICATION Spec
CONSTANTS
  NumWorkers = 1
  NumBlocks = 2
  BlockSize = 3
  v1 = v1
  v2 = v2
  Fill <- TwoFills
  Heap = Heap
  MaxOver = 1
INVARIANTS
  TypeOK
  MemoryHoldsWrites
  LeReturnsMemory
