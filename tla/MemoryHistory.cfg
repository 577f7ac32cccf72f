SPECIFICATION FairHistorySpec
CONSTANTS
  NumWorkers = 2
  NumBlocks = 2
  BlockSize = 2
  MaxWrites <- TwoWrites
  EagerSend = TRUE
  Null = Null
INVARIANTS
  CoherenceInv
  HistoryInv
PROPERTIES
  ImplementsCoherentMemory
  MonotonicReads
  StaleCopyGoesAway
  AccessesReturn
