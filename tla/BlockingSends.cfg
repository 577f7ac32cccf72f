SPECIFICATION FairSpec
CONSTANTS
  NumWorkers = 2
  NumBlocks = 2
  BlockSize = 2
  MaxWrites <- FourWrites
  EagerSend = FALSE
  Null = Null
PROPERTIES
  AccessesReturn
CHECK_DEADLOCK FALSE
