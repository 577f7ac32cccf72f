SPECIFICATION Spec
CONSTANTS
  NumWorkers = 2
  NumBlocks = 3
  BlockSize = 2
  MaxWrites <- OneEach
  EagerSend = FALSE
  Null = Null
INVARIANTS
  TypeOK
  CoherenceInv
  StaleCopyIsInvalidated
  StaleResponseIsInvalidated
  OneRequestPerReader
  NoHandlerThrows
CHECK_DEADLOCK FALSE
