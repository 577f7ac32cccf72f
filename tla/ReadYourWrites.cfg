SPECIFICATION HistorySpec
CONSTANTS
  NumWorkers = 2
  NumBlocks = 2
  BlockSize = 2
  MaxWrites <- OneEach
  EagerSend = TRUE
  Null = Null
PROPERTIES
  ReadYourWrites
