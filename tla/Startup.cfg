SPECIFICATION FairSpec
CONSTANTS
  WorldSizes <- UpToThree
  ArgLists <- Lists
  MaxNotices = 1
  Text = Text
  Null = Null
INVARIANTS
  TypeOK
  RunsConfigured
  ServersBeforeClients
  NoCrash
  StartupInv
PROPERTIES
  AllOrNone
CHECK_DEADLOCK FALSE
