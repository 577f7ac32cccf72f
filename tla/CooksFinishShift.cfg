SPECIFICATION FairSpec
CONSTANTS
  k1 = k1
  k2 = k2
  c1 = c1
  c2 = c2
  Cook <- TwoCooks
  Client <- TwoClients
  NumFogoes = 1
  NumFornos = 1
  Null = Null
PROPERTIES
  CooksFinishShift
CHECK_DEADLOCK FALSE
