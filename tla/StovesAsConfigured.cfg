SPECIFICATION Spec
CONSTANTS
  k1 = k1
  k2 = k2
  c1 = c1
  c2 = c2
  Cook <- TwoCooks
  Client <- TwoClients
  NumFogoes = 1
  NumFornos = 2
  Null = Null
INVARIANTS
  StovesAsConfigured
CHECK_DEADLOCK FALSE
