SPECIFICATION Spec
CONSTANTS
  Calls = {c1, c2, c3, c4}
  None = None
  MaxPending = 2
  MaxBridges = 2
INVARIANTS
  OwnAnswer
  OneGateway
  RegistryAccounted
  HandshakeFirst
PROPERTIES
  EveryCallReturns
CHECK_DEADLOCK FALSE
