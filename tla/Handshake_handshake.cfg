\* Three clients, two cells, early data and signals; every call returns.
CONSTANTS
  c1 = c1
  c2 = c2
  c3 = c3
  NoClient = NoClient
  Clients = {c1, c2, c3}
  MAX_CONNECTION = 2
  Backlog = 2
  Stalled = {}
  Disturbances = {"pipeline", "interrupt"}
SPECIFICATION Spec
INVARIANTS AnnouncedSucceeded ClientReadsHandshakeOnly TypeOK
PROPERTIES ConnectReturns SuccessIsAnnounced
CHECK_DEADLOCK FALSE
