\* A server: is is_started ever set without a thread?
CONSTANTS
  Servers = {"s1"}
  Clients = {}
  PeersAnswer = TRUE
  MaxChunks = 2
SPECIFICATION Spec
INVARIANTS StartedIsRunning
