\* A server and a client in one application, peers that answer.
CONSTANTS
  Servers = {"s1"}
  Clients = {"c1"}
  PeersAnswer = TRUE
  MaxChunks = 2
SPECIFICATION Spec
INVARIANTS TypeOK RunningIsStarted NoThreadAfterStop ClientStartedIsRunning
PROPERTY StopReturns
