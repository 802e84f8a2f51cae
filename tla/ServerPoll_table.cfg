\* Structure of the table, with peers that may overrun the exchange.
CONSTANTS
  MAX_CONNECTION = 3
  TcpSocket = 3
  UdpServerSocket = 4
  UdpClientSocket = 5
  Fds = {6, 7, 8}
  PeerFds = {3, 6}
  MemcpyAscending = TRUE
  MaxId = 4
SPECIFICATION Spec
INVARIANTS SlotsAligned NoHoleAtRest SlotsAreSessions SendSlotsInitialised
CHECK_DEADLOCK FALSE
