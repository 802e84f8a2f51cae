\* Descriptors and callbacks over the server's life, no peer overruns.
CONSTANTS
  MAX_CONNECTION = 3
  TcpSocket = 3
  UdpServerSocket = 4
  UdpClientSocket = 5
  Fds = {6, 7, 8, 9}
  PeerFds = {}
  MemcpyAscending = TRUE
  MaxId = 4
SPECIFICATION Spec
INVARIANTS TypeOK NoDescriptorLeak AllClosedOnDelete CallbacksPairedOnDelete
PROPERTY ImplementsSessions
CHECK_DEADLOCK FALSE
