\* Two ports of a host and a stranger on it, a table of two cells, two datagrams.
CONSTANTS
  h1 = h1
  Hosts = {h1}
  Ports = {1, 2}
  Strangers <- Outsider
  Scenes <- AllScenes
  MAX_CONNECTION = 2
  MaxId = 3
  MaxDatagrams = 2
SPECIFICATION Spec
INVARIANTS TypeOK AttributedToSender HeardOnce DatagramsKeepConnection
PROPERTIES QueuedIsRead
CHECK_DEADLOCK FALSE
