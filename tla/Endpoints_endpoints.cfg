SPECIFICATION Spec
CONSTANTS
  MaxFd = 8
  MaxApp = 2
  MAX_CONNECTION = 3
INVARIANTS TypeOK NothingLeft PolledIsConnected OthersKeepTheirFiles ConnectionIsEnded
