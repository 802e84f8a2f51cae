SPECIFICATION Spec
CONSTANTS
  MaxFd = 7
  MaxApp = 1
  MAX_CONNECTION = 1
INVARIANT PollsTheConnection
