SPECIFICATION Spec
CONSTANTS
  t1 = t1
  t2 = t2
  Threads = {t1, t2}
  NoThread = NoThread
  MAX_CONNECTION = 2
  MaxId = 2
  Sizes = {1}
  HDR = 2
  Wrap = 8
  MaxCalls = 1
  Churn = "any"
  Faults = {}
CHECK_DEADLOCK FALSE
INVARIANT SentToReceiver
