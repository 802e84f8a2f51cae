SPECIFICATION Spec
CONSTANTS
  t1 = t1
  t2 = t2
  Threads = {t1, t2}
  NoThread = NoThread
  MAX_CONNECTION = 2
  MaxId = 3
  Sizes = {0, 1, 3}
  HDR = 2
  Wrap = 8
  MaxCalls = 1
  Churn = "behind"
  Faults = {"malloc", "partial"}
CHECK_DEADLOCK FALSE
INVARIANTS TypeOK MutualExclusion SentToReceiver FrameFits OnlyFirstEmptyCallsCrash
PROPERTY CallsReturn
