\* Pieces of the stream that end anywhere: is a message delivered whole?
CONSTANTS
  p1 = p1
  p2 = p2
  Peers = {p1}
  Scenes <- AnyCuts
  HDR = 2
  Sizes = {2}
  IntLimit = 3
  MaxMessages <- TwoAndOne
SPECIFICATION Spec
INVARIANTS WholeMessages
CHECK_DEADLOCK FALSE
