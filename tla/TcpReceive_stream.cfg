\* Two connections, up to two messages each, lengths 0, 2 and "negative".
CONSTANTS
  p1 = p1
  p2 = p2
  Peers = {p1, p2}
  Scenes <- AloneOrTogether
  HDR = 2
  Sizes = {0, 2, 3}
  IntLimit = 3
  MaxMessages <- TwoAndOne
SPECIFICATION Spec
INVARIANTS TypeOK KeptWhilePeerStays
PROPERTIES ImplementsDelivery EventuallyDelivered
CHECK_DEADLOCK FALSE
