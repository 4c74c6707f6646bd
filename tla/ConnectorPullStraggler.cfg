SPECIFICATION Spec
CONSTANTS
  i1 = i1
  i2 = i2
  p1 = p1
  p2 = p2
  Items <- MCItems
  Pulls <- TwoPulls
  MaxEvents = 2
  MaxFence = 0
INVARIANT StragglersCorruptNothing
