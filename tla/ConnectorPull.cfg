SPECIFICATION LiveSpec
CONSTANTS
  i1 = i1
  i2 = i2
  p1 = p1
  p2 = p2
  Items <- MCItems
  Pulls <- OnePull
  MaxEvents = 3
  MaxFence = 1
INVARIANT CursorCoversBankedWork
PROPERTY CursorsKeepToTheirConnection
PROPERTY CatchesUp
