SPECIFICATION LiveSpec
CONSTANTS
  r1 = r1
  r2 = r2
  p1 = p1
  w1 = w1
  w2 = w2
  Passes <- MCPasses
  Pulls <- MCPulls
  Requests <- MCRequests
  MaxAccounts = 2
  MaxFence = 2
INVARIANT ConnectionHasAccount
PROPERTY OneConnectionPerFence
PROPERTY ClosedTabConverges
