SPECIFICATION CacheSpec
CONSTANTS
  l1 = l1
  l2 = l2
  r1 = r1
  r2 = r2
  Whole = Whole
  Polls <- MCPod
  Loops <- MCOneLoop
  Resources <- MCResources
  MaxEpoch = 2
INVARIANTS
  LastGoodServed
