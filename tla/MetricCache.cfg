SPECIFICATION CacheSpec
CONSTANTS
  l1 = l1
  l2 = l2
  r1 = r1
  r2 = r2
  Whole = Whole
  Polls <- MCAllPolls
  Loops <- MCOneLoop
  Resources <- MCResources
  MaxEpoch = 3
SYMMETRY MCResourceSymmetry
INVARIANTS
  CacheTypeOK
  StaleServe
  OneGeneration
  NeverOlder
PROPERTIES
  ServedForward
