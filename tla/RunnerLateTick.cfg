SPECIFICATION FairSpec
CONSTANTS
  d1 = d1
  d2 = d2
  Domains <- MCOneDomain
  MaxPolls = 2
PROPERTIES
  NoTickAfterShutdown
