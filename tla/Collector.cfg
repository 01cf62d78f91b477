SPECIFICATION CollectorFairSpec
CONSTANTS
  d1 = d1
  r1 = r1
  Whole = Whole
  Domains <- MCDomains
  Polls <- MCPolls
  Resources <- MCResources
  MaxPolls = 3
  MaxEpoch = 2
INVARIANTS
  CollectorTypeOK
  LastPollVisible
  WholeOutsidePolls
  TimestampOfServed
PROPERTIES
  ImplementsRunner
