SPECIFICATION FairSpec
CONSTANTS
  d1 = d1
  d2 = d2
  Domains <- MCDomains
  MaxPolls = 1
INVARIANTS
  TypeOK
  MonitorWithinPoll
  JoinNeedsNoTimer
  ForcedOnlyByShutdown
PROPERTIES
  RunLeavesNothing
  PollsEnd
  PollsForever
  RunEnds
  ImplementsPollCycle
