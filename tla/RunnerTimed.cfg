SPECIFICATION TimedSpec
CONSTANTS
  d1 = d1
  d2 = d2
  Domains <- MCDomains
  MaxPolls = 2
  PollTimeout = 3
  Grace = 2
  Interval <- MCInterval
INVARIANTS
  TimedTypeOK
  PollBounded
  GraceBounded
  NotCutShort
  Cadence
  StopsWithinGrace
