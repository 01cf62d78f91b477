SPECIFICATION ExporterSpec
CONSTANTS
  d1 = d1
  c1 = c1
  c2 = c2
  Domains <- MCDomains
  Conns <- MCConns
  MaxPolls = 1
INVARIANTS
  PollLeftToFinish
