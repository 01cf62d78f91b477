SPECIFICATION ClientFairSpec
CONSTANTS
  Bases <- MCBases
  Statuses <- MCStatuses
INVARIANTS
  ClientTypeOK
  AnswerIsGenuine
  NoBodyLeaked
  UnderBase
  PollsOnlyRead
PROPERTIES
  ImplementsApiCall
