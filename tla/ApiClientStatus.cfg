SPECIFICATION ClientSpec
CONSTANTS
  Bases <- MCBases
  Statuses <- MCStatuses
INVARIANTS
  StatusReported
