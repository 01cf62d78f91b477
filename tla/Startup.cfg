SPECIFICATION StartSpec
CONSTANTS
  Choices <- MCChoices
  Together <- MCTogether
INVARIANTS
  StartTypeOK
  TickersAboveFloor
  FailsFast
  FlagWins
  PolledAsAsked
  TierCadence
