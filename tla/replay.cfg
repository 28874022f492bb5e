SPECIFICATION FairSpec
CONSTANTS
  NoSample = NoSample
  Payloads <- MCPayloads
  Fails <- MCFails
  Sample <- MCSample
  Arrived <- MCArrived
  Replays = {"r1", "r2"}
  Options <- SomeOptions
  Limit = 1
  CompactStatuses = {"resolved"}
  MaxLetters = 4
  MaxTriage = 1
  MaxFaults = 1
INVARIANTS
  SucceededAddsUp
  SucceededWasDelivered
  ClosedWasSent
PROPERTIES
  LedgerOnlyCloses
  NoErrorIsForgotten
