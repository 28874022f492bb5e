SPECIFICATION FairSpec
CONSTANTS
  Runs = {"r1"}
  Sources <- MCSources
  LocationsLimit = 1
  MeasurementsLimit = 2
  MaxPages = 2
  MaxRetries = 2
  MaxFaults = 2
CHECK_DEADLOCK FALSE
INVARIANTS
  CountsMatchTopic
  SucceededIsComplete
PROPERTIES
  VerdictsOnlyWorsen
  StartedIsJudged
