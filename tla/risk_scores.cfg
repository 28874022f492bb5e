\* One geography and one fire: every input none, low and beyond its cap.
SPECIFICATION Spec
CONSTANTS
  None = None
  Counts <- MCCounts
  Powers <- MCPowers
  Pm25s <- MCPm25s
  Pm10s <- MCPm10s
  Ages <- MCAges
  Bearings <- MCBearings
  Winds <- MCWinds
  Speeds <- MCSpeeds
  Distances <- MCDistances
  Strengths <- MCStrengths
  Humidities <- MCHumidities
INVARIANTS ScoresInRange UpwindIsNeverSevere
PROPERTY MoreSmokeNeverLowers
