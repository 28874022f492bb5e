SPECIFICATION LagFairSpec
CONSTANTS
  NoRow = NoRow
  r1 = r1
  r2 = r2
  Runs = {r1, r2}
  Payloads <- TwoVersions
  Keys <- MCKeys
  KeyOf <- MCKeyOf
  FailsAt <- MCFailsAt
  Storable <- MCStorable
  MaxLog = 2
  MaxKills = 1
  MaxFails = 1
PROPERTIES
  Converges
  EveryMessageArrives
  LagBrackets
