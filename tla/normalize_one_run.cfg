SPECIFICATION Spec
CONSTANTS
  NoRow = NoRow
  r1 = r1
  r2 = r2
  Runs = {r1}
  Payloads <- AnyKind
  Keys <- MCKeys
  KeyOf <- MCKeyOf
  FailsAt <- MCFailsAt
  Storable <- MCStorable
  MaxLog = 3
  MaxKills = 1
  MaxFails = 1
INVARIANTS
  TypeOK
  TablesAreTheFold
  RecordsAreTrue
  CoveredIsRecorded
PROPERTIES
  ValidRowsSurvive
