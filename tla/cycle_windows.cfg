\* One cycle whose jobs start in different seconds.
SPECIFICATION Spec
CONSTANTS
  r1 = r1
  r2 = r2
  f1 = f1
  f2 = f2
  g1 = g1
  g2 = g2
  g3 = g3
  g4 = g4
  Runs = {r1}
  Fires = {f1}
  Geos = {g1, g2}
  OnGrid = {f1}
  OnStation = {f1}
  Inside <- MCInside
  Nearby = {}
  Measured = {}
  Environments <- MCEnvironments
  Corridor <- MCCorridor
  Downwind <- MCDownwind
  RiskHours = 24
  DispersionHours = 24
  MaxTargets = 2
  LastSecond = 1
  MaxFaults = 0
CHECK_DEADLOCK FALSE
INVARIANT RiskUsesCyclePlumes
