\* One cycle in every environment, with two fires and two faults.
SPECIFICATION FairSpec
CONSTANTS
  r1 = r1
  r2 = r2
  f1 = f1
  f2 = f2
  g1 = g1
  g2 = g2
  g3 = g3
  g4 = g4
  Runs = {r1}
  Fires = {f1, f2}
  Geos = {g1, g2, g3, g4}
  OnGrid = {f1}
  OnStation = {f1, f2}
  Inside <- AloneInside
  Nearby <- AloneNearby
  Measured = {g4}
  Environments <- AllEnvironments
  Corridor <- AloneCorridor
  Downwind <- AloneDownwind
  RiskHours = 24
  DispersionHours = 24
  MaxTargets = 3
  LastSecond = 1
  MaxFaults = 2
CHECK_DEADLOCK FALSE
INVARIANT LoneCycleScores
PROPERTY CycleEnds
