----------------------------- MODULE MCRiskScores -----------------------------
(* Values of the inputs of RiskScores: none, below, between and above the  *)
(* thresholds of each component.                                           *)
EXTENDS RiskScores

MCCounts == {0, 12, 60}
MCPowers == {None, 700}
MCPm25s == {None, 90}
MCPm10s == {None, 120}
MCAges == {-1, 5, 30}
MCBearings == {350}
MCWinds == {None, 0, 185, 165, 100}
MCSpeeds == {-3, 12}
MCDistances == {100, 200}
MCStrengths == {99}
MCHumidities == {None, 30, 100}
=============================================================================
