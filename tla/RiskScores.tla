------------------------------ MODULE RiskScores ------------------------------
(***************************************************************************)
(* The risk indices v1 to v5 of one geography (risk.py), with the corridor *)
(* exposure (plume_scoring.py, wind.py) and the dispersion proxy           *)
(* (dispersion.py) of one fire, as they change from one run of the risk    *)
(* job to the next.                                                        *)
(*                                                                         *)
(* The formulas are piecewise linear with rational weights, so they are    *)
(* exact in integers: v1 is counted in twentieths of a point, v2 in        *)
(* hundredths, the exposure in 1/1500, the blends in 1/Unit.  Only the     *)
(* exponentials of the dispersion proxy are abstract: of them the model    *)
(* keeps where the score is zero, and that it stays below 100.             *)
(***************************************************************************)
EXTENDS Integers

CONSTANTS
  None,        \* SQL NULL
  Counts,      \* fires inside and near the geography
  Powers,      \* fire radiative power (MW), or None
  Pm25s,       \* mean concentrations (ug/m3), or None
  Pm10s,
  Ages,        \* hours from the newest fire to the end of the window
  Bearings,    \* from the fire to the geography
  Winds,       \* where the wind comes from, in degrees, or None
  Speeds,      \* of the wind (m/s), or None
  Distances,   \* from the fire to the geography (km)
  Strengths,   \* what the dispersion proxy gives if it is not zero
  Humidities   \* mean relative humidity (percent), or None

ASSUME ScoreInputs ==
  /\ None \notin Int
  /\ Counts \subseteq Nat /\ Powers \subseteq Int \cup {None}
  /\ Pm25s \subseteq Int \cup {None} /\ Pm10s \subseteq Int \cup {None}
  /\ Ages \subseteq Int /\ Bearings \subseteq Int
  /\ Winds \subseteq Int \cup {None} /\ Speeds \subseteq Int \cup {None}
  /\ Distances \subseteq Nat /\ Strengths \subseteq 0..99
  /\ Humidities \subseteq 0..100 \cup {None}

VARIABLES
  area,     \* what the job reads of the geography in its window
  fire,     \* the fire whose smoke may reach it
  humidity  \* over the geography, from the weather grid

vars == << area, fire, humidity >>

Rows == [inside : Counts, nearby : Counts, frp : Powers \cup {None},
         pm25 : Pm25s, pm10 : Pm10s, age : Ages \cup {None}]

\* A geography without a fire has no power and no age.
Areas == {a \in Rows : /\ a.inside + a.nearby = 0 => a.frp = None
                      /\ (a.inside + a.nearby = 0) <=> (a.age = None)}

Sources == [bearing : Bearings, wind : Winds, speed : Speeds, km : Distances,
            frp : Powers, strength : Strengths]

TypeOK == area \in Areas /\ fire \in Sources /\ humidity \in Humidities

Init == area \in Areas /\ fire \in Sources /\ humidity \in Humidities

OrZero(x) == IF x = None THEN 0 ELSE x

\* Of a record's fields, at most one differs.
OneField(r, s) == \E f \in DOMAIN r : \A g \in DOMAIN r \ {f} : r[g] = s[g]

\* A detection or a measurement arrives, or leaves the window: the row that
\* COUNTY_V2_SQL and TRACT_V2_SQL read changes.
AreaChanges(a) == area' = a /\ UNCHANGED << fire, humidity >>

\* The fire is observed again, or the wind shifts.
SourceChanges(s) == fire' = s /\ UNCHANGED << area, humidity >>

HumidityChanges(h) == humidity' = h /\ UNCHANGED << area, fire >>

Next == \/ \E a \in Areas : OneField(a, area) /\ AreaChanges(a)
        \/ \E s \in Sources : OneField(s, fire) /\ SourceChanges(s)
        \/ \E h \in Humidities : HumidityChanges(h)

Spec == Init /\ [][Next]_vars

-----------------------------------------------------------------------------
(* Common pieces.                                                          *)

AtMost(x, hi) == IF x <= hi THEN x ELSE hi
AtLeast(x, lo) == IF x >= lo THEN x ELSE lo

\* Mutant: the lower clamp is missing.
Clamp_NoFloor(x, hi) == AtMost(x, hi)

\* min(1, max(x, 0) / hi), in units of 1/hi.
Clamp(x, hi) == AtMost(AtLeast(x, 0), hi)

\* One point of a blended score, and the top of the scale.
Unit == 6000000
Full == 100 * Unit

\* risk_band: 0 low, 1 moderate, 2 high, 3 severe.
Band(score) == CASE score < 25 * Unit -> 0
                 [] score >= 25 * Unit /\ score < 50 * Unit -> 1
                 [] score >= 50 * Unit /\ score < 75 * Unit -> 2
                 [] OTHER -> 3

-----------------------------------------------------------------------------
(* Base indices: v1 in twentieths, v2 in hundredths of a point.            *)

V1(a) == 35 * Clamp(a.inside, 20) + Clamp(OrZero(a.frp), 500)
         + 12 * Clamp(OrZero(a.pm25) - 5, 50) + 2 * Clamp(OrZero(a.pm10) - 10, 100)

\* Mutant: the thresholds of 3 and 6 hours are swapped.
Recency_Swapped(age) ==
  CASE age = None -> 0
    [] age # None /\ age <= 3 -> 3
    [] age # None /\ age > 3 /\ age <= 6 -> 4
    [] age # None /\ age > 6 /\ age <= 12 -> 2
    [] age # None /\ age > 12 /\ age <= 24 -> 1
    [] OTHER -> 0

\* recency_component_from_hours, in quarters.
Recency(age) ==
  CASE age = None -> 0
    [] age # None /\ age <= 3 -> 4
    [] age # None /\ age > 3 /\ age <= 6 -> 3
    [] age # None /\ age > 6 /\ age <= 12 -> 2
    [] age # None /\ age > 12 /\ age <= 24 -> 1
    [] OTHER -> 0

V2(a) == 125 * Clamp(a.inside, 20) + 40 * Clamp(a.nearby, 50)
         + 3 * Clamp(OrZero(a.frp), 500) + 50 * Clamp(OrZero(a.pm25) - 5, 50)
         + 5 * Clamp(OrZero(a.pm10) - 10, 100) + 250 * Recency(a.age)

-----------------------------------------------------------------------------
(* Transport of one fire's smoke to the geography.                         *)

NormalizeDegrees(d) == d % 360

\* angular_difference_degrees.
AngularDifference(a, b) ==
  LET d == AtLeast(NormalizeDegrees(a) - NormalizeDegrees(b),
                   NormalizeDegrees(b) - NormalizeDegrees(a))
  IN  AtMost(d, 360 - d)

\* Mutant: smoke goes to where the wind comes from.
DownwindBearing_From(wind) == NormalizeDegrees(wind)

\* Wind is given by where it comes from; smoke goes the other way.
DownwindBearing(wind) == NormalizeDegrees(wind + 180)

\* How far off the axis of the smoke the geography lies.
OffAxis(s) == AngularDifference(s.bearing, DownwindBearing(s.wind))

\* The settings' defaults.
HalfAngle == 30
Reach == 150

\* A fire without a power counts like one of 125 MW.
FirePower(frp) == IF frp = None THEN 125 ELSE Clamp(frp, 500)

\* wind_v1_exposure_components, in 1/1500 of a point.  The speed is not
\* clamped from below.
Exposure(s) == 35 * AtLeast(1500 - 50 * OffAxis(s), 0)
               + 25 * AtLeast(1500 - 10 * s.km, 0)
               + 20 * AtMost(150 * OrZero(s.speed), 1500)
               + 60 * FirePower(s.frp)

\* The exposure as a score reads it: 0 without a row, and from 0 to 100.
\* Rows are written for geographies in reach and in the corridor.
Plume(s) == IF s.wind # None /\ s.km <= Reach /\ OffAxis(s) <= HalfAngle
            THEN Clamp(Exposure(s), 150000) ELSE 0

\* dispersion_score: a row needs a geography in reach and downwind (the
\* cosine of the angle off the axis is positive).
Dispersion(s) == IF s.wind # None /\ s.km > 0 /\ s.km <= Reach /\ OffAxis(s) < 90
                 THEN s.strength ELSE 0

\* Humidity dampening, in 1/200.
Damping(h) == IF h = None THEN 200 ELSE 200 - Clamp(h - 40, 50)

-----------------------------------------------------------------------------
(* The five models, in 1/Unit of a point.                                  *)

Models == {"v1", "v2", "v3", "v4", "v5"}

ScoreV3(a, s) == AtMost(45000 * V2(a) + 1000 * Plume(s), Full)

ScoreV4(a, s, h) == AtMost(42000 * V2(a) + 6 * (Plume(s) * Damping(h)), Full)

ScoreV5(a, s, h) ==
  AtMost((165 * V2(a) + 4 * Plume(s) + 7500 * Dispersion(s)) * Damping(h), Full)

Score(m, a, s, h) == CASE m = "v1" -> 300000 * V1(a)
                       [] m = "v2" -> 60000 * V2(a)
                       [] m = "v3" -> ScoreV3(a, s)
                       [] m = "v4" -> ScoreV4(a, s, h)
                       [] m = "v5" -> ScoreV5(a, s, h)

-----------------------------------------------------------------------------
(* Properties.                                                             *)

\* Whatever is measured (no fires, no averages, clean air below the
\* baselines, a negative wind speed), no score leaves the scale of the bands:
\* risk_band never raises, and a run of the job never fails on a score.
ScoresInRange ==
  \A m \in Models : Score(m, area, fire, humidity) \in 0..Full

\* a has at least the smoke of b: no fewer fires, no weaker or older ones,
\* no cleaner air.
Smokier(a, b) ==
  /\ a.inside >= b.inside /\ a.nearby >= b.nearby
  /\ OrZero(a.frp) >= OrZero(b.frp)
  /\ OrZero(a.pm25) >= OrZero(b.pm25) /\ OrZero(a.pm10) >= OrZero(b.pm10)
  /\ b.age # None => a.age # None /\ a.age <= b.age

\* More fire or dirtier air, all else equal, never lowers a score or a band,
\* whatever the model.
MoreSmokeNeverLowers ==
  [][Smokier(area', area) /\ fire' = fire /\ humidity' = humidity =>
       \A m \in Models :
         LET before == Score(m, area, fire, humidity)
             after  == Score(m, area', fire', humidity')
         IN  after >= before /\ Band(after) >= Band(before)]_vars

\* "smoke advection is modeled as moving toward the opposite bearing"
\* (wind.py): a geography that the wind comes from gets no transported smoke
\* in any model, and v4 and v5 cannot call it severe.
UpwindIsNeverSevere ==
  (fire.wind # None /\ AngularDifference(fire.bearing, fire.wind) < 90) =>
    /\ Plume(fire) = 0 /\ Dispersion(fire) = 0
    /\ Band(ScoreV4(area, fire, humidity)) < 3
    /\ Band(ScoreV5(area, fire, humidity)) < 3

=============================================================================
