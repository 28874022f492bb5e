-------------------------- MODULE RiskScores_proofs --------------------------
(***************************************************************************)
(* Proofs about RiskScores, for all sets of inputs: no score leaves the    *)
(* scale of the bands, more smoke never lowers a score, and a geography    *)
(* upwind of the fire is never severe.                                     *)
(***************************************************************************)
EXTENDS RiskScores, TLAPS

\* The state is one of the rows that the job can read.
THEOREM TypeCorrect == Spec => []TypeOK
<1>1. Init => TypeOK
  BY SMT DEF Init, TypeOK
<1>2. TypeOK /\ [Next]_vars => TypeOK'
  BY SMT DEF TypeOK, Next, AreaChanges, SourceChanges, HumidityChanges, vars
<1>3. QED
  BY <1>1, <1>2, PTL DEF Spec

-----------------------------------------------------------------------------
(* The components.                                                         *)

\* The types of a geography's row.
LEMMA AreaFields ==
  ASSUME NEW a \in Areas
  PROVE  /\ a.inside \in Int /\ a.nearby \in Int
         /\ OrZero(a.frp) \in Int /\ OrZero(a.pm25) \in Int
         /\ OrZero(a.pm10) \in Int
         /\ Recency(a.age) \in Nat /\ Recency(a.age) <= 4
<1>1. a \in Rows
  BY Zenon DEF Areas
<1>2. /\ a.inside \in Counts /\ a.nearby \in Counts
      /\ a.frp \in Powers \cup {None} /\ a.pm25 \in Pm25s
      /\ a.pm10 \in Pm10s
  BY SMT, <1>1 DEF Rows
<1>3. a.inside \in Int /\ a.nearby \in Int
  <2>1. a.inside \in Nat /\ a.nearby \in Nat
    BY <1>2, ScoreInputs
  <2>2. QED
    BY SMT, <2>1
<1>4. OrZero(a.frp) \in Int
  <2>1. a.frp \in Int \cup {None}
    BY <1>2, ScoreInputs
  <2>2. QED
    BY SMT, <2>1 DEF OrZero
<1>5. OrZero(a.pm25) \in Int
  <2>1. a.pm25 \in Int \cup {None}
    BY <1>2, ScoreInputs
  <2>2. QED
    BY SMT, <2>1 DEF OrZero
<1>6. OrZero(a.pm10) \in Int
  <2>1. a.pm10 \in Int \cup {None}
    BY <1>2, ScoreInputs
  <2>2. QED
    BY SMT, <2>1 DEF OrZero
<1>7. Recency(a.age) \in Nat /\ Recency(a.age) <= 4
  BY SMT DEF Recency
<1>8. QED
  BY <1>3, <1>4, <1>5, <1>6, <1>7

\* v1 is between 0 and 100 points.
LEMMA V1InRange ==
  ASSUME NEW a \in Areas
  PROVE  V1(a) \in Nat /\ V1(a) <= 2000
<1> DEFINE c1 == Clamp(a.inside, 20)
           c2 == Clamp(OrZero(a.frp), 500)
           c3 == Clamp(OrZero(a.pm25) - 5, 50)
           c4 == Clamp(OrZero(a.pm10) - 10, 100)
<1>1. /\ a.inside \in Int /\ OrZero(a.frp) \in Int
      /\ OrZero(a.pm25) \in Int /\ OrZero(a.pm10) \in Int
  BY AreaFields
<1>2. c1 \in Nat /\ c1 <= 20 /\ c2 \in Nat /\ c2 <= 500
  BY SMT, <1>1 DEF Clamp, AtMost, AtLeast
<1>3. c3 \in Nat /\ c3 <= 50 /\ c4 \in Nat /\ c4 <= 100
  BY SMT, <1>1 DEF Clamp, AtMost, AtLeast
<1>4. V1(a) = 35 * c1 + c2 + 12 * c3 + 2 * c4
  BY SMT DEF V1
<1> HIDE DEF c1, c2, c3, c4
<1>5. QED
  BY SMT, <1>2, <1>3, <1>4

\* v2 is between 0 and 100 points.
LEMMA V2InRange ==
  ASSUME NEW a \in Areas
  PROVE  V2(a) \in Nat /\ V2(a) <= 10000
<1> DEFINE c1 == Clamp(a.inside, 20)
           c2 == Clamp(a.nearby, 50)
           c3 == Clamp(OrZero(a.frp), 500)
           c4 == Clamp(OrZero(a.pm25) - 5, 50)
           c5 == Clamp(OrZero(a.pm10) - 10, 100)
           c6 == Recency(a.age)
<1>1. /\ a.inside \in Int /\ a.nearby \in Int /\ OrZero(a.frp) \in Int
      /\ OrZero(a.pm25) \in Int /\ OrZero(a.pm10) \in Int
      /\ c6 \in Nat /\ c6 <= 4
  BY AreaFields
<1>2. c1 \in Nat /\ c1 <= 20 /\ c2 \in Nat /\ c2 <= 50
  BY SMT, <1>1 DEF Clamp, AtMost, AtLeast
<1>3. c3 \in Nat /\ c3 <= 500 /\ c4 \in Nat /\ c4 <= 50
  BY SMT, <1>1 DEF Clamp, AtMost, AtLeast
<1>4. c5 \in Nat /\ c5 <= 100
  BY SMT, <1>1 DEF Clamp, AtMost, AtLeast
<1>5. V2(a) = 125 * c1 + 40 * c2 + 3 * c3 + 50 * c4 + 5 * c5 + 250 * c6
  BY SMT DEF V2
<1>6. c6 \in Nat /\ c6 <= 4
  BY <1>1
<1> HIDE DEF c1, c2, c3, c4, c5, c6
<1>7. QED
  BY SMT, <1>2, <1>3, <1>4, <1>5, <1>6

\* The exposure that a score reads is between 0 and 100 points.
LEMMA PlumeInRange ==
  ASSUME NEW s \in Sources
  PROVE  Plume(s) \in Nat /\ Plume(s) <= 150000
<1>1. /\ s.bearing \in Bearings /\ s.wind \in Winds /\ s.speed \in Speeds
      /\ s.km \in Distances /\ s.frp \in Powers
  BY SMT DEF Sources
<1>2. s.bearing \in Int /\ s.wind \in Int \cup {None} /\ s.km \in Nat
  BY <1>1, ScoreInputs
<1>3. s.speed \in Int \cup {None} /\ s.frp \in Int \cup {None}
  BY <1>1, ScoreInputs
<1>4. s.wind # None => OffAxis(s) \in Int
  <2> DEFINE na == NormalizeDegrees(s.bearing)
             nb == NormalizeDegrees(NormalizeDegrees(s.wind + 180))
  <2>1. s.wind # None => na \in Int /\ nb \in Int
    BY SMT, <1>2 DEF NormalizeDegrees
  <2>2. OffAxis(s) =
          AtMost(AtLeast(na - nb, nb - na), 360 - AtLeast(na - nb, nb - na))
    BY SMT DEF OffAxis, AngularDifference, DownwindBearing
  <2> HIDE DEF na, nb
  <2>3. QED
    BY SMT, <2>1, <2>2 DEF AtMost, AtLeast
<1>5. OrZero(s.speed) \in Int /\ FirePower(s.frp) \in Int
  BY SMT, <1>3 DEF OrZero, FirePower, Clamp, AtMost, AtLeast
<1>6. s.wind # None => Exposure(s) \in Int
  BY SMT, <1>2, <1>4, <1>5 DEF Exposure, AtMost, AtLeast
<1>7. QED
  BY SMT, <1>6 DEF Plume, Clamp, AtMost, AtLeast

\* The dispersion score is between 0 and 99.
LEMMA DispersionInRange ==
  ASSUME NEW s \in Sources
  PROVE  Dispersion(s) \in Nat /\ Dispersion(s) <= 99
<1>1. s.strength \in 0..99
  <2>1. s.strength \in Strengths
    BY SMT DEF Sources
  <2>2. QED
    BY <2>1, ScoreInputs
<1>2. QED
  BY SMT, <1>1 DEF Dispersion

\* Dampening keeps at least three quarters.
LEMMA DampingInRange ==
  ASSUME NEW h \in Humidities
  PROVE  Damping(h) \in Nat /\ Damping(h) <= 200
<1>1. h \in 0..100 \cup {None}
  BY ScoreInputs
<1>2. QED
  BY SMT, <1>1 DEF Damping, Clamp, AtMost, AtLeast

-----------------------------------------------------------------------------

\* What min(100, x) leaves of a sum that is not negative.
LEMMA CappedInRange ==
  ASSUME NEW x \in Nat
  PROVE  AtMost(x, Full) \in 0..Full
<1>1. Full \in Nat
  BY SMT DEF Full, Unit
<1>2. QED
  BY SMT, <1>1 DEF AtMost

\* A product of counts is one.
LEMMA ProductIsNat ==
  ASSUME NEW x \in Nat, NEW y \in Nat
  PROVE  x * y \in Nat
OBVIOUS

\* Whatever the inputs, every model's score is one that risk_band accepts.
THEOREM ScoresStayInRange == Spec => []ScoresInRange
<1>1. TypeOK => ScoresInRange
  <2> SUFFICES ASSUME TypeOK, NEW m \in Models
               PROVE  Score(m, area, fire, humidity) \in 0..Full
    BY Zenon DEF ScoresInRange
  <2> DEFINE p == Plume(fire)
             q == Dispersion(fire)
             d == Damping(humidity)
             u == V1(area)
             v == V2(area)
  <2>0. area \in Areas /\ fire \in Sources /\ humidity \in Humidities
    BY Zenon DEF TypeOK
  <2>1. u \in Nat /\ u <= 2000 /\ v \in Nat /\ v <= 10000
    BY SMT, <2>0, V1InRange, V2InRange
  <2>2. p \in Nat /\ q \in Nat /\ d \in Nat
    BY SMT, <2>0, PlumeInRange, DispersionInRange, DampingInRange
  <2>3. m = "v1" => Score(m, area, fire, humidity) = 300000 * u
    BY SMT DEF Score
  <2>4. m = "v2" => Score(m, area, fire, humidity) = 60000 * v
    BY SMT DEF Score
  <2>5. m = "v3" => Score(m, area, fire, humidity)
                      = AtMost(45000 * v + 1000 * p, Full)
    BY SMT DEF Score, ScoreV3
  <2>6. m = "v4" => Score(m, area, fire, humidity)
                      = AtMost(42000 * v + 6 * (p * d), Full)
    BY SMT DEF Score, ScoreV4
  <2>7. m = "v5" => Score(m, area, fire, humidity)
                      = AtMost((165 * v + 4 * p + 7500 * q) * d, Full)
    BY SMT DEF Score, ScoreV5
  <2> HIDE DEF p, q, d, u, v
  <2>8. CASE m = "v1"
    <3>1. 300000 * u \in Nat /\ 300000 * u <= Full
      BY SMT, <2>1 DEF Full, Unit
    <3>2. QED
      BY SMT, <3>1, <2>3, <2>8
  <2>9. CASE m = "v2"
    <3>1. 60000 * v \in Nat /\ 60000 * v <= Full
      BY SMT, <2>1 DEF Full, Unit
    <3>2. QED
      BY SMT, <3>1, <2>4, <2>9
  <2>10. CASE m = "v3"
    <3> DEFINE x == 45000 * v + 1000 * p
    <3>1. x \in Nat
      BY SMT, <2>1, <2>2
    <3> HIDE DEF x
    <3>2. AtMost(x, Full) \in 0..Full
      BY <3>1, CappedInRange
    <3>3. QED
      BY SMT, <3>2, <2>5, <2>10 DEF x
  <2>11. CASE m = "v4"
    <3> DEFINE x == 42000 * v + 6 * (p * d)
    <3>1. x \in Nat
      <4>1. p * d \in Nat
        BY <2>2, ProductIsNat
      <4>2. QED
        BY SMT, <4>1, <2>1
    <3> HIDE DEF x
    <3>2. AtMost(x, Full) \in 0..Full
      BY <3>1, CappedInRange
    <3>3. QED
      BY SMT, <3>2, <2>6, <2>11 DEF x
  <2>12. CASE m = "v5"
    <3> DEFINE w == 165 * v + 4 * p + 7500 * q
               x == w * d
    <3>1. w \in Nat
      BY SMT, <2>1, <2>2
    <3> HIDE DEF w
    <3>2. x \in Nat
      BY <3>1, <2>2, ProductIsNat
    <3> HIDE DEF x
    <3>3. AtMost(x, Full) \in 0..Full
      BY <3>2, CappedInRange
    <3>4. QED
      BY SMT, <3>3, <2>7, <2>12 DEF x, w
  <2>13. QED
    BY Zenon, <2>8, <2>9, <2>10, <2>11, <2>12 DEF Models
<1>2. QED
  BY <1>1, TypeCorrect, PTL

-----------------------------------------------------------------------------
(* More smoke.                                                             *)

LEMMA AtMostMonotone ==
  ASSUME NEW x \in Int, NEW y \in Int, x <= y, NEW hi \in Int
  PROVE  AtMost(x, hi) \in Int /\ AtMost(y, hi) \in Int /\ AtMost(x, hi) <= AtMost(y, hi)
  BY SMT DEF AtMost

LEMMA TimesMonotone ==
  ASSUME NEW x \in Int, NEW y \in Int, x <= y, NEW d \in Nat
  PROVE  x * d \in Int /\ y * d \in Int /\ x * d <= y * d
<1>1. y * d = x * d + (y - x) * d
  BY SMT
<1>2. (y - x) \in Nat
  BY SMT
<1>3. (y - x) * d \in Nat
  BY <1>2, ProductIsNat
<1> QED BY SMT, <1>1, <1>3

\* A newer fire never counts less.
LEMMA RecencyMonotone ==
  ASSUME NEW a \in Areas, NEW b \in Areas, Smokier(a, b)
  PROVE  Recency(b.age) <= Recency(a.age)
<1>1. a \in Rows /\ b \in Rows
  BY Zenon DEF Areas
<1>2. a.age \in Ages \cup {None} /\ b.age \in Ages \cup {None}
  BY SMT, <1>1 DEF Rows
<1>3. a.age \in Int \cup {None} /\ b.age \in Int \cup {None} /\ None \notin Int
  BY <1>2, ScoreInputs
<1>4. b.age # None => a.age # None /\ a.age <= b.age
  BY DEF Smokier
<1> QED BY SMT, <1>3, <1>4 DEF Recency

\* Neither base index falls.
LEMMA BaseMonotone ==
  ASSUME NEW a \in Areas, NEW b \in Areas, Smokier(a, b)
  PROVE  V1(b) <= V1(a) /\ V2(b) <= V2(a)
<1>1. /\ a.inside \in Int /\ a.nearby \in Int /\ OrZero(a.frp) \in Int
      /\ OrZero(a.pm25) \in Int /\ OrZero(a.pm10) \in Int
      /\ Recency(a.age) \in Int
  BY SMT, AreaFields
<1>2. /\ b.inside \in Int /\ b.nearby \in Int /\ OrZero(b.frp) \in Int
      /\ OrZero(b.pm25) \in Int /\ OrZero(b.pm10) \in Int
      /\ Recency(b.age) \in Int
  BY SMT, AreaFields
<1>3. /\ b.inside <= a.inside /\ b.nearby <= a.nearby
      /\ OrZero(b.frp) <= OrZero(a.frp) /\ OrZero(b.pm25) <= OrZero(a.pm25)
      /\ OrZero(b.pm10) <= OrZero(a.pm10)
  BY SMT, <1>1, <1>2 DEF Smokier
<1>4. Recency(b.age) <= Recency(a.age)
  BY RecencyMonotone
<1> DEFINE s(x) == Clamp(x.inside, 20)
           n(x) == Clamp(x.nearby, 50)
           f(x) == Clamp(OrZero(x.frp), 500)
           p(x) == Clamp(OrZero(x.pm25) - 5, 50)
           q(x) == Clamp(OrZero(x.pm10) - 10, 100)
<1>5. s(b) \in Int /\ s(a) \in Int /\ s(b) <= s(a)
  BY SMT, <1>1, <1>2, <1>3 DEF Clamp, AtMost, AtLeast
<1>6. n(b) \in Int /\ n(a) \in Int /\ n(b) <= n(a)
  BY SMT, <1>1, <1>2, <1>3 DEF Clamp, AtMost, AtLeast
<1>7. f(b) \in Int /\ f(a) \in Int /\ f(b) <= f(a)
  BY SMT, <1>1, <1>2, <1>3 DEF Clamp, AtMost, AtLeast
<1>8. p(b) \in Int /\ p(a) \in Int /\ p(b) <= p(a)
  BY SMT, <1>1, <1>2, <1>3 DEF Clamp, AtMost, AtLeast
<1>9. q(b) \in Int /\ q(a) \in Int /\ q(b) <= q(a)
  BY SMT, <1>1, <1>2, <1>3 DEF Clamp, AtMost, AtLeast
<1>10. /\ V1(a) = 35 * s(a) + f(a) + 12 * p(a) + 2 * q(a)
       /\ V1(b) = 35 * s(b) + f(b) + 12 * p(b) + 2 * q(b)
  BY SMT DEF V1
<1>11. /\ V2(a) = 125 * s(a) + 40 * n(a) + 3 * f(a) + 50 * p(a) + 5 * q(a)
                  + 250 * Recency(a.age)
       /\ V2(b) = 125 * s(b) + 40 * n(b) + 3 * f(b) + 50 * p(b) + 5 * q(b)
                  + 250 * Recency(b.age)
  BY SMT DEF V2
<1> HIDE DEF s, n, f, p, q
<1>12. V1(b) <= V1(a)
  BY SMT, <1>5, <1>7, <1>8, <1>9, <1>10
<1>13. V2(b) <= V2(a)
  BY SMT, <1>1, <1>2, <1>4, <1>5, <1>6, <1>7, <1>8, <1>9, <1>11
<1> QED BY <1>12, <1>13

\* With the transport and the humidity as they are, no model's score falls.
LEMMA ScoreMonotone ==
  ASSUME NEW a \in Areas, NEW b \in Areas, Smokier(a, b),
         NEW s \in Sources, NEW h \in Humidities, NEW m \in Models
  PROVE  /\ Score(m, a, s, h) \in Int /\ Score(m, b, s, h) \in Int
         /\ Score(m, b, s, h) <= Score(m, a, s, h)
<1> DEFINE p == Plume(s)
           q == Dispersion(s)
           d == Damping(h)
           u == V1(a)
           v == V2(a)
           t == V1(b)
           w == V2(b)
<1>1. u \in Int /\ v \in Int /\ t \in Int /\ w \in Int
  BY SMT, V1InRange, V2InRange
<1>2. t <= u /\ w <= v
  BY BaseMonotone
<1>3. p \in Nat /\ q \in Nat /\ d \in Nat
  BY PlumeInRange, DispersionInRange, DampingInRange
<1>4. Full \in Int
  BY SMT DEF Full, Unit
<1>5. m = "v1" => Score(m, a, s, h) = 300000 * u /\ Score(m, b, s, h) = 300000 * t
  BY SMT DEF Score
<1>6. m = "v2" => Score(m, a, s, h) = 60000 * v /\ Score(m, b, s, h) = 60000 * w
  BY SMT DEF Score
<1>7. m = "v3" => /\ Score(m, a, s, h) = AtMost(45000 * v + 1000 * p, Full)
                  /\ Score(m, b, s, h) = AtMost(45000 * w + 1000 * p, Full)
  BY SMT DEF Score, ScoreV3
<1>8. m = "v4" => /\ Score(m, a, s, h) = AtMost(42000 * v + 6 * (p * d), Full)
                  /\ Score(m, b, s, h) = AtMost(42000 * w + 6 * (p * d), Full)
  BY SMT DEF Score, ScoreV4
<1>9. m = "v5" => /\ Score(m, a, s, h) = AtMost((165 * v + 4 * p + 7500 * q) * d, Full)
                  /\ Score(m, b, s, h) = AtMost((165 * w + 4 * p + 7500 * q) * d, Full)
  BY SMT DEF Score, ScoreV5
<1> HIDE DEF p, q, d, u, v, t, w
<1>10. CASE m = "v1"
  BY SMT, <1>1, <1>2, <1>5, <1>10
<1>11. CASE m = "v2"
  BY SMT, <1>1, <1>2, <1>6, <1>11
<1>12. CASE m = "v3"
  <2> DEFINE x == 45000 * w + 1000 * p
             y == 45000 * v + 1000 * p
  <2>1. x \in Int /\ y \in Int /\ x <= y
    BY SMT, <1>1, <1>2, <1>3
  <2>2. Score(m, a, s, h) = AtMost(y, Full) /\ Score(m, b, s, h) = AtMost(x, Full)
    BY <1>7, <1>12
  <2> HIDE DEF x, y
  <2> QED BY <1>4, <2>1, <2>2, AtMostMonotone
<1>13. CASE m = "v4"
  <2> DEFINE x == 42000 * w + 6 * (p * d)
             y == 42000 * v + 6 * (p * d)
  <2>1. x \in Int /\ y \in Int /\ x <= y
    <3>1. p * d \in Nat
      BY <1>3, ProductIsNat
    <3> QED BY SMT, <1>1, <1>2, <3>1
  <2>2. Score(m, a, s, h) = AtMost(y, Full) /\ Score(m, b, s, h) = AtMost(x, Full)
    BY <1>8, <1>13
  <2> HIDE DEF x, y
  <2> QED BY <1>4, <2>1, <2>2, AtMostMonotone
<1>14. CASE m = "v5"
  <2> DEFINE j == 165 * w + 4 * p + 7500 * q
             k == 165 * v + 4 * p + 7500 * q
             x == j * d
             y == k * d
  <2>1. j \in Int /\ k \in Int /\ j <= k
    BY SMT, <1>1, <1>2, <1>3
  <2>2. Score(m, a, s, h) = AtMost(y, Full) /\ Score(m, b, s, h) = AtMost(x, Full)
    BY <1>9, <1>14
  <2> HIDE DEF j, k
  <2>3. x \in Int /\ y \in Int /\ x <= y
    BY <1>3, <2>1, TimesMonotone
  <2> HIDE DEF x, y
  <2> QED BY <1>4, <2>2, <2>3, AtMostMonotone
<1> QED BY Zenon, <1>10, <1>11, <1>12, <1>13, <1>14 DEF Models

LEMMA BandMonotone ==
  ASSUME NEW x \in Int, NEW y \in Int, x <= y
  PROVE  Band(x) <= Band(y)
  BY SMT DEF Band, Unit

\* More fire or dirtier air never lowers a score or a band, in any model and
\* whatever the transport, the humidity and the sizes of the inputs.
THEOREM SmokeNeverLowers == Spec => MoreSmokeNeverLowers
<1> DEFINE Step == Smokier(area', area) /\ fire' = fire /\ humidity' = humidity =>
                     \A m \in Models :
                       LET before == Score(m, area, fire, humidity)
                           after  == Score(m, area', fire', humidity')
                       IN  after >= before /\ Band(after) >= Band(before)
<1>1. TypeOK /\ TypeOK' => Step
  <2> SUFFICES ASSUME TypeOK, TypeOK', Smokier(area', area),
                      fire' = fire, humidity' = humidity, NEW m \in Models
               PROVE  LET before == Score(m, area, fire, humidity)
                          after  == Score(m, area', fire', humidity')
                      IN  after >= before /\ Band(after) >= Band(before)
    BY Zenon
  <2> DEFINE before == Score(m, area, fire, humidity)
             after  == Score(m, area', fire, humidity)
  <2>1. area \in Areas /\ area' \in Areas /\ fire \in Sources /\ humidity \in Humidities
    BY DEF TypeOK
  <2>2. before \in Int /\ after \in Int /\ before <= after
    BY <2>1, ScoreMonotone
  <2> HIDE DEF before, after
  <2>3. Band(before) <= Band(after)
    BY <2>2, BandMonotone
  <2>4. Band(before) \in Int /\ Band(after) \in Int
    BY SMT DEF Band
  <2>5. after >= before /\ Band(after) >= Band(before)
    BY SMT, <2>2, <2>3, <2>4
  <2> QED BY Zenon, <2>5 DEF before, after
<1> QED BY <1>1, TypeCorrect, PTL DEF MoreSmokeNeverLowers

-----------------------------------------------------------------------------
(* Upwind.                                                                 *)

LEMMA OppositeBearing ==
  ASSUME NEW w \in Int
  PROVE  /\ NormalizeDegrees(w) \in Nat /\ NormalizeDegrees(w) <= 359
         /\ NormalizeDegrees(DownwindBearing(w)) \in
              {NormalizeDegrees(w) + 180, NormalizeDegrees(w) - 180}
  BY SMT DEF NormalizeDegrees, DownwindBearing

\* A geography that the wind comes from is more than a right angle off the axis.
LEMMA UpwindIsOffAxis ==
  ASSUME NEW b \in Int, NEW w \in Int, AngularDifference(b, w) < 90
  PROVE  AngularDifference(b, DownwindBearing(w)) > 90
<1> DEFINE x == NormalizeDegrees(b)
           y == NormalizeDegrees(w)
           z == NormalizeDegrees(DownwindBearing(w))
<1>1. /\ x \in Nat /\ x <= 359 /\ y \in Nat /\ y <= 359
      /\ z \in {y + 180, y - 180} /\ z \in Nat /\ z <= 359
  <2>1. DownwindBearing(w) \in Int
    BY SMT DEF DownwindBearing, NormalizeDegrees
  <2> QED BY <2>1, OppositeBearing
<1>2. /\ AngularDifference(b, w) =
           AtMost(AtLeast(x - y, y - x), 360 - AtLeast(x - y, y - x))
      /\ AngularDifference(b, DownwindBearing(w)) =
           AtMost(AtLeast(x - z, z - x), 360 - AtLeast(x - z, z - x))
  BY SMT DEF AngularDifference
<1> HIDE DEF x, y, z
<1> QED BY SMT, <1>1, <1>2 DEF AtMost, AtLeast

\* A geography upwind of the fire gets no transported smoke, and neither v4
\* nor v5 calls it severe, however many fires and however dirty its air.
THEOREM UpwindStaysBelowSevere == Spec => []UpwindIsNeverSevere
<1>1. TypeOK => UpwindIsNeverSevere
  <2> SUFFICES ASSUME TypeOK, fire.wind # None,
                      AngularDifference(fire.bearing, fire.wind) < 90
               PROVE  /\ Plume(fire) = 0 /\ Dispersion(fire) = 0
                      /\ Band(ScoreV4(area, fire, humidity)) < 3
                      /\ Band(ScoreV5(area, fire, humidity)) < 3
    BY Zenon DEF UpwindIsNeverSevere
  <2>1. area \in Areas /\ fire \in Sources /\ humidity \in Humidities
    BY Zenon DEF TypeOK
  <2>2. fire.bearing \in Int /\ fire.wind \in Int
    <3>1. fire.bearing \in Bearings /\ fire.wind \in Winds
      BY SMT, <2>1 DEF Sources
    <3> QED BY <3>1, ScoreInputs
  <2>3. OffAxis(fire) > 90
    BY <2>2, UpwindIsOffAxis DEF OffAxis
  <2>4. OffAxis(fire) \in Int
    BY SMT, <2>2 DEF OffAxis, AngularDifference, DownwindBearing, NormalizeDegrees, AtMost, AtLeast
  <2>5. Plume(fire) = 0 /\ Dispersion(fire) = 0
    BY SMT, <2>3, <2>4 DEF Plume, Dispersion, HalfAngle
  <2> DEFINE v == V2(area)
             d == Damping(humidity)
  <2>6. v \in Nat /\ v <= 10000 /\ d \in Nat /\ d <= 200
    BY SMT, <2>1, V2InRange, DampingInRange
  <2>7. /\ ScoreV4(area, fire, humidity) = AtMost(42000 * v + 6 * (0 * d), Full)
        /\ ScoreV5(area, fire, humidity) = AtMost((165 * v + 4 * 0 + 7500 * 0) * d, Full)
    BY SMT, <2>5 DEF ScoreV4, ScoreV5
  <2> HIDE DEF v, d
  <2>8. Band(ScoreV4(area, fire, humidity)) < 3
    <3>1. ScoreV4(area, fire, humidity) = AtMost(42000 * v, Full)
      BY SMT, <2>6, <2>7
    <3> QED BY SMT, <2>6, <3>1 DEF AtMost, Band, Full, Unit
  <2>9. Band(ScoreV5(area, fire, humidity)) < 3
    <3> DEFINE j == 165 * v
               top == 200
               x == j * d
               y == top * j
    <3>1. ScoreV5(area, fire, humidity) = AtMost(x, Full)
      BY SMT, <2>6, <2>7
    <3>2. j \in Nat
      BY SMT, <2>6
    <3>3. d \in Int /\ top \in Int /\ d <= top
      BY SMT, <2>6
    <3>4. y \in Nat /\ y <= 330000000
      BY SMT, <2>6
    <3> HIDE DEF j, top
    <3>5. x \in Nat /\ x <= y
      <4>1. x \in Nat
        BY SMT, <2>6, <3>2, ProductIsNat
      <4>2. d * j <= top * j
        BY Zenon, <3>2, <3>3, TimesMonotone
      <4> QED BY SMT, <4>1, <4>2, <2>6, <3>2
    <3> HIDE DEF x, y
    <3> QED BY SMT, <3>1, <3>4, <3>5 DEF AtMost, Band, Full, Unit
  <2> QED BY <2>5, <2>8, <2>9
<1> QED BY <1>1, TypeCorrect, PTL
=============================================================================
