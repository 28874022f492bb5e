------------------------ MODULE OperationalCycle_proofs ------------------------
(***************************************************************************)
(* Proofs about operational cycles, for any number of overlapping cycles,  *)
(* any environments, fires and geographies and all values of the bounds:   *)
(* the ledger's rows, the order of the script that the ledger's steps      *)
(* tell, what the plume job hands to the risk job, what a cycle computes   *)
(* as long as no other has started, and the types of all of it.            *)
(***************************************************************************)
EXTENDS OperationalCycle, SequenceTheorems, FiniteSetTheorems, TLAPS

Verdicts == {"succeeded", "failed"}

Underway == {"begin", "open", "work", "write", "flush", "ok", "warn", "failing", "finish"}

\* What a cycle's row says of where its script is.
LedgerInv ==
  /\ row \in [Runs -> {"absent", "running"} \cup Verdicts]
  /\ stage \in [Runs -> {"new", "gone"} \cup Underway]
  /\ \A r \in Runs :
       /\ stage[r] = "new" => row[r] = "absent"
       /\ stage[r] \in Underway => row[r] = "running"
       /\ stage[r] = "gone" /\ row[r] = "running" =>
            << r, "killed" >> \in faults \/ << r, "unrecorded" >> \in faults

-----------------------------------------------------------------------------
(* The four things a step can do to the ledger.                            *)

\* The script is where it was, or goes on.
GoesOn(r) ==
  /\ row' = row
  /\ \/ stage' = stage
     \/ /\ stage[r] \in Underway
        /\ \E s \in Underway : stage' = [stage EXCEPT ![r] = s]

Opens(r) ==
  /\ stage[r] = "new" /\ row' = [row EXCEPT ![r] = "running"]
  /\ \E s \in Underway : stage' = [stage EXCEPT ![r] = s]

Closes(r) ==
  /\ stage[r] \in Underway /\ stage' = [stage EXCEPT ![r] = "gone"]
  /\ \E v \in Verdicts : row' = [row EXCEPT ![r] = v]

\* It ends without a verdict.
Breaks(r) ==
  /\ row' = row /\ stage' = [stage EXCEPT ![r] = "gone"]
  /\ << r, "killed" >> \in faults' \/ << r, "unrecorded" >> \in faults'

Effect(r) == /\ faults \subseteq faults'
             /\ GoesOn(r) \/ Opens(r) \/ Closes(r) \/ Breaks(r)

LEMMA AdvanceGoesOn ==
  ASSUME NEW r \in Runs, Advance(r)
  PROVE  \E s \in Underway : stage' = [stage EXCEPT ![r] = s]
  BY DEF Advance, Underway

LEMMA JobDoneGoesOn ==
  ASSUME NEW r \in Runs, JobDone(r)
  PROVE  \E s \in Underway : stage' = [stage EXCEPT ![r] = s]
  BY AdvanceGoesOn DEF JobDone, Goto, Underway

\* The jobs' own steps leave the ledger alone.
LEMMA JobEffect ==
  ASSUME NEW r \in Runs,
         \/ OpenMatch(r) \/ CommitMatch(r) \/ OpenPlume(r) \/ CommitPlume(r)
         \/ OpenDispersion(r) \/ CommitDispersion(r) \/ OpenCompare(r)
         \/ CommitCompare(r) \/ OpenRisk(r) \/ WriteRisk(r) \/ CommitRisk(r)
         \/ FlushRisk(r) \/ RunScript(r)
         \/ \E f \in local[r].todo : ResolvePlume(r, f) \/ ResolveDispersion(r, f)
  PROVE  Effect(r)
<1>1. CASE OpenMatch(r) \/ OpenPlume(r) \/ OpenDispersion(r) \/ OpenRisk(r)
  <2>1. /\ stage[r] = "open" /\ stage' = [stage EXCEPT ![r] = "work"]
        /\ row' = row /\ faults' = faults
    BY <1>1 DEF OpenMatch, OpenPlume, OpenDispersion, OpenRisk, OpenJob, Goto, ledger
  <2> QED BY <2>1 DEF Effect, GoesOn, Underway
<1>2. CASE CommitMatch(r) \/ CommitPlume(r) \/ CommitDispersion(r) \/ CommitCompare(r)
  <2>1. stage[r] = "work" /\ JobDone(r) /\ row' = row /\ faults' = faults
    BY <1>2 DEF CommitMatch, CommitPlume, CommitDispersion, CommitCompare, ledger
  <2> QED BY <2>1, JobDoneGoesOn DEF Effect, GoesOn, Underway
<1>3. CASE FlushRisk(r) \/ RunScript(r)
  <2>1. stage[r] \in {"flush", "open"} /\ JobDone(r) /\ row' = row /\ faults' = faults
    BY <1>3 DEF FlushRisk, RunScript, ledger
  <2> QED BY <2>1, JobDoneGoesOn DEF Effect, GoesOn, Underway
<1>4. CASE OpenCompare(r)
  <2>1. stage[r] = "open" /\ row' = row /\ faults' = faults
    BY <1>4 DEF OpenCompare, ledger
  <2>2. JobDone(r) \/ stage' = [stage EXCEPT ![r] = "work"]
    BY <1>4 DEF OpenCompare, Goto
  <2> QED BY <2>1, <2>2, JobDoneGoesOn DEF Effect, GoesOn, Underway
<1>5. CASE WriteRisk(r) \/ CommitRisk(r)
  <2>1. /\ stage[r] \in {"work", "write"} /\ row' = row /\ faults' = faults
        /\ \E s \in {"write", "flush"} : stage' = [stage EXCEPT ![r] = s]
    BY <1>5 DEF WriteRisk, CommitRisk, Goto, ledger
  <2> QED BY <2>1 DEF Effect, GoesOn, Underway
<1>6. ASSUME NEW f \in local[r].todo, ResolvePlume(r, f) \/ ResolveDispersion(r, f)
      PROVE  Effect(r)
  <2>1. /\ stage[r] = "work" /\ stage' = [stage EXCEPT ![r] = "work"]
        /\ row' = row /\ faults' = faults
    BY <1>6 DEF ResolvePlume, ResolveDispersion, Goto, ledger
  <2> QED BY <2>1 DEF Effect, GoesOn, Underway
<1> QED BY <1>1, <1>2, <1>3, <1>4, <1>5, <1>6

\* The script's steps open the row, close it or break off.
LEMMA ScriptEffect ==
  ASSUME NEW r \in Runs,
         \/ Start(r) \/ RecordStart(r) \/ RecordOk(r) \/ RecordWarn(r)
         \/ FinishFailed(r) \/ Finish(r) \/ RecordFails(r) \/ JobFails(r) \/ Kill(r)
         \/ \E m \in queue[r] : Deliver(r, m)
  PROVE  Effect(r)
<1>1. CASE Start(r)
  <2>1. /\ stage[r] = "new" /\ row' = [row EXCEPT ![r] = "running"]
        /\ faults' = faults /\ Advance(r)
    BY <1>1 DEF Start
  <2> QED BY <2>1, AdvanceGoesOn DEF Effect, Opens
<1>2. CASE RecordStart(r)
  BY <1>2 DEF RecordStart, Goto, Effect, GoesOn, Underway
<1>3. CASE RecordOk(r)
  <2>1. stage[r] = "ok" /\ Advance(r) /\ row' = row /\ faults' = faults
    BY <1>3 DEF RecordOk
  <2> QED BY <2>1, AdvanceGoesOn DEF Effect, GoesOn, Underway
<1>4. CASE RecordWarn(r)
  <2>1. stage[r] = "warn" /\ row' = row /\ faults' = faults
    BY <1>4 DEF RecordWarn
  <2>2. Advance(r) \/ stage' = [stage EXCEPT ![r] = "failing"]
    BY <1>4 DEF RecordWarn, Goto
  <2> QED BY <2>1, <2>2, AdvanceGoesOn DEF Effect, GoesOn, Underway
<1>5. CASE FinishFailed(r) \/ Finish(r)
  <2>1. stage[r] \in {"failing", "finish"} /\ stage' = [stage EXCEPT ![r] = "gone"]
    BY <1>5 DEF FinishFailed, Finish, Goto
  <2>2. CASE faults' = faults /\ \E v \in Verdicts : row' = [row EXCEPT ![r] = v]
    BY <2>1, <2>2 DEF Effect, Closes, Underway
  <2>3. CASE Fault(r, "unrecorded") /\ row' = row
    BY <2>1, <2>3 DEF Effect, Breaks, Fault
  <2> QED BY <1>5, <2>2, <2>3 DEF FinishFailed, Finish, Verdicts
<1>6. CASE RecordFails(r)
  BY <1>6 DEF RecordFails, Goto, Fault, Effect, Breaks, ledger
<1>7. CASE Kill(r)
  BY <1>7 DEF Kill, Goto, Fault, Effect, Breaks, ledger
<1>8. CASE JobFails(r)
  <2>1. /\ stage[r] \in Underway /\ row' = row /\ faults \subseteq faults'
        /\ \E s \in {"warn", "failing"} : stage' = [stage EXCEPT ![r] = s]
    BY <1>8 DEF JobFails, Goto, Fault, ledger, Underway
  <2> QED BY <2>1 DEF Effect, GoesOn, Underway
<1>9. ASSUME NEW m \in queue[r], Deliver(r, m) PROVE Effect(r)
  BY <1>9 DEF Deliver, Fault, Effect, GoesOn, ledger
<1> QED BY <1>1, <1>2, <1>3, <1>4, <1>5, <1>6, <1>7, <1>8, <1>9

LEMMA StepEffect ==
  ASSUME [Next]_vars
  PROVE  \/ UNCHANGED << row, stage, faults >>
         \/ \E r \in Runs : Effect(r)
<1>1. CASE UNCHANGED vars \/ Tick
  BY <1>1 DEF vars, ledger, Tick
<1>2. ASSUME NEW r \in Runs, Progress(r) \/ RecordFails(r) \/ JobFails(r) \/ Kill(r)
      PROVE  Effect(r)
  BY <1>2, JobEffect, ScriptEffect DEF Progress
<1> QED BY <1>1, <1>2 DEF Next

-----------------------------------------------------------------------------

LEMMA LedgerInit == ASSUME Init PROVE LedgerInv
  BY DEF Init, LedgerInv, Underway

LEMMA EffectKeeps ==
  ASSUME LedgerInv, NEW r \in Runs, Effect(r)
  PROVE  LedgerInv'
<1>0. /\ faults \subseteq faults' /\ row \in [Runs -> {"absent", "running"} \cup Verdicts]
      /\ stage \in [Runs -> {"new", "gone"} \cup Underway]
  BY DEF LedgerInv, Effect
<1>1. CASE GoesOn(r)
  <2>1. CASE stage' = stage
    BY <1>0, <1>1, <2>1 DEF GoesOn, LedgerInv
  <2>2. CASE stage[r] \in Underway /\ \E s \in Underway : stage' = [stage EXCEPT ![r] = s]
    <3>1. PICK s \in Underway : stage' = [stage EXCEPT ![r] = s]
      BY <2>2
    <3>2. s # "new" /\ s # "gone"
      BY DEF Underway
    <3> QED BY <1>0, <1>1, <2>2, <3>1, <3>2 DEF GoesOn, LedgerInv
  <2> QED BY <1>1, <2>1, <2>2 DEF GoesOn
<1>2. CASE Opens(r)
  <2>1. PICK s \in Underway : stage' = [stage EXCEPT ![r] = s]
    BY <1>2 DEF Opens
  <2>2. s # "new" /\ s # "gone"
    BY DEF Underway
  <2> QED BY <1>0, <1>2, <2>1, <2>2 DEF Opens, LedgerInv
<1>3. CASE Closes(r)
  <2>1. PICK v \in Verdicts : row' = [row EXCEPT ![r] = v]
    BY <1>3 DEF Closes
  <2>2. v # "running" /\ "gone" \notin Underway
    BY DEF Verdicts, Underway
  <2> QED BY <1>0, <1>3, <2>1, <2>2 DEF Closes, LedgerInv
<1>4. CASE Breaks(r)
  <2>1. "gone" \notin Underway
    BY DEF Underway
  <2> QED BY <1>0, <1>4, <2>1 DEF Breaks, LedgerInv
<1> QED BY <1>1, <1>2, <1>3, <1>4 DEF Effect

LEMMA LedgerStep == ASSUME LedgerInv, [Next]_vars PROVE LedgerInv'
  BY StepEffect, EffectKeeps DEF LedgerInv

LEMMA LedgerAlways == Spec => []LedgerInv
  BY LedgerInit, LedgerStep, PTL DEF Spec

\* A cycle's row is left "running" only by a kill or by a ledger that could
\* not be written: no failing job, and no other cycle, leaves it so.
THEOREM StuckIsUnrecorded == Spec => []StuckOnlyIfUnrecorded
<1>1. LedgerInv => StuckOnlyIfUnrecorded
  BY DEF LedgerInv, StuckOnlyIfUnrecorded
<1> QED BY <1>1, LedgerAlways, PTL

\* The cycles implement the ledger that RunLedger describes: rows open once,
\* and a verdict is never taken back, by whatever overlapping cycles.
THEOREM LedgerRefines == Spec => LedgerOnlyCloses
<1>1. Init => Ledger!Init
  BY DEF Init, Ledger!Init
<1>2. LedgerInv /\ [Next]_vars => [Ledger!Next]_row
  <2> SUFFICES ASSUME LedgerInv, [Next]_vars, row' # row PROVE Ledger!Next
    OBVIOUS
  <2>1. PICK r \in Runs : Opens(r) \/ Closes(r)
    BY StepEffect DEF Effect, GoesOn, Breaks
  <2>2. CASE Opens(r)
    BY <2>2 DEF Opens, LedgerInv, Ledger!Next, Ledger!Open
  <2>3. CASE Closes(r)
    BY <2>3 DEF Closes, LedgerInv, Verdicts, Ledger!Next, Ledger!Close
  <2> QED BY <2>1, <2>2, <2>3
<1> QED BY <1>1, <1>2, LedgerAlways, PTL DEF Spec, LedgerOnlyCloses, Ledger!Spec

-----------------------------------------------------------------------------
(* The order of the scripts.                                               *)

Names == {"replay", "ingest", "normalize", "grid_weather_replay",
          "normalize_grid_weather", "match_fire_weather", "compute_plume",
          "compute_dispersion", "compare_dispersion_aq", "compute_risk",
          "collect_lag", "quality_check", "alerts_materialize", "alerts_send"}

\* Where a command stands in the scripts that have it.
Rank(n) == CASE n \in {"replay", "ingest"} -> 1
             [] n = "normalize" -> 2
             [] n = "grid_weather_replay" -> 3
             [] n = "normalize_grid_weather" -> 4
             [] n = "match_fire_weather" -> 5
             [] n = "compute_plume" -> 6
             [] n = "compute_dispersion" -> 7
             [] n = "compare_dispersion_aq" -> 8
             [] n = "compute_risk" -> 9
             [] n = "collect_lag" -> 10
             [] n = "quality_check" -> 11
             [] n = "alerts_materialize" -> 12
             [] OTHER -> 13

\* A sequence of commands in order, with ranks from lo up to hi.
Ordered(s, lo, hi) ==
  /\ s \in Seq(Names)
  /\ \A i \in 1..Len(s) : lo <= Rank(s[i]) /\ Rank(s[i]) < hi
  /\ \A i, j \in 1..Len(s) : i < j => Rank(s[i]) < Rank(s[j])

JobStages == {"open", "work", "write", "flush"}

\* The command i of the script is behind a cycle that did the jobs d.
Passed(d, i) == Script[i] \in d \/ (Script[i] = "collect_lag" /\ ~env.strictLag)

\* The step that the ledger must hold at k, once it is written.
Entry(d, k) ==
  LET s == Script[(k + 1) \div 2] IN
  [name |-> s, status |-> CASE k % 2 = 1 -> "start"
                            [] k % 2 = 0 /\ s \in d -> "ok"
                            [] OTHER -> "warn"]

\* The ledger's steps are the first n of them (the live script records none).
Recorded(d, ss, n) == ~Live => /\ Len(ss) = n
                               /\ \A k \in 1..n : ss[k] = Entry(d, k)

\* Every command is behind it, and is in the ledger.
Complete(d, ss) == /\ \A i \in 1..Len(Script) : Passed(d, i)
                   /\ Recorded(d, ss, 2 * Len(Script))

\* A cycle in stage st of the command p has done the jobs behind it, in the
\* order of the script, has them in the ledger, and has done nothing ahead.
At(st, p, d, ss) ==
  /\ d \subseteq {Script[i] : i \in 1..p}
  /\ st = "new" => p = 0 /\ ss = << >>
  /\ st \in Underway => p >= 1 /\ \A i \in 1..(p - 1) : Passed(d, i)
  /\ st \in JobStages \cup {"begin", "warn"} => Script[p] \notin d
  /\ st = "begin" => Recorded(d, ss, 2 * p - 2)
  /\ st \in JobStages \cup {"ok", "warn"} => Recorded(d, ss, 2 * p - 1)
  /\ st = "ok" => Script[p] \in d
  /\ st = "warn" => Script[p] = "collect_lag"
  /\ st = "finish" => p = Len(Script) /\ Complete(d, ss)

StepRows == [name : Names, status : {"start", "ok", "warn"}]

ScriptInv ==
  /\ env \in Environments
  /\ pos \in [Runs -> 0..Len(Script)]
  /\ steps \in [Runs -> Seq(StepRows)]
  /\ done \in [Runs -> SUBSET Names]
  /\ \A r \in Runs : /\ At(stage[r], pos[r], done[r], steps[r])
                     /\ row[r] = "succeeded" => Complete(done[r], steps[r])

-----------------------------------------------------------------------------

LEMMA RankIsNat == \A n : Rank(n) \in Nat
  BY SMT DEF Rank

LEMMA JoinOrdered ==
  ASSUME NEW a, NEW b, NEW lo \in Nat, NEW mid \in Nat, NEW hi \in Nat,
         lo <= mid, mid <= hi, Ordered(a, lo, mid), Ordered(b, mid, hi)
  PROVE  Ordered(a \o b, lo, hi)
<1> DEFINE c == a \o b
<1>1. a \in Seq(Names) /\ b \in Seq(Names)
  BY DEF Ordered
<1>2. /\ c \in Seq(Names) /\ Len(c) = Len(a) + Len(b)
      /\ \A i \in 1..(Len(a) + Len(b)) : c[i] = IF i <= Len(a) THEN a[i] ELSE b[i - Len(a)]
  BY <1>1, ConcatProperties
<1>3. Len(a) \in Nat /\ Len(b) \in Nat
  BY <1>1, LenProperties
<1> HIDE DEF c
<1>4. ASSUME NEW i \in 1..Len(c)
      PROVE  \/ i \in 1..Len(a) /\ c[i] = a[i]
             \/ i \notin 1..Len(a) /\ i - Len(a) \in 1..Len(b) /\ c[i] = b[i - Len(a)]
  BY <1>2, <1>3
<1>5. ASSUME NEW i \in 1..Len(c) PROVE lo <= Rank(c[i]) /\ Rank(c[i]) < hi
  <2>1. \A n : Rank(n) \in Nat
    BY Zenon, RankIsNat
  <2>2. CASE i \in 1..Len(a) /\ c[i] = a[i]
    <3>1. lo <= Rank(a[i]) /\ Rank(a[i]) < mid
      BY <2>2 DEF Ordered
    <3> QED BY SMT, <2>1, <2>2, <3>1
  <2>3. CASE i - Len(a) \in 1..Len(b) /\ c[i] = b[i - Len(a)]
    <3>1. mid <= Rank(b[i - Len(a)]) /\ Rank(b[i - Len(a)]) < hi
      BY <2>3 DEF Ordered
    <3> QED BY SMT, <2>1, <2>3, <3>1
  <2> QED BY <1>4, <2>2, <2>3
<1>6. ASSUME NEW i \in 1..Len(c), NEW j \in 1..Len(c), i < j
      PROVE  Rank(c[i]) < Rank(c[j])
  <2>1. \A n : Rank(n) \in Nat
    BY Zenon, RankIsNat
  <2>2. CASE j \in 1..Len(a)
    <3>1. i \in 1..Len(a)
      BY <1>2, <1>3, <1>6, <2>2
    <3> QED BY <1>4, <1>6, <2>2, <3>1 DEF Ordered
  <2>3. CASE j \notin 1..Len(a) /\ i \in 1..Len(a)
    <3>1. Rank(c[i]) < mid /\ mid <= Rank(c[j])
      BY <1>4, <2>3 DEF Ordered
    <3> QED BY <2>1, <3>1
  <2>4. CASE j \notin 1..Len(a) /\ i \notin 1..Len(a)
    <3> DEFINE k == i - Len(a)
               l == j - Len(a)
    <3>1. /\ k \in 1..Len(b) /\ l \in 1..Len(b)
          /\ c[i] = b[k] /\ c[j] = b[l]
      BY <1>4, <2>4
    <3>2. k < l
      BY <1>2, <1>3, <1>6
    <3>3. \A u, v \in 1..Len(b) : u < v => Rank(b[u]) < Rank(b[v])
      BY Zenon DEF Ordered
    <3> HIDE DEF k, l
    <3>4. Rank(b[k]) < Rank(b[l])
      BY Zenon, <3>1, <3>2, <3>3
    <3> QED BY SMT, <3>1, <3>4
  <2> QED BY <2>2, <2>3, <2>4
<1>7. Ordered(c, lo, hi)
  BY <1>2, <1>5, <1>6 DEF Ordered
<1> QED BY <1>7 DEF c

LEMMA OptionalOrdered ==
  ASSUME NEW a, NEW x \in BOOLEAN, NEW lo \in Nat, NEW hi \in Nat, Ordered(a, lo, hi)
  PROVE  Ordered(Optional(x, a), lo, hi)
<1>1. << >> \in Seq(Names) /\ Len(<< >>) = 0
  BY EmptySeq
<1>2. Ordered(<< >>, lo, hi)
  BY SMT, <1>1 DEF Ordered
<1> QED BY <1>2 DEF Optional

\* Both scripts run their commands in one order, none twice.
LEMMA ScriptOrdered ==
  ASSUME NEW e \in Environments
  PROVE  Ordered(Scripts[e], 1, 14)
<1>1. e \in EnvFields
  BY CycleInputs
<1>2. e.grid \in BOOLEAN /\ e.dispersion \in BOOLEAN
  BY <1>1 DEF EnvFields
<1>3. Ordered(LiveSteps, 1, 14)
  <2>1. LiveSteps \in Seq(Names) /\ Len(LiveSteps) = 8
    BY SMT DEF LiveSteps, Names
  <2>2. /\ LiveSteps[1] = "ingest" /\ LiveSteps[2] = "normalize"
        /\ LiveSteps[3] = "compute_plume" /\ LiveSteps[4] = "compute_risk"
        /\ LiveSteps[5] = "collect_lag" /\ LiveSteps[6] = "quality_check"
        /\ LiveSteps[7] = "alerts_materialize" /\ LiveSteps[8] = "alerts_send"
    BY SMT DEF LiveSteps
  <2>3. /\ Rank("ingest") = 1 /\ Rank("normalize") = 2
        /\ Rank("compute_plume") = 6 /\ Rank("compute_risk") = 9
        /\ Rank("collect_lag") = 10 /\ Rank("quality_check") = 11
        /\ Rank("alerts_materialize") = 12 /\ Rank("alerts_send") = 13
    BY SMT DEF Rank
  <2> QED BY SMT, <2>1, <2>2, <2>3 DEF Ordered
<1> DEFINE a == << "replay", "normalize" >>
           b == Optional(e.grid, GridSteps)
           c == << "compute_plume" >>
           d == Optional(e.dispersion, DispersionSteps)
           f == << "compute_risk", "collect_lag", "quality_check",
                   "alerts_materialize", "alerts_send" >>
<1>4. Ordered(a, 1, 3)
  BY SMT DEF Ordered, Names, Rank
<1>5. Ordered(b, 3, 6)
  <2>1. Ordered(GridSteps, 3, 6)
    BY SMT DEF Ordered, GridSteps, Names, Rank
  <2> QED BY SMT, <1>2, <2>1, OptionalOrdered
<1>6. Ordered(c, 6, 7)
  BY SMT DEF Ordered, Names, Rank
<1>7. Ordered(d, 7, 9)
  <2>1. Ordered(DispersionSteps, 7, 9)
    BY SMT DEF Ordered, DispersionSteps, Names, Rank
  <2> QED BY SMT, <1>2, <2>1, OptionalOrdered
<1>8. Ordered(f, 9, 14)
  BY SMT DEF Ordered, Names, Rank
<1>9. FixtureSteps(e) = (((a \o b) \o c) \o d) \o f
  BY DEF FixtureSteps
<1> HIDE DEF a, b, c, d, f
<1>10. Ordered(a \o b, 1, 6)
  BY SMT, <1>4, <1>5, JoinOrdered
<1>11. Ordered((a \o b) \o c, 1, 7)
  BY SMT, <1>6, <1>10, JoinOrdered
<1>12. Ordered(((a \o b) \o c) \o d, 1, 9)
  BY SMT, <1>7, <1>11, JoinOrdered
<1>13. Ordered(FixtureSteps(e), 1, 14)
  BY SMT, <1>8, <1>9, <1>12, JoinOrdered
<1> QED BY <1>3, <1>13 DEF Scripts

Has(s, n) == \E i \in 1..Len(s) : s[i] = n

LEMMA JoinHas ==
  ASSUME NEW a \in Seq(Names), NEW b \in Seq(Names), NEW n, Has(a, n) \/ Has(b, n)
  PROVE  Has(a \o b, n)
<1> DEFINE c == a \o b
<1>1. /\ Len(c) = Len(a) + Len(b)
      /\ \A i \in 1..(Len(a) + Len(b)) : c[i] = IF i <= Len(a) THEN a[i] ELSE b[i - Len(a)]
  BY ConcatProperties
<1>2. Len(a) \in Nat /\ Len(b) \in Nat
  BY LenProperties
<1> HIDE DEF c
<1>3. CASE Has(a, n)
  <2>1. PICK i \in 1..Len(a) : a[i] = n
    BY <1>3 DEF Has
  <2>2. i \in 1..Len(c) /\ c[i] = n
    BY SMT, <1>1, <1>2, <2>1
  <2> QED BY Zenon, <2>2 DEF Has, c
<1>4. CASE Has(b, n)
  <2>1. PICK i \in 1..Len(b) : b[i] = n
    BY <1>4 DEF Has
  <2>2. Len(a) + i \in 1..Len(c) /\ c[Len(a) + i] = b[(Len(a) + i) - Len(a)]
    BY SMT, <1>1, <1>2, <2>1
  <2>3. (Len(a) + i) - Len(a) = i
    BY SMT, <1>2, <2>1
  <2> QED BY Zenon, <2>1, <2>2, <2>3 DEF Has, c
<1> QED BY <1>3, <1>4

\* Every script normalizes and computes plumes, and with the grid the fixture
\* script matches.
LEMMA ScriptHas ==
  ASSUME NEW e \in Environments
  PROVE  /\ Has(Scripts[e], "normalize") /\ Has(Scripts[e], "compute_plume")
         /\ e.mode # "live" /\ e.grid => Has(Scripts[e], "match_fire_weather")
<1>1. e \in EnvFields
  BY CycleInputs
<1>2. e.grid \in BOOLEAN /\ e.dispersion \in BOOLEAN
  BY <1>1 DEF EnvFields
<1>3. Has(LiveSteps, "normalize") /\ Has(LiveSteps, "compute_plume")
  <2>1. Len(LiveSteps) = 8 /\ LiveSteps[2] = "normalize" /\ LiveSteps[3] = "compute_plume"
    BY SMT DEF LiveSteps
  <2> QED BY SMT, <2>1 DEF Has
<1> DEFINE a == << "replay", "normalize" >>
           b == Optional(e.grid, GridSteps)
           c == << "compute_plume" >>
           d == Optional(e.dispersion, DispersionSteps)
           f == << "compute_risk", "collect_lag", "quality_check",
                   "alerts_materialize", "alerts_send" >>
<1>4. a \in Seq(Names) /\ c \in Seq(Names) /\ f \in Seq(Names)
  BY SMT DEF Names
<1>5. b \in Seq(Names) /\ d \in Seq(Names)
  <2>1. GridSteps \in Seq(Names) /\ DispersionSteps \in Seq(Names) /\ << >> \in Seq(Names)
    BY SMT DEF Names, GridSteps, DispersionSteps
  <2> QED BY <2>1 DEF Optional
<1>6. Has(a, "normalize") /\ Has(c, "compute_plume")
  <2>1. /\ Len(a) = 2 /\ a[2] = "normalize" /\ Len(c) = 1 /\ c[1] = "compute_plume"
    OBVIOUS
  <2> QED BY SMT, <2>1 DEF Has
<1>7. e.grid => Has(b, "match_fire_weather")
  <2>1. Len(GridSteps) = 3 /\ GridSteps[3] = "match_fire_weather"
    BY DEF GridSteps
  <2>2. Has(GridSteps, "match_fire_weather")
    BY SMT, <2>1 DEF Has
  <2> QED BY <2>2 DEF Optional
<1>8. FixtureSteps(e) = (((a \o b) \o c) \o d) \o f
  BY DEF FixtureSteps
<1> HIDE DEF a, b, c, d, f
<1>9. /\ a \o b \in Seq(Names) /\ (a \o b) \o c \in Seq(Names)
      /\ ((a \o b) \o c) \o d \in Seq(Names)
  BY <1>4, <1>5, ConcatProperties
<1>10. Has(FixtureSteps(e), "normalize")
  BY Zenon, <1>4, <1>5, <1>6, <1>8, <1>9, JoinHas
<1>11. Has(FixtureSteps(e), "compute_plume")
  BY Zenon, <1>4, <1>5, <1>6, <1>8, <1>9, JoinHas
<1>12. e.grid => Has(FixtureSteps(e), "match_fire_weather")
  BY Zenon, <1>4, <1>5, <1>7, <1>8, <1>9, JoinHas
<1> QED BY <1>3, <1>10, <1>11, <1>12 DEF Scripts

LEMMA ScriptFacts ==
  ASSUME env \in Environments
  PROVE  /\ Script \in Seq(Names) /\ Len(Script) \in Nat /\ Len(Script) >= 1
         /\ \A i, j \in 1..Len(Script) : Script[i] = Script[j] => i = j
<1>1. Ordered(Script, 1, 14)
  BY ScriptOrdered DEF Script
<1>2. Script \in Seq(Names) /\ Len(Script) \in Nat
  BY <1>1, LenProperties DEF Ordered
<1>3. Len(Script) >= 1
  <2>1. Has(Script, "normalize")
    BY ScriptHas DEF Script
  <2> QED BY SMT, <1>2, <2>1 DEF Has
<1>4. ASSUME NEW i \in 1..Len(Script), NEW j \in 1..Len(Script), Script[i] = Script[j]
      PROVE  i = j
  <2>1. Rank(Script[i]) \in Nat /\ Rank(Script[j]) \in Nat
    BY Zenon, RankIsNat
  <2>2. /\ i < j => Rank(Script[i]) < Rank(Script[j])
        /\ j < i => Rank(Script[j]) < Rank(Script[i])
    BY Zenon, <1>1 DEF Ordered
  <2> QED BY SMT, <1>2, <1>4, <2>1, <2>2
<1> QED BY <1>2, <1>3, <1>4

-----------------------------------------------------------------------------
(* The ledger's steps.                                                     *)

LEMMA EntryIs ==
  ASSUME NEW d, NEW i \in Nat, i >= 1
  PROVE  /\ Entry(d, 2 * i - 1) = [name |-> Script[i], status |-> "start"]
         /\ Script[i] \in d => Entry(d, 2 * i) = [name |-> Script[i], status |-> "ok"]
         /\ Script[i] \notin d => Entry(d, 2 * i) = [name |-> Script[i], status |-> "warn"]
<1>1. ((2 * i - 1) + 1) \div 2 = i /\ (2 * i - 1) % 2 = 1
  BY SMT
<1>2. (2 * i + 1) \div 2 = i /\ (2 * i) % 2 = 0
  BY SMT
<1>3. 1 # 0
  BY SMT
<1> QED BY Zenon, <1>1, <1>2, <1>3 DEF Entry

\* One more entry.
LEMMA RecordMore ==
  ASSUME NEW d, NEW ss \in Seq(StepRows), NEW n \in Nat, NEW m, m = n + 1,
         Recorded(d, ss, n), NEW e \in StepRows, e = Entry(d, m)
  PROVE  Recorded(d, Append(ss, e), m)
<1>1. CASE ~Live
  <2> DEFINE tt == Append(ss, e)
  <2>1. Len(ss) = n /\ \A k \in 1..n : ss[k] = Entry(d, k)
    BY Zenon, <1>1 DEF Recorded
  <2>2. Len(tt) = n + 1 /\ \A k \in 1..(n + 1) : tt[k] = IF k <= n THEN ss[k] ELSE e
    <3>1. Len(ss) \in Nat
      BY LenProperties
    <3> QED BY SMT, <2>1, <3>1
  <2> HIDE DEF tt
  <2>3. ASSUME NEW k \in 1..m PROVE tt[k] = Entry(d, k)
    <3>1. CASE k \in 1..n
      BY SMT, <2>1, <2>2, <3>1
    <3>2. CASE k \notin 1..n
      <4>1. k = m
        BY SMT, <3>2
      <4>2. tt[k] = e
        BY SMT, <2>2, <4>1
      <4> QED BY Zenon, <4>1, <4>2
    <3> QED BY <3>1, <3>2
  <2>4. Len(tt) = m
    BY Zenon, <2>2
  <2> QED BY Zenon, <1>1, <2>3, <2>4 DEF Recorded, tt
<1> QED BY <1>1 DEF Recorded

\* The entries before the command p do not tell whether it was done.
LEMMA RecordedDone ==
  ASSUME env \in Environments, NEW p \in 1..Len(Script), NEW d, NEW ss,
         Recorded(d, ss, 2 * p - 1)
  PROVE  Recorded(d \cup {Script[p]}, ss, 2 * p - 1)
<1>1. ASSUME NEW k \in 1..(2 * p - 1) PROVE Entry(d \cup {Script[p]}, k) = Entry(d, k)
  <2>1. p \in Nat /\ k \in Nat /\ k >= 1 /\ k <= 2 * p - 1
    <3>1. Len(Script) \in Nat
      BY ScriptFacts
    <3> QED BY SMT, <3>1
  <2>2. PICK i \in Nat : i >= 1 /\ k \in {2 * i - 1, 2 * i}
    <3>1. (k + 1) \div 2 \in Nat /\ (k + 1) \div 2 >= 1
      BY SMT, <2>1
    <3>2. k \in {2 * ((k + 1) \div 2) - 1, 2 * ((k + 1) \div 2)}
      BY SMT, <2>1
    <3> QED BY Zenon, <3>1, <3>2
  <2>3. CASE k = 2 * i - 1
    BY Zenon, <2>2, <2>3, EntryIs
  <2>4. CASE k = 2 * i
    <3>1. i \in 1..Len(Script) /\ i # p
      <4>1. Len(Script) \in Nat
        BY ScriptFacts
      <4>2. i \in Nat /\ i >= 1 /\ 2 * i <= 2 * p - 1 /\ p \in Nat /\ p <= Len(Script)
        BY SMT, <2>1, <2>2, <2>4, <4>1
      <4>3. i < p
        BY SMT, <4>2
      <4> QED BY SMT, <4>1, <4>2, <4>3
    <3>2. Script[i] # Script[p]
      BY Zenon, <3>1, ScriptFacts
    <3>3. Script[i] \in d <=> Script[i] \in d \cup {Script[p]}
      BY Zenon, <3>2
    <3>4. \A e : /\ Script[i] \in e => Entry(e, k) = [name |-> Script[i], status |-> "ok"]
                 /\ Script[i] \notin e => Entry(e, k) = [name |-> Script[i], status |-> "warn"]
      BY Zenon, <2>2, <2>4, EntryIs
    <3> QED BY Zenon, <3>3, <3>4
  <2> QED BY Zenon, <2>2, <2>3, <2>4
<1> QED BY Zenon, <1>1 DEF Recorded

-----------------------------------------------------------------------------
(* The kinds of steps of a script.                                         *)

\* The job of the step goes on.
Works(r) == /\ stage[r] \in JobStages
            /\ \E s \in JobStages : stage' = [stage EXCEPT ![r] = s]
            /\ UNCHANGED << row, steps, pos, done >>

Ends(r) == /\ stage[r] \in JobStages /\ JobDone(r)
           /\ UNCHANGED << row, steps >>

Raises(r) == /\ stage[r] \in JobStages
             /\ Goto(r, IF Step(r) = "collect_lag" THEN "warn" ELSE "failing")
             /\ UNCHANGED << row, steps, done >>

Leaves(r) == /\ stage' = [stage EXCEPT ![r] = "gone"]
             /\ \/ row' = row
                \/ row' = [row EXCEPT ![r] = "failed"]
                \/ stage[r] = "finish" /\ row' = [row EXCEPT ![r] = "succeeded"]
             /\ UNCHANGED << steps, pos, done >>

Kind(r) == \/ Works(r) \/ Ends(r) \/ Raises(r) \/ Leaves(r)
           \/ Start(r) \/ RecordStart(r) \/ RecordOk(r) \/ RecordWarn(r)

LEMMA JobKind ==
  ASSUME NEW r \in Runs,
         \/ OpenMatch(r) \/ CommitMatch(r) \/ OpenPlume(r) \/ CommitPlume(r)
         \/ OpenDispersion(r) \/ CommitDispersion(r) \/ OpenCompare(r)
         \/ CommitCompare(r) \/ OpenRisk(r) \/ WriteRisk(r) \/ CommitRisk(r)
         \/ FlushRisk(r) \/ RunScript(r)
         \/ \E f \in local[r].todo : ResolvePlume(r, f) \/ ResolveDispersion(r, f)
  PROVE  env' = env /\ Kind(r)
<1>1. CASE OpenMatch(r) \/ OpenPlume(r) \/ OpenDispersion(r) \/ OpenRisk(r)
  <2>1. /\ stage[r] = "open" /\ stage' = [stage EXCEPT ![r] = "work"] /\ env' = env
        /\ row' = row /\ steps' = steps /\ pos' = pos /\ done' = done
    BY <1>1 DEF OpenMatch, OpenPlume, OpenDispersion, OpenRisk, OpenJob, Goto, ledger
  <2> QED BY <2>1 DEF Kind, Works, JobStages
<1>2. CASE CommitMatch(r) \/ CommitPlume(r) \/ CommitDispersion(r) \/ CommitCompare(r)
  <2>1. /\ stage[r] = "work" /\ JobDone(r) /\ env' = env
        /\ row' = row /\ steps' = steps
    BY <1>2 DEF CommitMatch, CommitPlume, CommitDispersion, CommitCompare, ledger
  <2> QED BY <2>1 DEF Kind, Ends, JobStages
<1>3. CASE FlushRisk(r) \/ RunScript(r)
  <2>1. /\ stage[r] \in {"flush", "open"} /\ JobDone(r) /\ env' = env
        /\ row' = row /\ steps' = steps
    BY <1>3 DEF FlushRisk, RunScript, ledger
  <2> QED BY <2>1 DEF Kind, Ends, JobStages
<1>4. CASE OpenCompare(r)
  <2>1. stage[r] = "open" /\ env' = env /\ row' = row /\ steps' = steps
    BY <1>4 DEF OpenCompare, ledger
  <2>2. JobDone(r) \/ (stage' = [stage EXCEPT ![r] = "work"] /\ pos' = pos /\ done' = done)
    BY <1>4 DEF OpenCompare, Goto
  <2> QED BY <2>1, <2>2 DEF Kind, Ends, Works, JobStages
<1>5. CASE WriteRisk(r) \/ CommitRisk(r)
  <2>1. /\ stage[r] \in {"work", "write"} /\ env' = env
        /\ row' = row /\ steps' = steps /\ pos' = pos /\ done' = done
        /\ \E s \in {"write", "flush"} : stage' = [stage EXCEPT ![r] = s]
    BY <1>5 DEF WriteRisk, CommitRisk, Goto, ledger
  <2> QED BY <2>1 DEF Kind, Works, JobStages
<1>6. ASSUME NEW f \in local[r].todo, ResolvePlume(r, f) \/ ResolveDispersion(r, f)
      PROVE  env' = env /\ Kind(r)
  <2>1. /\ stage[r] = "work" /\ stage' = [stage EXCEPT ![r] = "work"] /\ env' = env
        /\ row' = row /\ steps' = steps /\ pos' = pos /\ done' = done
    BY <1>6 DEF ResolvePlume, ResolveDispersion, Goto, ledger
  <2> QED BY <2>1 DEF Kind, Works, JobStages
<1> QED BY <1>1, <1>2, <1>3, <1>4, <1>5, <1>6

LEMMA StepKind ==
  ASSUME [Next]_vars
  PROVE  /\ env' = env
         /\ \/ UNCHANGED << row, steps, stage, pos, done >>
            \/ \E r \in Runs : Kind(r)
<1>1. CASE UNCHANGED vars \/ Tick
  BY <1>1 DEF vars, ledger, Tick
<1>2. ASSUME NEW r \in Runs, Start(r) \/ RecordStart(r) \/ RecordOk(r) \/ RecordWarn(r)
      PROVE  env' = env /\ Kind(r)
  BY <1>2 DEF Start, RecordStart, RecordOk, RecordWarn, Kind
<1>3. ASSUME NEW r \in Runs, JobFails(r)
      PROVE  env' = env /\ Kind(r)
  BY <1>3 DEF JobFails, Kind, Raises, JobStages, ledger
<1>4. ASSUME NEW r \in Runs, FinishFailed(r) \/ Finish(r) \/ RecordFails(r) \/ Kill(r)
      PROVE  env' = env /\ Kind(r)
  <2>1. stage' = [stage EXCEPT ![r] = "gone"] /\ UNCHANGED << env, steps, pos, done >>
    BY <1>4 DEF FinishFailed, Finish, RecordFails, Kill, Goto, ledger
  <2>2. \/ row' = row
        \/ row' = [row EXCEPT ![r] = "failed"]
        \/ stage[r] = "finish" /\ row' = [row EXCEPT ![r] = "succeeded"]
    BY <1>4 DEF FinishFailed, Finish, RecordFails, Kill, ledger
  <2> QED BY <2>1, <2>2 DEF Kind, Leaves
<1>5. ASSUME NEW r \in Runs, NEW m \in queue[r], Deliver(r, m)
      PROVE  UNCHANGED << env, row, steps, stage, pos, done >>
  BY <1>5 DEF Deliver, ledger
<1>6. ASSUME NEW r \in Runs, Progress(r)
      PROVE  env' = env /\ (UNCHANGED << row, steps, stage, pos, done >> \/ Kind(r))
  BY <1>2, <1>4, <1>5, <1>6, JobKind DEF Progress
<1> QED BY <1>1, <1>3, <1>4, <1>6 DEF Next

-----------------------------------------------------------------------------

\* What a kind of step owes: the types, r's own state, and the others' as is.
LEMMA ScriptFrame ==
  ASSUME ScriptInv, env' = env, NEW r \in Runs,
         pos' \in [Runs -> 0..Len(Script)], steps' \in [Runs -> Seq(StepRows)],
         done' \in [Runs -> SUBSET Names],
         \A q \in Runs \ {r} : /\ stage'[q] = stage[q] /\ pos'[q] = pos[q]
                               /\ done'[q] = done[q] /\ steps'[q] = steps[q]
                               /\ row'[q] = row[q],
         At(stage'[r], pos'[r], done'[r], steps'[r]),
         row'[r] = "succeeded" => Complete(done'[r], steps'[r])
  PROVE  ScriptInv'
<1>1. Script' = Script /\ Live' = Live /\ env.strictLag' = env.strictLag
  BY DEF Script, Live
<1>2. \A d, i : Passed(d, i)' <=> Passed(d, i)
  BY Zenon, <1>1 DEF Passed
<1>3. \A d, k : Entry(d, k)' = Entry(d, k)
  BY Zenon, <1>1 DEF Entry
<1>4. \A d, ss, n : Recorded(d, ss, n)' <=> Recorded(d, ss, n)
  BY Zenon, <1>1, <1>3 DEF Recorded
<1>5. \A d, ss : Complete(d, ss)' <=> Complete(d, ss)
  BY Zenon, <1>1, <1>2, <1>4 DEF Complete
<1>6. ASSUME NEW q \in Runs PROVE At(stage'[q], pos'[q], done'[q], steps'[q])
  BY Zenon DEF ScriptInv
<1>7. ASSUME NEW q \in Runs PROVE row'[q] = "succeeded" => Complete(done'[q], steps'[q])
  BY Zenon DEF ScriptInv
<1>8. \A st, p, d, ss : At(st, p, d, ss)' <=> At(st, p, d, ss)
  BY SMT, <1>1, <1>2, <1>4, <1>5 DEF At
<1> QED BY <1>1, <1>5, <1>6, <1>7, <1>8 DEF ScriptInv

\* Going on to the next command keeps the account of those behind.
LEMMA AdvanceAt ==
  ASSUME env \in Environments, NEW r \in Runs, Advance(r),
         stage \in [Runs -> {"new", "gone"} \cup Underway],
         pos \in [Runs -> 0..Len(Script)], NEW d, NEW ss,
         d \subseteq {Script[i] : i \in 1..pos[r]},
         \A i \in 1..pos[r] : Passed(d, i), Recorded(d, ss, 2 * pos[r])
  PROVE  /\ At(stage'[r], pos'[r], d, ss) /\ stage'[r] \in Underway
         /\ pos' \in [Runs -> 0..Len(Script)]
         /\ \A q \in Runs \ {r} : stage'[q] = stage[q] /\ pos'[q] = pos[q]
<1> DEFINE p == pos[r]
<1>1. /\ Len(Script) \in Nat /\ Len(Script) >= 1 /\ p \in Nat /\ p <= Len(Script)
  <2>1. Len(Script) \in Nat /\ Len(Script) >= 1
    BY ScriptFacts
  <2> QED BY SMT, <2>1
<1>2. CASE p = Len(Script)
  <2>1. stage'[r] = "finish" /\ pos'[r] = p
    BY <1>2 DEF Advance
  <2>2. Complete(d, ss)
    BY Zenon, <1>2 DEF Complete
  <2>3. \A i \in 1..(p - 1) : i \in 1..p
    BY SMT, <1>1
  <2> HIDE DEF p
  <2>4. At("finish", p, d, ss)
    BY <1>1, <1>2, <2>2, <2>3 DEF At, JobStages, Underway, p
  <2> QED BY <1>2, <2>1, <2>4 DEF Advance, Underway, p
<1>3. CASE p # Len(Script)
  <2> DEFINE st == IF Live THEN "open" ELSE "begin"
  <2>1. stage' = [stage EXCEPT ![r] = st] /\ pos' = [pos EXCEPT ![r] = p + 1]
    BY <1>3 DEF Advance
  <2>2. p + 1 \in 1..Len(Script) /\ (p + 1) - 1 = p /\ 2 * (p + 1) - 2 = 2 * p
    BY SMT, <1>1, <1>3
  <2>3. Script[p + 1] \notin d
    <3>1. \A i \in 1..p : i \in 1..Len(Script) /\ i # p + 1
      BY SMT, <1>1
    <3>2. ASSUME Script[p + 1] \in d PROVE FALSE
      <4>1. PICK i \in 1..p : Script[i] = Script[p + 1]
        BY <3>2
      <4> QED BY Zenon, <2>2, <3>1, <4>1, ScriptFacts
    <3> QED BY <3>2
  <2>4. d \subseteq {Script[i] : i \in 1..(p + 1)}
    <3>1. \A i \in 1..p : i \in 1..(p + 1)
      BY SMT, <1>1
    <3> QED BY Zenon, <3>1
  <2>5. Live => st = "open" /\ \A n : Recorded(d, ss, n)
    BY Zenon DEF Recorded
  <2>6. ~Live => st = "begin" /\ Recorded(d, ss, 2 * (p + 1) - 2)
    BY Zenon, <2>2
  <2>7. p + 1 >= 1 /\ st \in Underway
    BY SMT, <2>2 DEF Underway
  <2>8. At(st, p + 1, d, ss)
    <3>2. \A i \in 1..((p + 1) - 1) : Passed(d, i)
      BY Zenon, <2>2
    <3>3. CASE Live
      <4>1. st = "open"
        BY <3>3
      <4> HIDE DEF p, st
      <4> QED BY Zenon, <2>3, <2>4, <2>5, <2>7, <3>2, <3>3, <4>1 DEF At, JobStages
    <3>4. CASE ~Live
      <4>1. st = "begin"
        BY <3>4
      <4> HIDE DEF p, st
      <4> QED BY Zenon, <2>3, <2>4, <2>6, <2>7, <3>2, <3>4, <4>1 DEF At, JobStages
    <3> QED BY <3>3, <3>4
  <2>9. stage'[r] = st /\ pos'[r] = p + 1
    BY <2>1
  <2>10. pos' \in [Runs -> 0..Len(Script)]
    <3>1. p + 1 \in 0..Len(Script)
      BY SMT, <2>2
    <3> HIDE DEF p
    <3> QED BY <2>1, <3>1
  <2> HIDE DEF p, st
  <2> QED BY <2>1, <2>7, <2>8, <2>9, <2>10
<1> QED BY <1>2, <1>3

LEMMA ScriptInit == ASSUME Init PROVE ScriptInv
<1>1. /\ env \in Environments /\ row = [r \in Runs |-> "absent"]
      /\ steps = [r \in Runs |-> << >>] /\ pos = [r \in Runs |-> 0]
      /\ stage = [r \in Runs |-> "new"] /\ done = [r \in Runs |-> {}]
  BY DEF Init
<1>2. Len(Script) \in Nat /\ 0 \in 0..Len(Script)
  <2>1. Len(Script) \in Nat
    BY <1>1, ScriptFacts
  <2> QED BY SMT, <2>1
<1>3. << >> \in Seq(StepRows)
  BY EmptySeq
<1>4. At("new", 0, {}, << >>)
  BY DEF At, Underway, JobStages
<1> QED BY <1>1, <1>2, <1>3, <1>4 DEF ScriptInv

LEMMA KindKeeps ==
  ASSUME LedgerInv, ScriptInv, env' = env, NEW r \in Runs, Kind(r)
  PROVE  ScriptInv'
<1> DEFINE p == pos[r]
           d == done[r]
           ss == steps[r]
           Mine == /\ pos' \in [Runs -> 0..Len(Script)]
                   /\ steps' \in [Runs -> Seq(StepRows)]
                   /\ done' \in [Runs -> SUBSET Names]
                   /\ At(stage'[r], pos'[r], done'[r], steps'[r])
                   /\ row'[r] = "succeeded" => Complete(done'[r], steps'[r])
           Theirs == \A q \in Runs \ {r} :
                       /\ stage'[q] = stage[q] /\ pos'[q] = pos[q]
                       /\ done'[q] = done[q] /\ steps'[q] = steps[q]
                       /\ row'[q] = row[q]
<1>1. /\ env \in Environments
      /\ pos \in [Runs -> 0..Len(Script)] /\ steps \in [Runs -> Seq(StepRows)]
      /\ done \in [Runs -> SUBSET Names]
      /\ row \in [Runs -> {"absent", "running"} \cup Verdicts]
      /\ stage \in [Runs -> {"new", "gone"} \cup Underway]
  BY DEF LedgerInv, ScriptInv
<1>0. p = pos[r] /\ d = done[r] /\ ss = steps[r]
  OBVIOUS
<1>2. /\ At(stage[r], p, d, ss)
      /\ row[r] = "succeeded" => Complete(d, ss)
      /\ ss \in Seq(StepRows) /\ p \in 0..Len(Script) /\ d \subseteq Names
  BY <1>1 DEF ScriptInv
<1> HIDE DEF p, d, ss
<1> DEFINE st == stage[r]
<1>14. /\ d \subseteq {Script[i] : i \in 1..p}
       /\ st = "new" => p = 0 /\ ss = << >>
       /\ st \in Underway => p >= 1 /\ \A i \in 1..(p - 1) : Passed(d, i)
       /\ st \in JobStages \cup {"begin", "warn"} => Script[p] \notin d
       /\ st = "begin" => Recorded(d, ss, 2 * p - 2)
       /\ st \in JobStages \cup {"ok", "warn"} => Recorded(d, ss, 2 * p - 1)
       /\ st = "ok" => Script[p] \in d
       /\ st = "warn" => Script[p] = "collect_lag"
       /\ st = "finish" => p = Len(Script) /\ Complete(d, ss)
  <2>1. At(st, p, d, ss)
    BY <1>2
  <2> HIDE DEF st
  <2> QED BY SMT, <2>1 DEF At
<1>3. stage[r] \in Underway => row[r] # "succeeded"
  BY DEF LedgerInv
<1>4. /\ Script \in Seq(Names) /\ Len(Script) \in Nat
      /\ \A i, j \in 1..Len(Script) : Script[i] = Script[j] => i = j
  BY <1>1, ScriptFacts
<1>5. stage[r] \in Underway => p \in 1..Len(Script) /\ Script[p] \in Names
  <2>1. stage[r] \in Underway => p >= 1
    BY <1>14
  <2>2. stage[r] \in Underway => p \in 1..Len(Script)
    BY SMT, <1>2, <1>4, <2>1
  <2> QED BY <1>4, <2>2, ElementOfSeq
<1>6. stage[r] \in Underway => Step(r) = Script[p]
  BY SMT, <1>0, <1>5 DEF Step
<1>7. ASSUME Mine, Theirs PROVE ScriptInv'
  BY <1>7, ScriptFrame
<1> HIDE DEF Mine, Theirs
<1>8. CASE Works(r)
  <2>1. PICK s \in JobStages : stage' = [stage EXCEPT ![r] = s]
    BY <1>8 DEF Works
  <2>2. /\ row' = row /\ steps' = steps /\ pos' = pos /\ done' = done
        /\ stage[r] \in JobStages /\ stage'[r] = s
    BY <1>1, <1>8, <2>1 DEF Works
  <2>3. stage[r] \in Underway /\ s \in Underway
    BY <2>2 DEF JobStages, Underway
  <2>4. At(s, p, d, ss)
    BY Zenon, <1>14, <2>2, <2>3 DEF At, JobStages
  <2>5. Mine
    BY Zenon, <1>0, <1>1, <1>2, <1>3, <2>2, <2>3, <2>4 DEF Mine
  <2>6. Theirs
    BY <1>1, <2>1, <2>2 DEF Theirs
  <2> QED BY <1>7, <2>5, <2>6
<1>9. CASE Raises(r)
  <2> DEFINE s == IF Step(r) = "collect_lag" THEN "warn" ELSE "failing"
  <2>1. /\ row' = row /\ steps' = steps /\ pos' = pos /\ done' = done
        /\ stage[r] \in JobStages /\ stage' = [stage EXCEPT ![r] = s]
    BY <1>9 DEF Raises, Goto
  <2>2. stage[r] \in Underway /\ s \in Underway /\ stage'[r] = s
    BY <1>1, <2>1 DEF JobStages, Underway
  <2>3. At(s, p, d, ss)
    <3>1. CASE Step(r) = "collect_lag"
      <4>1. s = "warn" /\ Script[p] = "collect_lag"
        BY <1>6, <2>2, <3>1
      <4> HIDE DEF s
      <4> QED BY Zenon, <1>14, <2>1, <2>2, <4>1 DEF At, JobStages
    <3>2. CASE Step(r) # "collect_lag"
      <4>1. s = "failing"
        BY <3>2
      <4> HIDE DEF s
      <4> QED BY Zenon, <1>14, <2>1, <2>2, <4>1 DEF At, JobStages
    <3> QED BY <3>1, <3>2
  <2>4. Mine
    BY Zenon, <1>0, <1>1, <1>2, <1>3, <2>1, <2>2, <2>3 DEF Mine
  <2>5. Theirs
    BY <1>1, <2>1 DEF Theirs
  <2> QED BY <1>7, <2>4, <2>5
<1>10. CASE Leaves(r)
  <2>1. /\ steps' = steps /\ pos' = pos /\ done' = done
        /\ stage' = [stage EXCEPT ![r] = "gone"]
    BY <1>10 DEF Leaves
  <2>2. At("gone", p, d, ss)
    BY Zenon, <1>14 DEF At, JobStages, Underway
  <2>3. row'[r] = "succeeded" => Complete(d, ss)
    <3>1. stage[r] = "finish" => Complete(d, ss)
      BY <1>14
    <3> QED BY <1>0, <1>1, <1>2, <1>10, <3>1 DEF Leaves
  <2>4. stage'[r] = "gone"
    BY <1>1, <2>1
  <2>5. Mine
    BY Zenon, <1>0, <1>1, <2>1, <2>2, <2>3, <2>4 DEF Mine
  <2>6. Theirs
    BY <1>1, <1>10, <2>1 DEF Theirs, Leaves
  <2> QED BY <1>7, <2>5, <2>6
<1>11. CASE Start(r)
  <2>1. /\ stage[r] = "new" /\ row' = [row EXCEPT ![r] = "running"] /\ Advance(r)
        /\ steps' = steps /\ done' = done
    BY <1>11 DEF Start
  <2>2. p = 0 /\ ss = << >> /\ d \subseteq {Script[i] : i \in 1..p}
    BY <1>14, <2>1
  <2>3. (\A i \in 1..p : Passed(d, i)) /\ Recorded(d, ss, 2 * p)
    BY <2>2 DEF Recorded
  <2>4. /\ At(stage'[r], pos'[r], d, ss) /\ pos' \in [Runs -> 0..Len(Script)]
        /\ \A q \in Runs \ {r} : stage'[q] = stage[q] /\ pos'[q] = pos[q]
    BY <1>0, <1>1, <2>1, <2>2, <2>3, AdvanceAt
  <2>5. row'[r] = "running"
    BY <1>1, <2>1
  <2>6. Mine
    BY <1>0, <1>1, <2>1, <2>4, <2>5 DEF Mine
  <2>7. Theirs
    BY <1>1, <2>1, <2>4 DEF Theirs
  <2> QED BY <1>7, <2>6, <2>7
<1>12. CASE RecordStart(r)
  <2> DEFINE e == [name |-> Step(r), status |-> "start"]
             tt == Append(ss, e)
  <2>1. /\ stage[r] = "begin" /\ stage' = [stage EXCEPT ![r] = "open"]
        /\ row' = row /\ pos' = pos /\ done' = done
        /\ steps' = [steps EXCEPT ![r] = tt]
    BY <1>0, <1>12 DEF RecordStart, AppendStep, Goto
  <2>2. stage[r] \in Underway
    BY <2>1 DEF Underway
  <2>3. e \in StepRows /\ tt \in Seq(StepRows)
    <3>1. e \in StepRows
      BY <1>5, <1>6, <2>2 DEF StepRows
    <3> HIDE DEF e
    <3> QED BY <1>2, <3>1
  <2>4. Recorded(d, tt, 2 * p - 1)
    <3>1. 2 * p - 2 \in Nat /\ 2 * p - 1 = (2 * p - 2) + 1 /\ p \in Nat /\ p >= 1
      BY SMT, <1>4, <1>5, <2>2
    <3>2. e = Entry(d, 2 * p - 1)
      BY <1>6, <2>2, <3>1, EntryIs
    <3>3. Recorded(d, ss, 2 * p - 2)
      BY <1>14, <2>1
    <3> HIDE DEF e
    <3> QED BY Zenon, <1>2, <2>3, <3>1, <3>2, <3>3, RecordMore
  <2>5. At("open", p, d, tt)
    <3> HIDE DEF tt
    <3> QED BY <1>14, <2>1, <2>2, <2>4 DEF At, JobStages, Underway
  <2>6. /\ stage'[r] = "open" /\ pos'[r] = p /\ done'[r] = d /\ steps'[r] = tt
        /\ row'[r] # "succeeded" /\ steps' \in [Runs -> Seq(StepRows)]
    <3> HIDE DEF tt
    <3> QED BY <1>0, <1>1, <1>3, <2>1, <2>2, <2>3
  <2>7. Mine
    <3> HIDE DEF tt
    <3> QED BY <1>0, <1>1, <2>1, <2>5, <2>6 DEF Mine
  <2>8. Theirs
    <3> HIDE DEF tt
    <3> QED BY <1>1, <2>1 DEF Theirs
  <2> QED BY <1>7, <2>7, <2>8
<1>13. CASE RecordOk(r)
  <2> DEFINE e == [name |-> Step(r), status |-> "ok"]
             tt == Append(ss, e)
  <2>1. /\ stage[r] = "ok" /\ Advance(r) /\ row' = row /\ done' = done
        /\ steps' = [steps EXCEPT ![r] = tt]
    BY <1>0, <1>13 DEF RecordOk, AppendStep
  <2>2. stage[r] \in Underway
    BY <2>1 DEF Underway
  <2>3. e \in StepRows /\ tt \in Seq(StepRows)
    <3>1. e \in StepRows
      BY <1>5, <1>6, <2>2 DEF StepRows
    <3> HIDE DEF e
    <3> QED BY <1>2, <3>1
  <2>4. Script[p] \in d
    BY <1>14, <2>1
  <2>5. Recorded(d, tt, 2 * p)
    <3>1. 2 * p - 1 \in Nat /\ 2 * p = (2 * p - 1) + 1 /\ p \in Nat /\ p >= 1
      BY SMT, <1>4, <1>5, <2>2
    <3>2. e = Entry(d, 2 * p)
      BY <1>6, <2>2, <2>4, <3>1, EntryIs
    <3>3. Recorded(d, ss, 2 * p - 1)
      BY <1>14, <2>1
    <3> HIDE DEF e
    <3> QED BY Zenon, <1>2, <2>3, <3>1, <3>2, <3>3, RecordMore
  <2>6. \A i \in 1..p : Passed(d, i)
    <3>1. \A i \in 1..(p - 1) : Passed(d, i)
      BY <1>14, <2>2
    <3>2. \A i \in 1..p : i = p \/ i \in 1..(p - 1)
      BY SMT, <1>4, <1>5, <2>2
    <3> QED BY Zenon, <2>4, <3>1, <3>2 DEF Passed
  <2>7. d \subseteq {Script[i] : i \in 1..p}
    BY <1>14
  <2>8. /\ At(stage'[r], pos'[r], d, tt) /\ pos' \in [Runs -> 0..Len(Script)]
        /\ \A q \in Runs \ {r} : stage'[q] = stage[q] /\ pos'[q] = pos[q]
    <3> HIDE DEF tt
    <3> QED BY Zenon, <1>0, <1>1, <2>1, <2>5, <2>6, <2>7, AdvanceAt
  <2>9. /\ done'[r] = d /\ steps'[r] = tt
        /\ row'[r] # "succeeded" /\ steps' \in [Runs -> Seq(StepRows)]
    <3> HIDE DEF tt
    <3> QED BY <1>0, <1>1, <1>3, <2>1, <2>2, <2>3
  <2>10. Mine
    <3> HIDE DEF tt
    <3> QED BY Zenon, <1>0, <1>1, <2>1, <2>8, <2>9 DEF Mine
  <2>11. Theirs
    <3> HIDE DEF tt
    <3> QED BY <1>1, <2>1, <2>8 DEF Theirs
  <2> QED BY <1>7, <2>10, <2>11
<1>15. CASE RecordWarn(r)
  <2> DEFINE e == [name |-> Step(r), status |-> "warn"]
             tt == IF Live THEN ss ELSE Append(ss, e)
  <2>1. /\ stage[r] = "warn" /\ row' = row /\ done' = done
        /\ steps' = [steps EXCEPT ![r] = tt]
    <3>1. Live => steps' = steps
      BY <1>15 DEF RecordWarn
    <3>2. steps = [steps EXCEPT ![r] = ss]
      BY <1>0, <1>1
    <3> QED BY <1>0, <1>15, <3>1, <3>2 DEF RecordWarn, AppendStep
  <2>2. stage[r] \in Underway
    BY <2>1 DEF Underway
  <2>3. e \in StepRows /\ tt \in Seq(StepRows)
    <3>1. e \in StepRows
      BY <1>5, <1>6, <2>2 DEF StepRows
    <3> HIDE DEF e
    <3> QED BY <1>2, <3>1
  <2>4. Script[p] \notin d /\ Script[p] = "collect_lag"
    BY Zenon, <1>14, <2>1 DEF JobStages
  <2>5. Recorded(d, tt, 2 * p)
    <3>1. 2 * p - 1 \in Nat /\ 2 * p = (2 * p - 1) + 1 /\ p \in Nat /\ p >= 1
      BY SMT, <1>4, <1>5, <2>2
    <3>2. e = Entry(d, 2 * p)
      BY <1>6, <2>2, <2>4, <3>1, EntryIs
    <3>3. Recorded(d, ss, 2 * p - 1)
      BY <1>14, <2>1
    <3>4. CASE Live
      BY <3>4 DEF Recorded
    <3>5. CASE ~Live
      <4>1. tt = Append(ss, e)
        BY <3>5
      <4> HIDE DEF e, tt
      <4> QED BY Zenon, <1>2, <2>3, <3>1, <3>2, <3>3, <4>1, RecordMore
    <3> QED BY <3>4, <3>5
  <2>6. d \subseteq {Script[i] : i \in 1..p}
    BY <1>14
  <2>7. /\ done'[r] = d /\ steps'[r] = tt
        /\ row'[r] # "succeeded" /\ steps' \in [Runs -> Seq(StepRows)]
    <3> HIDE DEF tt
    <3> QED BY <1>0, <1>1, <1>3, <2>1, <2>2, <2>3
  <2>8. CASE env.strictLag
    <3>1. stage' = [stage EXCEPT ![r] = "failing"] /\ pos' = pos
      BY <1>15, <2>8 DEF RecordWarn, Goto
    <3> HIDE DEF tt
    <3>2. At("failing", p, d, tt)
      BY Zenon, <1>14, <2>2 DEF At, JobStages
    <3>3. stage'[r] = "failing" /\ pos'[r] = p
      BY <1>0, <1>1, <3>1
    <3>4. Mine
      BY Zenon, <1>1, <2>1, <2>7, <3>1, <3>2, <3>3 DEF Mine
    <3>5. Theirs
      BY <1>1, <2>1, <3>1 DEF Theirs
    <3> QED BY <1>7, <3>4, <3>5
  <2>9. CASE ~env.strictLag
    <3>1. Advance(r)
      BY <1>15, <2>9 DEF RecordWarn
    <3>2. \A i \in 1..p : Passed(d, i)
      <4>1. \A i \in 1..(p - 1) : Passed(d, i)
        BY <1>14, <2>2
      <4>2. \A i \in 1..p : i = p \/ i \in 1..(p - 1)
        BY SMT, <1>4, <1>5, <2>2
      <4> QED BY Zenon, <2>4, <2>9, <4>1, <4>2 DEF Passed
    <3> HIDE DEF tt
    <3>3. /\ At(stage'[r], pos'[r], d, tt) /\ pos' \in [Runs -> 0..Len(Script)]
          /\ \A q \in Runs \ {r} : stage'[q] = stage[q] /\ pos'[q] = pos[q]
      BY Zenon, <1>0, <1>1, <2>5, <2>6, <3>1, <3>2, AdvanceAt
    <3>4. Mine
      BY Zenon, <1>0, <1>1, <2>1, <2>7, <3>3 DEF Mine
    <3>5. Theirs
      BY <1>1, <2>1, <3>3 DEF Theirs
    <3> QED BY <1>7, <3>4, <3>5
  <2> QED BY <2>8, <2>9
<1>16. CASE Ends(r)
  <2> DEFINE c == d \cup {Script[p]}
  <2>1. /\ stage[r] \in JobStages /\ row' = row /\ steps' = steps
        /\ stage[r] \in Underway
    BY <1>16 DEF Ends, JobStages, Underway
  <2>2. done' = [done EXCEPT ![r] = c]
    BY <1>0, <1>6, <1>16, <2>1 DEF Ends, JobDone
  <2>3. done' \in [Runs -> SUBSET Names] /\ done'[r] = c
    <3>1. c \in SUBSET Names
      BY <1>2, <1>5, <2>1
    <3> HIDE DEF c
    <3> QED BY <1>1, <2>2, <3>1
  <2>4. p \in 1..Len(Script) /\ c \subseteq {Script[i] : i \in 1..p}
    <3>1. p \in 1..p
      BY SMT, <1>5, <2>1
    <3> QED BY <1>5, <1>14, <2>1, <3>1
  <2>5. Recorded(c, ss, 2 * p - 1)
    BY Zenon, <1>1, <1>14, <2>1, <2>4, RecordedDone
  <2>6. \A i \in 1..p : Passed(c, i)
    <3>1. \A i \in 1..(p - 1) : Passed(d, i)
      BY <1>14, <2>1
    <3>2. \A i \in 1..p : i = p \/ i \in 1..(p - 1)
      BY SMT, <1>4, <1>5, <2>1
    <3> QED BY Zenon, <3>1, <3>2 DEF Passed
  <2>7. Script[p] \in c
    OBVIOUS
  <2> HIDE DEF c
  <2>8. CASE Live
    <3>1. Advance(r) /\ Recorded(c, ss, 2 * p)
      BY <1>16, <2>8 DEF Ends, JobDone, Recorded
    <3>2. /\ At(stage'[r], pos'[r], c, ss) /\ pos' \in [Runs -> 0..Len(Script)]
          /\ \A q \in Runs \ {r} : stage'[q] = stage[q] /\ pos'[q] = pos[q]
      BY Zenon, <1>0, <1>1, <2>4, <2>6, <3>1, AdvanceAt
    <3>3. Mine
      BY Zenon, <1>0, <1>1, <1>3, <2>1, <2>3, <3>2 DEF Mine
    <3>4. Theirs
      BY <1>1, <2>1, <2>2, <3>2 DEF Theirs
    <3> QED BY <1>7, <3>3, <3>4
  <2>9. CASE ~Live
    <3>1. stage' = [stage EXCEPT ![r] = "ok"] /\ pos' = pos
      BY <1>16, <2>9 DEF Ends, JobDone, Goto
    <3>2. At("ok", p, c, ss)
      <4>1. p >= 1 /\ \A i \in 1..(p - 1) : i \in 1..p
        BY SMT, <1>5, <2>1
      <4> QED BY Zenon, <2>4, <2>5, <2>6, <2>7, <4>1 DEF At, JobStages
    <3>3. stage'[r] = "ok" /\ pos'[r] = p
      BY <1>0, <1>1, <3>1
    <3>4. Mine
      BY Zenon, <1>0, <1>1, <1>3, <2>1, <2>3, <3>1, <3>2, <3>3 DEF Mine
    <3>5. Theirs
      BY <1>1, <2>1, <2>2, <3>1 DEF Theirs
    <3> QED BY <1>7, <3>4, <3>5
  <2> QED BY <2>8, <2>9
<1> QED BY <1>8, <1>9, <1>10, <1>11, <1>12, <1>13, <1>15, <1>16 DEF Kind

LEMMA ScriptStep == ASSUME LedgerInv, ScriptInv, [Next]_vars PROVE ScriptInv'
<1>1. CASE UNCHANGED << env, row, steps, stage, pos, done >>
  BY <1>1 DEF ScriptInv, At, Complete, Recorded, Passed, Entry, Script, Live
<1> QED BY <1>1, StepKind, KindKeeps

LEMMA ScriptAlways == Spec => []ScriptInv
  BY ScriptInit, ScriptStep, LedgerAlways, PTL DEF Spec

\* No cycle says "succeeded" that left a job out, did one out of order or has
\* other steps in its row than those it did.
THEOREM SucceededIsDone == Spec => []SucceededMeansDone
<1>1. LedgerInv /\ ScriptInv => SucceededMeansDone
  <2> SUFFICES ASSUME ScriptInv, NEW r \in Runs, row[r] = "succeeded"
      PROVE  /\ \A i \in DOMAIN Script :
                  Script[i] \in done[r] \/ (Script[i] = "collect_lag" /\ ~env.strictLag)
             /\ ~Live => steps[r] = [k \in 1..2 * Len(Script) |->
                  LET s == Script[(k + 1) \div 2] IN
                  [name |-> s, status |-> CASE k % 2 = 1 -> "start"
                                            [] k % 2 = 0 /\ s \in done[r] -> "ok"
                                            [] OTHER -> "warn"]]
    BY Zenon DEF SucceededMeansDone
  <2> DEFINE d == done[r]
             ss == steps[r]
             n == 2 * Len(Script)
  <2>1. Complete(d, ss) /\ ss \in Seq(StepRows) /\ env \in Environments
    BY DEF ScriptInv
  <2>2. Script \in Seq(Names) /\ DOMAIN Script = 1..Len(Script)
    BY <2>1, ScriptFacts, LenProperties
  <2>3. \A i \in DOMAIN Script : Passed(d, i)
    BY Zenon, <2>1, <2>2 DEF Complete
  <2>4. ASSUME ~Live PROVE ss = [k \in 1..n |-> Entry(d, k)]
    <3>1. Len(ss) = n /\ \A k \in 1..n : ss[k] = Entry(d, k)
      BY Zenon, <2>1, <2>4 DEF Complete, Recorded
    <3>2. ss \in [1..Len(ss) -> StepRows]
      BY <2>1, LenProperties
    <3> HIDE DEF d, ss, n
    <3> QED BY <3>1, <3>2
  <2> QED BY Zenon, <2>3, <2>4 DEF Passed, Entry
<1> QED BY <1>1, LedgerAlways, ScriptAlways, PTL

-----------------------------------------------------------------------------
(* What the jobs of overlapping cycles hand to each other.                 *)

PlumeWindow(r) == windows[r]["compute_plume"]

In(r, job, st) == stage[r] = st /\ Step(r) = job

\* Some cycle committed plumes of the window w.
Computes(w) == \E q \in Runs : "compute_plume" \in done[q] /\ PlumeWindow(q) = w

\* A job has a window once it is open, and opens once.
Opened(r) ==
  /\ \A s \in TransportSteps :
       windows[r][s] # NoWindow => s \in {Script[i] : i \in 1..pos[r]}
  /\ stage[r] \in {"begin", "open"} /\ Script[pos[r]] \in TransportSteps =>
       windows[r][Script[pos[r]]] = NoWindow

Matching(r) == In(r, "match_fire_weather", "work") => local[r].todo = Fires

\* While no other cycle starts, the matches that r wrote stay.
Matched(r) ==
  (\A q \in Runs \ {r} : stage[q] = "new") /\ "match_fire_weather" \in done[r]
  => Fires \cap OnGrid \subseteq matches

\* Both winds carry smoke of f to g.
Carries(f, g) == /\ f \in OnGrid \cap OnStation
                 /\ << "grid", f, g >> \in Corridor /\ << "station", f, g >> \in Corridor

\* The plume job has a row of each fire it is done with, in its own window.
Computing(r) ==
  In(r, "compute_plume", "work") =>
    /\ local[r].window = PlumeWindow(r)
    /\ \A x \in local[r].rows : x.key[1] = PlumeWindow(r)
    /\ WindStays(r) =>
         \A f, g : Carries(f, g) =>
           \/ f \in local[r].todo
           \/ \E x \in local[r].rows : x.key = << PlumeWindow(r), PlumeModel, f, g >>

\* Its rows stay, unless another cycle's job opens in the same second.
Computed(r) ==
  "compute_plume" \in done[r] /\ AloneInItsSeconds(r) /\ WindStays(r) =>
    \A g : SmokeReaches(g) => Exposed(PlumeWindow(r), PlumeModel, g)

Written(r) ==
  In(r, "compute_risk", "write") =>
    \A x \in local[r].rows :
      /\ x.plume => Computes(x.key[1])
      /\ (/\ PlumeWindow(r) = x.key[1]
          /\ AloneInItsSeconds(r) /\ WindStays(r) /\ SmokeReaches(x.key[3])
          /\ RiskModel \in {"v4", "v5"} \/ (RiskModel = "v3" /\ PlumeModel = "wind_v1"))
         => x.plume

Windows == {NoWindow} \cup (Nat \X {RiskHours, DispersionHours})

JobFields == {"window", "todo", "rows"}

CarryInv ==
  /\ now \in Nat
  /\ windows \in [Runs -> [TransportSteps -> Windows]]
  /\ local = [r \in Runs |-> local[r]]
  /\ \A r \in Runs : DOMAIN local[r] = JobFields
  /\ \A r \in Runs : "normalize" \in done[r] => fires = Fires
  /\ \A x \in plumes : Computes(x.key[1])
  /\ \A r \in Runs : /\ Opened(r) /\ Matching(r) /\ Matched(r)
                     /\ Computing(r) /\ Computed(r) /\ Written(r)
                     /\ stage[r] \in {"write", "flush"} => Step(r) = "compute_risk"

-----------------------------------------------------------------------------
(* The kinds of steps for the tables.                                      *)

NewJob(r) == \E l : DOMAIN l = JobFields /\ local' = [local EXCEPT ![r] = l]

Stops == {"ok", "warn", "failing", "finish", "gone"}

\* On to the next command, or to the end.
Onward(r) ==
  \/ /\ \E s \in {"begin", "open"} : stage' = [stage EXCEPT ![r] = s]
     /\ pos' = [pos EXCEPT ![r] = @ + 1]
  \/ stage' = [stage EXCEPT ![r] = "finish"] /\ pos' = pos

\* The script or a job goes on, and touches neither plumes nor matches.
Passes(r) ==
  /\ UNCHANGED << windows, plumes, matches >>
  /\ NewJob(r)
  /\ fires' \in {fires, Fires}
  /\ \/ done' = done
     \/ /\ done' = [done EXCEPT ![r] = @ \cup {Step(r)}]
        /\ Step(r) \notin {"compute_plume", "match_fire_weather"}
        /\ Step(r) = "normalize" => fires' = Fires
  /\ \/ /\ stage' = [stage EXCEPT ![r] = "work"] /\ pos' = pos
        /\ Step(r) \in {"compare_dispersion_aq", "compute_dispersion"}
     \/ Onward(r)
     \/ \E s \in Stops : stage' = [stage EXCEPT ![r] = s] /\ pos' = pos
     \/ stage[r] = "begin" /\ stage' = [stage EXCEPT ![r] = "open"] /\ pos' = pos
     \/ stage[r] = "write" /\ stage' = [stage EXCEPT ![r] = "flush"] /\ pos' = pos

\* Nothing of it changes.
Rests == UNCHANGED << windows, plumes, matches, local, fires, done, stage, pos >>

TableStep(r) ==
  \/ Passes(r) \/ OpenMatch(r) \/ OpenPlume(r) \/ OpenDispersion(r) \/ OpenRisk(r)
  \/ CommitMatch(r) \/ CommitPlume(r) \/ WriteRisk(r)
  \/ \E f \in local[r].todo : ResolvePlume(r, f)

LEMMA AdvanceOnward == ASSUME NEW r \in Runs, Advance(r) PROVE Onward(r)
  BY DEF Advance, Onward

LEMMA SameJob ==
  ASSUME CarryInv, NEW r \in Runs, local' = local
  PROVE  NewJob(r)
<1>1. local = [local EXCEPT ![r] = local[r]] /\ DOMAIN local[r] = JobFields
  <2>1. local = [q \in Runs |-> local[q]] /\ DOMAIN local[r] = JobFields
    BY DEF CarryInv
  <2> QED BY <2>1
<1> QED BY <1>1 DEF NewJob

LEMMA NoJobIsNew ==
  ASSUME NEW r \in Runs, local' = [local EXCEPT ![r] = NoJob]
  PROVE  NewJob(r)
<1>1. DOMAIN NoJob = JobFields
  BY DEF NoJob, JobFields
<1> QED BY <1>1 DEF NewJob

LEMMA JobDoneOnward ==
  ASSUME NEW r \in Runs, JobDone(r)
  PROVE  /\ NewJob(r) /\ done' = [done EXCEPT ![r] = @ \cup {Step(r)}]
         /\ \/ Onward(r)
            \/ stage' = [stage EXCEPT ![r] = "ok"] /\ pos' = pos
<1>1. CASE Live
  BY <1>1, AdvanceOnward, NoJobIsNew DEF JobDone
<1>2. CASE ~Live
  BY <1>2, NoJobIsNew DEF JobDone, Goto
<1> QED BY <1>1, <1>2

LEMMA JobPasses ==
  ASSUME CarryInv, NEW r \in Runs,
         \/ RunScript(r) \/ CommitDispersion(r) \/ CommitCompare(r) \/ FlushRisk(r)
         \/ OpenCompare(r) \/ CommitRisk(r)
         \/ \E f \in local[r].todo : ResolveDispersion(r, f)
  PROVE  Passes(r)
<1>1. CASE RunScript(r)
  <2>1. /\ JobDone(r) /\ UNCHANGED << windows, plumes, matches >>
        /\ fires' \in {fires, Fires}
        /\ Step(r) = "normalize" => fires' = Fires
    BY <1>1 DEF RunScript, tables
  <2>2. Step(r) \notin {"compute_plume", "match_fire_weather"}
    BY <1>1 DEF RunScript, TransportSteps
  <2> QED BY <2>1, <2>2, JobDoneOnward DEF Passes, Stops
<1>2. CASE CommitDispersion(r) \/ CommitCompare(r) \/ FlushRisk(r)
  <2>1. JobDone(r) /\ UNCHANGED << windows, plumes, matches, fires >>
    BY <1>2 DEF CommitDispersion, CommitCompare, FlushRisk, tables
  <2>2. Step(r) \in {"compute_dispersion", "compare_dispersion_aq", "compute_risk"}
    <3>1. stage[r] = "flush" => Step(r) = "compute_risk"
      BY DEF CarryInv
    <3> QED BY <1>2, <3>1 DEF CommitDispersion, CommitCompare, FlushRisk
  <2>3. fires' \in {fires, Fires} /\ Step(r) # "normalize"
    BY <2>1, <2>2
  <2>4. Step(r) \notin {"compute_plume", "match_fire_weather"}
    BY <2>2
  <2> QED BY <2>1, <2>3, <2>4, JobDoneOnward DEF Passes, Stops
<1>3. CASE OpenCompare(r) /\ JobDone(r)
  <2>1. /\ UNCHANGED << windows, plumes, matches, fires >>
        /\ Step(r) = "compare_dispersion_aq"
    BY <1>3 DEF OpenCompare
  <2>2. fires' \in {fires, Fires} /\ Step(r) # "normalize"
        /\ Step(r) \notin {"compute_plume", "match_fire_weather"}
    BY <2>1
  <2> QED BY <1>3, <2>1, <2>2, JobDoneOnward DEF Passes, Stops
<1>4. CASE OpenCompare(r) /\ ~JobDone(r)
  <2>1. /\ UNCHANGED << windows, plumes, matches, fires, done, pos >>
        /\ stage' = [stage EXCEPT ![r] = "work"] /\ Step(r) = "compare_dispersion_aq"
        /\ \E w : local' = [local EXCEPT ![r].window = w]
    BY <1>4 DEF OpenCompare, Goto
  <2>2. NewJob(r)
    <3>1. DOMAIN local[r] = JobFields
      BY DEF CarryInv
    <3> QED BY <2>1, <3>1 DEF NewJob
  <2> QED BY <2>1, <2>2 DEF Passes
<1>5. CASE CommitRisk(r)
  <2>1. /\ UNCHANGED << windows, plumes, matches, fires, done, pos, local >>
        /\ stage[r] = "write" /\ stage' = [stage EXCEPT ![r] = "flush"]
    BY <1>5 DEF CommitRisk, Goto
  <2> QED BY <2>1, SameJob DEF Passes
<1>6. ASSUME NEW f \in local[r].todo, ResolveDispersion(r, f) PROVE Passes(r)
  <2>1. /\ UNCHANGED << windows, plumes, matches, fires, done, pos >>
        /\ stage' = [stage EXCEPT ![r] = "work"] /\ Step(r) = "compute_dispersion"
    BY <1>6 DEF ResolveDispersion, Goto, tables
  <2>2. \E a, b : local' = [local EXCEPT ![r].todo = a, ![r].rows = b]
    BY <1>6 DEF ResolveDispersion
  <2>3. NewJob(r)
    <3>1. DOMAIN local[r] = JobFields
      BY DEF CarryInv
    <3> QED BY <2>2, <3>1 DEF NewJob
  <2> QED BY <2>1, <2>3 DEF Passes
<1> QED BY <1>1, <1>2, <1>3, <1>4, <1>5, <1>6

LEMMA ScriptPasses ==
  ASSUME CarryInv, NEW r \in Runs,
         \/ Start(r) \/ RecordStart(r) \/ RecordOk(r) \/ RecordWarn(r)
         \/ FinishFailed(r) \/ Finish(r) \/ RecordFails(r) \/ JobFails(r) \/ Kill(r)
  PROVE  Passes(r)
<1>1. UNCHANGED << windows, plumes, matches, fires, done >>
  BY DEF Start, RecordStart, RecordOk, RecordWarn, FinishFailed, Finish, RecordFails,
         JobFails, Kill, tables
<1>2. NewJob(r)
  <2>1. local' = local \/ local' = [local EXCEPT ![r] = NoJob]
    BY DEF Start, RecordStart, RecordOk, RecordWarn, FinishFailed, Finish, RecordFails,
           JobFails, Kill
  <2> QED BY <2>1, SameJob, NoJobIsNew
<1>3. CASE Start(r) \/ RecordOk(r)
  <2>1. Onward(r)
    BY <1>3, AdvanceOnward DEF Start, RecordOk
  <2> QED BY <1>1, <1>2, <2>1 DEF Passes
<1>4. CASE RecordWarn(r)
  <2>1. Advance(r) \/ (stage' = [stage EXCEPT ![r] = "failing"] /\ pos' = pos)
    BY <1>4 DEF RecordWarn, Goto
  <2>2. CASE Advance(r)
    BY <1>1, <1>2, <2>2, AdvanceOnward DEF Passes
  <2>3. CASE stage' = [stage EXCEPT ![r] = "failing"] /\ pos' = pos
    BY <1>1, <1>2, <2>3 DEF Passes, Stops
  <2> QED BY <2>1, <2>2, <2>3
<1>5. CASE RecordStart(r)
  BY <1>1, <1>2, <1>5 DEF Passes, RecordStart, Goto
<1>6. CASE FinishFailed(r) \/ Finish(r) \/ RecordFails(r) \/ JobFails(r) \/ Kill(r)
  <2>1. /\ pos' = pos
        /\ \E s \in {"gone", "warn", "failing"} : stage' = [stage EXCEPT ![r] = s]
    BY <1>6 DEF FinishFailed, Finish, RecordFails, JobFails, Kill, Goto
  <2> QED BY <1>1, <1>2, <2>1 DEF Passes, Stops
<1> QED BY <1>3, <1>4, <1>5, <1>6

LEMMA TableKind ==
  ASSUME CarryInv, [Next]_vars
  PROVE  now' \in {now, now + 1} /\ (Rests \/ \E r \in Runs : TableStep(r))
<1>1. now' \in {now, now + 1}
  <2>1. ASSUME NEW r \in Runs, Progress(r) \/ RecordFails(r) \/ JobFails(r) \/ Kill(r)
        PROVE  now' = now
    BY <2>1 DEF Progress, Start, RecordStart, RecordOk, RecordWarn, RunScript,
         OpenMatch, CommitMatch, OpenPlume, CommitPlume, OpenDispersion, CommitDispersion,
         OpenCompare, CommitCompare, OpenRisk, WriteRisk, CommitRisk, FlushRisk,
         FinishFailed, Finish, ResolvePlume, ResolveDispersion, Deliver, OpenJob,
         RecordFails, JobFails, Kill
  <2> QED BY <2>1 DEF Next, Tick, vars
<1>2. CASE UNCHANGED vars \/ Tick
  BY <1>2 DEF vars, Tick, Rests, tables
<1>3. ASSUME NEW r \in Runs, RecordFails(r) \/ JobFails(r) \/ Kill(r)
      PROVE  TableStep(r)
  BY <1>3, ScriptPasses DEF TableStep
<1>4. ASSUME NEW r \in Runs, Progress(r) PROVE Rests \/ TableStep(r)
  <2>1. ASSUME NEW m \in queue[r], Deliver(r, m) PROVE Rests
    BY <2>1 DEF Deliver, Rests, tables
  <2>2. CASE \/ Start(r) \/ RecordStart(r) \/ RecordOk(r) \/ RecordWarn(r)
             \/ FinishFailed(r) \/ Finish(r)
    BY <2>2, ScriptPasses DEF TableStep
  <2>3. CASE \/ RunScript(r) \/ CommitDispersion(r) \/ CommitCompare(r) \/ FlushRisk(r)
             \/ OpenCompare(r) \/ CommitRisk(r)
             \/ \E f \in local[r].todo : ResolveDispersion(r, f)
    BY <2>3, JobPasses DEF TableStep
  <2>4. CASE \/ OpenMatch(r) \/ OpenPlume(r) \/ OpenDispersion(r) \/ OpenRisk(r)
             \/ CommitMatch(r) \/ CommitPlume(r) \/ WriteRisk(r)
             \/ \E f \in local[r].todo : ResolvePlume(r, f)
    BY <2>4 DEF TableStep
  <2> QED BY <1>4, <2>1, <2>2, <2>3, <2>4 DEF Progress
<1> QED BY <1>1, <1>2, <1>3, <1>4 DEF Next

-----------------------------------------------------------------------------
(* The order in the script.                                                *)

LEMMA InScript ==
  ASSUME ScriptInv, NEW r \in Runs, stage[r] \in Underway
  PROVE  /\ pos[r] \in 1..Len(Script) /\ Step(r) = Script[pos[r]]
         /\ pos[r] \in Nat /\ Len(Script) \in Nat
         /\ stage[r] \in JobStages => Step(r) \notin done[r]
<1>1. Len(Script) \in Nat
  BY ScriptFacts DEF ScriptInv
<1>2. pos[r] \in 0..Len(Script) /\ At(stage[r], pos[r], done[r], steps[r])
  BY DEF ScriptInv
<1>3. pos[r] >= 1
  BY Zenon, <1>2 DEF At
<1>4. pos[r] \in 1..Len(Script) /\ pos[r] # 0 /\ pos[r] \in Nat
  BY SMT, <1>1, <1>2, <1>3
<1>5. Step(r) = Script[pos[r]]
  BY <1>4 DEF Step
<1>6. stage[r] \in JobStages => Script[pos[r]] \notin done[r]
  BY Zenon, <1>2 DEF At
<1> QED BY <1>1, <1>4, <1>5, <1>6

\* A job of smaller rank that the script has is done.
LEMMA Preceding ==
  ASSUME ScriptInv, NEW r \in Runs, stage[r] \in Underway, NEW a,
         Has(Script, a), Rank(a) < Rank(Step(r)), a # "collect_lag"
  PROVE  a \in done[r]
<1>1. /\ pos[r] \in 1..Len(Script) /\ Step(r) = Script[pos[r]]
      /\ pos[r] \in Nat /\ Len(Script) \in Nat
  BY InScript
<1>2. PICK i \in 1..Len(Script) : Script[i] = a
  BY DEF Has
<1>3. i < pos[r]
  <2>1. Ordered(Script, 1, 14)
    BY ScriptOrdered DEF ScriptInv, Script
  <2>2. pos[r] < i => Rank(Step(r)) < Rank(a)
    BY Zenon, <1>1, <1>2, <2>1 DEF Ordered
  <2>3. i # pos[r]
    <3>1. i = pos[r] => Rank(a) = Rank(Step(r))
      BY Zenon, <1>1, <1>2
    <3>2. Rank(a) \in Nat
      BY Zenon, RankIsNat
    <3> QED BY SMT, <3>1, <3>2
  <2>4. Rank(a) \in Nat /\ Rank(Step(r)) \in Nat
    BY Zenon, RankIsNat
  <2> QED BY SMT, <1>1, <1>2, <2>2, <2>3, <2>4
<1>4. \A j \in 1..(pos[r] - 1) : Passed(done[r], j)
  <2>1. At(stage[r], pos[r], done[r], steps[r])
    BY DEF ScriptInv
  <2> QED BY Zenon, <2>1 DEF At
<1>5. i \in 1..(pos[r] - 1)
  BY SMT, <1>1, <1>2, <1>3
<1> QED BY Zenon, <1>2, <1>4, <1>5 DEF Passed

\* Jobs that are behind the ones that read what they wrote.
LEMMA Behind ==
  ASSUME ScriptInv, NEW r \in Runs, stage[r] \in Underway
  PROVE  /\ Step(r) \in {"match_fire_weather", "compute_plume", "compute_risk"} =>
              "normalize" \in done[r]
         /\ Step(r) = "compute_plume" /\ PlumeModel = "wind_grid_v2" =>
              "match_fire_weather" \in done[r]
         /\ Step(r) = "compute_risk" => "compute_plume" \in done[r]
<1>1. env \in Environments /\ Script = Scripts[env]
  BY DEF ScriptInv, Script
<1>2. Has(Script, "normalize") /\ Has(Script, "compute_plume")
  BY <1>1, ScriptHas
<1>3. PlumeModel = "wind_grid_v2" => Has(Script, "match_fire_weather")
  BY <1>1, ScriptHas DEF PlumeModel, Live
<1>4. /\ Rank("normalize") = 2 /\ Rank("match_fire_weather") = 5
      /\ Rank("compute_plume") = 6 /\ Rank("compute_risk") = 9
  BY SMT DEF Rank
<1>5. /\ Rank("normalize") < Rank("match_fire_weather")
      /\ Rank("normalize") < Rank("compute_plume")
      /\ Rank("normalize") < Rank("compute_risk")
      /\ Rank("match_fire_weather") < Rank("compute_plume")
      /\ Rank("compute_plume") < Rank("compute_risk")
  BY SMT, <1>4
<1>6. Step(r) \in {"match_fire_weather", "compute_plume", "compute_risk"} =>
        "normalize" \in done[r]
  BY Zenon, <1>2, <1>5, Preceding
<1>7. Step(r) = "compute_plume" /\ PlumeModel = "wind_grid_v2" =>
        "match_fire_weather" \in done[r]
  BY Zenon, <1>3, <1>5, Preceding
<1>8. Step(r) = "compute_risk" => "compute_plume" \in done[r]
  BY Zenon, <1>2, <1>5, Preceding
<1> QED BY <1>6, <1>7, <1>8

-----------------------------------------------------------------------------
(* What a step owes to the cycles that do not take it.                     *)

\* Windows are opened, never moved.
LEMMA AloneBefore ==
  ASSUME \A p \in Runs : \A s \in TransportSteps :
            windows[p][s] = NoWindow \/ windows'[p][s] = windows[p][s],
         NEW q \in Runs, AloneInItsSeconds(q)'
  PROVE  AloneInItsSeconds(q)
  BY DEF AloneInItsSeconds

LEMMA WindStaysBefore ==
  ASSUME env' = env, \A p \in Runs : stage'[p] = "new" => stage[p] = "new",
         NEW q \in Runs, WindStays(q)'
  PROVE  WindStays(q)
  BY DEF WindStays, PlumeModel, Live

LEMMA ComputingKept ==
  ASSUME env' = env, NEW q, Computing(q), stage'[q] = stage[q], Step(q)' = Step(q),
         local'[q] = local[q], PlumeWindow(q)' = PlumeWindow(q),
         WindStays(q)' => WindStays(q)
  PROVE  Computing(q)'
<1>1. PlumeModel' = PlumeModel
  BY DEF PlumeModel, Live
<1> SUFFICES ASSUME In(q, "compute_plume", "work")'
             PROVE  /\ local'[q].window = PlumeWindow(q)'
                    /\ \A x \in local'[q].rows : x.key[1] = PlumeWindow(q)'
                    /\ WindStays(q)' => \A f, g : Carries(f, g) =>
                         \/ f \in local'[q].todo
                         \/ \E x \in local'[q].rows :
                              x.key = << PlumeWindow(q)', PlumeModel', f, g >>
  BY Zenon DEF Computing, Carries
<1>2. In(q, "compute_plume", "work")
  BY DEF In
<1>3. /\ local[q].window = PlumeWindow(q)
      /\ \A x \in local[q].rows : x.key[1] = PlumeWindow(q)
      /\ WindStays(q) => \A f, g : Carries(f, g) =>
           \/ f \in local[q].todo
           \/ \E x \in local[q].rows :
                x.key = << PlumeWindow(q), PlumeModel, f, g >>
  BY Zenon, <1>2 DEF Computing
<1> QED BY <1>1, <1>3

LEMMA TableFrame ==
  ASSUME LedgerInv, ScriptInv, CarryInv, env' = env, NEW r \in Runs,
         \A q \in Runs \ {r} : /\ stage'[q] = stage[q] /\ pos'[q] = pos[q]
                               /\ done'[q] = done[q] /\ local'[q] = local[q]
                               /\ windows'[q] = windows[q],
         stage'[r] # "new", now' \in Nat,
         windows' \in [Runs -> [TransportSteps -> Windows]],
         local' = [q \in Runs |-> local'[q]], DOMAIN local'[r] = JobFields,
         \A s \in TransportSteps :
            windows[r][s] = NoWindow \/ windows'[r][s] = windows[r][s],
         done[r] \subseteq done'[r],
         "compute_plume" \in done[r] => PlumeWindow(r)' = PlumeWindow(r),
         fires' \in {fires, Fires},
         "normalize" \in done'[r] => "normalize" \in done[r] \/ fires' = Fires,
         \A x \in plumes' : x \in plumes \/ Computes(x.key[1])',
         \A q \in Runs \ {r} : "compute_plume" \in done[q] /\ AloneInItsSeconds(q)' =>
            \A g : Exposed(PlumeWindow(q), PlumeModel, g) =>
                   Exposed(PlumeWindow(q), PlumeModel, g)',
         stage'[r] \in {"write", "flush"} => Step(r)' = "compute_risk",
         Opened(r)', Matching(r)', Matched(r)', Computing(r)', Computed(r)', Written(r)'
  PROVE  CarryInv'
<1>1. /\ Script' = Script /\ PlumeModel' = PlumeModel /\ RiskModel' = RiskModel
  BY DEF Script, PlumeModel, RiskModel, Live
<1>2. ASSUME NEW q \in Runs, AloneInItsSeconds(q)' PROVE AloneInItsSeconds(q)
  <2>1. \A p \in Runs : \A s \in TransportSteps :
           windows[p][s] = NoWindow \/ windows'[p][s] = windows[p][s]
    OBVIOUS
  <2> QED BY Zenon, <1>2, <2>1, AloneBefore
<1>3. ASSUME NEW q \in Runs, WindStays(q)' PROVE WindStays(q)
  <2>1. \A p \in Runs : stage'[p] = "new" => stage[p] = "new"
    OBVIOUS
  <2> QED BY Zenon, <1>3, <2>1, WindStaysBefore
<1>4. ASSUME NEW w, Computes(w) PROVE Computes(w)'
  <2>1. PICK q \in Runs : "compute_plume" \in done[q] /\ PlumeWindow(q) = w
    BY <1>4 DEF Computes
  <2>2. "compute_plume" \in done'[q] /\ PlumeWindow(q)' = w
    BY <2>1 DEF PlumeWindow
  <2> QED BY <2>2 DEF Computes
<1>5. ASSUME NEW q \in Runs \ {r}
      PROVE  /\ Opened(q)' /\ Matching(q)' /\ Matched(q)' /\ Computing(q)'
             /\ Computed(q)' /\ Written(q)'
             /\ stage'[q] \in {"write", "flush"} => Step(q)' = "compute_risk"
  <2>1. /\ stage'[q] = stage[q] /\ pos'[q] = pos[q] /\ done'[q] = done[q]
        /\ local'[q] = local[q] /\ windows'[q] = windows[q]
        /\ PlumeWindow(q)' = PlumeWindow(q) /\ Step(q)' = Step(q)
    BY <1>1 DEF PlumeWindow, Step
  <2>2. /\ Opened(q) /\ Matching(q) /\ Matched(q) /\ Computing(q)
        /\ Computed(q) /\ Written(q)
        /\ stage[q] \in {"write", "flush"} => Step(q) = "compute_risk"
    BY DEF CarryInv
  <2>3. Opened(q)'
    BY <1>1, <2>1, <2>2 DEF Opened
  <2>4. Matching(q)'
    BY <2>1, <2>2 DEF Matching, In
  <2>5. Matched(q)'
    BY DEF Matched
  <2>6. Computing(q)'
    BY Zenon, <1>3, <2>1, <2>2, ComputingKept
  <2>7. Computed(q)'
    <3> SUFFICES ASSUME "compute_plume" \in done'[q], AloneInItsSeconds(q)',
                        WindStays(q)', NEW g, SmokeReaches(g)
                 PROVE  Exposed(PlumeWindow(q), PlumeModel, g)'
      BY Zenon DEF Computed, SmokeReaches
    <3>1. Exposed(PlumeWindow(q), PlumeModel, g)
      BY Zenon, <1>2, <1>3, <2>1, <2>2 DEF Computed
    <3> QED BY Zenon, <2>1, <3>1
  <2>8. Written(q)'
    <3> SUFFICES ASSUME In(q, "compute_risk", "write")', NEW x \in local'[q].rows
                 PROVE  /\ x.plume => Computes(x.key[1])'
                        /\ (/\ PlumeWindow(q)' = x.key[1]
                            /\ AloneInItsSeconds(q)' /\ WindStays(q)' /\ SmokeReaches(x.key[3])
                            /\ \/ RiskModel \in {"v4", "v5"}
                               \/ RiskModel = "v3" /\ PlumeModel = "wind_v1")
                           => x.plume
      BY <1>1 DEF Written, SmokeReaches
    <3>1. In(q, "compute_risk", "write") /\ x \in local[q].rows
      BY <2>1 DEF In
    <3> QED BY <1>2, <1>3, <1>4, <2>1, <2>2, <3>1 DEF Written
  <2> QED BY <2>1, <2>2, <2>3, <2>4, <2>5, <2>6, <2>7, <2>8
<1>6. \A q \in Runs : DOMAIN local'[q] = JobFields
  BY DEF CarryInv
<1>7. \A q \in Runs : "normalize" \in done'[q] => fires' = Fires
  BY DEF CarryInv
<1>8. \A x \in plumes' : Computes(x.key[1])'
  BY <1>4 DEF CarryInv
<1> QED BY <1>5, <1>6, <1>7, <1>8 DEF CarryInv

LEMMA CarryInit == ASSUME Init PROVE CarryInv
<1>1. /\ now = 0 /\ plumes = {} /\ local = [r \in Runs |-> NoJob]
      /\ stage = [r \in Runs |-> "new"] /\ done = [r \in Runs |-> {}]
      /\ windows = [r \in Runs |-> [s \in TransportSteps |-> NoWindow]]
  BY DEF Init
<1>2. DOMAIN NoJob = JobFields
  BY DEF NoJob, JobFields
<1>3. "compute_plume" \in TransportSteps
  BY DEF TransportSteps
<1> QED BY <1>1, <1>2, <1>3 DEF CarryInv, Windows, Opened, Matching, Matched, Computing,
             Computed, Written, In

LEMMA RestsKeep == ASSUME CarryInv, env' = env, Rests, now' \in Nat PROVE CarryInv'
<1>1. /\ windows' = windows /\ plumes' = plumes /\ matches' = matches /\ local' = local
      /\ fires' = fires /\ done' = done /\ stage' = stage /\ pos' = pos
      /\ Script' = Script /\ PlumeModel' = PlumeModel /\ RiskModel' = RiskModel
  BY DEF Rests, Script, PlumeModel, RiskModel, Live
<1>2. /\ \A r : PlumeWindow(r)' = PlumeWindow(r) /\ Step(r)' = Step(r)
      /\ \A w : Computes(w)' <=> Computes(w)
      /\ \A r : WindStays(r)' <=> WindStays(r)
      /\ \A r : AloneInItsSeconds(r)' <=> AloneInItsSeconds(r)
      /\ \A w, m, g : Exposed(w, m, g)' <=> Exposed(w, m, g)
  <2>1. \A r : PlumeWindow(r)' = PlumeWindow(r) /\ Step(r)' = Step(r)
    BY <1>1 DEF PlumeWindow, Step
  <2>2. \A w : Computes(w)' <=> Computes(w)
    BY <1>1, <2>1 DEF Computes
  <2>3. \A r : WindStays(r)' <=> WindStays(r)
    BY <1>1 DEF WindStays
  <2>4. \A r : AloneInItsSeconds(r)' <=> AloneInItsSeconds(r)
    BY <1>1 DEF AloneInItsSeconds
  <2>5. \A w, m, g : Exposed(w, m, g)' <=> Exposed(w, m, g)
    BY <1>1 DEF Exposed
  <2> QED BY <2>1, <2>2, <2>3, <2>4, <2>5
<1>3. ASSUME NEW r \in Runs
      PROVE  /\ Opened(r)' /\ Matching(r)' /\ Matched(r)' /\ Computing(r)'
             /\ Computed(r)' /\ Written(r)'
             /\ stage'[r] \in {"write", "flush"} => Step(r)' = "compute_risk"
  <2>1. /\ Opened(r) /\ Matching(r) /\ Matched(r) /\ Computing(r)
        /\ Computed(r) /\ Written(r)
        /\ stage[r] \in {"write", "flush"} => Step(r) = "compute_risk"
    BY DEF CarryInv
  <2>2. Opened(r)'
    BY <1>1, <2>1 DEF Opened
  <2>3. Matching(r)' /\ Matched(r)'
    BY <1>1, <1>2, <2>1 DEF Matching, Matched, In
  <2>4. Computing(r)'
    BY Zenon, <1>1, <1>2, <2>1 DEF Computing, In, Carries
  <2>5. Computed(r)'
    BY Zenon, <1>1, <1>2, <2>1 DEF Computed, SmokeReaches
  <2>6. Written(r)'
    BY Zenon, <1>1, <1>2, <2>1 DEF Written, In, SmokeReaches
  <2> QED BY <1>1, <1>2, <2>1, <2>2, <2>3, <2>4, <2>5, <2>6
<1> QED BY <1>1, <1>2, <1>3 DEF CarryInv

-----------------------------------------------------------------------------
(* What each kind of step keeps.                                           *)

\* A cycle that goes on to a transport job has not opened it before.
LEMMA OpenedOn ==
  ASSUME ScriptInv, ScriptInv', env' = env, NEW r \in Runs, Opened(r), windows' = windows,
         \/ pos'[r] = pos[r] + 1
         \/ /\ pos'[r] = pos[r]
            /\ stage'[r] \in {"begin", "open"} => stage[r] \in {"begin", "open"}
  PROVE  Opened(r)'
<1>1. Script' = Script
  BY DEF Script
<1>2. /\ Len(Script) \in Nat /\ pos[r] \in Nat /\ pos'[r] \in Nat
      /\ pos[r] <= pos'[r] /\ pos'[r] <= Len(Script)
  <2>1. pos[r] \in 0..Len(Script) /\ pos'[r] \in 0..Len(Script)
    BY <1>1 DEF ScriptInv
  <2>2. Len(Script) \in Nat
    BY ScriptFacts DEF ScriptInv
  <2> QED BY SMT, <2>1, <2>2
<1>3. ASSUME NEW s \in TransportSteps, windows'[r][s] # NoWindow
      PROVE  s \in {Script[i] : i \in 1..pos[r]} /\ s \in {Script'[i] : i \in 1..pos'[r]}
  <2>1. PICK i \in 1..pos[r] : s = Script[i]
    BY <1>3 DEF Opened
  <2>2. i \in 1..pos'[r]
    BY SMT, <1>2
  <2> QED BY <1>1, <2>1, <2>2
<1>4. ASSUME stage'[r] \in {"begin", "open"}, Script'[pos'[r]] \in TransportSteps,
             windows'[r][Script'[pos'[r]]] # NoWindow
      PROVE  FALSE
  <2>1. CASE pos'[r] = pos[r] + 1
    <3>1. PICK i \in 1..pos[r] : Script[pos'[r]] = Script[i]
      BY <1>1, <1>3, <1>4
    <3>2. /\ i \in 1..Len(Script) /\ pos'[r] \in 1..Len(Script) /\ i # pos'[r]
      BY SMT, <1>2, <2>1
    <3>3. env \in Environments
      BY DEF ScriptInv
    <3> QED BY Zenon, <3>1, <3>2, <3>3, ScriptFacts
  <2>2. CASE pos'[r] = pos[r] /\ stage[r] \in {"begin", "open"}
    BY <1>1, <1>4, <2>2 DEF Opened
  <2> QED BY <1>4, <2>1, <2>2
<1> QED BY <1>3, <1>4 DEF Opened

LEMMA ExposedKept ==
  ASSUME plumes' = plumes, env' = env, NEW q, PlumeWindow(q)' = PlumeWindow(q), NEW g,
         Exposed(PlumeWindow(q), PlumeModel, g)
  PROVE  Exposed(PlumeWindow(q), PlumeModel, g)'
  BY DEF Exposed, PlumeModel, Live

LEMMA ComputedKept ==
  ASSUME plumes' = plumes, env' = env, NEW r \in Runs, Computed(r),
         "compute_plume" \in done'[r] =>
            "compute_plume" \in done[r] /\ PlumeWindow(r)' = PlumeWindow(r),
         \A p \in Runs : \A s \in TransportSteps :
            windows[p][s] = NoWindow \/ windows'[p][s] = windows[p][s],
         \A p \in Runs : stage'[p] = "new" => stage[p] = "new"
  PROVE  Computed(r)'
<1> SUFFICES ASSUME "compute_plume" \in done'[r], AloneInItsSeconds(r)', WindStays(r)',
                    NEW g, SmokeReaches(g)
             PROVE  Exposed(PlumeWindow(r), PlumeModel, g)'
  BY Zenon DEF Computed, SmokeReaches
<1>1. AloneInItsSeconds(r) /\ WindStays(r)
  BY Zenon, AloneBefore, WindStaysBefore
<1>2. Exposed(PlumeWindow(r), PlumeModel, g)
  BY Zenon, <1>1 DEF Computed
<1> QED BY Zenon, <1>2, ExposedKept

\* A step that touches neither plumes nor matches, nor a job that does.
LEMMA QuietKeep ==
  ASSUME LedgerInv, ScriptInv, ScriptInv', CarryInv, env' = env, now' \in Nat,
         NEW r \in Runs, stage'[r] # "new",
         plumes' = plumes, NewJob(r), fires' \in {fires, Fires},
         \A q \in Runs \ {r} : /\ stage'[q] = stage[q] /\ pos'[q] = pos[q]
                               /\ done'[q] = done[q] /\ windows'[q] = windows[q],
         windows' \in [Runs -> [TransportSteps -> Windows]],
         \A s \in TransportSteps :
            windows[r][s] = NoWindow \/ windows'[r][s] = windows[r][s],
         done[r] \subseteq done'[r],
         "compute_plume" \in done'[r] =>
            "compute_plume" \in done[r] /\ PlumeWindow(r)' = PlumeWindow(r),
         "normalize" \in done'[r] => "normalize" \in done[r] \/ fires' = Fires,
         stage'[r] \in {"write", "flush"} => Step(r)' = "compute_risk",
         Opened(r)', Matching(r)', Matched(r)', Computing(r)', Written(r)'
  PROVE  CarryInv'
<1>1. /\ \A q \in Runs \ {r} : local'[q] = local[q]
      /\ local' = [q \in Runs |-> local'[q]] /\ DOMAIN local'[r] = JobFields
  <2>1. local = [q \in Runs |-> local[q]]
    BY DEF CarryInv
  <2>2. PICK l : DOMAIN l = JobFields /\ local' = [local EXCEPT ![r] = l]
    BY DEF NewJob
  <2> QED BY <2>1, <2>2
<1>2. Computed(r)'
  <2>1. \A p \in Runs : \A s \in TransportSteps :
           windows[p][s] = NoWindow \/ windows'[p][s] = windows[p][s]
    OBVIOUS
  <2>2. \A p \in Runs : stage'[p] = "new" => stage[p] = "new"
    OBVIOUS
  <2>3. Computed(r)
    BY DEF CarryInv
  <2> QED BY Zenon, <2>1, <2>2, <2>3, ComputedKept
<1>3. ASSUME NEW q \in Runs \ {r}, NEW g, Exposed(PlumeWindow(q), PlumeModel, g)
      PROVE  Exposed(PlumeWindow(q), PlumeModel, g)'
  <2>1. PlumeWindow(q)' = PlumeWindow(q)
    BY DEF PlumeWindow
  <2> QED BY Zenon, <1>3, <2>1, ExposedKept
<1>4. "compute_plume" \in done[r] => PlumeWindow(r)' = PlumeWindow(r)
  OBVIOUS
<1>5. \A q \in Runs \ {r} : "compute_plume" \in done[q] /\ AloneInItsSeconds(q)' =>
         \A g : Exposed(PlumeWindow(q), PlumeModel, g) =>
                Exposed(PlumeWindow(q), PlumeModel, g)'
  BY Zenon, <1>3
<1>6. \A x \in plumes' : x \in plumes \/ Computes(x.key[1])'
  OBVIOUS
<1>7. \A q \in Runs \ {r} : /\ stage'[q] = stage[q] /\ pos'[q] = pos[q]
                            /\ done'[q] = done[q] /\ local'[q] = local[q]
                            /\ windows'[q] = windows[q]
  BY <1>1
<1> QED BY Zenon, <1>1, <1>2, <1>4, <1>5, <1>6, <1>7, TableFrame

LEMMA PassesKeep ==
  ASSUME LedgerInv, ScriptInv, ScriptInv', CarryInv, env' = env, now' \in Nat,
         NEW r \in Runs, Passes(r)
  PROVE  CarryInv'
<1>1. /\ windows' = windows /\ plumes' = plumes /\ matches' = matches /\ NewJob(r)
      /\ fires' \in {fires, Fires}
      /\ Script' = Script
  BY DEF Passes, Script
<1>2. /\ windows \in [Runs -> [TransportSteps -> Windows]]
      /\ Opened(r) /\ Matched(r)
      /\ stage[r] \in {"write", "flush"} => Step(r) = "compute_risk"
  BY DEF CarryInv
<1>3. /\ done \in [Runs -> SUBSET Names] /\ pos \in [Runs -> 0..Len(Script)]
      /\ stage \in [Runs -> {"new", "gone"} \cup Underway]
  BY DEF ScriptInv, LedgerInv
<1>4. /\ \A q \in Runs \ {r} : done'[q] = done[q]
      /\ done[r] \subseteq done'[r]
      /\ "compute_plume" \in done'[r] => "compute_plume" \in done[r]
      /\ "match_fire_weather" \in done'[r] => "match_fire_weather" \in done[r]
      /\ "normalize" \in done'[r] => "normalize" \in done[r] \/ fires' = Fires
  <2>1. CASE done' = done
    BY <2>1
  <2>2. CASE /\ done' = [done EXCEPT ![r] = @ \cup {Step(r)}]
             /\ Step(r) \notin {"compute_plume", "match_fire_weather"}
             /\ Step(r) = "normalize" => fires' = Fires
    <3>1. done'[r] = done[r] \cup {Step(r)}
      BY <1>3, <2>2
    <3>2. \A q \in Runs \ {r} : done'[q] = done[q]
      BY <1>3, <2>2
    <3> QED BY <2>2, <3>1, <3>2
  <2> QED BY <2>1, <2>2 DEF Passes
<1>5. /\ \A q \in Runs \ {r} : stage'[q] = stage[q] /\ pos'[q] = pos[q]
      /\ stage'[r] \notin {"new", "write"}
      /\ \/ pos'[r] = pos[r] + 1
         \/ /\ pos'[r] = pos[r]
            /\ stage'[r] \in {"begin", "open"} => stage[r] \in {"begin", "open"}
      /\ stage'[r] = "work" =>
           pos'[r] = pos[r] /\ Step(r) \in {"compare_dispersion_aq", "compute_dispersion"}
      /\ stage'[r] = "flush" => pos'[r] = pos[r] /\ stage[r] = "write"
  <2>1. CASE \/ /\ stage' = [stage EXCEPT ![r] = "work"] /\ pos' = pos
                /\ Step(r) \in {"compare_dispersion_aq", "compute_dispersion"}
             \/ \E s \in Stops : stage' = [stage EXCEPT ![r] = s] /\ pos' = pos
    BY <1>3, <2>1 DEF Stops
  <2>2. CASE \/ stage[r] = "begin" /\ stage' = [stage EXCEPT ![r] = "open"] /\ pos' = pos
             \/ stage[r] = "write" /\ stage' = [stage EXCEPT ![r] = "flush"] /\ pos' = pos
    BY <1>3, <2>2
  <2>3. CASE Onward(r)
    <3>1. CASE stage' = [stage EXCEPT ![r] = "finish"] /\ pos' = pos
      BY <1>3, <3>1
    <3>2. CASE /\ \E s \in {"begin", "open"} : stage' = [stage EXCEPT ![r] = s]
               /\ pos' = [pos EXCEPT ![r] = @ + 1]
      <4>1. pos'[r] = pos[r] + 1 /\ \A q \in Runs \ {r} : pos'[q] = pos[q]
        BY <1>3, <3>2
      <4>2. /\ stage'[r] \in {"begin", "open"}
            /\ \A q \in Runs \ {r} : stage'[q] = stage[q]
        BY <1>3, <3>2
      <4> QED BY <4>1, <4>2
    <3> QED BY <2>3, <3>1, <3>2 DEF Onward
  <2> QED BY <2>1, <2>2, <2>3 DEF Passes
<1>6. pos'[r] = pos[r] => Step(r)' = Step(r)
  BY <1>1 DEF Step
<1>7. Opened(r)'
  BY Zenon, <1>1, <1>2, <1>5, OpenedOn
<1>8. Matching(r)' /\ Computing(r)'
  BY <1>5, <1>6 DEF Matching, Computing, In
<1>9. Written(r)'
  BY <1>5 DEF Written, In
<1>10. Matched(r)'
  <2>1. \A q \in Runs \ {r} : stage'[q] = stage[q]
    BY <1>5
  <2> QED BY <1>1, <1>2, <1>4, <2>1 DEF Matched
<1>11. stage'[r] \in {"write", "flush"} => Step(r)' = "compute_risk"
  BY <1>2, <1>5, <1>6
<1>12. PlumeWindow(r)' = PlumeWindow(r)
  BY <1>1 DEF PlumeWindow
<1>13. stage'[r] # "new"
  BY <1>5
<1>14. \A q \in Runs \ {r} : /\ stage'[q] = stage[q] /\ pos'[q] = pos[q]
                             /\ done'[q] = done[q] /\ windows'[q] = windows[q]
  BY <1>1, <1>4, <1>5
<1> QED BY Zenon, <1>1, <1>2, <1>4, <1>7, <1>8, <1>9, <1>10, <1>11, <1>12, <1>13, <1>14, QuietKeep

\* A job that opens: its window is new, and it has done nothing yet.
LEMMA OpenJobDoes ==
  ASSUME LedgerInv, ScriptInv, CarryInv, now \in Nat, NEW r \in Runs,
         NEW hours \in {RiskHours, DispersionHours}, NEW todo, OpenJob(r, hours, todo)
  PROVE  /\ stage[r] = "open" /\ stage'[r] = "work" /\ Step(r)' = Step(r)
         /\ Step(r) \notin done[r] /\ done' = done /\ fires' = fires
         /\ NewJob(r)
         /\ local'[r] = [window |-> Window(hours), todo |-> todo, rows |-> {}]
         /\ \A q \in Runs \ {r} : /\ stage'[q] = stage[q] /\ pos'[q] = pos[q]
                                  /\ done'[q] = done[q] /\ windows'[q] = windows[q]
         /\ windows' \in [Runs -> [TransportSteps -> Windows]]
         /\ \A s \in TransportSteps :
              windows[r][s] = NoWindow \/ windows'[r][s] = windows[r][s]
         /\ \A s \in TransportSteps : s # Step(r) => windows'[r][s] = windows[r][s]
         /\ Step(r) \in TransportSteps => windows'[r][Step(r)] = Window(hours)
         /\ Opened(r)'
<1>1. /\ stage[r] = "open" /\ pos' = pos /\ done' = done /\ fires' = fires /\ env' = env
      /\ stage' = [stage EXCEPT ![r] = "work"]
      /\ local' = [local EXCEPT ![r] = [window |-> Window(hours), todo |-> todo, rows |-> {}]]
      /\ windows' = [windows EXCEPT ![r] = IF Step(r) \in TransportSteps
                       THEN [windows[r] EXCEPT ![Step(r)] = Window(hours)] ELSE windows[r]]
  BY DEF OpenJob, Goto
<1>2. /\ windows \in [Runs -> [TransportSteps -> Windows]] /\ Opened(r)
      /\ stage \in [Runs -> {"new", "gone"} \cup Underway]
      /\ local = [q \in Runs |-> local[q]]
  BY DEF CarryInv, LedgerInv
<1>3. Script' = Script /\ Step(r)' = Step(r)
  BY <1>1 DEF Script, Step
<1>4. /\ pos[r] \in 1..Len(Script) /\ Step(r) = Script[pos[r]] /\ pos[r] \in Nat
      /\ Step(r) \notin done[r]
  BY <1>1, InScript DEF Underway, JobStages
<1>5. Window(hours) \in Windows
  BY CycleInputs DEF Window, Windows
<1>6. windows' \in [Runs -> [TransportSteps -> Windows]]
  BY <1>1, <1>2, <1>5
<1>7. /\ \A s \in TransportSteps : s # Step(r) => windows'[r][s] = windows[r][s]
      /\ Step(r) \in TransportSteps => windows'[r][Step(r)] = Window(hours)
      /\ \A q \in Runs \ {r} : windows'[q] = windows[q]
  BY <1>1, <1>2
<1>8. Step(r) \in TransportSteps => windows[r][Step(r)] = NoWindow
  BY <1>1, <1>2, <1>4 DEF Opened
<1>9. /\ NewJob(r)
      /\ local'[r] = [window |-> Window(hours), todo |-> todo, rows |-> {}]
  <2>1. DOMAIN [window |-> Window(hours), todo |-> todo, rows |-> {}] = JobFields
    BY DEF JobFields
  <2> QED BY <1>1, <1>2, <2>1 DEF NewJob
<1>10. /\ stage'[r] = "work"
       /\ \A q \in Runs \ {r} : stage'[q] = stage[q] /\ pos'[q] = pos[q]
  BY <1>1, <1>2
<1>11. Opened(r)'
  <2>1. ASSUME NEW s \in TransportSteps, windows'[r][s] # NoWindow
        PROVE  s \in {Script'[i] : i \in 1..pos'[r]}
    <3>1. CASE s = Step(r)
      <4>1. pos[r] \in 1..pos[r]
        BY SMT, <1>4
      <4> QED BY <1>1, <1>3, <1>4, <3>1, <4>1
    <3>2. CASE s # Step(r)
      <4>1. s \in {Script[i] : i \in 1..pos[r]}
        BY <1>2, <1>7, <2>1, <3>2 DEF Opened
      <4> QED BY <1>1, <1>3, <4>1
    <3> QED BY <3>1, <3>2
  <2> QED BY <1>10, <2>1 DEF Opened
<1> QED BY <1>1, <1>3, <1>4, <1>6, <1>7, <1>8, <1>9, <1>10, <1>11

LEMMA WindowIsNew == ASSUME NEW hours PROVE Window(hours) # NoWindow
<1>1. Len(Window(hours)) = 2 /\ Len(NoWindow) = 0
  BY DEF Window, NoWindow
<1> QED BY <1>1

\* match_fire_weather, compute_dispersion and compute_risk open.
LEMMA OpenKeeps ==
  ASSUME LedgerInv, ScriptInv, ScriptInv', CarryInv, env' = env, now' \in Nat,
         NEW r \in Runs, OpenMatch(r) \/ OpenDispersion(r) \/ OpenRisk(r)
  PROVE  CarryInv'
<1>1. PICK hours \in {RiskHours, DispersionHours}, todo \in {fires, Scorable(fires)} :
        /\ OpenJob(r, hours, todo) /\ plumes' = plumes
        /\ Step(r) \in {"match_fire_weather", "compute_dispersion", "compute_risk"}
        /\ Step(r) = "match_fire_weather" => todo = fires
        /\ Step(r) # "match_fire_weather" => matches' = matches
  <2>1. CASE OpenMatch(r)
    BY <2>1 DEF OpenMatch
  <2>2. CASE OpenDispersion(r)
    BY <2>2 DEF OpenDispersion
  <2>3. CASE OpenRisk(r)
    BY <2>3 DEF OpenRisk
  <2> QED BY <2>1, <2>2, <2>3
<1>2. now \in Nat /\ Matched(r) /\ ("normalize" \in done[r] => fires = Fires)
  BY DEF CarryInv
<1>3. /\ stage[r] = "open" /\ stage'[r] = "work" /\ Step(r)' = Step(r)
      /\ Step(r) \notin done[r] /\ done' = done /\ fires' = fires
      /\ NewJob(r)
      /\ local'[r] = [window |-> Window(hours), todo |-> todo, rows |-> {}]
      /\ \A q \in Runs \ {r} : /\ stage'[q] = stage[q] /\ pos'[q] = pos[q]
                               /\ done'[q] = done[q] /\ windows'[q] = windows[q]
      /\ windows' \in [Runs -> [TransportSteps -> Windows]]
      /\ \A s \in TransportSteps :
           windows[r][s] = NoWindow \/ windows'[r][s] = windows[r][s]
      /\ \A s \in TransportSteps : s # Step(r) => windows'[r][s] = windows[r][s]
      /\ Opened(r)'
  BY <1>1, <1>2, OpenJobDoes
<1>4. Matching(r)'
  <2>1. Step(r) = "match_fire_weather" => "normalize" \in done[r]
    BY <1>3, Behind DEF Underway
  <2> QED BY <1>1, <1>2, <1>3, <2>1 DEF Matching, In
<1>5. Matched(r)'
  <2>1. \A q \in Runs \ {r} : stage'[q] = stage[q]
    BY <1>3
  <2>2. "match_fire_weather" \in done[r] => Step(r) # "match_fire_weather"
    BY <1>3
  <2> QED BY <1>1, <1>2, <1>3, <2>1, <2>2 DEF Matched
<1>6. Computing(r)' /\ Written(r)'
  BY <1>1, <1>3 DEF Computing, Written, In
<1>7. PlumeWindow(r)' = PlumeWindow(r)
  BY <1>1, <1>3 DEF PlumeWindow, TransportSteps
<1>8. /\ stage'[r] # "new" /\ done[r] \subseteq done'[r]
      /\ "compute_plume" \in done'[r] =>
            "compute_plume" \in done[r] /\ PlumeWindow(r)' = PlumeWindow(r)
      /\ "normalize" \in done'[r] => "normalize" \in done[r] \/ fires' = Fires
      /\ stage'[r] \in {"write", "flush"} => Step(r)' = "compute_risk"
      /\ fires' \in {fires, Fires} /\ plumes' = plumes
  BY <1>1, <1>3, <1>7
<1> QED BY Zenon, <1>3, <1>4, <1>5, <1>6, <1>8, QuietKeep

\* compute_plume opens: it deletes the plumes of its second.
LEMMA OpenPlumeKeeps ==
  ASSUME LedgerInv, ScriptInv, ScriptInv', CarryInv, env' = env, now' \in Nat,
         NEW r \in Runs, OpenPlume(r)
  PROVE  CarryInv'
<1>1. /\ OpenJob(r, RiskHours, fires) /\ Step(r) = "compute_plume" /\ matches' = matches
      /\ plumes' = {x \in plumes : << x.key[1], x.key[2] >> # << Window(RiskHours), PlumeModel >>}
  BY DEF OpenPlume
<1>2. now \in Nat /\ Matched(r) /\ ("normalize" \in done[r] => fires = Fires)
  BY DEF CarryInv
<1>3. /\ stage[r] = "open" /\ stage'[r] = "work" /\ Step(r)' = Step(r)
      /\ Step(r) \notin done[r] /\ done' = done /\ fires' = fires
      /\ NewJob(r)
      /\ local'[r] = [window |-> Window(RiskHours), todo |-> fires, rows |-> {}]
      /\ \A q \in Runs \ {r} : /\ stage'[q] = stage[q] /\ pos'[q] = pos[q]
                               /\ done'[q] = done[q] /\ windows'[q] = windows[q]
      /\ windows' \in [Runs -> [TransportSteps -> Windows]]
      /\ \A s \in TransportSteps :
           windows[r][s] = NoWindow \/ windows'[r][s] = windows[r][s]
      /\ Step(r) \in TransportSteps => windows'[r][Step(r)] = Window(RiskHours)
      /\ Opened(r)'
  BY <1>1, <1>2, OpenJobDoes
<1>4. Matching(r)' /\ Written(r)'
  BY <1>1, <1>3 DEF Matching, Written, In
<1>5. Matched(r)'
  <2>1. \A q \in Runs \ {r} : stage'[q] = stage[q]
    BY <1>3
  <2> QED BY <1>1, <1>2, <1>3, <2>1 DEF Matched
<1>6. PlumeWindow(r)' = Window(RiskHours) /\ "compute_plume" \in TransportSteps
  BY <1>1, <1>3 DEF PlumeWindow, TransportSteps
<1>7. Computing(r)'
  <2>1. fires = Fires
    BY <1>1, <1>2, <1>3, Behind DEF Underway
  <2>2. \A f, g : Carries(f, g) => f \in Fires
    BY CycleInputs DEF Carries
  <2>3. local'[r].todo = Fires /\ local'[r].rows = {} /\ local'[r].window = PlumeWindow(r)'
    BY <1>3, <1>6, <2>1
  <2> QED BY <2>2, <2>3 DEF Computing, Carries
<1>8. Computed(r)'
  BY <1>1, <1>3 DEF Computed
<1>9. /\ \A q \in Runs \ {r} : local'[q] = local[q]
      /\ local' = [q \in Runs |-> local'[q]] /\ DOMAIN local'[r] = JobFields
  <2>1. local = [q \in Runs |-> local[q]]
    BY DEF CarryInv
  <2>2. PICK l : DOMAIN l = JobFields /\ local' = [local EXCEPT ![r] = l]
    BY <1>3 DEF NewJob
  <2> QED BY <2>1, <2>2
<1>10. ASSUME NEW q \in Runs \ {r}, "compute_plume" \in done[q], AloneInItsSeconds(q)',
              NEW g, Exposed(PlumeWindow(q), PlumeModel, g)
       PROVE  Exposed(PlumeWindow(q), PlumeModel, g)'
  <2>1. PlumeWindow(q) # Window(RiskHours)
    <3>1. windows'[r]["compute_plume"] # windows'[q]["compute_plume"]
      <4>1. \/ windows'[r]["compute_plume"] = NoWindow
            \/ windows'[r]["compute_plume"] # windows'[q]["compute_plume"]
        BY <1>6, <1>10 DEF AloneInItsSeconds
      <4> QED BY <1>6, <4>1, WindowIsNew DEF PlumeWindow
    <3> QED BY <1>3, <1>6, <3>1 DEF PlumeWindow
  <2>2. PICK x \in plumes : /\ x.key[1] = PlumeWindow(q) /\ x.key[2] = PlumeModel
                            /\ x.key[4] = g
    BY <1>10 DEF Exposed
  <2>3. x \in plumes'
    BY <1>1, <2>1, <2>2
  <2>4. PlumeModel' = PlumeModel /\ PlumeWindow(q)' = PlumeWindow(q)
    BY <1>3 DEF PlumeModel, Live, PlumeWindow
  <2> QED BY <2>2, <2>3, <2>4 DEF Exposed
<1>11. /\ \A q \in Runs \ {r} : /\ stage'[q] = stage[q] /\ pos'[q] = pos[q]
                                /\ done'[q] = done[q] /\ local'[q] = local[q]
                                /\ windows'[q] = windows[q]
       /\ stage'[r] # "new" /\ done[r] \subseteq done'[r]
       /\ "compute_plume" \in done[r] => PlumeWindow(r)' = PlumeWindow(r)
       /\ "normalize" \in done'[r] => "normalize" \in done[r] \/ fires' = Fires
       /\ stage'[r] \in {"write", "flush"} => Step(r)' = "compute_risk"
       /\ fires' \in {fires, Fires}
       /\ \A x \in plumes' : x \in plumes \/ Computes(x.key[1])'
  BY <1>1, <1>3, <1>9
<1>12. \A q \in Runs \ {r} : "compute_plume" \in done[q] /\ AloneInItsSeconds(q)' =>
         \A g : Exposed(PlumeWindow(q), PlumeModel, g) =>
                Exposed(PlumeWindow(q), PlumeModel, g)'
  BY Zenon, <1>10
<1> QED BY Zenon, <1>3, <1>4, <1>5, <1>7, <1>8, <1>9, <1>11, <1>12, TableFrame

\* A job of the tables ends.
LEMMA JobDoneDoes ==
  ASSUME LedgerInv, ScriptInv, ScriptInv', CarryInv, env' = env, NEW r \in Runs,
         JobDone(r), windows' = windows
  PROVE  /\ NewJob(r) /\ done'[r] = done[r] \cup {Step(r)}
         /\ stage'[r] \in {"begin", "open", "finish", "ok"}
         /\ \A q \in Runs \ {r} : /\ stage'[q] = stage[q] /\ pos'[q] = pos[q]
                                  /\ done'[q] = done[q] /\ windows'[q] = windows[q]
         /\ windows' \in [Runs -> [TransportSteps -> Windows]]
         /\ Opened(r)' /\ PlumeWindow(r)' = PlumeWindow(r)
<1>1. /\ NewJob(r) /\ done' = [done EXCEPT ![r] = @ \cup {Step(r)}]
      /\ \/ Onward(r)
         \/ stage' = [stage EXCEPT ![r] = "ok"] /\ pos' = pos
  BY JobDoneOnward
<1>2. /\ windows \in [Runs -> [TransportSteps -> Windows]] /\ Opened(r)
      /\ done \in [Runs -> SUBSET Names] /\ pos \in [Runs -> 0..Len(Script)]
      /\ stage \in [Runs -> {"new", "gone"} \cup Underway]
  BY DEF CarryInv, ScriptInv, LedgerInv
<1>3. /\ done'[r] = done[r] \cup {Step(r)}
      /\ \A q \in Runs \ {r} : done'[q] = done[q]
  BY <1>1, <1>2
<1>4. /\ stage'[r] \in {"begin", "open", "finish", "ok"}
      /\ \A q \in Runs \ {r} : stage'[q] = stage[q] /\ pos'[q] = pos[q]
      /\ \/ pos'[r] = pos[r] + 1
         \/ pos'[r] = pos[r] /\ stage'[r] \notin {"begin", "open"}
  <2>1. CASE \/ stage' = [stage EXCEPT ![r] = "ok"] /\ pos' = pos
             \/ stage' = [stage EXCEPT ![r] = "finish"] /\ pos' = pos
    BY <1>2, <2>1
  <2>2. CASE /\ \E s \in {"begin", "open"} : stage' = [stage EXCEPT ![r] = s]
             /\ pos' = [pos EXCEPT ![r] = @ + 1]
    <3>1. pos'[r] = pos[r] + 1 /\ \A q \in Runs \ {r} : pos'[q] = pos[q]
      BY <1>2, <2>2
    <3>2. /\ stage'[r] \in {"begin", "open"}
          /\ \A q \in Runs \ {r} : stage'[q] = stage[q]
      BY <1>2, <2>2
    <3> QED BY <3>1, <3>2
  <2> QED BY <1>1, <2>1, <2>2 DEF Onward
<1>5. Opened(r)'
  BY Zenon, <1>2, <1>4, OpenedOn
<1>6. PlumeWindow(r)' = PlumeWindow(r)
  BY DEF PlumeWindow
<1> QED BY <1>1, <1>2, <1>3, <1>4, <1>5, <1>6

\* match_fire_weather ends: each fire with a cell in reach has its match.
LEMMA CommitMatchKeeps ==
  ASSUME LedgerInv, ScriptInv, ScriptInv', CarryInv, env' = env, now' \in Nat,
         NEW r \in Runs, CommitMatch(r)
  PROVE  CarryInv'
<1>1. /\ JobDone(r) /\ stage[r] = "work" /\ Step(r) = "match_fire_weather"
      /\ windows' = windows /\ plumes' = plumes /\ fires' = fires
      /\ matches' = matches \cup (local[r].todo \cap OnGrid)
  BY DEF CommitMatch
<1>2. /\ NewJob(r) /\ done'[r] = done[r] \cup {"match_fire_weather"}
      /\ stage'[r] \in {"begin", "open", "finish", "ok"}
      /\ \A q \in Runs \ {r} : /\ stage'[q] = stage[q] /\ pos'[q] = pos[q]
                               /\ done'[q] = done[q] /\ windows'[q] = windows[q]
      /\ windows' \in [Runs -> [TransportSteps -> Windows]]
      /\ Opened(r)' /\ PlumeWindow(r)' = PlumeWindow(r)
  BY <1>1, JobDoneDoes
<1>3. Matching(r)' /\ Computing(r)' /\ Written(r)'
  BY <1>2 DEF Matching, Computing, Written, In
<1>4. Matched(r)'
  <2>1. local[r].todo = Fires
    BY <1>1 DEF CarryInv, Matching, In
  <2> QED BY <1>1, <2>1 DEF Matched
<1>5. /\ stage'[r] # "new" /\ done[r] \subseteq done'[r]
      /\ "compute_plume" \in done'[r] =>
            "compute_plume" \in done[r] /\ PlumeWindow(r)' = PlumeWindow(r)
      /\ "normalize" \in done'[r] => "normalize" \in done[r] \/ fires' = Fires
      /\ stage'[r] \in {"write", "flush"} => Step(r)' = "compute_risk"
      /\ fires' \in {fires, Fires}
      /\ \A s \in TransportSteps :
           windows[r][s] = NoWindow \/ windows'[r][s] = windows[r][s]
  BY <1>1, <1>2
<1> QED BY Zenon, <1>1, <1>2, <1>3, <1>4, <1>5, QuietKeep

\* compute_plume finds the wind at a fire: the matches that it reads are its own
\* cycle's, or it may fall back to a station.
LEMMA WindFound ==
  ASSUME ScriptInv, CarryInv, NEW r \in Runs, In(r, "compute_plume", "work"),
         WindStays(r), NEW f, NEW g, Carries(f, g)
  PROVE  \E w \in Wind(f, PlumeModel = "wind_grid_v2", env.fallback) :
           g \in Geos /\ << w, f, g >> \in Corridor
<1>1. /\ f \in OnGrid /\ f \in OnStation /\ f \in Fires /\ g \in Geos
      /\ << "grid", f, g >> \in Corridor /\ << "station", f, g >> \in Corridor
  BY CycleInputs DEF Carries
<1>2. PlumeModel = "wind_grid_v2" /\ ~env.fallback => f \in matches
  <2>1. stage[r] \in Underway /\ Step(r) = "compute_plume"
    BY DEF In, Underway
  <2>2. PlumeModel = "wind_grid_v2" => "match_fire_weather" \in done[r]
    BY Zenon, <2>1, Behind
  <2>3. Matched(r)
    BY DEF CarryInv
  <2> QED BY <1>1, <2>2, <2>3 DEF Matched, WindStays
<1>3. CASE PlumeModel # "wind_grid_v2"
  BY <1>1, <1>3 DEF Wind
<1>4. CASE PlumeModel = "wind_grid_v2" /\ f \in matches
  BY <1>1, <1>4 DEF Wind
<1>5. CASE PlumeModel = "wind_grid_v2" /\ f \notin matches
  BY <1>1, <1>2, <1>5 DEF Wind
<1> QED BY <1>3, <1>4, <1>5

LEMMA ResolveKeeps ==
  ASSUME LedgerInv, ScriptInv, ScriptInv', CarryInv, env' = env, now' \in Nat,
         NEW r \in Runs, NEW f \in local[r].todo, ResolvePlume(r, f)
  PROVE  CarryInv'
<1> DEFINE New == {[key |-> << local[r].window, PlumeModel, f, p[2] >>, wind |-> p[1]] :
                     p \in {q \in Wind(f, PlumeModel = "wind_grid_v2", env.fallback) \X Geos :
                             << q[1], f, q[2] >> \in Corridor}}
<1>1. /\ stage[r] = "work" /\ Step(r) = "compute_plume" /\ stage' = [stage EXCEPT ![r] = "work"]
      /\ pos' = pos /\ done' = done /\ windows' = windows /\ plumes' = plumes
      /\ fires' = fires /\ matches' = matches
      /\ local' = [local EXCEPT ![r].todo = @ \ {f}, ![r].rows = @ \cup New]
  BY DEF ResolvePlume, Goto, tables
<1> HIDE DEF New
<1>2. /\ local = [q \in Runs |-> local[q]] /\ DOMAIN local[r] = JobFields
      /\ Opened(r) /\ Matched(r) /\ Computing(r)
      /\ windows \in [Runs -> [TransportSteps -> Windows]]
      /\ stage \in [Runs -> {"new", "gone"} \cup Underway]
  BY DEF CarryInv, LedgerInv
<1>3. /\ NewJob(r)
      /\ local'[r].window = local[r].window /\ local'[r].todo = local[r].todo \ {f}
      /\ local'[r].rows = local[r].rows \cup New
  <2>1. local' = [local EXCEPT ![r] =
                    [[local[r] EXCEPT !.todo = @ \ {f}] EXCEPT !.rows = @ \cup New]]
    BY <1>1, <1>2 DEF JobFields
  <2>2. DOMAIN [[local[r] EXCEPT !.todo = @ \ {f}] EXCEPT !.rows = @ \cup New] = JobFields
    BY <1>2
  <2>3. NewJob(r)
    BY <2>1, <2>2 DEF NewJob
  <2> QED BY <1>2, <2>1, <2>3 DEF JobFields
<1>4. /\ stage'[r] = "work" /\ Step(r)' = Step(r) /\ Script' = Script
      /\ PlumeModel' = PlumeModel /\ PlumeWindow(r)' = PlumeWindow(r)
      /\ \A q \in Runs \ {r} : stage'[q] = stage[q]
  BY <1>1, <1>2 DEF Step, Script, PlumeModel, Live, PlumeWindow
<1>5. Opened(r)'
  BY <1>1, <1>2, <1>4 DEF Opened
<1>6. Matching(r)' /\ Written(r)'
  BY <1>1, <1>4 DEF Matching, Written, In
<1>7. Matched(r)'
  BY <1>1, <1>2, <1>4 DEF Matched
<1>8. Computing(r)'
  <2>0. In(r, "compute_plume", "work")
    BY <1>1 DEF In
  <2>1. /\ local[r].window = PlumeWindow(r)
        /\ \A x \in local[r].rows : x.key[1] = PlumeWindow(r)
        /\ WindStays(r) => \A h, g : Carries(h, g) =>
             \/ h \in local[r].todo
             \/ \E x \in local[r].rows : x.key = << PlumeWindow(r), PlumeModel, h, g >>
    BY Zenon, <1>2, <2>0 DEF Computing
  <2>2. local'[r].window = PlumeWindow(r)'
    BY <1>3, <1>4, <2>1
  <2>3. \A x \in New : x.key[1] = PlumeWindow(r)
    <3> TAKE x \in New
    <3>1. PICK p : x = [key |-> << local[r].window, PlumeModel, f, p[2] >>, wind |-> p[1]]
      BY DEF New
    <3>2. x.key = << local[r].window, PlumeModel, f, p[2] >>
      BY <3>1
    <3> QED BY <2>1, <3>2
  <2>4. \A x \in local'[r].rows : x.key[1] = PlumeWindow(r)'
    <3> QED BY <1>3, <1>4, <2>1, <2>3
  <2>5. ASSUME WindStays(r)', NEW h, NEW g, Carries(h, g)
        PROVE  \/ h \in local'[r].todo
               \/ \E x \in local'[r].rows : x.key = << PlumeWindow(r)', PlumeModel', h, g >>
    <3>1. WindStays(r)
      <4>1. \A p \in Runs : stage'[p] = "new" => stage[p] = "new"
        BY <1>4
      <4> QED BY Zenon, <2>5, <4>1, WindStaysBefore
    <3>2. CASE h # f
      <4>1. \/ h \in local[r].todo
            \/ \E x \in local[r].rows : x.key = << PlumeWindow(r), PlumeModel, h, g >>
        BY Zenon, <2>1, <2>5, <3>1
      <4> QED BY <1>3, <1>4, <3>2, <4>1
    <3>3. CASE h = f
      <4>1. PICK w \in Wind(f, PlumeModel = "wind_grid_v2", env.fallback) :
              g \in Geos /\ << w, f, g >> \in Corridor
        BY Zenon, <2>0, <2>5, <3>1, <3>3, WindFound
      <4> DEFINE x == [key |-> << local[r].window, PlumeModel, f, g >>, wind |-> w]
      <4>2. x \in New
        <5>1. << w, g >> \in {q \in Wind(f, PlumeModel = "wind_grid_v2", env.fallback) \X Geos :
                               << q[1], f, q[2] >> \in Corridor}
          BY <4>1
        <5>2. x = [key |-> << local[r].window, PlumeModel, f, << w, g >>[2] >>,
                   wind |-> << w, g >>[1]]
          OBVIOUS
        <5> QED BY <5>1, <5>2 DEF New
      <4>3. x.key = << PlumeWindow(r)', PlumeModel', h, g >>
        BY <1>4, <2>1, <3>3
      <4> HIDE DEF x
      <4> QED BY <1>3, <4>2, <4>3
    <3> QED BY <3>2, <3>3
  <2>6. WindStays(r)' => \A h, g : Carries(h, g) =>
          \/ h \in local'[r].todo
          \/ \E x \in local'[r].rows : x.key = << PlumeWindow(r)', PlumeModel', h, g >>
    BY <2>5
  <2> QED BY Zenon, <2>2, <2>4, <2>6 DEF Computing, Carries
<1>9. /\ stage'[r] # "new" /\ done[r] \subseteq done'[r]
      /\ "compute_plume" \in done'[r] =>
            "compute_plume" \in done[r] /\ PlumeWindow(r)' = PlumeWindow(r)
      /\ "normalize" \in done'[r] => "normalize" \in done[r] \/ fires' = Fires
      /\ stage'[r] \in {"write", "flush"} => Step(r)' = "compute_risk"
      /\ fires' \in {fires, Fires} /\ windows' \in [Runs -> [TransportSteps -> Windows]]
      /\ \A s \in TransportSteps :
           windows[r][s] = NoWindow \/ windows'[r][s] = windows[r][s]
      /\ \A q \in Runs \ {r} : /\ stage'[q] = stage[q] /\ pos'[q] = pos[q]
                               /\ done'[q] = done[q] /\ windows'[q] = windows[q]
  BY <1>1, <1>2, <1>4
<1>10. plumes' = plumes
  BY <1>1
<1> QED BY Zenon, <1>3, <1>5, <1>6, <1>7, <1>8, <1>9, <1>10, QuietKeep

\* compute_plume ends: the rows of its second are in the table.
LEMMA CommitPlumeKeeps ==
  ASSUME LedgerInv, ScriptInv, ScriptInv', CarryInv, env' = env, now' \in Nat,
         NEW r \in Runs, CommitPlume(r)
  PROVE  CarryInv'
<1>1. /\ JobDone(r) /\ stage[r] = "work" /\ Step(r) = "compute_plume"
      /\ windows' = windows /\ fires' = fires /\ matches' = matches
      /\ local[r].todo = {} /\ plumes' = Upsert(plumes, local[r].rows)
  BY DEF CommitPlume
<1>2. /\ NewJob(r) /\ done'[r] = done[r] \cup {"compute_plume"}
      /\ stage'[r] \in {"begin", "open", "finish", "ok"}
      /\ \A q \in Runs \ {r} : /\ stage'[q] = stage[q] /\ pos'[q] = pos[q]
                               /\ done'[q] = done[q] /\ windows'[q] = windows[q]
      /\ windows' \in [Runs -> [TransportSteps -> Windows]]
      /\ Opened(r)' /\ PlumeWindow(r)' = PlumeWindow(r)
  BY <1>1, JobDoneDoes
<1>3. Matching(r)' /\ Computing(r)' /\ Written(r)'
  BY <1>2 DEF Matching, Computing, Written, In
<1>4. Matched(r)'
  <2>1. Matched(r)
    BY DEF CarryInv
  <2> QED BY <1>1, <1>2, <2>1 DEF Matched
<1>5. /\ \A x \in local[r].rows : x.key[1] = PlumeWindow(r)
      /\ WindStays(r) => \A f, g : Carries(f, g) =>
           \E x \in local[r].rows : x.key = << PlumeWindow(r), PlumeModel, f, g >>
  <2>1. Computing(r) /\ In(r, "compute_plume", "work")
    BY <1>1 DEF CarryInv, In
  <2> QED BY <1>1, <2>1 DEF Computing
<1>6. PlumeModel' = PlumeModel
  BY DEF PlumeModel, Live
<1>7. /\ \A x \in plumes' : x \in plumes \/ x \in local[r].rows
      /\ \A x \in local[r].rows : x \in plumes'
      /\ \A x \in plumes : \E y \in plumes' : y.key = x.key
  BY <1>1 DEF Upsert
<1>8. Computed(r)'
  <2> SUFFICES ASSUME AloneInItsSeconds(r)', WindStays(r)', NEW g, SmokeReaches(g)
               PROVE  Exposed(PlumeWindow(r), PlumeModel, g)'
    BY Zenon DEF Computed, SmokeReaches
  <2>1. WindStays(r)
    <3>1. \A p \in Runs : stage'[p] = "new" => stage[p] = "new"
      BY <1>2
    <3> QED BY Zenon, <3>1, WindStaysBefore
  <2>2. PICK f : Carries(f, g)
    BY DEF SmokeReaches, Carries
  <2>3. PICK x \in local[r].rows : x.key = << PlumeWindow(r), PlumeModel, f, g >>
    BY Zenon, <1>5, <2>1, <2>2
  <2>4. x.key[1] = PlumeWindow(r)' /\ x.key[2] = PlumeModel' /\ x.key[4] = g
    BY <1>2, <1>6, <2>3
  <2>5. x \in plumes'
    BY <1>7
  <2> QED BY <2>4, <2>5 DEF Exposed
<1>9. ASSUME NEW q \in Runs \ {r}, NEW g, Exposed(PlumeWindow(q), PlumeModel, g)
      PROVE  Exposed(PlumeWindow(q), PlumeModel, g)'
  <2>1. PICK x \in plumes : /\ x.key[1] = PlumeWindow(q) /\ x.key[2] = PlumeModel
                            /\ x.key[4] = g
    BY <1>9 DEF Exposed
  <2>2. PICK y \in plumes' : y.key = x.key
    BY <1>7
  <2>3. PlumeWindow(q)' = PlumeWindow(q)
    BY <1>1 DEF PlumeWindow
  <2> QED BY <1>6, <2>1, <2>2, <2>3 DEF Exposed
<1>10. /\ \A q \in Runs \ {r} : local'[q] = local[q]
       /\ local' = [q \in Runs |-> local'[q]] /\ DOMAIN local'[r] = JobFields
  <2>1. local = [q \in Runs |-> local[q]]
    BY DEF CarryInv
  <2>2. PICK l : DOMAIN l = JobFields /\ local' = [local EXCEPT ![r] = l]
    BY <1>2 DEF NewJob
  <2> QED BY <2>1, <2>2
<1>11. \A x \in plumes' : x \in plumes \/ Computes(x.key[1])'
  <2>1. ASSUME NEW x \in local[r].rows PROVE Computes(x.key[1])'
    <3>1. x.key[1] = PlumeWindow(r)'
      BY <1>2, <1>5
    <3> QED BY <1>2, <3>1 DEF Computes
  <2> QED BY <1>7, <2>1
<1>12. /\ \A q \in Runs \ {r} : /\ stage'[q] = stage[q] /\ pos'[q] = pos[q]
                                /\ done'[q] = done[q] /\ local'[q] = local[q]
                                /\ windows'[q] = windows[q]
       /\ stage'[r] # "new" /\ done[r] \subseteq done'[r]
       /\ \A s \in TransportSteps :
            windows[r][s] = NoWindow \/ windows'[r][s] = windows[r][s]
       /\ "compute_plume" \in done[r] => PlumeWindow(r)' = PlumeWindow(r)
       /\ "normalize" \in done'[r] => "normalize" \in done[r] \/ fires' = Fires
       /\ stage'[r] \in {"write", "flush"} => Step(r)' = "compute_risk"
       /\ fires' \in {fires, Fires}
  BY <1>1, <1>2, <1>10
<1>13. \A q \in Runs \ {r} : "compute_plume" \in done[q] /\ AloneInItsSeconds(q)' =>
         \A g : Exposed(PlumeWindow(q), PlumeModel, g) =>
                Exposed(PlumeWindow(q), PlumeModel, g)'
  BY Zenon, <1>9
<1> QED BY Zenon, <1>2, <1>3, <1>4, <1>8, <1>10, <1>11, <1>12, <1>13, TableFrame

\* A score has a plume only of its window, and that of its own cycle if no other
\* cycle's job opened in its second.
LEMMA ScoredCarries ==
  ASSUME CarryInv, NEW r \in Runs, "compute_plume" \in done[r], NEW w, NEW g
  PROVE  /\ Scored(w, g).key = << w, RiskModel, g >>
         /\ Scored(w, g).plume => Computes(w)
         /\ (/\ PlumeWindow(r) = w
             /\ AloneInItsSeconds(r) /\ WindStays(r) /\ SmokeReaches(g)
             /\ RiskModel \in {"v4", "v5"} \/ (RiskModel = "v3" /\ PlumeModel = "wind_v1"))
            => Scored(w, g).plume
<1>1. /\ Scored(w, g).key = << w, RiskModel, g >>
      /\ RiskModel = "v3" => Scored(w, g).plume = Exposed(w, "wind_v1", g)
      /\ RiskModel \in {"v4", "v5"} => Scored(w, g).plume = SelectedPlume(w, g)
      /\ RiskModel \notin {"v3", "v4", "v5"} => Scored(w, g).plume = FALSE
  BY DEF Scored
<1>2. ASSUME NEW m, Exposed(w, m, g) PROVE Computes(w)
  BY <1>2 DEF Exposed, CarryInv
<1>3. SelectedPlume(w, g) => Computes(w)
  BY <1>2 DEF SelectedPlume, GridExposed, FallsBack
<1>4. Scored(w, g).plume => Computes(w)
  BY <1>1, <1>2, <1>3
<1>5. ASSUME PlumeWindow(r) = w, AloneInItsSeconds(r), WindStays(r), SmokeReaches(g)
      PROVE  Exposed(w, PlumeModel, g)
  <2>1. Computed(r)
    BY DEF CarryInv
  <2> QED BY <1>5, <2>1 DEF Computed
<1>6. Exposed(w, PlumeModel, g) => SelectedPlume(w, g)
  <2>1. PlumeModel \in {"wind_v1", "wind_grid_v2"}
    BY DEF PlumeModel
  <2> QED BY <2>1 DEF SelectedPlume, GridExposed
<1> QED BY <1>1, <1>4, <1>5, <1>6

LEMMA WriteRiskKeeps ==
  ASSUME LedgerInv, ScriptInv, ScriptInv', CarryInv, env' = env, now' \in Nat,
         NEW r \in Runs, WriteRisk(r)
  PROVE  CarryInv'
<1>1. /\ stage[r] = "work" /\ Step(r) = "compute_risk" /\ stage' = [stage EXCEPT ![r] = "write"]
      /\ pos' = pos /\ done' = done /\ windows' = windows /\ plumes' = plumes
      /\ fires' = fires /\ matches' = matches
      /\ local' = [local EXCEPT ![r].rows =
                      {Scored(local[r].window, g) : g \in local[r].todo}]
  BY DEF WriteRisk, Goto, tables
<1>2. /\ local = [q \in Runs |-> local[q]] /\ DOMAIN local[r] = JobFields
      /\ Opened(r) /\ Matched(r)
      /\ windows \in [Runs -> [TransportSteps -> Windows]]
      /\ stage \in [Runs -> {"new", "gone"} \cup Underway]
  BY DEF CarryInv, LedgerInv
<1>3. /\ NewJob(r)
      /\ local'[r].rows = {Scored(local[r].window, g) : g \in local[r].todo}
  BY <1>1, <1>2 DEF NewJob, JobFields
<1>4. /\ stage'[r] = "write" /\ Step(r)' = Step(r) /\ Script' = Script
      /\ PlumeModel' = PlumeModel /\ RiskModel' = RiskModel
      /\ PlumeWindow(r)' = PlumeWindow(r)
      /\ \A q \in Runs \ {r} : stage'[q] = stage[q]
  BY <1>1, <1>2 DEF Step, Script, PlumeModel, RiskModel, Live, PlumeWindow
<1>5. Opened(r)' /\ Matching(r)' /\ Computing(r)'
  BY <1>1, <1>2, <1>4 DEF Opened, Matching, Computing, In
<1>6. Matched(r)'
  BY <1>1, <1>2, <1>4 DEF Matched
<1>7. Written(r)'
  <2> SUFFICES ASSUME NEW x \in local'[r].rows
               PROVE  /\ x.plume => Computes(x.key[1])'
                      /\ (/\ PlumeWindow(r)' = x.key[1]
                          /\ AloneInItsSeconds(r)' /\ WindStays(r)' /\ SmokeReaches(x.key[3])
                          /\ \/ RiskModel \in {"v4", "v5"}
                             \/ RiskModel = "v3" /\ PlumeModel = "wind_v1")
                         => x.plume
    BY <1>4 DEF Written, SmokeReaches
  <2>1. PICK g : x = Scored(local[r].window, g)
    BY <1>3
  <2>2. "compute_plume" \in done[r]
    BY <1>1, Behind DEF Underway
  <2>3. x.key[1] = local[r].window /\ x.key[3] = g
    <3>1. x.key = << local[r].window, RiskModel, g >>
      BY Zenon, <2>1, <2>2, ScoredCarries
    <3> QED BY <3>1
  <2>4. \A w : Computes(w) => Computes(w)'
    BY <1>1 DEF Computes, PlumeWindow
  <2>5. AloneInItsSeconds(r)' => AloneInItsSeconds(r)
    BY <1>1 DEF AloneInItsSeconds
  <2>6. WindStays(r)' => WindStays(r)
    <3>1. \A p \in Runs : stage'[p] = "new" => stage[p] = "new"
      BY <1>4
    <3> QED BY Zenon, <3>1, WindStaysBefore
  <2>7. x.plume => Computes(x.key[1])'
    BY Zenon, <2>1, <2>2, <2>3, <2>4, ScoredCarries
  <2>8. (/\ PlumeWindow(r) = x.key[1]
         /\ AloneInItsSeconds(r) /\ WindStays(r) /\ SmokeReaches(x.key[3])
         /\ RiskModel \in {"v4", "v5"} \/ (RiskModel = "v3" /\ PlumeModel = "wind_v1"))
        => x.plume
    BY Zenon, <2>1, <2>2, <2>3, ScoredCarries
  <2> QED BY <1>4, <2>5, <2>6, <2>7, <2>8
<1>8. /\ stage'[r] # "new" /\ done[r] \subseteq done'[r]
      /\ "compute_plume" \in done'[r] =>
            "compute_plume" \in done[r] /\ PlumeWindow(r)' = PlumeWindow(r)
      /\ "normalize" \in done'[r] => "normalize" \in done[r] \/ fires' = Fires
      /\ stage'[r] \in {"write", "flush"} => Step(r)' = "compute_risk"
      /\ fires' \in {fires, Fires} /\ windows' \in [Runs -> [TransportSteps -> Windows]]
      /\ \A s \in TransportSteps :
           windows[r][s] = NoWindow \/ windows'[r][s] = windows[r][s]
      /\ \A q \in Runs \ {r} : /\ stage'[q] = stage[q] /\ pos'[q] = pos[q]
                               /\ done'[q] = done[q] /\ windows'[q] = windows[q]
  BY <1>1, <1>2, <1>4
<1>9. plumes' = plumes
  BY <1>1
<1> QED BY Zenon, <1>3, <1>5, <1>6, <1>7, <1>8, <1>9, QuietKeep

LEMMA CarryStep ==
  ASSUME LedgerInv, ScriptInv, ScriptInv', CarryInv, [Next]_vars
  PROVE  CarryInv'
<1>1. env' = env
  BY StepKind
<1>2. now' \in Nat
  <2>1. now \in Nat /\ now' \in {now, now + 1}
    BY TableKind DEF CarryInv
  <2> QED BY <2>1
<1>3. CASE Rests
  BY Zenon, <1>1, <1>2, <1>3, RestsKeep
<1>4. ASSUME NEW r \in Runs, TableStep(r) PROVE CarryInv'
  BY Zenon, <1>1, <1>2, <1>4, PassesKeep, OpenKeeps, OpenPlumeKeeps, CommitMatchKeeps,
     CommitPlumeKeeps, ResolveKeeps, WriteRiskKeeps DEF TableStep
<1> QED BY <1>3, <1>4, TableKind

LEMMA CarryAlways == Spec => []CarryInv
  BY CarryInit, CarryStep, LedgerAlways, ScriptAlways, PTL DEF Spec

\* A score has a plume only if some cycle committed plumes of its second, and
\* it has its own cycle's if both jobs started in that second, no other
\* cycle's did, and none took its wind.
THEOREM CarriesWithin == Spec => []CarriesWithinTheSecond
<1>1. CarryInv => CarriesWithinTheSecond
  <2> SUFFICES ASSUME CarryInv, NEW r \in Runs, Step(r) = "compute_risk",
                      stage[r] = "write", NEW x \in local[r].rows
      PROVE  /\ x.plume => \E q \in Runs : /\ "compute_plume" \in done[q]
                                           /\ windows[q]["compute_plume"] = x.key[1]
             /\ (/\ windows[r]["compute_plume"] = x.key[1]
                 /\ AloneInItsSeconds(r) /\ WindStays(r) /\ SmokeReaches(x.key[3])
                 /\ \/ RiskModel \in {"v4", "v5"}
                    \/ RiskModel = "v3" /\ PlumeModel = "wind_v1")
                => x.plume
    BY Zenon DEF CarriesWithinTheSecond
  <2>1. Written(r) /\ In(r, "compute_risk", "write")
    BY DEF CarryInv, In
  <2> QED BY Zenon, <2>1 DEF Written, Computes, PlumeWindow
<1> QED BY <1>1, CarryAlways, PTL

-----------------------------------------------------------------------------
(* What a cycle computes before any other starts.                          *)

PlumeRow(w, f, g, v) == [key |-> << w, PlumeModel, f, g >>, wind |-> v]

Carried(f, g, v) == /\ v \in FoundWind(f, PlumeModel = "wind_grid_v2", env.fallback)
                    /\ << v, f, g >> \in Corridor

\* The plume rows of the fires P, with the wind that the cycle finds at them.
PlumesOf(w, P) ==
  {PlumeRow(w, p[1], p[2], p[3]) :
     p \in {q \in P \X Geos \X {"grid", "station"} : Carried(q[1], q[2], q[3])}}

DispersingOf(P) == {p \in Dispersing : p[1] \in P}

WindAt(f) == IF env.grid /\ f \in OnGrid THEN "grid" ELSE "station"

DispersionsOf(w, T) ==
  {[key |-> << w, p[1], p[2] >>, wind |-> WindAt(p[1])] : p \in T}

\* S has the dispersion rows of the fires P, up to the target limit.
Stored(S, w, P) ==
  LET D == DispersingOf(P) IN
  \E T \in SUBSET D :
    /\ S = DispersionsOf(w, T)
    /\ Cardinality(T) = IF Cardinality(D) <= MaxTargets THEN Cardinality(D) ELSE MaxTargets

Scores(w) == {Scored(w, g) : g \in Scorable(Fires)}

LoneMatches(r) == matches = IF "match_fire_weather" \in done[r] THEN OnGrid ELSE {}

LonePlumes(r) ==
  /\ "compute_plume" \notin done[r] => plumes = {}
  /\ In(r, "compute_plume", "work") =>
       /\ local[r].window = PlumeWindow(r) /\ local[r].todo \subseteq Fires
       /\ local[r].rows = PlumesOf(PlumeWindow(r), Fires \ local[r].todo)
  /\ "compute_plume" \in done[r] => plumes = PlumesOf(PlumeWindow(r), Fires)

DispersionWindow(r) == windows[r]["compute_dispersion"]

LoneDispersions(r) ==
  /\ "compute_dispersion" \notin done[r] => dispersions = {}
  /\ In(r, "compute_dispersion", "work") =>
       /\ local[r].window = DispersionWindow(r) /\ local[r].todo \subseteq Fires
       /\ Stored(local[r].rows, DispersionWindow(r), Fires \ local[r].todo)
  /\ "compute_dispersion" \in done[r] => Stored(dispersions, DispersionWindow(r), Fires)

RiskWindow(r) == windows[r]["compute_risk"]

\* The scores are those of the transport in the tables now: no job of the
\* cycle changes it once the risk job is open.
LoneRisks(r) ==
  /\ RiskWindow(r) = NoWindow => risks = {} /\ "compute_risk" \notin done[r]
  /\ In(r, "compute_risk", "work") =>
       /\ risks = {} /\ RiskWindow(r) # NoWindow
       /\ local[r].window = RiskWindow(r) /\ local[r].todo = Scorable(Fires)
  /\ In(r, "compute_risk", "write") =>
       /\ risks = {} /\ RiskWindow(r) # NoWindow
       /\ local[r].rows = Scores(RiskWindow(r))
  /\ In(r, "compute_risk", "flush") \/ "compute_risk" \in done[r] =>
       RiskWindow(r) # NoWindow /\ risks = Scores(RiskWindow(r))

LoneParts(r) == LoneMatches(r) /\ LonePlumes(r) /\ LoneDispersions(r) /\ LoneRisks(r)

LoneInv == \A r \in Runs : Undisturbed(r) => LoneParts(r)

-----------------------------------------------------------------------------

LEMMA ComputesAlike ==
  ASSUME env' = env
  PROVE  /\ PlumeModel' = PlumeModel /\ RiskModel' = RiskModel /\ Scorable(Fires)' = Scorable(Fires)
         /\ \A f, u, b : FoundWind(f, u, b)' = FoundWind(f, u, b)
         /\ Dispersing' = Dispersing
         /\ \A w, P : PlumesOf(w, P)' = PlumesOf(w, P)
         /\ \A S, w, P : Stored(S, w, P)' <=> Stored(S, w, P)
<1>1. PlumeModel' = PlumeModel /\ RiskModel' = RiskModel /\ env.fallback' = env.fallback
  BY DEF PlumeModel, RiskModel, Live
<1>2. Scorable(Fires)' = Scorable(Fires)
  BY <1>1 DEF Scorable, JoinedV1, HasActivityV2
<1>3. \A f, u, b : FoundWind(f, u, b)' = FoundWind(f, u, b)
  BY DEF FoundWind
<1>4. Dispersing' = Dispersing
  BY <1>3 DEF Dispersing
<1>5. \A w, P : PlumesOf(w, P)' = PlumesOf(w, P)
  BY <1>1, <1>3 DEF PlumesOf, PlumeRow, Carried
<1>6. \A P : DispersingOf(P)' = DispersingOf(P)
  BY <1>4 DEF DispersingOf
<1>7. \A w, T : DispersionsOf(w, T)' = DispersionsOf(w, T)
  BY DEF DispersionsOf, WindAt
<1>8. \A S, w, P : Stored(S, w, P)' <=> Stored(S, w, P)
  BY <1>6, <1>7 DEF Stored
<1> QED BY <1>1, <1>2, <1>3, <1>4, <1>5, <1>8

\* The transport that a score finds is that of the tables.
LEMMA ScoresAlike ==
  ASSUME env' = env, plumes' = plumes, dispersions' = dispersions
  PROVE  \A w : Scores(w)' = Scores(w)
<1>1. /\ PlumeModel' = PlumeModel /\ RiskModel' = RiskModel
      /\ Scorable(Fires)' = Scorable(Fires)
  BY ComputesAlike
<1>2. \A w, m, g : Exposed(w, m, g)' <=> Exposed(w, m, g)
  BY DEF Exposed
<1>3. \A w, g : /\ GridExposed(w, g)' <=> GridExposed(w, g)
                /\ FallsBack(w, g)' <=> FallsBack(w, g)
                /\ SelectedPlume(w, g)' <=> SelectedPlume(w, g)
  BY <1>1, <1>2 DEF GridExposed, FallsBack, SelectedPlume
<1>4. ASSUME NEW w, NEW g PROVE Scored(w, g)' = Scored(w, g)
  <2>1. /\ Exposed(w, "wind_v1", g)' = Exposed(w, "wind_v1", g)
        /\ SelectedPlume(w, g)' = SelectedPlume(w, g)
        /\ FallsBack(w, g)' = FallsBack(w, g)
    BY <1>2, <1>3 DEF Exposed, SelectedPlume, FallsBack
  <2>2. (\E x \in dispersions : x.key[1] = w /\ x.key[3] = g)'
          = (\E x \in dispersions : x.key[1] = w /\ x.key[3] = g)
    OBVIOUS
  <2> QED BY Zenon, <1>1, <2>1, <2>2 DEF Scored
<1> QED BY <1>1, <1>4 DEF Scores

\* The step of r does not concern its job j.
Elsewhere(r, j) ==
  /\ j \in TransportSteps => windows'[r][j] = windows[r][j]
  /\ j \in done'[r] <=> j \in done[r]
  /\ stage'[r] \in {"work", "write", "flush"} => Step(r)' # j

LEMMA MatchesKept ==
  ASSUME NEW r \in Runs, LoneMatches(r), matches' = matches,
         Elsewhere(r, "match_fire_weather")
  PROVE  LoneMatches(r)'
  BY DEF LoneMatches, Elsewhere

LEMMA PlumesKept ==
  ASSUME env' = env, NEW r \in Runs, LonePlumes(r), plumes' = plumes,
         Elsewhere(r, "compute_plume")
  PROVE  LonePlumes(r)'
<1>1. /\ PlumeWindow(r)' = PlumeWindow(r) /\ ~In(r, "compute_plume", "work")'
      /\ "compute_plume" \in done'[r] <=> "compute_plume" \in done[r]
  BY DEF Elsewhere, TransportSteps, PlumeWindow, In
<1>2. \A w, P : PlumesOf(w, P)' = PlumesOf(w, P)
  BY Zenon, ComputesAlike
<1> QED BY <1>1, <1>2 DEF LonePlumes

LEMMA DispersionsKept ==
  ASSUME env' = env, NEW r \in Runs, LoneDispersions(r), dispersions' = dispersions,
         Elsewhere(r, "compute_dispersion")
  PROVE  LoneDispersions(r)'
<1>1. /\ DispersionWindow(r)' = DispersionWindow(r) /\ ~In(r, "compute_dispersion", "work")'
      /\ "compute_dispersion" \in done'[r] <=> "compute_dispersion" \in done[r]
  BY DEF Elsewhere, TransportSteps, DispersionWindow, In
<1>2. \A S, w, P : Stored(S, w, P)' <=> Stored(S, w, P)
  BY Zenon, ComputesAlike
<1> QED BY <1>1, <1>2 DEF LoneDispersions

\* The scores stay right if the transport stays, or if there are none yet.
LEMMA RisksKept ==
  ASSUME env' = env, NEW r \in Runs, LoneRisks(r), risks' = risks,
         Elsewhere(r, "compute_risk"),
         \/ RiskWindow(r) = NoWindow
         \/ plumes' = plumes /\ dispersions' = dispersions
  PROVE  LoneRisks(r)'
<1>1. /\ RiskWindow(r)' = RiskWindow(r)
      /\ ~In(r, "compute_risk", "work")' /\ ~In(r, "compute_risk", "write")'
      /\ ~In(r, "compute_risk", "flush")'
      /\ "compute_risk" \in done'[r] <=> "compute_risk" \in done[r]
  BY DEF Elsewhere, TransportSteps, RiskWindow, In
<1>2. CASE RiskWindow(r) = NoWindow
  BY <1>1, <1>2 DEF LoneRisks
<1>3. CASE plumes' = plumes /\ dispersions' = dispersions
  <2>1. \A w : Scores(w)' = Scores(w)
    BY Zenon, <1>3, ScoresAlike
  <2> QED BY <1>1, <2>1 DEF LoneRisks
<1> QED BY <1>2, <1>3

\* The kinds of steps, as far as the four tables are concerned.
Jobs == {"match_fire_weather", "compute_plume", "compute_dispersion", "compute_risk"}

Unmoved == UNCHANGED << matches, plumes, dispersions, risks >>

LEMMA AllKept ==
  ASSUME env' = env, NEW r \in Runs, LoneParts(r), Unmoved,
         \A j \in Jobs : Elsewhere(r, j)
  PROVE  LoneParts(r)'
<1>1. /\ Elsewhere(r, "match_fire_weather") /\ Elsewhere(r, "compute_plume")
      /\ Elsewhere(r, "compute_dispersion") /\ Elsewhere(r, "compute_risk")
  BY DEF Jobs
<1>2. /\ LoneMatches(r) /\ LonePlumes(r) /\ LoneDispersions(r) /\ LoneRisks(r)
      /\ matches' = matches /\ plumes' = plumes /\ dispersions' = dispersions
      /\ risks' = risks
  BY DEF LoneParts, Unmoved
<1>3. LoneMatches(r)'
  BY Zenon, <1>1, <1>2, MatchesKept
<1>4. LonePlumes(r)'
  BY Zenon, <1>1, <1>2, PlumesKept
<1>5. LoneDispersions(r)'
  BY Zenon, <1>1, <1>2, DispersionsKept
<1>6. LoneRisks(r)'
  BY Zenon, <1>1, <1>2, RisksKept
<1> QED BY <1>3, <1>4, <1>5, <1>6 DEF LoneParts

Aside(r) == Unmoved /\ \A j \in Jobs : Elsewhere(r, j)

LEMMA ScriptStages ==
  ASSUME NEW r \in Runs,
         \/ Start(r) \/ RecordStart(r) \/ RecordOk(r) \/ RecordWarn(r)
         \/ FinishFailed(r) \/ Finish(r) \/ RecordFails(r) \/ JobFails(r) \/ Kill(r)
  PROVE  \E s \in {"begin", "open", "finish", "failing", "warn", "gone"} :
           stage' = [stage EXCEPT ![r] = s]
<1>1. CASE Start(r) \/ RecordOk(r)
  <2>1. Advance(r)
    BY <1>1 DEF Start, RecordOk
  <2> QED BY <2>1 DEF Advance
<1>2. CASE RecordWarn(r)
  <2>1. Advance(r) \/ stage' = [stage EXCEPT ![r] = "failing"]
    BY <1>2 DEF RecordWarn, Goto
  <2> QED BY <2>1 DEF Advance
<1>3. CASE \/ RecordStart(r) \/ FinishFailed(r) \/ Finish(r) \/ RecordFails(r)
           \/ JobFails(r) \/ Kill(r)
  BY <1>3 DEF RecordStart, FinishFailed, Finish, RecordFails, JobFails, Kill, Goto
<1> QED BY <1>1, <1>2, <1>3

LEMMA ScriptQuiet ==
  ASSUME LedgerInv, NEW r \in Runs,
         \/ Start(r) \/ RecordStart(r) \/ RecordOk(r) \/ RecordWarn(r)
         \/ FinishFailed(r) \/ Finish(r) \/ RecordFails(r) \/ JobFails(r) \/ Kill(r)
  PROVE  Aside(r) /\ stage'[r] # "new"
<1>1. UNCHANGED << windows, plumes, matches, dispersions, risks, done >>
  BY DEF Start, RecordStart, RecordOk, RecordWarn, FinishFailed, Finish, RecordFails,
         JobFails, Kill, tables
<1>2. stage'[r] \notin {"new", "work", "write", "flush"}
  BY ScriptStages DEF LedgerInv
<1> QED BY <1>1, <1>2 DEF Aside, Unmoved, Elsewhere

\* A job that ends concerns no other job.
LEMMA DoneElsewhere ==
  ASSUME LedgerInv, ScriptInv, ScriptInv', CarryInv, env' = env, NEW r \in Runs,
         JobDone(r), windows' = windows
  PROVE  /\ \A j : j # Step(r) => Elsewhere(r, j)
         /\ done'[r] = done[r] \cup {Step(r)}
         /\ stage'[r] \in {"begin", "open", "finish", "ok"}
<1>1. /\ done'[r] = done[r] \cup {Step(r)}
      /\ stage'[r] \in {"begin", "open", "finish", "ok"}
  BY JobDoneDoes
<1> QED BY <1>1 DEF Elsewhere

LEMMA JobQuiet ==
  ASSUME LedgerInv, ScriptInv, ScriptInv', CarryInv, env' = env, NEW r \in Runs,
         RunScript(r) \/ OpenCompare(r) \/ CommitCompare(r)
  PROVE  Aside(r) /\ stage'[r] # "new"
<1>1. Unmoved /\ windows' = windows /\ Step(r) \notin Jobs
  BY DEF RunScript, OpenCompare, CommitCompare, tables, Unmoved, Jobs, TransportSteps
<1>2. CASE JobDone(r)
  <2>1. /\ \A j : j # Step(r) => Elsewhere(r, j)
        /\ stage'[r] \in {"begin", "open", "finish", "ok"}
    BY <1>1, <1>2, DoneElsewhere
  <2> QED BY <1>1, <2>1 DEF Aside
<1>3. CASE ~JobDone(r)
  <2>1. /\ stage' = [stage EXCEPT ![r] = "work"] /\ pos' = pos /\ done' = done
    BY <1>3 DEF RunScript, OpenCompare, CommitCompare, Goto
  <2>2. Step(r)' = Step(r)
    BY <2>1 DEF Step, Script
  <2>3. stage'[r] = "work"
    BY <2>1 DEF LedgerInv
  <2> QED BY <1>1, <2>1, <2>2, <2>3 DEF Aside, Elsewhere
<1> QED BY <1>2, <1>3

\* The steps of the four jobs concern no other of them.
TableJob(r) ==
  \/ OpenMatch(r) \/ CommitMatch(r) \/ OpenPlume(r) \/ CommitPlume(r)
  \/ OpenDispersion(r) \/ CommitDispersion(r) \/ OpenRisk(r) \/ WriteRisk(r)
  \/ CommitRisk(r) \/ FlushRisk(r)
  \/ \E f \in local[r].todo : ResolvePlume(r, f) \/ ResolveDispersion(r, f)

LEMMA TableJobElsewhere ==
  ASSUME LedgerInv, ScriptInv, ScriptInv', CarryInv, env' = env, NEW r \in Runs,
         TableJob(r)
  PROVE  (\A j : j # Step(r) => Elsewhere(r, j)) /\ stage'[r] # "new"
<1>1. CASE OpenMatch(r) \/ OpenPlume(r) \/ OpenDispersion(r) \/ OpenRisk(r)
  <2>1. PICK hours \in {RiskHours, DispersionHours}, todo \in {fires, Scorable(fires)} :
          OpenJob(r, hours, todo)
    BY <1>1 DEF OpenMatch, OpenPlume, OpenDispersion, OpenRisk
  <2>2. now \in Nat
    BY DEF CarryInv
  <2>3. /\ stage'[r] = "work" /\ Step(r)' = Step(r) /\ done' = done
        /\ \A s \in TransportSteps : s # Step(r) => windows'[r][s] = windows[r][s]
    BY <2>1, <2>2, OpenJobDoes
  <2> QED BY <2>3 DEF Elsewhere
<1>2. CASE \/ CommitMatch(r) \/ CommitPlume(r) \/ CommitDispersion(r) \/ FlushRisk(r)
  <2>1. JobDone(r) /\ windows' = windows
    BY <1>2 DEF CommitMatch, CommitPlume, CommitDispersion, FlushRisk
  <2> QED BY <2>1, DoneElsewhere
<1>3. CASE \/ WriteRisk(r) \/ CommitRisk(r)
           \/ \E f \in local[r].todo : ResolvePlume(r, f) \/ ResolveDispersion(r, f)
  <2>1. /\ windows' = windows /\ done' = done /\ pos' = pos
        /\ \E s \in {"work", "write", "flush"} : stage' = [stage EXCEPT ![r] = s]
    BY <1>3 DEF WriteRisk, CommitRisk, ResolvePlume, ResolveDispersion, Goto
  <2>2. Step(r)' = Step(r)
    BY <2>1 DEF Step, Script
  <2>3. stage'[r] # "new"
    BY <2>1 DEF LedgerInv
  <2> QED BY <2>1, <2>2, <2>3 DEF Elsewhere
<1> QED BY <1>1, <1>2, <1>3 DEF TableJob

\* A step of the cycle is one of those, or leaves it all alone.
Idle == UNCHANGED << matches, plumes, dispersions, risks, windows, local, fires,
                     done, stage, pos >>

LEMMA LoneKind ==
  ASSUME LedgerInv, ScriptInv, ScriptInv', CarryInv, [Next]_vars
  PROVE  Idle \/ \E r \in Runs : stage'[r] # "new" /\ (Aside(r) \/ TableJob(r))
<1>0. env' = env
  BY StepKind
<1>1. CASE UNCHANGED vars \/ Tick
  BY <1>1 DEF vars, Tick, Idle, tables
<1>2. ASSUME NEW r \in Runs, RecordFails(r) \/ JobFails(r) \/ Kill(r)
      PROVE  Aside(r) /\ stage'[r] # "new"
  BY <1>2, ScriptQuiet
<1>3. ASSUME NEW r \in Runs, Progress(r)
      PROVE  Idle \/ (stage'[r] # "new" /\ (Aside(r) \/ TableJob(r)))
  <2>1. ASSUME NEW m \in queue[r], Deliver(r, m) PROVE Idle
    BY <2>1 DEF Deliver, Idle, tables
  <2>2. CASE \/ Start(r) \/ RecordStart(r) \/ RecordOk(r) \/ RecordWarn(r)
             \/ FinishFailed(r) \/ Finish(r)
    BY <2>2, ScriptQuiet
  <2>3. CASE RunScript(r) \/ OpenCompare(r) \/ CommitCompare(r)
    BY <1>0, <2>3, JobQuiet
  <2>4. CASE TableJob(r)
    BY <1>0, <2>4, TableJobElsewhere
  <2> QED BY <1>3, <2>1, <2>2, <2>3, <2>4 DEF Progress, TableJob
<1> QED BY <1>1, <1>2, <1>3 DEF Next

-----------------------------------------------------------------------------
(* The order of the jobs.                                                  *)

LEMMA JoinHasOnly ==
  ASSUME NEW a \in Seq(Names), NEW b \in Seq(Names), NEW n, Has(a \o b, n)
  PROVE  Has(a, n) \/ Has(b, n)
<1> DEFINE c == a \o b
<1>1. /\ Len(c) = Len(a) + Len(b)
      /\ \A i \in 1..(Len(a) + Len(b)) : c[i] = IF i <= Len(a) THEN a[i] ELSE b[i - Len(a)]
  BY ConcatProperties
<1>2. Len(a) \in Nat /\ Len(b) \in Nat
  BY LenProperties
<1>3. PICK i \in 1..Len(c) : c[i] = n
  BY DEF Has
<1> HIDE DEF c
<1>4. CASE i <= Len(a)
  <2>1. i \in 1..Len(a) /\ a[i] = n
    BY SMT, <1>1, <1>2, <1>3, <1>4
  <2> QED BY Zenon, <2>1 DEF Has
<1>5. CASE ~(i <= Len(a))
  <2>1. i - Len(a) \in 1..Len(b) /\ b[i - Len(a)] = n
    BY SMT, <1>1, <1>2, <1>3, <1>5
  <2> QED BY Zenon, <2>1 DEF Has
<1> QED BY <1>4, <1>5

\* Every script scores; only the fixture script disperses, and it matches only
\* with the grid.
LEMMA ScriptHasOnly ==
  ASSUME NEW e \in Environments
  PROVE  /\ Has(Scripts[e], "compute_risk")
         /\ Has(Scripts[e], "compute_dispersion") => e.mode # "live"
         /\ Has(Scripts[e], "match_fire_weather") => e.grid
<1>1. e \in EnvFields
  BY CycleInputs
<1>2. e.grid \in BOOLEAN /\ e.dispersion \in BOOLEAN
  BY <1>1 DEF EnvFields
<1>3. /\ Has(LiveSteps, "compute_risk")
      /\ ~Has(LiveSteps, "compute_dispersion") /\ ~Has(LiveSteps, "match_fire_weather")
  <2>1. /\ Len(LiveSteps) = 8
        /\ LiveSteps[1] = "ingest" /\ LiveSteps[2] = "normalize"
        /\ LiveSteps[3] = "compute_plume" /\ LiveSteps[4] = "compute_risk"
        /\ LiveSteps[5] = "collect_lag" /\ LiveSteps[6] = "quality_check"
        /\ LiveSteps[7] = "alerts_materialize" /\ LiveSteps[8] = "alerts_send"
    BY SMT DEF LiveSteps
  <2> QED BY SMT, <2>1 DEF Has
<1> DEFINE a == << "replay", "normalize" >>
           b == Optional(e.grid, GridSteps)
           c == << "compute_plume" >>
           d == Optional(e.dispersion, DispersionSteps)
           f == << "compute_risk", "collect_lag", "quality_check",
                   "alerts_materialize", "alerts_send" >>
<1>4. a \in Seq(Names) /\ c \in Seq(Names) /\ f \in Seq(Names)
  BY SMT DEF Names
<1>5. b \in Seq(Names) /\ d \in Seq(Names)
  <2>1. GridSteps \in Seq(Names) /\ DispersionSteps \in Seq(Names) /\ << >> \in Seq(Names)
    BY SMT DEF Names, GridSteps, DispersionSteps
  <2> QED BY <2>1 DEF Optional
<1>6. /\ ~Has(a, "match_fire_weather") /\ ~Has(c, "match_fire_weather")
      /\ ~Has(f, "match_fire_weather") /\ Has(f, "compute_risk")
  <2>1. /\ Len(a) = 2 /\ a[1] = "replay" /\ a[2] = "normalize"
        /\ Len(c) = 1 /\ c[1] = "compute_plume"
    OBVIOUS
  <2>2. /\ Len(f) = 5 /\ f[1] = "compute_risk" /\ f[2] = "collect_lag"
        /\ f[3] = "quality_check" /\ f[4] = "alerts_materialize" /\ f[5] = "alerts_send"
    OBVIOUS
  <2> QED BY SMT, <2>1, <2>2 DEF Has
<1>7. ~e.grid => ~Has(b, "match_fire_weather")
  <2>1. ~e.grid => b = << >>
    BY DEF Optional
  <2>2. ~Has(<< >>, "match_fire_weather")
    BY SMT DEF Has
  <2> QED BY <2>1, <2>2
<1>8. ~Has(d, "match_fire_weather")
  <2>1. /\ Len(DispersionSteps) = 2 /\ DispersionSteps[1] = "compute_dispersion"
        /\ DispersionSteps[2] = "compare_dispersion_aq"
    BY DEF DispersionSteps
  <2>2. ~Has(DispersionSteps, "match_fire_weather") /\ ~Has(<< >>, "match_fire_weather")
    BY SMT, <2>1 DEF Has
  <2> QED BY <2>2 DEF Optional
<1>9. FixtureSteps(e) = (((a \o b) \o c) \o d) \o f
  BY DEF FixtureSteps
<1> HIDE DEF a, b, c, d, f
<1>10. /\ a \o b \in Seq(Names) /\ (a \o b) \o c \in Seq(Names)
       /\ ((a \o b) \o c) \o d \in Seq(Names)
  BY <1>4, <1>5, ConcatProperties
<1>11. Has(FixtureSteps(e), "compute_risk")
  BY Zenon, <1>4, <1>6, <1>9, <1>10, JoinHas
<1>12. ~e.grid => ~Has(FixtureSteps(e), "match_fire_weather")
  <2> SUFFICES ASSUME ~e.grid PROVE ~Has(FixtureSteps(e), "match_fire_weather")
    OBVIOUS
  <2>1. ~Has(a \o b, "match_fire_weather")
    BY Zenon, <1>4, <1>5, <1>6, <1>7, JoinHasOnly
  <2>2. ~Has((a \o b) \o c, "match_fire_weather")
    BY Zenon, <1>4, <1>6, <1>10, <2>1, JoinHasOnly
  <2>3. ~Has(((a \o b) \o c) \o d, "match_fire_weather")
    BY Zenon, <1>5, <1>8, <1>10, <2>2, JoinHasOnly
  <2> QED BY Zenon, <1>4, <1>6, <1>9, <1>10, <2>3, JoinHasOnly
<1> QED BY <1>3, <1>11, <1>12 DEF Scripts

\* No job is done, and none has a window, ahead of the command.
LEMMA NotAhead ==
  ASSUME ScriptInv, CarryInv, NEW r \in Runs, stage[r] \in Underway, NEW a,
         a \in done[r] \/ (a \in TransportSteps /\ windows[r][a] # NoWindow)
  PROVE  Has(Script, a) /\ Rank(a) <= Rank(Step(r))
<1>1. /\ pos[r] \in 1..Len(Script) /\ Step(r) = Script[pos[r]]
      /\ pos[r] \in Nat /\ Len(Script) \in Nat
  BY InScript
<1>2. PICK i \in 1..pos[r] : a = Script[i]
  <2>1. At(stage[r], pos[r], done[r], steps[r]) /\ Opened(r)
    BY DEF ScriptInv, CarryInv
  <2>2. done[r] \subseteq {Script[i] : i \in 1..pos[r]}
    BY Zenon, <2>1 DEF At
  <2>3. \A s \in TransportSteps : windows[r][s] # NoWindow => s \in {Script[i] : i \in 1..pos[r]}
    BY Zenon, <2>1 DEF Opened
  <2> QED BY <2>2, <2>3
<1>3. i \in 1..Len(Script)
  BY SMT, <1>1
<1>4. Has(Script, a)
  BY <1>2, <1>3 DEF Has
<1>5. Rank(a) <= Rank(Step(r))
  <2>1. Ordered(Script, 1, 14)
    BY ScriptOrdered DEF ScriptInv, Script
  <2>2. i < pos[r] => Rank(a) < Rank(Step(r))
    BY Zenon, <1>1, <1>2, <1>3, <2>1 DEF Ordered
  <2>3. i = pos[r] => Rank(a) = Rank(Step(r))
    BY Zenon, <1>1, <1>2
  <2>4. Rank(a) \in Nat /\ Rank(Step(r)) \in Nat
    BY Zenon, RankIsNat
  <2> QED BY SMT, <1>1, <1>2, <2>2, <2>3, <2>4
<1> QED BY <1>4, <1>5

\* While the transport is computed, the risk job is not open yet.
LEMMA RiskNotYet ==
  ASSUME ScriptInv, CarryInv, NEW r \in Runs, stage[r] \in Underway,
         Step(r) \in {"compute_plume", "compute_dispersion"}
  PROVE  RiskWindow(r) = NoWindow
<1>1. /\ Rank("compute_plume") = 6 /\ Rank("compute_dispersion") = 7
      /\ Rank("compute_risk") = 9
  BY SMT DEF Rank
<1>2. ~(Rank("compute_risk") <= Rank(Step(r)))
  BY SMT, <1>1
<1>3. "compute_risk" \in TransportSteps
  BY DEF TransportSteps
<1> QED BY Zenon, <1>2, <1>3, NotAhead DEF RiskWindow

\* The jobs that precede the dispersion.
LEMMA BehindDispersion ==
  ASSUME ScriptInv, CarryInv, NEW r \in Runs, stage[r] \in Underway,
         Step(r) = "compute_dispersion"
  PROVE  /\ "normalize" \in done[r] /\ ~Live
         /\ "match_fire_weather" \in done[r] <=> env.grid
<1>1. env \in Environments /\ Script = Scripts[env]
  BY DEF ScriptInv, Script
<1>2. Has(Script, "normalize") /\ (~Live /\ env.grid => Has(Script, "match_fire_weather"))
  BY <1>1, ScriptHas DEF Live
<1>3. /\ Rank("normalize") < Rank("compute_dispersion")
      /\ Rank("match_fire_weather") < Rank("compute_dispersion")
  BY SMT DEF Rank
<1>4. Has(Script, "compute_dispersion")
  BY InScript DEF Has
<1>5. ~Live
  BY <1>1, <1>4, ScriptHasOnly DEF Live
<1>6. "normalize" \in done[r] /\ (env.grid => "match_fire_weather" \in done[r])
  BY Zenon, <1>2, <1>3, <1>5, Preceding
<1>7. "match_fire_weather" \in done[r] => env.grid
  BY <1>1, NotAhead, ScriptHasOnly
<1> QED BY <1>5, <1>6, <1>7

\* The matches are those that the cycle finds: so is the wind.
LEMMA LoneWind ==
  ASSUME ScriptInv, CarryInv, NEW r \in Runs, stage[r] \in Underway, LoneMatches(r), NEW f
  PROVE  /\ Step(r) = "compute_plume" =>
              Wind(f, PlumeModel = "wind_grid_v2", env.fallback)
                = FoundWind(f, PlumeModel = "wind_grid_v2", env.fallback)
         /\ Step(r) = "compute_dispersion" =>
              Wind(f, TRUE, TRUE) = FoundWind(f, TRUE, TRUE)
<1>1. ASSUME Step(r) = "compute_plume"
      PROVE  Wind(f, PlumeModel = "wind_grid_v2", env.fallback)
               = FoundWind(f, PlumeModel = "wind_grid_v2", env.fallback)
  <2>1. CASE PlumeModel = "wind_grid_v2"
    <3>1. matches = OnGrid
      BY <1>1, <2>1, Behind DEF LoneMatches
    <3>2. env.grid
      BY <2>1 DEF PlumeModel
    <3> QED BY <2>1, <3>1, <3>2 DEF Wind, FoundWind
  <2>2. CASE PlumeModel # "wind_grid_v2"
    BY <2>2 DEF Wind, FoundWind
  <2> QED BY <2>1, <2>2
<1>2. ASSUME Step(r) = "compute_dispersion"
      PROVE  Wind(f, TRUE, TRUE) = FoundWind(f, TRUE, TRUE)
  <2>1. matches = IF env.grid THEN OnGrid ELSE {}
    BY <1>2, BehindDispersion DEF LoneMatches
  <2> QED BY <2>1 DEF Wind, FoundWind
<1> QED BY <1>1, <1>2

-----------------------------------------------------------------------------
(* match_fire_weather and compute_plume_exposure.                          *)

LEMMA UpsertIntoNone == ASSUME NEW S PROVE Upsert({}, S) = S
  BY DEF Upsert

LEMMA LoneMatchStep ==
  ASSUME LedgerInv, ScriptInv, ScriptInv', CarryInv, env' = env, NEW r \in Runs,
         LoneParts(r), OpenMatch(r) \/ CommitMatch(r)
  PROVE  LoneParts(r)'
<1>1. /\ Step(r) = "match_fire_weather" /\ stage[r] \in {"open", "work"}
      /\ plumes' = plumes /\ dispersions' = dispersions /\ risks' = risks
  BY DEF OpenMatch, CommitMatch, OpenJob
<1>2. \A j : j # Step(r) => Elsewhere(r, j)
  BY TableJobElsewhere DEF TableJob
<1>3. LoneMatches(r) /\ LonePlumes(r) /\ LoneDispersions(r) /\ LoneRisks(r)
  BY DEF LoneParts
<1>4. matches = {} /\ "match_fire_weather" \notin done[r]
  <2>1. Step(r) \notin done[r]
    BY <1>1, InScript DEF Underway, JobStages
  <2> QED BY <1>1, <1>3, <2>1 DEF LoneMatches
<1>5. LoneMatches(r)'
  <2>1. CASE OpenMatch(r)
    <3>1. matches' = {} /\ done' = done
      BY <1>4, <2>1 DEF OpenMatch, OpenJob
    <3> QED BY <1>4, <3>1 DEF LoneMatches
  <2>2. CASE CommitMatch(r)
    <3>1. local[r].todo = Fires
      BY <2>2 DEF CommitMatch, CarryInv, Matching, In
    <3>2. matches' = OnGrid
      BY <1>4, <2>2, <3>1, CycleInputs DEF CommitMatch
    <3>3. done'[r] = done[r] \cup {Step(r)}
      <4>1. JobDone(r) /\ windows' = windows
        BY <2>2 DEF CommitMatch
      <4> QED BY <4>1, DoneElsewhere
    <3> QED BY <1>1, <3>2, <3>3 DEF LoneMatches
  <2> QED BY <2>1, <2>2
<1>6. LonePlumes(r)'
  BY <1>1, <1>2, <1>3, PlumesKept
<1>7. LoneDispersions(r)'
  BY <1>1, <1>2, <1>3, DispersionsKept
<1>8. LoneRisks(r)'
  BY <1>1, <1>2, <1>3, RisksKept
<1> QED BY <1>5, <1>6, <1>7, <1>8 DEF LoneParts

LEMMA FoundWindIs ==
  ASSUME NEW f, NEW u, NEW b
  PROVE  FoundWind(f, u, b) \subseteq {"grid", "station"}
  BY DEF FoundWind

\* x is a row of the fire f.
IsRowOf(x, w, f) == \E g \in Geos : \E v \in {"grid", "station"} :
                      Carried(f, g, v) /\ x = PlumeRow(w, f, g, v)

LEMMA PlumesOfIs ==
  ASSUME NEW w, NEW P, NEW x
  PROVE  x \in PlumesOf(w, P) <=> \E f \in P : IsRowOf(x, w, f)
<1> DEFINE Of == {p \in P \X Geos \X {"grid", "station"} : Carried(p[1], p[2], p[3])}
<1>1. PlumesOf(w, P) = {PlumeRow(w, p[1], p[2], p[3]) : p \in Of}
  BY DEF PlumesOf
<1>2. ASSUME NEW f \in P, NEW g \in Geos, NEW v \in {"grid", "station"},
             Carried(f, g, v), x = PlumeRow(w, f, g, v)
      PROVE  x \in PlumesOf(w, P)
  <2>1. << f, g, v >> \in Of
    BY <1>2
  <2>2. x = PlumeRow(w, << f, g, v >>[1], << f, g, v >>[2], << f, g, v >>[3])
    BY <1>2
  <2> HIDE DEF Of
  <2> QED BY <1>1, <2>1, <2>2
<1>3. ASSUME x \in PlumesOf(w, P)
      PROVE  \E f \in P : \E g \in Geos : \E v \in {"grid", "station"} :
               Carried(f, g, v) /\ x = PlumeRow(w, f, g, v)
  <2>1. PICK p \in Of : x = PlumeRow(w, p[1], p[2], p[3])
    <3> HIDE DEF Of
    <3> QED BY <1>1, <1>3
  <2>2. /\ p[1] \in P /\ p[2] \in Geos /\ p[3] \in {"grid", "station"}
        /\ Carried(p[1], p[2], p[3])
    OBVIOUS
  <2> HIDE DEF Of
  <2> QED BY <2>1, <2>2
<1> QED BY <1>2, <1>3 DEF IsRowOf

\* The rows that compute_plume makes of one fire.
PlumesAt(w, f, wind) ==
  {[key |-> << w, PlumeModel, f, p[2] >>, wind |-> p[1]] :
     p \in {q \in wind \X Geos : << q[1], f, q[2] >> \in Corridor}}

LEMMA PlumesAtIs ==
  ASSUME NEW w, NEW f, NEW x
  PROVE  x \in PlumesAt(w, f, FoundWind(f, PlumeModel = "wind_grid_v2", env.fallback)) <=>
           IsRowOf(x, w, f)
<1> DEFINE Fw == FoundWind(f, PlumeModel = "wind_grid_v2", env.fallback)
           Of == {q \in Fw \X Geos : << q[1], f, q[2] >> \in Corridor}
<1>1. PlumesAt(w, f, Fw) = {[key |-> << w, PlumeModel, f, p[2] >>, wind |-> p[1]] : p \in Of}
  BY DEF PlumesAt
<1>2. ASSUME NEW g \in Geos, NEW v, Carried(f, g, v), x = PlumeRow(w, f, g, v)
      PROVE  x \in PlumesAt(w, f, Fw)
  <2>1. << v, g >> \in Of
    BY <1>2 DEF Carried
  <2>2. x = [key |-> << w, PlumeModel, f, << v, g >>[2] >>, wind |-> << v, g >>[1]]
    BY <1>2 DEF PlumeRow
  <2> HIDE DEF Of
  <2> QED BY <1>1, <2>1, <2>2
<1>3. ASSUME x \in PlumesAt(w, f, Fw)
      PROVE  \E g \in Geos : \E v \in {"grid", "station"} :
               Carried(f, g, v) /\ x = PlumeRow(w, f, g, v)
  <2>1. PICK p \in Of : x = [key |-> << w, PlumeModel, f, p[2] >>, wind |-> p[1]]
    <3> HIDE DEF Of
    <3> QED BY <1>1, <1>3
  <2>2. p[1] \in Fw /\ p[2] \in Geos /\ << p[1], f, p[2] >> \in Corridor
    <3> HIDE DEF Fw
    <3> QED OBVIOUS
  <2>3. p[1] \in {"grid", "station"}
    BY <2>2, FoundWindIs
  <2>4. Carried(f, p[2], p[1]) /\ x = PlumeRow(w, f, p[2], p[1])
    BY <2>1, <2>2 DEF Carried, PlumeRow
  <2> QED BY <2>2, <2>3, <2>4
<1> QED BY <1>2, <1>3 DEF IsRowOf

\* One more fire.
LEMMA PlumesMore ==
  ASSUME NEW w, NEW P, NEW f
  PROVE  /\ PlumesOf(w, {}) = {}
         /\ PlumesOf(w, P \cup {f}) = PlumesOf(w, P) \cup
              PlumesAt(w, f, FoundWind(f, PlumeModel = "wind_grid_v2", env.fallback))
<1> DEFINE New == PlumesAt(w, f, FoundWind(f, PlumeModel = "wind_grid_v2", env.fallback))
<1>1. ASSUME NEW x PROVE x \in New <=> IsRowOf(x, w, f)
  BY PlumesAtIs
<1>2. ASSUME NEW x, NEW Q PROVE x \in PlumesOf(w, Q) <=> \E h \in Q : IsRowOf(x, w, h)
  BY PlumesOfIs
<1> HIDE DEF New
<1>3. PlumesOf(w, {}) = {}
  BY <1>2
<1>4. ASSUME NEW x PROVE x \in PlumesOf(w, P \cup {f}) <=> x \in PlumesOf(w, P) \/ x \in New
  BY <1>1, <1>2
<1>5. PlumesOf(w, P \cup {f}) = PlumesOf(w, P) \cup New
  BY <1>4
<1> QED BY <1>3, <1>5 DEF New

LEMMA LonePlumeStep ==
  ASSUME LedgerInv, ScriptInv, ScriptInv', CarryInv, env' = env, NEW r \in Runs,
         LoneParts(r),
         \/ OpenPlume(r) \/ CommitPlume(r) \/ \E f \in local[r].todo : ResolvePlume(r, f)
  PROVE  LoneParts(r)'
<1>1. /\ Step(r) = "compute_plume" /\ stage[r] \in {"open", "work"}
      /\ matches' = matches /\ dispersions' = dispersions /\ risks' = risks
  BY DEF OpenPlume, CommitPlume, ResolvePlume, OpenJob, tables
<1>2. \A j : j # Step(r) => Elsewhere(r, j)
  BY TableJobElsewhere DEF TableJob
<1>3. LoneMatches(r) /\ LonePlumes(r) /\ LoneDispersions(r) /\ LoneRisks(r)
  BY DEF LoneParts
<1>4. "compute_plume" \notin done[r] /\ plumes = {} /\ "normalize" \in done[r]
  <2>1. Step(r) \notin done[r] /\ "normalize" \in done[r]
    BY <1>1, InScript, Behind DEF Underway, JobStages
  <2> QED BY <1>1, <1>3, <2>1 DEF LonePlumes
<1>5. \A w, P : PlumesOf(w, P)' = PlumesOf(w, P)
  BY Zenon, ComputesAlike
<1>6. ASSUME In(r, "compute_plume", "work")
      PROVE  /\ local[r].window = PlumeWindow(r) /\ local[r].todo \subseteq Fires
             /\ local[r].rows = PlumesOf(PlumeWindow(r), Fires \ local[r].todo)
  BY <1>3, <1>6 DEF LonePlumes
<1>7. LonePlumes(r)'
  <2>1. CASE OpenPlume(r)
    <3>1. /\ done' = done /\ windows'[r]["compute_plume"] = Window(RiskHours)
          /\ local'[r] = [window |-> Window(RiskHours), todo |-> fires, rows |-> {}]
      <4>1. OpenJob(r, RiskHours, fires) /\ now \in Nat
        BY <2>1 DEF OpenPlume, CarryInv
      <4> QED BY <1>1, <4>1, OpenJobDoes DEF TransportSteps
    <3>2. plumes' = {}
      BY <1>4, <2>1 DEF OpenPlume
    <3>3. fires = Fires
      BY <1>4 DEF CarryInv
    <3>4. local'[r].rows = PlumesOf(PlumeWindow(r)', Fires \ local'[r].todo)
      <4>1. local'[r].rows = {} /\ Fires \ local'[r].todo = {}
        BY <3>1, <3>3
      <4> QED BY Zenon, <4>1, PlumesMore
    <3>5. local'[r].window = PlumeWindow(r)' /\ local'[r].todo \subseteq Fires
      BY <3>1, <3>3 DEF PlumeWindow
    <3> QED BY <1>4, <1>5, <3>1, <3>2, <3>4, <3>5 DEF LonePlumes
  <2>2. ASSUME NEW f \in local[r].todo, ResolvePlume(r, f)
        PROVE  LonePlumes(r)'
    <3> DEFINE New == PlumesAt(local[r].window, f, Wind(f, PlumeModel = "wind_grid_v2", env.fallback))
    <3>1. /\ stage[r] = "work" /\ done' = done /\ plumes' = plumes /\ windows' = windows
          /\ local' = [local EXCEPT ![r].todo = @ \ {f}, ![r].rows = @ \cup New]
      BY <2>2 DEF ResolvePlume, tables, PlumesAt
    <3> HIDE DEF New
    <3>2. /\ local'[r].window = local[r].window /\ local'[r].todo = local[r].todo \ {f}
          /\ local'[r].rows = local[r].rows \cup New
      <4>1. local = [q \in Runs |-> local[q]] /\ DOMAIN local[r] = JobFields
        BY DEF CarryInv
      <4> QED BY <3>1, <4>1 DEF JobFields
    <3>3. In(r, "compute_plume", "work")
      BY <1>1, <3>1 DEF In
    <3>4. New = PlumesAt(PlumeWindow(r), f,
                         FoundWind(f, PlumeModel = "wind_grid_v2", env.fallback))
      <4>1. Wind(f, PlumeModel = "wind_grid_v2", env.fallback)
              = FoundWind(f, PlumeModel = "wind_grid_v2", env.fallback)
        BY <1>1, <1>3, LoneWind DEF Underway
      <4> QED BY <1>6, <3>3, <4>1 DEF New
    <3>5. Fires \ local'[r].todo = (Fires \ local[r].todo) \cup {f}
      BY <1>6, <3>2, <3>3
    <3>6. local'[r].rows = PlumesOf(PlumeWindow(r), Fires \ local'[r].todo)
      <4>1. PlumesOf(PlumeWindow(r), (Fires \ local[r].todo) \cup {f})
              = PlumesOf(PlumeWindow(r), Fires \ local[r].todo) \cup New
        BY <3>4, PlumesMore
      <4>2. local'[r].rows = PlumesOf(PlumeWindow(r), Fires \ local[r].todo) \cup New
        BY <1>6, <3>2, <3>3
      <4> QED BY <3>5, <4>1, <4>2
    <3>7. PlumeWindow(r)' = PlumeWindow(r)
      BY <3>1 DEF PlumeWindow
    <3>8. local'[r].todo \subseteq Fires
      BY <1>6, <3>2, <3>3
    <3> QED BY <1>4, <1>5, <1>6, <3>1, <3>2, <3>3, <3>6, <3>7, <3>8 DEF LonePlumes
  <2>3. CASE CommitPlume(r)
    <3>1. JobDone(r) /\ windows' = windows /\ local[r].todo = {} /\ stage[r] = "work"
          /\ plumes' = local[r].rows
      BY <1>4, <2>3, UpsertIntoNone DEF CommitPlume
    <3>2. /\ done'[r] = done[r] \cup {Step(r)}
          /\ stage'[r] \in {"begin", "open", "finish", "ok"}
      BY <3>1, DoneElsewhere
    <3>3. plumes' = PlumesOf(PlumeWindow(r), Fires)
      <4>1. Fires \ local[r].todo = Fires
        BY <3>1
      <4> QED BY <1>1, <1>6, <3>1, <4>1 DEF In
    <3>4. PlumeWindow(r)' = PlumeWindow(r)
      BY <3>1 DEF PlumeWindow
    <3> QED BY <1>1, <1>5, <3>2, <3>3, <3>4 DEF LonePlumes, In
  <2> QED BY <2>1, <2>2, <2>3
<1>8. LoneMatches(r)'
  BY <1>1, <1>2, <1>3, MatchesKept
<1>9. LoneDispersions(r)'
  BY <1>1, <1>2, <1>3, DispersionsKept
<1>10. LoneRisks(r)'
  <2>1. RiskWindow(r) = NoWindow
    BY <1>1, RiskNotYet DEF Underway
  <2> QED BY <1>1, <1>2, <1>3, <2>1, RisksKept
<1> QED BY <1>7, <1>8, <1>9, <1>10 DEF LoneParts
-----------------------------------------------------------------------------
(* compute_smoke_risk.                                                     *)

LEMMA LoneRiskStep ==
  ASSUME LedgerInv, ScriptInv, ScriptInv', CarryInv, env' = env, NEW r \in Runs,
         LoneParts(r),
         OpenRisk(r) \/ WriteRisk(r) \/ CommitRisk(r) \/ FlushRisk(r)
  PROVE  LoneParts(r)'
<1>1. /\ Step(r) = "compute_risk" /\ stage[r] \in {"open", "work", "write", "flush"}
      /\ matches' = matches /\ plumes' = plumes /\ dispersions' = dispersions
  <2>1. stage[r] \in {"write", "flush"} => Step(r) = "compute_risk"
    BY DEF CarryInv
  <2> QED BY <2>1 DEF OpenRisk, WriteRisk, CommitRisk, FlushRisk, OpenJob, tables
<1>2. \A j : j # Step(r) => Elsewhere(r, j)
  BY TableJobElsewhere DEF TableJob
<1>3. LoneMatches(r) /\ LonePlumes(r) /\ LoneDispersions(r) /\ LoneRisks(r)
  BY DEF LoneParts
<1>4. "compute_risk" \notin done[r]
  BY <1>1, InScript DEF Underway, JobStages
<1>5. Scorable(Fires)' = Scorable(Fires) /\ \A w : Scores(w)' = Scores(w)
  <2>1. \A w : Scores(w)' = Scores(w)
    BY Zenon, <1>1, ScoresAlike
  <2>2. Scorable(Fires)' = Scorable(Fires)
    BY Zenon, ComputesAlike
  <2> QED BY <2>1, <2>2
<1>6. /\ local = [q \in Runs |-> local[q]] /\ DOMAIN local[r] = JobFields
      /\ stage \in [Runs -> {"new", "gone"} \cup Underway]
  BY DEF CarryInv, LedgerInv
<1>7. LoneRisks(r)'
  <2>1. CASE OpenRisk(r)
    <3>1. /\ done' = done /\ windows'[r]["compute_risk"] = Window(RiskHours)
          /\ local'[r] = [window |-> Window(RiskHours), todo |-> Scorable(Fires), rows |-> {}]
          /\ stage[r] = "open" /\ stage'[r] = "work"
      <4>1. OpenJob(r, RiskHours, Scorable(fires)) /\ now \in Nat
        BY <2>1 DEF OpenRisk, CarryInv
      <4>2. fires = Fires
        BY <1>1, Behind DEF Underway, CarryInv
      <4>3. OpenJob(r, RiskHours, Scorable(Fires))
        BY Zenon, <4>1, <4>2
      <4> QED BY <1>1, <4>1, <4>3, OpenJobDoes DEF TransportSteps
    <3>2. RiskWindow(r) = NoWindow
      <4>1. Opened(r) /\ Script[pos[r]] = "compute_risk"
        BY <1>1, <3>1, InScript DEF CarryInv, Underway
      <4> QED BY <3>1, <4>1 DEF Opened, TransportSteps, RiskWindow
    <3>3. risks' = {}
      BY <1>3, <2>1, <3>2 DEF LoneRisks, OpenRisk
    <3>4. RiskWindow(r)' # NoWindow /\ local'[r].window = RiskWindow(r)'
          /\ local'[r].todo = Scorable(Fires)'
      BY <1>5, <3>1, WindowIsNew DEF RiskWindow
    <3> QED BY <1>4, <3>1, <3>3, <3>4 DEF LoneRisks, In
  <2>2. CASE WriteRisk(r)
    <3> DEFINE rows == {Scored(local[r].window, g) : g \in local[r].todo}
    <3>1. /\ stage[r] = "work" /\ stage' = [stage EXCEPT ![r] = "write"]
          /\ done' = done /\ risks' = risks /\ windows' = windows
          /\ local' = [local EXCEPT ![r].rows = rows]
      BY <2>2 DEF WriteRisk, Goto, tables
    <3>2. /\ risks = {} /\ RiskWindow(r) # NoWindow
          /\ rows = Scores(RiskWindow(r))
      BY <1>1, <1>3, <3>1 DEF LoneRisks, In, Scores
    <3> HIDE DEF rows
    <3>3. local'[r].rows = rows /\ stage'[r] = "write"
      BY <1>6, <3>1 DEF JobFields
    <3>4. RiskWindow(r)' = RiskWindow(r)
      BY <3>1 DEF RiskWindow
    <3> QED BY <1>4, <1>5, <3>1, <3>2, <3>3, <3>4 DEF LoneRisks, In
  <2>3. CASE CommitRisk(r)
    <3>1. /\ stage[r] = "write" /\ stage' = [stage EXCEPT ![r] = "flush"]
          /\ done' = done /\ windows' = windows /\ risks' = Upsert(risks, local[r].rows)
      BY <2>3 DEF CommitRisk, Goto
    <3>2. /\ risks = {} /\ RiskWindow(r) # NoWindow
          /\ local[r].rows = Scores(RiskWindow(r))
      BY <1>1, <1>3, <3>1 DEF LoneRisks, In
    <3>3. risks' = Scores(RiskWindow(r))
      BY <3>1, <3>2, UpsertIntoNone
    <3>4. RiskWindow(r)' = RiskWindow(r) /\ stage'[r] = "flush"
      BY <1>6, <3>1 DEF RiskWindow
    <3> QED BY <1>4, <1>5, <3>1, <3>2, <3>3, <3>4 DEF LoneRisks, In
  <2>4. CASE FlushRisk(r)
    <3>1. /\ stage[r] = "flush" /\ JobDone(r) /\ windows' = windows /\ risks' = risks
      BY <2>4 DEF FlushRisk, tables
    <3>2. RiskWindow(r) # NoWindow /\ risks = Scores(RiskWindow(r))
      BY <1>1, <1>3, <3>1 DEF LoneRisks, In
    <3>3. stage'[r] \in {"begin", "open", "finish", "ok"}
      BY <3>1, DoneElsewhere
    <3>4. RiskWindow(r)' = RiskWindow(r)
      BY <3>1 DEF RiskWindow
    <3> QED BY <1>5, <3>1, <3>2, <3>3, <3>4 DEF LoneRisks, In
  <2> QED BY <2>1, <2>2, <2>3, <2>4
<1>8. LoneMatches(r)'
  BY <1>1, <1>2, <1>3, MatchesKept
<1>9. LonePlumes(r)'
  BY <1>1, <1>2, <1>3, PlumesKept
<1>10. LoneDispersions(r)'
  BY <1>1, <1>2, <1>3, DispersionsKept
<1> QED BY <1>7, <1>8, <1>9, <1>10 DEF LoneParts
-----------------------------------------------------------------------------
(* compute_dispersion_exposure.                                            *)

\* The geographies that the dispersed smoke of f reaches.
Targets(f) == {g \in Geos : /\ WindAt(f) \in FoundWind(f, TRUE, TRUE)
                            /\ << WindAt(f), f, g >> \in Downwind}

LEMMA FoundDispersionWind ==
  ASSUME NEW f
  PROVE  FoundWind(f, TRUE, TRUE) = {WindAt(f)} \/ FoundWind(f, TRUE, TRUE) = {}
  BY DEF FoundWind, WindAt

LEMMA DispersingIs ==
  ASSUME NEW p
  PROVE  p \in Dispersing <=> p \in Fires \X Geos /\ p[2] \in Targets(p[1])
<1>1. ASSUME NEW f, NEW g
      PROVE  (\E w \in FoundWind(f, TRUE, TRUE) : << w, f, g >> \in Downwind)
               <=> /\ WindAt(f) \in FoundWind(f, TRUE, TRUE)
                   /\ << WindAt(f), f, g >> \in Downwind
  <2>1. FoundWind(f, TRUE, TRUE) = {WindAt(f)} \/ FoundWind(f, TRUE, TRUE) = {}
    BY Zenon, FoundDispersionWind
  <2> QED BY <2>1
<1> QED BY <1>1 DEF Dispersing, Targets

LEMMA DispersingIsFinite ==
  ASSUME NEW P, NEW f
  PROVE  /\ IsFiniteSet(DispersingOf(P)) /\ IsFiniteSet(Targets(f))
         /\ Cardinality(DispersingOf(P)) \in Nat /\ Cardinality(Targets(f)) \in Nat
<1>1. IsFiniteSet(Fires) /\ IsFiniteSet(Geos)
  BY CycleInputs
<1>2. IsFiniteSet(Fires \X Geos)
  BY <1>1, FS_Product
<1>3. DispersingOf(P) \in SUBSET (Fires \X Geos) /\ Targets(f) \in SUBSET Geos
  BY DEF DispersingOf, Dispersing, Targets
<1>4. IsFiniteSet(DispersingOf(P)) /\ IsFiniteSet(Targets(f))
  BY <1>1, <1>2, <1>3, FS_Subset
<1> QED BY <1>4, FS_CardinalityType

\* One more fire.
LEMMA DispersingMore ==
  ASSUME NEW P, NEW f \in Fires, f \notin P
  PROVE  /\ DispersingOf({}) = {}
         /\ DispersingOf(P \cup {f}) = DispersingOf(P) \cup ({f} \X Targets(f))
         /\ DispersingOf(P) \cap ({f} \X Targets(f)) = {}
<1>1. ASSUME NEW p
      PROVE  p \in DispersingOf(P \cup {f}) <=>
               p \in DispersingOf(P) \/ p \in {f} \X Targets(f)
  <2>1. ASSUME p \in Dispersing, p[1] = f PROVE p \in {f} \X Targets(f)
    BY <2>1, DispersingIs
  <2>2. ASSUME p \in {f} \X Targets(f) PROVE p \in Dispersing /\ p[1] = f
    <3>1. p \in Fires \X Geos /\ p[1] = f /\ p[2] \in Targets(f)
      BY <2>2 DEF Targets
    <3> QED BY <3>1, DispersingIs
  <2> QED BY <2>1, <2>2 DEF DispersingOf
<1>2. DispersingOf({}) = {}
  BY DEF DispersingOf
<1>3. DispersingOf(P \cup {f}) = DispersingOf(P) \cup ({f} \X Targets(f))
  BY <1>1
<1>4. DispersingOf(P) \cap ({f} \X Targets(f)) = {}
  BY DEF DispersingOf
<1> QED BY <1>2, <1>3, <1>4

\* The rows of one fire.
DispersionRows(w, f, v, T) == {[key |-> << w, f, g >>, wind |-> v] : g \in T}

\* There are as many rows as pairs.
LEMMA RowsOfPairs ==
  ASSUME NEW w, NEW T, IsFiniteSet(T), T \subseteq Fires \X Geos
  PROVE  IsFiniteSet(DispersionsOf(w, T)) /\ Cardinality(DispersionsOf(w, T)) = Cardinality(T)
<1> DEFINE Row(p) == [key |-> << w, p[1], p[2] >>, wind |-> WindAt(p[1])]
           rows == [p \in T |-> Row(p)]
<1>1. ASSUME NEW p \in T, NEW q \in T, Row(p) = Row(q) PROVE p = q
  <2>1. Row(p).key = Row(q).key
    BY <1>1
  <2>2. p[1] = q[1] /\ p[2] = q[2]
    BY <2>1
  <2> QED BY <2>2
<1>2. DispersionsOf(w, T) = {Row(p) : p \in T}
  BY DEF DispersionsOf
<1> HIDE DEF Row
<1>3. rows \in [T -> DispersionsOf(w, T)]
  BY <1>2
<1>4. rows \in Injection(T, DispersionsOf(w, T))
  BY <1>1, <1>3 DEF Injection, IsInjective
<1>5. rows \in Surjection(T, DispersionsOf(w, T))
  BY <1>2, <1>3 DEF Surjection
<1>6. ExistsBijection(T, DispersionsOf(w, T))
  BY <1>4, <1>5 DEF ExistsBijection, Bijection
<1> QED BY <1>6, FS_Bijection

\* The rows of one more fire, as many as there is room for.
LEMMA StoredMore ==
  ASSUME NEW w, NEW S, NEW P, NEW f \in Fires, f \notin P, Stored(S, w, P),
         NEW T \in SUBSET Targets(f), NEW room, room = MaxTargets - Cardinality(S),
         Cardinality(T) = IF Cardinality(Targets(f)) < room
                          THEN Cardinality(Targets(f)) ELSE room
  PROVE  Stored(S \cup DispersionRows(w, f, WindAt(f), T), w, P \cup {f})
<1> DEFINE D == DispersingOf(P)
           E == DispersingOf(P \cup {f})
           n == Cardinality(D)
           k == Cardinality(Targets(f))
<1>1. PICK T0 \in SUBSET D :
        /\ S = DispersionsOf(w, T0)
        /\ Cardinality(T0) = IF n <= MaxTargets THEN n ELSE MaxTargets
  BY DEF Stored
<1> DEFINE T1 == T0 \cup ({f} \X T)
<1>2. /\ IsFiniteSet(D) /\ IsFiniteSet(Targets(f)) /\ n \in Nat /\ k \in Nat
      /\ MaxTargets \in Nat
  BY DispersingIsFinite, CycleInputs
<1>3. /\ E = D \cup ({f} \X Targets(f)) /\ D \cap ({f} \X Targets(f)) = {}
  BY DispersingMore
<1>4. /\ IsFiniteSet(T0) /\ IsFiniteSet(T)
      /\ Cardinality(T0) \in Nat /\ Cardinality(T) \in Nat
  <2>1. IsFiniteSet(T0) /\ IsFiniteSet(T)
    BY <1>1, <1>2, FS_Subset
  <2> QED BY <2>1, FS_CardinalityType
<1>5. ASSUME NEW X, IsFiniteSet(X)
      PROVE  IsFiniteSet({f} \X X) /\ Cardinality({f} \X X) = Cardinality(X)
  <2>1. IsFiniteSet({f}) /\ Cardinality({f}) = 1 /\ Cardinality(X) \in Nat
    BY <1>5, FS_Singleton, FS_CardinalityType
  <2>2. /\ IsFiniteSet({f} \X X)
        /\ Cardinality({f} \X X) = Cardinality({f}) * Cardinality(X)
    BY <1>5, <2>1, FS_Product
  <2> QED BY <2>1, <2>2
<1>6. ASSUME NEW X, NEW Y, IsFiniteSet(X), IsFiniteSet(Y), X \cap Y = {}
      PROVE  IsFiniteSet(X \cup Y) /\ Cardinality(X \cup Y) = Cardinality(X) + Cardinality(Y)
  <2>1. /\ IsFiniteSet(X \cup Y)
        /\ Cardinality(X \cup Y) = Cardinality(X) + Cardinality(Y) - Cardinality(X \cap Y)
    BY <1>6, FS_Union
  <2>2. Cardinality(X \cap Y) = 0 /\ Cardinality(X) \in Nat /\ Cardinality(Y) \in Nat
    BY <1>6, FS_EmptySet, FS_CardinalityType
  <2> QED BY <2>1, <2>2
<1>7. Cardinality(E) = n + k
  <2>1. IsFiniteSet({f} \X Targets(f)) /\ Cardinality({f} \X Targets(f)) = k
    BY <1>2, <1>5
  <2> QED BY <1>2, <1>3, <1>6, <2>1
<1>8. T1 \subseteq E /\ T0 \cap ({f} \X T) = {}
  BY <1>1, <1>3
<1>9. Cardinality(T1) = Cardinality(T0) + Cardinality(T)
  <2>1. IsFiniteSet({f} \X T) /\ Cardinality({f} \X T) = Cardinality(T)
    BY <1>4, <1>5
  <2> QED BY <1>4, <1>6, <1>8, <2>1
<1>10. Cardinality(S) = Cardinality(T0)
  <2>1. T0 \subseteq Fires \X Geos
    BY <1>1 DEF DispersingOf, Dispersing
  <2> QED BY <1>1, <1>4, <2>1, RowsOfPairs
<1>11. Cardinality(T1) = IF Cardinality(E) <= MaxTargets THEN Cardinality(E) ELSE MaxTargets
  <2> HIDE DEF D, E, n, k, T1
  <2> QED BY <1>1, <1>2, <1>4, <1>7, <1>9, <1>10 DEF k
<1>12. S \cup DispersionRows(w, f, WindAt(f), T) = DispersionsOf(w, T1)
  <2>1. DispersionsOf(w, T1) = DispersionsOf(w, T0) \cup DispersionsOf(w, {f} \X T)
    BY DEF DispersionsOf
  <2>2. DispersionsOf(w, {f} \X T) = DispersionRows(w, f, WindAt(f), T)
    <3>1. ASSUME NEW g \in T
          PROVE  [key |-> << w, f, g >>, wind |-> WindAt(f)] \in DispersionsOf(w, {f} \X T)
      <4>1. << f, g >> \in {f} \X T /\ << f, g >>[1] = f /\ << f, g >>[2] = g
        OBVIOUS
      <4> QED BY <4>1 DEF DispersionsOf
    <3>2. ASSUME NEW x \in DispersionsOf(w, {f} \X T)
          PROVE  x \in {[key |-> << w, f, g >>, wind |-> WindAt(f)] : g \in T}
      BY DEF DispersionsOf
    <3> QED BY <3>1, <3>2 DEF DispersionRows
  <2> QED BY <1>1, <2>1, <2>2
<1> QED BY <1>8, <1>11, <1>12 DEF Stored

\* The wind and the targets of the action are those that the cycle finds.
Downwinds(f, w) == {g \in Geos : w \in Wind(f, TRUE, TRUE) /\ << w, f, g >> \in Downwind}

LEMMA ResolvedTargets ==
  ASSUME NEW f, Wind(f, TRUE, TRUE) = FoundWind(f, TRUE, TRUE), NEW w, NEW T,
         T \subseteq Downwinds(f, w), Wind(f, TRUE, TRUE) \in {{w}, {}}
  PROVE  /\ Downwinds(f, w) = Targets(f)
         /\ \A win : DispersionRows(win, f, w, T) = DispersionRows(win, f, WindAt(f), T)
<1> DEFINE W == Wind(f, TRUE, TRUE)
           F == FoundWind(f, TRUE, TRUE)
<1>1. W = F /\ (W = {w} \/ W = {}) /\ (F = {WindAt(f)} \/ F = {})
  <2>1. F = {WindAt(f)} \/ F = {}
    BY Zenon, FoundDispersionWind
  <2>2. ASSUME NEW V, V \in {{w}, {}} PROVE V = {w} \/ V = {}
    BY <2>2
  <2>3. W = {w} \/ W = {}
    BY Zenon, <2>2
  <2> QED BY Zenon, <2>1, <2>3
<1>2. Targets(f) = {g \in Geos : WindAt(f) \in F /\ << WindAt(f), f, g >> \in Downwind}
  BY DEF Targets
<1>3. Downwinds(f, w) = {g \in Geos : w \in W /\ << w, f, g >> \in Downwind}
  BY DEF Downwinds
<1> HIDE DEF W, F
<1>4. CASE W = {}
  <2>1. Downwinds(f, w) = {} /\ Targets(f) = {}
    BY <1>1, <1>2, <1>3, <1>4
  <2>2. T = {}
    BY <2>1
  <2> QED BY <2>1, <2>2 DEF DispersionRows
<1>5. CASE W = {w}
  <2>1. w = WindAt(f)
    BY <1>1, <1>5
  <2>2. Downwinds(f, w) = Targets(f)
    BY <1>1, <1>2, <1>3, <2>1
  <2> QED BY <2>1, <2>2
<1> QED BY <1>1, <1>4, <1>5

LEMMA StoredNone == ASSUME NEW w PROVE Stored({}, w, {})
<1>1. DispersingOf({}) = {} /\ Cardinality({}) = 0 /\ MaxTargets \in Nat
  BY FS_EmptySet, CycleInputs DEF DispersingOf
<1>2. DispersionsOf(w, {}) = {}
  BY DEF DispersionsOf
<1> QED BY <1>1, <1>2 DEF Stored

LEMMA LoneDispersionStep ==
  ASSUME LedgerInv, ScriptInv, ScriptInv', CarryInv, env' = env, NEW r \in Runs,
         LoneParts(r),
         \/ OpenDispersion(r) \/ CommitDispersion(r)
         \/ \E f \in local[r].todo : ResolveDispersion(r, f)
  PROVE  LoneParts(r)'
<1>1. /\ Step(r) = "compute_dispersion" /\ stage[r] \in {"open", "work"}
      /\ matches' = matches /\ plumes' = plumes /\ risks' = risks
  BY DEF OpenDispersion, CommitDispersion, ResolveDispersion, OpenJob, tables
<1>2. \A j : j # Step(r) => Elsewhere(r, j)
  BY TableJobElsewhere DEF TableJob
<1>3. LoneMatches(r) /\ LonePlumes(r) /\ LoneDispersions(r) /\ LoneRisks(r)
  BY DEF LoneParts
<1>4. /\ "compute_dispersion" \notin done[r] /\ dispersions = {}
      /\ "normalize" \in done[r]
  <2>1. Step(r) \notin done[r] /\ "normalize" \in done[r]
    BY <1>1, InScript, BehindDispersion DEF Underway, JobStages
  <2> QED BY <1>1, <1>3, <2>1 DEF LoneDispersions
<1>5. \A S, w, P : Stored(S, w, P)' <=> Stored(S, w, P)
  BY Zenon, ComputesAlike
<1>6. ASSUME In(r, "compute_dispersion", "work")
      PROVE  /\ local[r].window = DispersionWindow(r) /\ local[r].todo \subseteq Fires
             /\ Stored(local[r].rows, DispersionWindow(r), Fires \ local[r].todo)
  BY <1>3, <1>6 DEF LoneDispersions
<1>7. LoneDispersions(r)'
  <2>1. CASE OpenDispersion(r)
    <3>1. /\ done' = done
          /\ windows'[r]["compute_dispersion"] = Window(DispersionHours)
          /\ local'[r] = [window |-> Window(DispersionHours), todo |-> fires, rows |-> {}]
      <4>1. OpenJob(r, DispersionHours, fires) /\ now \in Nat
        BY <2>1 DEF OpenDispersion, CarryInv
      <4> QED BY <1>1, <4>1, OpenJobDoes DEF TransportSteps
    <3>2. dispersions' = {}
      BY <1>4, <2>1 DEF OpenDispersion
    <3>3. fires = Fires
      BY <1>4 DEF CarryInv
    <3>4. Stored(local'[r].rows, DispersionWindow(r)', Fires \ local'[r].todo)
      <4>1. local'[r].rows = {} /\ Fires \ local'[r].todo = {}
        BY <3>1, <3>3
      <4> QED BY <4>1, StoredNone
    <3>5. local'[r].window = DispersionWindow(r)' /\ local'[r].todo \subseteq Fires
      BY <3>1, <3>3 DEF DispersionWindow
    <3> QED BY <1>4, <1>5, <3>1, <3>2, <3>4, <3>5 DEF LoneDispersions
  <2>2. ASSUME NEW f \in local[r].todo, ResolveDispersion(r, f)
        PROVE  LoneDispersions(r)'
    <3> DEFINE room == MaxTargets - Cardinality(local[r].rows)
    <3>1. PICK w \in {"grid", "station"}, T \in SUBSET Geos :
            /\ Wind(f, TRUE, TRUE) \in {{w}, {}} /\ T \subseteq Downwinds(f, w)
            /\ Cardinality(T) = IF Cardinality(Downwinds(f, w)) < room
                                THEN Cardinality(Downwinds(f, w)) ELSE room
            /\ local' = [local EXCEPT ![r].todo = @ \ {f},
                           ![r].rows = @ \cup DispersionRows(local[r].window, f, w, T)]
      BY <2>2 DEF ResolveDispersion, Downwinds, DispersionRows
    <3> DEFINE N == DispersionRows(local[r].window, f, w, T)
    <3> HIDE DEF N
    <3>2. /\ stage[r] = "work" /\ done' = done /\ dispersions' = dispersions
          /\ windows' = windows
      BY <2>2 DEF ResolveDispersion, tables
    <3>3. In(r, "compute_dispersion", "work")
      BY <1>1, <3>2 DEF In
    <3>4. /\ Downwinds(f, w) = Targets(f)
          /\ N = DispersionRows(local[r].window, f, WindAt(f), T)
      <4>1. Wind(f, TRUE, TRUE) = FoundWind(f, TRUE, TRUE)
        BY <1>1, <1>3, LoneWind DEF Underway
      <4> QED BY <3>1, <4>1, ResolvedTargets DEF N
    <3>5. /\ local'[r].window = local[r].window /\ local'[r].todo = local[r].todo \ {f}
          /\ local'[r].rows = local[r].rows \cup N
      <4>1. local = [q \in Runs |-> local[q]] /\ DOMAIN local[r] = JobFields
        BY DEF CarryInv
      <4> QED BY <3>1, <4>1 DEF JobFields, N
    <3>6. /\ f \in Fires /\ f \notin Fires \ local[r].todo
          /\ Fires \ local'[r].todo = (Fires \ local[r].todo) \cup {f}
      BY <1>6, <3>3, <3>5
    <3>7. Stored(local[r].rows \cup N, DispersionWindow(r), (Fires \ local[r].todo) \cup {f})
      <4>1. N = DispersionRows(DispersionWindow(r), f, WindAt(f), T)
        BY <1>6, <3>3, <3>4
      <4>2. /\ T \in SUBSET Targets(f)
            /\ Cardinality(T) = IF Cardinality(Targets(f)) < room
                                THEN Cardinality(Targets(f)) ELSE room
        BY <3>1, <3>4
      <4>3. Stored(local[r].rows, DispersionWindow(r), Fires \ local[r].todo)
        BY <1>6, <3>3
      <4> QED BY <3>6, <4>1, <4>2, <4>3, StoredMore
    <3>8. Stored(local'[r].rows, DispersionWindow(r), Fires \ local'[r].todo)
      BY <3>5, <3>6, <3>7
    <3>9. DispersionWindow(r)' = DispersionWindow(r)
      BY <3>2 DEF DispersionWindow
    <3>10. local'[r].todo \subseteq Fires
      BY <1>6, <3>3, <3>5
    <3> QED BY <1>4, <1>5, <1>6, <3>2, <3>3, <3>5, <3>8, <3>9, <3>10 DEF LoneDispersions
  <2>3. CASE CommitDispersion(r)
    <3>1. JobDone(r) /\ windows' = windows /\ local[r].todo = {} /\ stage[r] = "work"
          /\ dispersions' = local[r].rows
      BY <1>4, <2>3, UpsertIntoNone DEF CommitDispersion
    <3>2. /\ done'[r] = done[r] \cup {Step(r)}
          /\ stage'[r] \in {"begin", "open", "finish", "ok"}
      BY <3>1, DoneElsewhere
    <3>3. Stored(dispersions', DispersionWindow(r), Fires)
      <4>1. Fires \ local[r].todo = Fires
        BY <3>1
      <4> QED BY <1>1, <1>6, <3>1, <4>1 DEF In
    <3>4. DispersionWindow(r)' = DispersionWindow(r)
      BY <3>1 DEF DispersionWindow
    <3> QED BY <1>1, <1>5, <3>2, <3>3, <3>4 DEF LoneDispersions, In
  <2> QED BY <2>1, <2>2, <2>3
<1>8. LoneMatches(r)'
  BY <1>1, <1>2, <1>3, MatchesKept
<1>9. LonePlumes(r)'
  BY <1>1, <1>2, <1>3, PlumesKept
<1>10. LoneRisks(r)'
  <2>1. RiskWindow(r) = NoWindow
    BY <1>1, RiskNotYet DEF Underway
  <2> QED BY <1>1, <1>2, <1>3, <2>1, RisksKept
<1> QED BY <1>7, <1>8, <1>9, <1>10 DEF LoneParts
-----------------------------------------------------------------------------

LEMMA LoneInit == ASSUME Init PROVE LoneInv
<1> SUFFICES ASSUME NEW r \in Runs PROVE LoneParts(r)
  BY DEF LoneInv
<1>1. /\ stage[r] = "new" /\ done[r] = {} /\ RiskWindow(r) = NoWindow
      /\ matches = {} /\ plumes = {} /\ dispersions = {} /\ risks = {}
  BY DEF Init, RiskWindow, TransportSteps
<1> QED BY <1>1 DEF LoneParts, LoneMatches, LonePlumes, LoneDispersions, LoneRisks, In

\* A cycle that has started stays so.
LEMMA NeverNewAgain ==
  ASSUME LedgerInv, [Next]_vars, NEW q \in Runs, stage'[q] = "new"
  PROVE  stage[q] = "new"
<1>1. CASE stage' = stage
  BY <1>1
<1>2. ASSUME NEW r \in Runs, NEW s \in Underway \cup {"gone"}, stage' = [stage EXCEPT ![r] = s]
      PROVE  stage[q] = "new"
  <2>1. s # "new"
    BY DEF Underway
  <2> QED BY <1>2, <2>1 DEF LedgerInv
<1>3. ASSUME NEW r \in Runs, Effect(r)
      PROVE  \/ stage' = stage
             \/ \E s \in Underway \cup {"gone"} : stage' = [stage EXCEPT ![r] = s]
  BY <1>3 DEF Effect, GoesOn, Opens, Closes, Breaks
<1> QED BY <1>1, <1>2, <1>3, StepEffect

LEMMA LoneStep ==
  ASSUME LedgerInv, ScriptInv, ScriptInv', CarryInv, LoneInv, [Next]_vars
  PROVE  LoneInv'
<1> SUFFICES ASSUME NEW r \in Runs, Undisturbed(r)' PROVE LoneParts(r)'
  BY DEF LoneInv
<1>0. env' = env
  BY StepKind
<1>1. LoneParts(r)
  <2>1. Undisturbed(r)
    BY NeverNewAgain DEF Undisturbed
  <2> QED BY <2>1 DEF LoneInv
<1>2. CASE Idle
  <2>1. Step(r)' = Step(r)
    BY <1>0, <1>2 DEF Idle, Step, Script
  <2>2. LonePlumes(r)'
    <3>1. \A w, P : PlumesOf(w, P)' = PlumesOf(w, P)
      BY Zenon, <1>0, ComputesAlike
    <3> QED BY <1>1, <1>2, <2>1, <3>1 DEF Idle, LoneParts, LonePlumes, PlumeWindow, In
  <2>3. LoneDispersions(r)'
    <3>1. \A S, w, P : Stored(S, w, P)' <=> Stored(S, w, P)
      BY Zenon, <1>0, ComputesAlike
    <3> QED BY <1>1, <1>2, <2>1, <3>1 DEF Idle, LoneParts, LoneDispersions, DispersionWindow, In
  <2>4. LoneRisks(r)'
    <3>1. Scorable(Fires)' = Scorable(Fires)
      BY Zenon, <1>0, ComputesAlike
    <3>2. plumes' = plumes /\ dispersions' = dispersions
      BY <1>2 DEF Idle
    <3>3. \A w : Scores(w)' = Scores(w)
      BY Zenon, <1>0, <3>2, ScoresAlike
    <3> QED BY <1>1, <1>2, <2>1, <3>1, <3>3 DEF Idle, LoneParts, LoneRisks, RiskWindow, In
  <2>5. LoneMatches(r)'
    BY <1>1, <1>2 DEF Idle, LoneParts, LoneMatches
  <2> QED BY <2>2, <2>3, <2>4, <2>5 DEF LoneParts
<1>3. ASSUME NEW q \in Runs, stage'[q] # "new", Aside(q) \/ TableJob(q)
      PROVE  LoneParts(r)'
  <2>1. q = r
    BY <1>3 DEF Undisturbed
  <2>2. CASE Aside(r)
    BY <1>0, <1>1, <2>2, AllKept DEF Aside
  <2>3. CASE TableJob(r)
    BY Zenon, <1>0, <1>1, <2>3, LoneMatchStep, LonePlumeStep, LoneDispersionStep,
       LoneRiskStep DEF TableJob
  <2> QED BY <1>3, <2>1, <2>2, <2>3
<1> QED BY <1>2, <1>3, LoneKind

LEMMA LoneAlways == Spec => []LoneInv
  BY LoneInit, LoneStep, LedgerAlways, ScriptAlways, CarryAlways, PTL DEF Spec

\* What the tables of a lone cycle say of its transport.
LEMMA ExposedIs ==
  ASSUME NEW v, NEW w, NEW m, NEW g \in Geos, plumes = PlumesOf(v, Fires)
  PROVE  Exposed(w, m, g) <=>
           /\ w = v /\ m = PlumeModel
           /\ Transported(g, Corridor, PlumeModel = "wind_grid_v2", env.fallback)
<1> DEFINE F(f) == FoundWind(f, PlumeModel = "wind_grid_v2", env.fallback)
<1>1. Transported(g, Corridor, PlumeModel = "wind_grid_v2", env.fallback)
        <=> \E f \in Fires : \E u \in F(f) : << u, f, g >> \in Corridor
  BY DEF Transported
<1>2. ASSUME NEW f, NEW u, u \in F(f) PROVE u \in {"grid", "station"}
  BY <1>2, FoundWindIs
<1>3. ASSUME NEW f, NEW u, NEW h
      PROVE  Carried(f, h, u) <=> u \in F(f) /\ << u, f, h >> \in Corridor
  BY DEF Carried
<1> HIDE DEF F
<1>4. ASSUME Exposed(w, m, g)
      PROVE  /\ w = v /\ m = PlumeModel
             /\ \E f \in Fires : \E u \in F(f) : << u, f, g >> \in Corridor
  <2>1. PICK x \in PlumesOf(v, Fires) : x.key[1] = w /\ x.key[2] = m /\ x.key[4] = g
    BY <1>4 DEF Exposed
  <2>2. PICK f \in Fires : IsRowOf(x, v, f)
    BY <2>1, PlumesOfIs
  <2>3. PICK h \in Geos, u \in {"grid", "station"} : Carried(f, h, u) /\ x = PlumeRow(v, f, h, u)
    BY <2>2 DEF IsRowOf
  <2>4. v = w /\ PlumeModel = m /\ h = g
    BY <2>1, <2>3 DEF PlumeRow
  <2> QED BY <1>3, <2>3, <2>4
<1>5. ASSUME w = v, m = PlumeModel, NEW f \in Fires, NEW u \in F(f), << u, f, g >> \in Corridor
      PROVE  Exposed(w, m, g)
  <2> DEFINE x == PlumeRow(v, f, g, u)
  <2>1. IsRowOf(x, v, f)
    BY <1>2, <1>3, <1>5 DEF IsRowOf
  <2>2. x \in plumes
    BY <2>1, PlumesOfIs
  <2>3. x.key[1] = w /\ x.key[2] = m /\ x.key[4] = g
    BY <1>5 DEF PlumeRow
  <2> HIDE DEF x
  <2> QED BY <2>2, <2>3 DEF Exposed
<1> QED BY <1>1, <1>4, <1>5

DispersedIn(w, g) == \E x \in dispersions : x.key[1] = w /\ x.key[3] = g

LEMMA DispersedIs ==
  ASSUME NEW v, NEW w, NEW g, Stored(dispersions, v, Fires)
  PROVE  /\ DispersedIn(w, g) => w = v /\ Transported(g, Downwind, TRUE, TRUE)
         /\ /\ g \in Geos /\ w = v /\ Transported(g, Downwind, TRUE, TRUE)
            /\ Cardinality(Dispersing) <= MaxTargets
            => DispersedIn(w, g)
         /\ Cardinality({x \in dispersions : x.key[1] = v})
              = IF Cardinality(Dispersing) <= MaxTargets THEN Cardinality(Dispersing)
                                                         ELSE MaxTargets
<1>1. DispersingOf(Fires) = Dispersing /\ Dispersing \subseteq Fires \X Geos
  BY DEF DispersingOf, Dispersing
<1>2. PICK T \in SUBSET Dispersing :
        /\ dispersions = DispersionsOf(v, T)
        /\ Cardinality(T) = IF Cardinality(Dispersing) <= MaxTargets
                            THEN Cardinality(Dispersing) ELSE MaxTargets
  BY <1>1 DEF Stored
<1>3. IsFiniteSet(Dispersing)
  BY <1>1, DispersingIsFinite
<1>4. /\ IsFiniteSet(T)
      /\ Cardinality(Dispersing) <= MaxTargets => T = Dispersing
  BY <1>2, <1>3, FS_Subset
<1>5. ASSUME g \in Geos
      PROVE  Transported(g, Downwind, TRUE, TRUE)
               <=> \E f \in Fires : << f, g >> \in Dispersing
  <2> DEFINE F(f) == FoundWind(f, TRUE, TRUE)
  <2>1. Transported(g, Downwind, TRUE, TRUE)
          <=> \E f \in Fires : \E u \in F(f) : << u, f, g >> \in Downwind
    BY DEF Transported
  <2>2. Dispersing = {p \in Fires \X Geos : \E u \in F(p[1]) : << u, p[1], p[2] >> \in Downwind}
    BY DEF Dispersing
  <2> HIDE DEF F
  <2>3. ASSUME NEW f \in Fires
        PROVE  << f, g >> \in Dispersing <=> \E u \in F(f) : << u, f, g >> \in Downwind
    <3>1. << f, g >> \in Fires \X Geos /\ << f, g >>[1] = f /\ << f, g >>[2] = g
      BY <1>5
    <3> QED BY <2>2, <3>1
  <2> QED BY <2>1, <2>3
<1>6. ASSUME NEW x \in dispersions, x.key[1] = w, x.key[3] = g
      PROVE  w = v /\ Transported(g, Downwind, TRUE, TRUE)
  <2>1. PICK p \in T : x = [key |-> << v, p[1], p[2] >>, wind |-> WindAt(p[1])]
    BY <1>2 DEF DispersionsOf
  <2>2. v = w /\ p[2] = g /\ p[1] \in Fires /\ g \in Geos /\ p = << p[1], p[2] >>
    BY <1>1, <1>6, <2>1
  <2> QED BY <1>5, <2>1, <2>2
<1>7. ASSUME g \in Geos, w = v, Transported(g, Downwind, TRUE, TRUE), Cardinality(Dispersing) <= MaxTargets
      PROVE  DispersedIn(w, g)
  <2>1. PICK f \in Fires : << f, g >> \in T
    BY <1>4, <1>5, <1>7
  <2> DEFINE x == [key |-> << v, f, g >>, wind |-> WindAt(f)]
  <2>2. x \in dispersions
    <3>1. << f, g >>[1] = f /\ << f, g >>[2] = g
      OBVIOUS
    <3> QED BY <1>2, <2>1, <3>1 DEF DispersionsOf
  <2>3. x.key[1] = w /\ x.key[3] = g
    BY <1>7
  <2> HIDE DEF x
  <2> QED BY <2>2, <2>3 DEF DispersedIn
<1>8. Cardinality({x \in dispersions : x.key[1] = v}) = Cardinality(T)
  <2>1. {x \in dispersions : x.key[1] = v} = DispersionsOf(v, T)
    BY <1>2 DEF DispersionsOf
  <2>2. Cardinality(DispersionsOf(v, T)) = Cardinality(T)
    BY <1>1, <1>4, RowsOfPairs
  <2> QED BY <2>1, <2>2
<1>9. DispersedIn(w, g) => w = v /\ Transported(g, Downwind, TRUE, TRUE)
  BY Zenon, <1>6 DEF DispersedIn
<1> QED BY Zenon, <1>2, <1>7, <1>8, <1>9

LEMMA SucceededHasDone ==
  ASSUME ScriptInv, CarryInv, NEW r \in Runs, row[r] = "succeeded"
  PROVE  /\ "compute_plume" \in done[r] /\ "compute_risk" \in done[r]
         /\ \A s \in TransportSteps : windows[r][s] # NoWindow => s \in done[r]
<1>1. /\ env \in Environments /\ Script = Scripts[env] /\ pos[r] \in 0..Len(Script)
      /\ Complete(done[r], steps[r])
  BY DEF ScriptInv, Script
<1>2. \A i \in 1..Len(Script) : Passed(done[r], i)
  BY Zenon, <1>1 DEF Complete
<1>3. Has(Script, "compute_plume") /\ Has(Script, "compute_risk")
  BY <1>1, ScriptHas, ScriptHasOnly
<1>4. "compute_plume" \in done[r] /\ "compute_risk" \in done[r]
  BY <1>2, <1>3 DEF Has, Passed
<1>5. ASSUME NEW s \in TransportSteps, windows[r][s] # NoWindow PROVE s \in done[r]
  <2>1. PICK i \in 1..pos[r] : s = Script[i]
    BY <1>5 DEF CarryInv, Opened
  <2>2. i \in 1..Len(Script)
    BY <1>1, ScriptFacts
  <2>3. s # "collect_lag"
    BY DEF TransportSteps
  <2> QED BY <1>2, <2>1, <2>2, <2>3 DEF Passed
<1> QED BY <1>4, <1>5

\* A cycle that runs before any other scores each geography that its
\* model scores with the fires that it ingested, with the corridor and the dispersed smoke that it computed in its
\* second, and stores as much dispersion as the target limit allows.
THEOREM LoneScores == Spec => []LoneCycleScores
<1>1. ScriptInv /\ CarryInv /\ LoneInv => LoneCycleScores
  <2> SUFFICES ASSUME ScriptInv, CarryInv, LoneInv, NEW r \in Runs, Undisturbed(r),
                      row[r] = "succeeded"
      PROVE  LET w == windows[r]["compute_risk"]
                 corridor == /\ windows[r]["compute_plume"] = w
                             /\ \/ RiskModel \in {"v4", "v5"}
                                \/ RiskModel = "v3" /\ PlumeModel = "wind_v1"
                 proxy == RiskModel = "v5" /\ windows[r]["compute_dispersion"] = w
             IN  /\ {x.key : x \in risks} = {<< w, RiskModel, g >> : g \in Scorable(Fires)}
                 /\ \A x \in risks : LET g == x.key[3] IN
                      /\ x.plume <=> corridor /\ Transported(g, Corridor,
                                       PlumeModel = "wind_grid_v2", env.fallback)
                      /\ x.dispersed => proxy /\ Transported(g, Downwind, TRUE, TRUE)
                      /\ (proxy /\ Transported(g, Downwind, TRUE, TRUE)
                          /\ Cardinality(Dispersing) <= MaxTargets) => x.dispersed
                 /\ "compute_dispersion" \in done[r] =>
                      Cardinality({x \in dispersions :
                                     x.key[1] = windows[r]["compute_dispersion"]})
                        = IF Cardinality(Dispersing) <= MaxTargets
                          THEN Cardinality(Dispersing) ELSE MaxTargets
    BY Zenon DEF LoneCycleScores
  <2> DEFINE w == RiskWindow(r)
             v == PlumeWindow(r)
             d == DispersionWindow(r)
             reached(g) == Transported(g, Corridor, PlumeModel = "wind_grid_v2", env.fallback)
             dispersed(g) == Transported(g, Downwind, TRUE, TRUE)
             cut == ~(Cardinality(Dispersing) <= MaxTargets)
  <2>1. /\ "compute_plume" \in done[r] /\ "compute_risk" \in done[r]
        /\ d # NoWindow => "compute_dispersion" \in done[r]
    BY SucceededHasDone DEF TransportSteps, DispersionWindow
  <2>2. LonePlumes(r) /\ LoneDispersions(r) /\ LoneRisks(r)
    BY DEF LoneInv, LoneParts
  <2>3. plumes = PlumesOf(v, Fires) /\ w # NoWindow /\ risks = Scores(w)
    BY <2>1, <2>2 DEF LonePlumes, LoneRisks
  <2>4. /\ "compute_dispersion" \notin done[r] => dispersions = {}
        /\ "compute_dispersion" \in done[r] => Stored(dispersions, d, Fires)
    BY <2>2 DEF LoneDispersions
  <2>5. {x.key : x \in risks} = {<< w, RiskModel, g >> : g \in Scorable(Fires)}
    <3>1. ASSUME NEW g PROVE Scored(w, g).key = << w, RiskModel, g >>
      BY DEF Scored
    <3> HIDE DEF w
    <3> QED BY <2>3, <3>1 DEF Scores
  <2>6. ASSUME NEW x \in risks
        PROVE  LET g == x.key[3] IN
               /\ x.plume <=> /\ v = w
                              /\ \/ RiskModel \in {"v4", "v5"}
                                 \/ RiskModel = "v3" /\ PlumeModel = "wind_v1"
                              /\ reached(g)
               /\ x.dispersed => RiskModel = "v5" /\ d = w /\ dispersed(g)
               /\ RiskModel = "v5" /\ d = w /\ dispersed(g) /\ ~cut => x.dispersed
    <3>1. PICK g \in Scorable(Fires) : x = Scored(w, g)
      BY <2>3 DEF Scores
    <3>2. g \in Geos /\ x.key[3] = g
      BY <3>1, CycleInputs DEF Scorable, JoinedV1, HasActivityV2, Scored
    <3>3. \A m : Exposed(w, m, g) <=> w = v /\ m = PlumeModel /\ reached(g)
      BY <2>3, <3>2, ExposedIs
    <3>4. x.plume = (CASE RiskModel = "v3" -> Exposed(w, "wind_v1", g)
                       [] RiskModel \in {"v4", "v5"} -> SelectedPlume(w, g)
                       [] OTHER -> FALSE)
      BY <3>1 DEF Scored
    <3>5. x.dispersed = (RiskModel = "v5" /\ DispersedIn(w, g))
      BY <3>1 DEF Scored, DispersedIn
    <3>6. PlumeModel \in {"wind_v1", "wind_grid_v2"}
      BY DEF PlumeModel
    <3> HIDE DEF w, v, d, reached, dispersed, cut
    <3>7. SelectedPlume(w, g) <=> w = v /\ reached(g)
      BY <3>3, <3>6 DEF SelectedPlume, GridExposed, FallsBack
    <3>8. x.plume <=> /\ v = w
                      /\ \/ RiskModel \in {"v4", "v5"}
                         \/ RiskModel = "v3" /\ PlumeModel = "wind_v1"
                      /\ reached(g)
      <4>1. CASE RiskModel = "v3"
        <5>1. x.plume = Exposed(w, "wind_v1", g)
          BY <3>4, <4>1
        <5> QED BY <3>3, <4>1, <5>1
      <4>2. CASE RiskModel \in {"v4", "v5"}
        <5>1. x.plume = SelectedPlume(w, g)
          BY <3>4, <4>2
        <5> QED BY <3>7, <4>2, <5>1
      <4>3. CASE RiskModel \notin {"v3", "v4", "v5"}
        BY <3>4, <4>3
      <4> QED BY <4>1, <4>2, <4>3
    <3>9. DispersedIn(w, g) => d = w /\ dispersed(g)
      <4>1. CASE "compute_dispersion" \in done[r]
        <5>1. Stored(dispersions, d, Fires)
          BY <2>4, <4>1
        <5>2. DispersedIn(w, g) => w = d /\ Transported(g, Downwind, TRUE, TRUE)
          BY Zenon, <5>1, DispersedIs
        <5> QED BY Zenon, <5>2 DEF dispersed
      <4>2. CASE "compute_dispersion" \notin done[r]
        BY <2>4, <4>2 DEF DispersedIn
      <4> QED BY <4>1, <4>2
    <3>10. ASSUME d = w, dispersed(g), ~cut PROVE DispersedIn(w, g)
      <4>1. Stored(dispersions, d, Fires)
        BY <2>1, <2>3, <2>4, <3>10
      <4> QED BY Zenon, <3>2, <3>10, <4>1, DispersedIs DEF dispersed, cut
    <3> QED BY Zenon, <3>2, <3>5, <3>8, <3>9, <3>10
  <2>7. ASSUME "compute_dispersion" \in done[r]
        PROVE  Cardinality({x \in dispersions : x.key[1] = d})
                 = IF Cardinality(Dispersing) <= MaxTargets THEN Cardinality(Dispersing)
                                                            ELSE MaxTargets
    <3>1. Stored(dispersions, d, Fires)
      BY <2>4, <2>7
    <3> QED BY <3>1, DispersedIs
  <2> QED BY Zenon, <2>5, <2>6, <2>7 DEF RiskWindow, PlumeWindow, DispersionWindow
<1> QED BY <1>1, ScriptAlways, CarryAlways, LoneAlways, PTL

-----------------------------------------------------------------------------
(* Types.                                                                  *)

BoundedWindows == {NoWindow} \cup ((0..LastSecond) \X {RiskHours, DispersionHours})

Plume == [key : BoundedWindows \X {"wind_v1", "wind_grid_v2"} \X Fires \X Geos,
          wind : {"grid", "station"}]
Dispersion == [key : BoundedWindows \X Fires \X Geos, wind : {"grid", "station"}]
Comparison == [key : BoundedWindows \X Geos, sawRisk : BOOLEAN]
Score == [key : BoundedWindows \X Models \X Geos, plume : BOOLEAN, fallback : BOOLEAN,
          dispersed : BOOLEAN]

FaultKinds == {"killed", "unrecorded", "failed", "dropped"}

\* What the running job holds, by the job that it is.
JobTyped(r) ==
  /\ local[r].window \in BoundedWindows
  /\ In(r, "compute_plume", "work") =>
       local[r].todo \subseteq Fires /\ local[r].rows \subseteq Plume
  /\ In(r, "compute_dispersion", "work") =>
       local[r].todo \subseteq Fires /\ local[r].rows \subseteq Dispersion
  /\ In(r, "compute_risk", "work") => local[r].todo \subseteq Geos
  /\ stage[r] = "write" => local[r].rows \subseteq Score

TablesTyped ==
  /\ matches \subseteq Fires /\ plumes \subseteq Plume /\ dispersions \subseteq Dispersion
  /\ comparisons \subseteq Comparison /\ risks \subseteq Score
  /\ topic \subseteq Score /\ lost \subseteq Score

InputsTyped ==
  /\ now \in 0..LastSecond /\ fires \subseteq Fires /\ faults \subseteq Runs \X FaultKinds
  /\ windows \in [Runs -> [TransportSteps -> BoundedWindows]]

EntryTyped(e) == e.name \in ToSet(Script) /\ e.status \in {"start", "ok", "warn"}

StepsTyped == \A r \in Runs : \A i \in DOMAIN steps[r] : EntryTyped(steps[r][i])

QueuesTyped == queue \in [Runs -> SUBSET Score]

TypeInv == InputsTyped /\ StepsTyped /\ TablesTyped /\ QueuesTyped
           /\ \A r \in Runs : JobTyped(r)

LEMMA TypeInit == ASSUME Init PROVE TypeInv
<1>1. InputsTyped
  <2>1. 0 \in 0..LastSecond
    BY CycleInputs
  <2> QED BY <2>1 DEF Init, InputsTyped, BoundedWindows
<1>2. StepsTyped /\ TablesTyped /\ QueuesTyped
  BY DEF Init, StepsTyped, TablesTyped, QueuesTyped
<1>3. ASSUME NEW r \in Runs PROVE JobTyped(r)
  BY DEF Init, JobTyped, In, NoJob, BoundedWindows
<1> QED BY <1>1, <1>2, <1>3 DEF TypeInv

LEMMA WindowTyped ==
  ASSUME InputsTyped, NEW hours \in {RiskHours, DispersionHours}
  PROVE  Window(hours) \in BoundedWindows
  BY DEF InputsTyped, Window, BoundedWindows

LEMMA FaultTyped ==
  ASSUME InputsTyped, NEW r \in Runs, NEW kind \in FaultKinds, Fault(r, kind)
  PROVE  faults' \subseteq Runs \X FaultKinds
  BY DEF InputsTyped, Fault

LEMMA InputsStep ==
  ASSUME InputsTyped, [Next]_vars
  PROVE  InputsTyped'
<1>1. CASE UNCHANGED << now, fires, faults, windows >>
  BY <1>1 DEF InputsTyped
<1>2. CASE Tick
  <2>1. now' \in 0..LastSecond
    BY <1>2, CycleInputs DEF Tick, InputsTyped
  <2> QED BY <1>2, <2>1 DEF Tick, InputsTyped
<1>3. ASSUME NEW r \in Runs,
             \/ RecordFails(r) \/ JobFails(r) \/ Kill(r) \/ FinishFailed(r) \/ Finish(r)
             \/ \E m \in queue[r] : Deliver(r, m)
      PROVE  InputsTyped'
  <2>1. UNCHANGED << now, fires, windows >>
    BY <1>3 DEF RecordFails, JobFails, Kill, FinishFailed, Finish, Deliver
  <2>2. faults' = faults \/ \E kind \in FaultKinds : Fault(r, kind)
    BY <1>3 DEF RecordFails, JobFails, Kill, FinishFailed, Finish, Deliver, FaultKinds
  <2> QED BY <2>1, <2>2, FaultTyped DEF InputsTyped
<1>4. ASSUME NEW r \in Runs,
             OpenMatch(r) \/ OpenPlume(r) \/ OpenDispersion(r) \/ OpenRisk(r)
      PROVE  InputsTyped'
  <2>1. PICK hours, todo :
           hours \in {RiskHours, DispersionHours} /\ OpenJob(r, hours, todo)
    BY <1>4 DEF OpenMatch, OpenPlume, OpenDispersion, OpenRisk
  <2>2. /\ UNCHANGED << now, fires, faults >>
        /\ windows' = [windows EXCEPT ![r] =
             IF Step(r) \in TransportSteps THEN [windows[r] EXCEPT ![Step(r)] = Window(hours)]
                                           ELSE windows[r]]
    BY <2>1 DEF OpenJob
  <2>3. Window(hours) \in BoundedWindows
    BY <2>1, WindowTyped
  <2> DEFINE W == [TransportSteps -> BoundedWindows]
             w == [windows[r] EXCEPT ![Step(r)] = Window(hours)]
  <2>4. windows \in [Runs -> W] /\ windows[r] \in W
    BY DEF InputsTyped
  <2>5. w \in W
    BY <2>3, <2>4
  <2> HIDE DEF w, W
  <2>6. windows' \in [Runs -> W]
    BY <2>2, <2>4, <2>5 DEF w
  <2> QED BY <2>2, <2>6 DEF InputsTyped, W
<1>5. ASSUME NEW r \in Runs, RunScript(r) PROVE InputsTyped'
  BY <1>5 DEF RunScript, InputsTyped
<1>6. ASSUME NEW r \in Runs,
             \/ Start(r) \/ RecordStart(r) \/ RecordOk(r) \/ RecordWarn(r)
             \/ CommitMatch(r) \/ CommitPlume(r) \/ CommitDispersion(r)
             \/ OpenCompare(r) \/ CommitCompare(r) \/ WriteRisk(r) \/ CommitRisk(r)
             \/ FlushRisk(r)
             \/ \E f \in local[r].todo : ResolvePlume(r, f) \/ ResolveDispersion(r, f)
      PROVE  UNCHANGED << now, fires, faults, windows >>
  BY <1>6 DEF Start, RecordStart, RecordOk, RecordWarn, CommitMatch, CommitPlume,
     CommitDispersion, OpenCompare, CommitCompare, WriteRisk, CommitRisk, FlushRisk,
     ResolvePlume, ResolveDispersion
<1>7. ASSUME UNCHANGED vars PROVE UNCHANGED << now, fires, faults, windows >>
  BY <1>7 DEF vars
<1> QED BY <1>1, <1>2, <1>3, <1>4, <1>5, <1>6, <1>7 DEF Next, Progress

LEMMA StepsStep ==
  ASSUME LedgerInv, ScriptInv, StepsTyped, [Next]_vars
  PROVE  StepsTyped'
<1>0. env' = env /\ Script' = Script
  BY StepKind DEF Script
<1>1. CASE steps' = steps
  BY <1>0, <1>1 DEF StepsTyped, EntryTyped
<1>2. ASSUME NEW r \in Runs, NEW status \in {"start", "ok", "warn"},
             stage[r] \in Underway, AppendStep(r, status)
      PROVE  StepsTyped'
  <2> DEFINE e == [name |-> Step(r), status |-> status]
  <2>1. steps \in [Runs -> Seq(StepRows)] /\ steps' = [steps EXCEPT ![r] = Append(steps[r], e)]
    BY <1>2 DEF ScriptInv, AppendStep
  <2>2. EntryTyped(e)
    <3>1. pos[r] \in 1..Len(Script) /\ Step(r) = Script[pos[r]]
      BY <1>2, InScript
    <3>2. DOMAIN Script = 1..Len(Script)
      BY ScriptFacts, LenProperties DEF ScriptInv
    <3> QED BY <3>1, <3>2 DEF EntryTyped, ToSet
  <2> HIDE DEF e
  <2>3. steps[r] \in Seq(StepRows)
    BY <2>1
  <2>4. \A i \in DOMAIN Append(steps[r], e) : EntryTyped(Append(steps[r], e)[i])
    <3>1. /\ Len(Append(steps[r], e)) = Len(steps[r]) + 1 /\ Len(steps[r]) \in Nat
          /\ DOMAIN Append(steps[r], e) = 1..(Len(steps[r]) + 1)
          /\ DOMAIN steps[r] = 1..Len(steps[r])
          /\ \A i \in 1..Len(steps[r]) : Append(steps[r], e)[i] = steps[r][i]
          /\ Append(steps[r], e)[Len(steps[r]) + 1] = e
      BY <2>3
    <3>2. \A i \in 1..(Len(steps[r]) + 1) : i \in 1..Len(steps[r]) \/ i = Len(steps[r]) + 1
      BY <3>1
    <3> QED BY <2>2, <3>1, <3>2 DEF StepsTyped
  <2>5. \A e1 : EntryTyped(e1)' <=> EntryTyped(e1)
    BY <1>0 DEF EntryTyped
  <2>6. ASSUME NEW q \in Runs, NEW i \in DOMAIN steps'[q] PROVE EntryTyped(steps'[q][i])
    <3>1. CASE q = r
      BY <2>1, <2>4, <3>1
    <3>2. CASE q # r
      BY <2>1, <3>2 DEF StepsTyped
    <3> QED BY <3>1, <3>2
  <2> QED BY <2>5, <2>6 DEF StepsTyped
<1>3. ASSUME NEW r \in Runs, RecordStart(r) \/ RecordOk(r) \/ RecordWarn(r)
      PROVE  \/ steps' = steps
             \/ \E status \in {"start", "ok", "warn"} :
                  stage[r] \in Underway /\ AppendStep(r, status)
  BY <1>3 DEF RecordStart, RecordOk, RecordWarn, Underway
<1>4. ASSUME NEW r \in Runs,
             \/ Start(r) \/ RunScript(r) \/ OpenMatch(r) \/ CommitMatch(r) \/ OpenPlume(r)
             \/ CommitPlume(r) \/ OpenDispersion(r) \/ CommitDispersion(r)
             \/ OpenCompare(r) \/ CommitCompare(r) \/ OpenRisk(r) \/ WriteRisk(r)
             \/ CommitRisk(r) \/ FlushRisk(r) \/ FinishFailed(r) \/ Finish(r)
             \/ \E f \in local[r].todo : ResolvePlume(r, f) \/ ResolveDispersion(r, f)
             \/ \E m \in queue[r] : Deliver(r, m)
             \/ RecordFails(r) \/ JobFails(r) \/ Kill(r)
      PROVE  steps' = steps
  BY <1>4 DEF Start, RunScript, OpenMatch, CommitMatch, OpenPlume, CommitPlume,
     OpenDispersion, CommitDispersion, OpenCompare, CommitCompare, OpenRisk, WriteRisk,
     CommitRisk, FlushRisk, FinishFailed, Finish, ResolvePlume, ResolveDispersion, Deliver,
     RecordFails, JobFails, Kill, OpenJob, ledger
<1>5. ASSUME UNCHANGED vars \/ Tick PROVE steps' = steps
  BY <1>5 DEF vars, Tick, ledger
<1> QED BY <1>1, <1>2, <1>3, <1>4, <1>5 DEF Next, Progress
LEMMA RecordTyped ==
  ASSUME NEW K, NEW k \in K, NEW p \in BOOLEAN, NEW b \in BOOLEAN, NEW d \in BOOLEAN
  PROVE  [key |-> k, plume |-> p, fallback |-> b, dispersed |-> d]
           \in [key : K, plume : BOOLEAN, fallback : BOOLEAN, dispersed : BOOLEAN]
  OBVIOUS

LEMMA ScoredTyped ==
  ASSUME env \in Environments, NEW w \in BoundedWindows, NEW g \in Geos
  PROVE  Scored(w, g) \in Score
<1>1. RiskModel \in Models
  <2>1. env.preset \in Models \cup {""}
    BY Zenon, CycleInputs DEF EnvFields
  <2>2. CASE env.preset # ""
    BY <2>1, <2>2 DEF RiskModel
  <2>3. CASE env.preset = ""
    BY <2>3 DEF RiskModel, Models
  <2> QED BY <2>2, <2>3
<1> DEFINE p == CASE RiskModel = "v3" -> Exposed(w, "wind_v1", g)
                  [] RiskModel \in {"v4", "v5"} -> SelectedPlume(w, g)
                  [] OTHER -> FALSE
           b == RiskModel \in {"v4", "v5"} /\ FallsBack(w, g)
           d == /\ RiskModel = "v5"
                /\ \E x \in dispersions : x.key[1] = w /\ x.key[3] = g
<1>2. Exposed(w, "wind_v1", g) \in BOOLEAN /\ SelectedPlume(w, g) \in BOOLEAN
  BY Zenon DEF Exposed, SelectedPlume
<1>3. p \in BOOLEAN
  <2>1. CASE RiskModel = "v3"
    <3>1. p = Exposed(w, "wind_v1", g)
      BY <2>1
    <3> QED BY Zenon, <3>1, <1>2
  <2>2. CASE RiskModel \in {"v4", "v5"}
    <3>1. p = SelectedPlume(w, g)
      BY <2>2
    <3> QED BY Zenon, <3>1, <1>2
  <2>3. CASE RiskModel \notin {"v3", "v4", "v5"}
    <3>1. p = FALSE
      BY <2>3
    <3> QED BY Zenon, <3>1
  <2> QED BY <2>1, <2>2, <2>3
<1>4. b \in BOOLEAN /\ d \in BOOLEAN
  BY Zenon
<1>5. Scored(w, g) = [key |-> << w, RiskModel, g >>, plume |-> p, fallback |-> b, dispersed |-> d]
  BY Zenon DEF Scored
<1>6. << w, RiskModel, g >> \in BoundedWindows \X Models \X Geos
  BY <1>1
<1> HIDE DEF p, b, d
<1>7. [key |-> << w, RiskModel, g >>, plume |-> p, fallback |-> b, dispersed |-> d] \in Score
  <2> DEFINE K == BoundedWindows \X Models \X Geos
             k == << w, RiskModel, g >>
  <2>1. k \in K
    BY <1>6
  <2> HIDE DEF K, k
  <2>2. [key |-> k, plume |-> p, fallback |-> b, dispersed |-> d]
          \in [key : K, plume : BOOLEAN, fallback : BOOLEAN, dispersed : BOOLEAN]
    BY <1>3, <1>4, <2>1, RecordTyped
  <2> QED BY Zenon, <2>2 DEF Score, K, k
<1> QED BY Zenon, <1>5, <1>7

LEMMA SameTypedJob ==
  ASSUME env' = env, NEW q \in Runs, JobTyped(q),
         stage'[q] = stage[q], pos'[q] = pos[q], local'[q] = local[q]
  PROVE  JobTyped(q)'
<1>1. Step(q)' = Step(q)
  BY DEF Step, Script
<1> QED BY <1>1 DEF JobTyped, In

LEMMA QuietTypedJob ==
  ASSUME NEW q \in Runs, JobTyped(q), stage'[q] \notin {"work", "write"},
         local'[q] \in {NoJob, local[q]}
  PROVE  JobTyped(q)'
<1>1. local'[q].window \in BoundedWindows
  BY DEF JobTyped, NoJob, BoundedWindows
<1> QED BY <1>1 DEF JobTyped, In

\* Other cycles' jobs stay as they are.
Others(r) == \A q \in Runs \ {r} : /\ stage'[q] = stage[q] /\ pos'[q] = pos[q]
                                    /\ local'[q] = local[q]

LEMMA OnlyOwn ==
  ASSUME LedgerInv, ScriptInv, CarryInv, env' = env, NEW r \in Runs, Others(r),
         \A q \in Runs : JobTyped(q), JobTyped(r)'
  PROVE  \A q \in Runs : JobTyped(q)'
  BY SameTypedJob DEF Others

LEMMA ScriptTyped ==
  ASSUME LedgerInv, ScriptInv, CarryInv, env' = env, NEW r \in Runs, JobTyped(r),
         \/ Start(r) \/ RecordStart(r) \/ RecordOk(r) \/ RecordWarn(r)
         \/ FinishFailed(r) \/ Finish(r) \/ RecordFails(r) \/ JobFails(r) \/ Kill(r)
  PROVE  Others(r) /\ JobTyped(r)'
<1>1. PICK s \in {"begin", "open", "finish", "failing", "warn", "gone"} :
        stage' = [stage EXCEPT ![r] = s]
  BY ScriptStages
<1>2. local' = local \/ local' = [local EXCEPT ![r] = NoJob]
  BY DEF Start, RecordStart, RecordOk, RecordWarn, FinishFailed, Finish, RecordFails,
         JobFails, Kill
<1>3. pos' = pos \/ \E k : pos' = [pos EXCEPT ![r] = k]
  BY DEF Start, RecordStart, RecordOk, RecordWarn, FinishFailed, Finish, RecordFails,
         JobFails, Kill, Goto, Advance
<1>4. /\ stage \in [Runs -> {"new", "gone"} \cup Underway]
      /\ pos \in [Runs -> 0..Len(Script)] /\ local = [q \in Runs |-> local[q]]
  BY DEF LedgerInv, ScriptInv, CarryInv
<1>5. stage'[r] \notin {"work", "write"} /\ local'[r] \in {NoJob, local[r]}
  BY <1>1, <1>2, <1>4
<1>6. Others(r)
  BY <1>1, <1>2, <1>3, <1>4 DEF Others
<1> QED BY <1>5, <1>6, QuietTypedJob

LEMMA EndTyped ==
  ASSUME LedgerInv, ScriptInv, CarryInv, env' = env, NEW r \in Runs, JobTyped(r),
         JobDone(r)
  PROVE  Others(r) /\ JobTyped(r)'
<1>1. PICK s \in {"begin", "open", "finish", "ok"} : stage' = [stage EXCEPT ![r] = s]
  BY DEF JobDone, Goto, Advance
<1>2. local' = [local EXCEPT ![r] = NoJob] /\ (pos' = pos \/ \E k : pos' = [pos EXCEPT ![r] = k])
  BY DEF JobDone, Goto, Advance
<1>3. /\ stage \in [Runs -> {"new", "gone"} \cup Underway]
      /\ pos \in [Runs -> 0..Len(Script)] /\ local = [q \in Runs |-> local[q]]
  BY DEF LedgerInv, ScriptInv, CarryInv
<1>4. stage'[r] \notin {"work", "write"} /\ local'[r] \in {NoJob, local[r]}
  BY <1>1, <1>2, <1>3
<1>5. Others(r)
  BY <1>1, <1>2, <1>3 DEF Others
<1> QED BY <1>4, <1>5, QuietTypedJob

LEMMA OpenTyped ==
  ASSUME LedgerInv, ScriptInv, CarryInv, InputsTyped, env' = env, NEW r \in Runs,
         OpenMatch(r) \/ OpenPlume(r) \/ OpenDispersion(r) \/ OpenRisk(r)
  PROVE  Others(r) /\ JobTyped(r)'
<1>1. PICK hours \in {RiskHours, DispersionHours}, todo \in {fires, Scorable(fires)} :
        OpenJob(r, hours, todo) /\ (Step(r) # "compute_risk" => todo = fires)
                               /\ (Step(r) = "compute_risk" => todo = Scorable(fires))
  BY DEF OpenMatch, OpenPlume, OpenDispersion, OpenRisk
<1>2. /\ stage' = [stage EXCEPT ![r] = "work"] /\ pos' = pos
      /\ local' = [local EXCEPT ![r] = [window |-> Window(hours), todo |-> todo, rows |-> {}]]
  BY <1>1 DEF OpenJob, Goto
<1>3. /\ stage \in [Runs -> {"new", "gone"} \cup Underway]
      /\ pos \in [Runs -> 0..Len(Script)] /\ local = [q \in Runs |-> local[q]]
  BY DEF LedgerInv, ScriptInv, CarryInv
<1>4. /\ stage'[r] = "work" /\ Step(r)' = Step(r)
      /\ local'[r] = [window |-> Window(hours), todo |-> todo, rows |-> {}]
  BY <1>2, <1>3 DEF Step, Script
<1>5. Window(hours) \in BoundedWindows /\ fires \subseteq Fires /\ Scorable(fires) \subseteq Geos
  BY WindowTyped, CycleInputs DEF InputsTyped, Scorable, JoinedV1, HasActivityV2
<1>6. JobTyped(r)'
  BY <1>1, <1>4, <1>5 DEF JobTyped, In
<1>7. Others(r)
  BY <1>2, <1>3 DEF Others
<1> QED BY <1>6, <1>7

LEMMA ResolvePlumeTyped ==
  ASSUME LedgerInv, ScriptInv, CarryInv, env' = env, NEW r \in Runs, JobTyped(r),
         NEW f \in local[r].todo, ResolvePlume(r, f)
  PROVE  Others(r) /\ JobTyped(r)'
<1> DEFINE New == {[key |-> << local[r].window, PlumeModel, f, p[2] >>, wind |-> p[1]] :
                     p \in {q \in Wind(f, PlumeModel = "wind_grid_v2", env.fallback) \X Geos :
                             << q[1], f, q[2] >> \in Corridor}}
<1>1. /\ stage[r] = "work" /\ Step(r) = "compute_plume" /\ stage' = [stage EXCEPT ![r] = "work"]
      /\ pos' = pos
      /\ local' = [local EXCEPT ![r].todo = @ \ {f}, ![r].rows = @ \cup New]
  BY DEF ResolvePlume, Goto
<1>2. New \subseteq Plume
  <2>1. local[r].window \in BoundedWindows /\ f \in Fires
    BY <1>1 DEF JobTyped, In
  <2>2. PlumeModel \in {"wind_v1", "wind_grid_v2"}
    BY DEF PlumeModel
  <2>3. Wind(f, PlumeModel = "wind_grid_v2", env.fallback) \subseteq {"grid", "station"}
    BY DEF Wind
  <2>4. ASSUME NEW v \in {"grid", "station"}, NEW g \in Geos
        PROVE  [key |-> << local[r].window, PlumeModel, f, g >>, wind |-> v] \in Plume
    BY <2>1, <2>2 DEF Plume
  <2>5. \A p \in Wind(f, PlumeModel = "wind_grid_v2", env.fallback) \X Geos :
          p[1] \in {"grid", "station"} /\ p[2] \in Geos
    BY <2>3
  <2> QED BY Zenon, <2>4, <2>5
<1> HIDE DEF New
<1>3. /\ stage \in [Runs -> {"new", "gone"} \cup Underway]
      /\ pos \in [Runs -> 0..Len(Script)] /\ local = [q \in Runs |-> local[q]]
      /\ DOMAIN local[r] = JobFields
  BY DEF LedgerInv, ScriptInv, CarryInv
<1>4. /\ stage'[r] = "work" /\ Step(r)' = Step(r)
      /\ local'[r] = [local[r] EXCEPT !.todo = @ \ {f}, !.rows = @ \cup New]
  BY <1>1, <1>3 DEF Step, Script
<1>5. /\ local'[r].window = local[r].window /\ local'[r].todo = local[r].todo \ {f}
      /\ local'[r].rows = local[r].rows \cup New
  BY <1>3, <1>4 DEF JobFields
<1>6. JobTyped(r)'
  BY <1>1, <1>2, <1>4, <1>5 DEF JobTyped, In
<1>7. Others(r)
  BY <1>1, <1>3 DEF Others
<1> QED BY <1>6, <1>7

LEMMA ResolveDispersionTyped ==
  ASSUME LedgerInv, ScriptInv, CarryInv, env' = env, NEW r \in Runs, JobTyped(r),
         NEW f \in local[r].todo, ResolveDispersion(r, f)
  PROVE  Others(r) /\ JobTyped(r)'
<1>1. PICK w \in {"grid", "station"}, T \in SUBSET Geos :
        local' = [local EXCEPT ![r].todo = @ \ {f},
                   ![r].rows = @ \cup {[key |-> << local[r].window, f, g >>, wind |-> w] : g \in T}]
  BY DEF ResolveDispersion
<1> DEFINE New == {[key |-> << local[r].window, f, g >>, wind |-> w] : g \in T}
<1>2. /\ stage[r] = "work" /\ Step(r) = "compute_dispersion"
      /\ stage' = [stage EXCEPT ![r] = "work"] /\ pos' = pos
  BY DEF ResolveDispersion, Goto
<1>3. New \subseteq Dispersion
  <2>1. local[r].window \in BoundedWindows /\ f \in Fires
    BY <1>2 DEF JobTyped, In
  <2> QED BY <2>1 DEF Dispersion
<1>4. /\ stage \in [Runs -> {"new", "gone"} \cup Underway]
      /\ pos \in [Runs -> 0..Len(Script)] /\ local = [q \in Runs |-> local[q]]
      /\ DOMAIN local[r] = JobFields
  BY DEF LedgerInv, ScriptInv, CarryInv
<1> HIDE DEF New
<1>5. /\ stage'[r] = "work" /\ Step(r)' = Step(r)
      /\ local'[r] = [local[r] EXCEPT !.todo = @ \ {f}, !.rows = @ \cup New]
  BY <1>1, <1>2, <1>4 DEF Step, Script, New
<1>6. /\ local'[r].window = local[r].window /\ local'[r].todo = local[r].todo \ {f}
      /\ local'[r].rows = local[r].rows \cup New
  BY <1>4, <1>5 DEF JobFields
<1>7. JobTyped(r)'
  BY <1>2, <1>3, <1>5, <1>6 DEF JobTyped, In
<1>8. Others(r)
  BY <1>1, <1>2, <1>4 DEF Others
<1> QED BY <1>7, <1>8

LEMMA RiskTyped ==
  ASSUME LedgerInv, ScriptInv, CarryInv, env' = env, NEW r \in Runs, JobTyped(r),
         WriteRisk(r)
  PROVE  Others(r) /\ JobTyped(r)' /\ local'[r].rows \subseteq Score
<1> DEFINE New == {Scored(local[r].window, g) : g \in local[r].todo}
<1>1. /\ stage[r] = "work" /\ Step(r) = "compute_risk" /\ stage' = [stage EXCEPT ![r] = "write"]
      /\ pos' = pos /\ local' = [local EXCEPT ![r].rows = New]
  BY DEF WriteRisk, Goto
<1>2. New \subseteq Score
  <2>1. local[r].window \in BoundedWindows /\ local[r].todo \subseteq Geos
    BY <1>1 DEF JobTyped, In
  <2>2. env \in Environments
    BY DEF ScriptInv
  <2>3. \A g \in local[r].todo : Scored(local[r].window, g) \in Score
    BY <2>1, <2>2, ScoredTyped
  <2> QED BY Zenon, <2>3
<1> HIDE DEF New
<1>3. /\ stage \in [Runs -> {"new", "gone"} \cup Underway]
      /\ pos \in [Runs -> 0..Len(Script)] /\ local = [q \in Runs |-> local[q]]
      /\ DOMAIN local[r] = JobFields
  BY DEF LedgerInv, ScriptInv, CarryInv
<1>4. stage'[r] = "write" /\ local'[r] = [local[r] EXCEPT !.rows = New]
  BY <1>1, <1>3
<1>5. local'[r].window = local[r].window /\ local'[r].rows = New
  BY <1>3, <1>4 DEF JobFields
<1>6. JobTyped(r)'
  BY <1>2, <1>4, <1>5 DEF JobTyped, In
<1>7. Others(r)
  BY <1>1, <1>3 DEF Others
<1> QED BY <1>2, <1>5, <1>6, <1>7

LEMMA CompareTyped ==
  ASSUME LedgerInv, ScriptInv, CarryInv, TablesTyped, env' = env, NEW r \in Runs,
         JobTyped(r), OpenCompare(r)
  PROVE  Others(r) /\ JobTyped(r)'
<1>1. CASE JobDone(r)
  BY <1>1, EndTyped
<1>2. CASE ~JobDone(r)
  <2>1. PICK w \in Newest : local' = [local EXCEPT ![r].window = w]
    BY <1>2 DEF OpenCompare
  <2>2. /\ Step(r) = "compare_dispersion_aq" /\ stage' = [stage EXCEPT ![r] = "work"]
        /\ pos' = pos
    BY <1>2 DEF OpenCompare, Goto
  <2>3. w \in BoundedWindows
    BY <2>1 DEF Newest, TablesTyped, Dispersion
  <2>4. /\ stage \in [Runs -> {"new", "gone"} \cup Underway]
        /\ pos \in [Runs -> 0..Len(Script)] /\ local = [q \in Runs |-> local[q]]
        /\ DOMAIN local[r] = JobFields
    BY DEF LedgerInv, ScriptInv, CarryInv
  <2>5. /\ stage'[r] = "work" /\ Step(r)' = Step(r) /\ local'[r] = [local[r] EXCEPT !.window = w]
    BY <2>1, <2>2, <2>4 DEF Step, Script
  <2>6. local'[r].window = w
    BY <2>4, <2>5 DEF JobFields
  <2>7. JobTyped(r)'
    BY <2>2, <2>3, <2>5, <2>6 DEF JobTyped, In
  <2>8. Others(r)
    BY <2>1, <2>2, <2>4 DEF Others
  <2> QED BY <2>7, <2>8
<1> QED BY <1>1, <1>2
-----------------------------------------------------------------------------

LEMMA UpsertTyped ==
  ASSUME NEW T, NEW table \in SUBSET T, NEW new \in SUBSET T
  PROVE  Upsert(table, new) \subseteq T
  BY DEF Upsert

RowsTyped == TablesTyped /\ QueuesTyped

LEMMA CommitsTyped ==
  ASSUME RowsTyped, NEW r \in Runs, JobTyped(r),
         \/ CommitMatch(r) \/ CommitPlume(r) \/ CommitDispersion(r)
         \/ CommitCompare(r) \/ CommitRisk(r)
  PROVE  RowsTyped'
<1>1. UNCHANGED << topic, lost, queue >>
  BY DEF CommitMatch, CommitPlume, CommitDispersion, CommitCompare, CommitRisk
<1>2. CASE CommitMatch(r)
  <2>1. UNCHANGED << plumes, dispersions, comparisons, risks >>
        /\ matches' = matches \cup (local[r].todo \cap OnGrid)
    BY <1>2 DEF CommitMatch
  <2> QED BY <1>1, <2>1, CycleInputs DEF RowsTyped, TablesTyped, QueuesTyped
<1>3. CASE CommitPlume(r)
  <2>1. /\ UNCHANGED << matches, dispersions, comparisons, risks >>
        /\ plumes' = Upsert(plumes, local[r].rows) /\ In(r, "compute_plume", "work")
    BY <1>3 DEF CommitPlume, In
  <2>2. plumes' \subseteq Plume
    BY <2>1, UpsertTyped DEF RowsTyped, TablesTyped, JobTyped
  <2> QED BY <1>1, <2>1, <2>2 DEF RowsTyped, TablesTyped, QueuesTyped
<1>4. CASE CommitDispersion(r)
  <2>1. /\ UNCHANGED << matches, plumes, comparisons, risks >>
        /\ dispersions' = Upsert(dispersions, local[r].rows)
        /\ In(r, "compute_dispersion", "work")
    BY <1>4 DEF CommitDispersion, In
  <2>2. dispersions' \subseteq Dispersion
    BY <2>1, UpsertTyped DEF RowsTyped, TablesTyped, JobTyped
  <2> QED BY <1>1, <2>1, <2>2 DEF RowsTyped, TablesTyped, QueuesTyped
<1>5. CASE CommitCompare(r)
  <2> DEFINE w == local[r].window
             New == {[key |-> << w, g >>, sawRisk |-> \E x \in risks : x.key = << w, "v5", g >>] :
                       g \in {x.key[3] : x \in {y \in dispersions : y.key[1] = w}}}
  <2>1. /\ UNCHANGED << matches, plumes, dispersions, risks >>
        /\ comparisons' = Upsert(comparisons, New)
    BY <1>5 DEF CommitCompare
  <2>2. ASSUME NEW x \in dispersions PROVE x.key[3] \in Geos
    BY <2>2 DEF RowsTyped, TablesTyped, Dispersion
  <2>3. w \in BoundedWindows
    BY DEF JobTyped
  <2>4. ASSUME NEW g \in Geos
        PROVE  [key |-> << w, g >>, sawRisk |-> \E x \in risks : x.key = << w, "v5", g >>]
                 \in Comparison
    <3> DEFINE b == \E x \in risks : x.key = << w, "v5", g >>
    <3>1. b \in BOOLEAN
      BY Zenon
    <3> HIDE DEF b
    <3>2. [key |-> << w, g >>, sawRisk |-> b] \in Comparison
      BY <2>3, <3>1 DEF Comparison
    <3> QED BY Zenon, <3>2 DEF b
  <2>5. New \subseteq Comparison
    BY Zenon, <2>2, <2>4
  <2> HIDE DEF New, w
  <2>6. comparisons' \subseteq Comparison
    BY <2>1, <2>5, UpsertTyped DEF RowsTyped, TablesTyped
  <2> QED BY <1>1, <2>1, <2>6 DEF RowsTyped, TablesTyped, QueuesTyped
<1>6. CASE CommitRisk(r)
  <2>1. /\ UNCHANGED << matches, plumes, dispersions, comparisons >>
        /\ risks' = Upsert(risks, local[r].rows) /\ stage[r] = "write"
    BY <1>6 DEF CommitRisk
  <2>2. risks' \subseteq Score
    BY <2>1, UpsertTyped DEF RowsTyped, TablesTyped, JobTyped
  <2> QED BY <1>1, <2>1, <2>2 DEF RowsTyped, TablesTyped, QueuesTyped
<1> QED BY <1>2, <1>3, <1>4, <1>5, <1>6

\* A job that opens only deletes rows.
LEMMA OpeningTyped ==
  ASSUME RowsTyped, NEW r \in Runs,
         \/ OpenMatch(r) \/ OpenPlume(r) \/ OpenDispersion(r) \/ OpenCompare(r)
         \/ OpenRisk(r)
  PROVE  RowsTyped'
<1>1. UNCHANGED << topic, lost, queue >>
  BY DEF OpenMatch, OpenPlume, OpenDispersion, OpenCompare, OpenRisk, OpenJob
<1>2. /\ matches' \subseteq matches /\ plumes' \subseteq plumes
      /\ dispersions' \subseteq dispersions /\ comparisons' \subseteq comparisons
      /\ risks' \subseteq risks
  BY DEF OpenMatch, OpenPlume, OpenDispersion, OpenCompare, OpenRisk
<1> QED BY <1>1, <1>2 DEF RowsTyped, TablesTyped, QueuesTyped

\* Its messages are delivered or lost.
LEMMA MessagesTyped ==
  ASSUME RowsTyped, NEW r \in Runs,
         JobFails(r) \/ Kill(r) \/ \E m \in queue[r] : Deliver(r, m)
  PROVE  RowsTyped'
<1>1. UNCHANGED << matches, plumes, dispersions, comparisons, risks >>
  BY DEF JobFails, Kill, Deliver, tables
<1>2. queue \in [Runs -> SUBSET Score] /\ topic \subseteq Score /\ lost \subseteq Score
  BY DEF RowsTyped, TablesTyped, QueuesTyped
<1>3. CASE JobFails(r) \/ Kill(r)
  <2>1. topic' = topic /\ lost' = lost \cup queue[r] /\ queue' = [queue EXCEPT ![r] = {}]
    BY <1>3 DEF JobFails, Kill
  <2> QED BY <1>1, <1>2, <2>1 DEF RowsTyped, TablesTyped, QueuesTyped
<1>4. ASSUME NEW m \in queue[r], Deliver(r, m) PROVE RowsTyped'
  <2>1. /\ queue' = [queue EXCEPT ![r] = @ \ {m}]
        /\ topic' \in {topic, topic \cup {m}} /\ lost' \in {lost, lost \cup {m}}
    BY <1>4 DEF Deliver
  <2> QED BY <1>1, <1>2, <2>1 DEF RowsTyped, TablesTyped, QueuesTyped
<1> QED BY <1>3, <1>4

LEMMA RowsStep ==
  ASSUME LedgerInv, ScriptInv, CarryInv, RowsTyped, \A r \in Runs : JobTyped(r),
         [Next]_vars
  PROVE  RowsTyped'
<1>1. CASE UNCHANGED << tables, topic, lost, queue >>
  BY <1>1 DEF RowsTyped, TablesTyped, QueuesTyped, tables
<1>2. CASE UNCHANGED vars \/ Tick
  BY <1>1, <1>2 DEF vars, Tick
<1>3. ASSUME NEW r \in Runs,
             \/ Start(r) \/ RecordStart(r) \/ RecordOk(r) \/ RecordWarn(r) \/ RunScript(r)
             \/ FlushRisk(r) \/ FinishFailed(r) \/ Finish(r) \/ RecordFails(r)
             \/ \E f \in local[r].todo : ResolvePlume(r, f) \/ ResolveDispersion(r, f)
      PROVE  UNCHANGED << tables, topic, lost, queue >>
  BY <1>3 DEF Start, RecordStart, RecordOk, RecordWarn, RunScript, FlushRisk, FinishFailed,
     Finish, RecordFails, ResolvePlume, ResolveDispersion
<1>4. ASSUME NEW r \in Runs, WriteRisk(r) PROVE RowsTyped'
  <2>1. /\ UNCHANGED << tables, topic, lost >>
        /\ queue' = [queue EXCEPT ![r] = local'[r].rows]
    <3>1. PICK rows : /\ local' = [local EXCEPT ![r].rows = rows]
                      /\ queue' = [queue EXCEPT ![r] = rows]
      BY <1>4 DEF WriteRisk
    <3>2. local = [q \in Runs |-> local[q]] /\ DOMAIN local[r] = JobFields
      BY DEF CarryInv
    <3>3. local'[r].rows = rows
      BY <3>1, <3>2 DEF JobFields
    <3> QED BY <1>4, <3>1, <3>3 DEF WriteRisk
  <2>2. local'[r].rows \subseteq Score
    BY <1>4, RiskTyped, StepKind
  <2> QED BY <2>1, <2>2 DEF RowsTyped, TablesTyped, QueuesTyped, tables
<1> QED BY <1>1, <1>2, <1>3, <1>4, CommitsTyped, OpeningTyped, MessagesTyped DEF Next, Progress

LEMMA JobsStep ==
  ASSUME LedgerInv, ScriptInv, CarryInv, TypeInv, [Next]_vars
  PROVE  \A q \in Runs : JobTyped(q)'
<1>1. env' = env /\ InputsTyped /\ TablesTyped /\ \A q \in Runs : JobTyped(q)
  BY StepKind DEF TypeInv
<1>2. CASE UNCHANGED << stage, pos, local >>
  BY <1>1, <1>2, SameTypedJob
<1>3. ASSUME NEW r \in Runs,
             \/ Start(r) \/ RecordStart(r) \/ RecordOk(r) \/ RecordWarn(r)
             \/ FinishFailed(r) \/ Finish(r) \/ RecordFails(r) \/ JobFails(r) \/ Kill(r)
      PROVE  Others(r) /\ JobTyped(r)'
  BY <1>1, <1>3, ScriptTyped
<1>4. ASSUME NEW r \in Runs,
             \/ RunScript(r) \/ CommitMatch(r) \/ CommitPlume(r) \/ CommitDispersion(r)
             \/ CommitCompare(r) \/ FlushRisk(r)
      PROVE  Others(r) /\ JobTyped(r)'
  <2>1. JobDone(r)
    BY <1>4 DEF RunScript, CommitMatch, CommitPlume, CommitDispersion, CommitCompare,
       FlushRisk
  <2> QED BY <1>1, <2>1, EndTyped
<1>5. ASSUME NEW r \in Runs, CommitRisk(r) PROVE Others(r) /\ JobTyped(r)'
  <2>1. stage' = [stage EXCEPT ![r] = "flush"] /\ pos' = pos /\ local' = local
    BY <1>5 DEF CommitRisk, Goto
  <2>2. stage \in [Runs -> {"new", "gone"} \cup Underway]
    BY DEF LedgerInv
  <2>3. stage'[r] \notin {"work", "write"} /\ local'[r] \in {NoJob, local[r]}
    BY <2>1, <2>2
  <2>4. Others(r)
    BY <2>1, <2>2 DEF Others
  <2> QED BY <1>1, <2>3, <2>4, QuietTypedJob
<1>6. ASSUME NEW r \in Runs,
             \/ OpenMatch(r) \/ OpenPlume(r) \/ OpenDispersion(r) \/ OpenRisk(r)
             \/ OpenCompare(r) \/ WriteRisk(r)
             \/ \E f \in local[r].todo : ResolvePlume(r, f) \/ ResolveDispersion(r, f)
      PROVE  Others(r) /\ JobTyped(r)'
  BY <1>1, <1>6, OpenTyped, CompareTyped, RiskTyped, ResolvePlumeTyped,
     ResolveDispersionTyped
<1>7. ASSUME NEW r \in Runs, \E m \in queue[r] : Deliver(r, m)
      PROVE  UNCHANGED << stage, pos, local >>
  BY <1>7 DEF Deliver
<1>8. CASE UNCHANGED vars \/ Tick
  BY <1>2, <1>8 DEF vars, Tick
<1>9. ASSUME NEW r \in Runs, Others(r) /\ JobTyped(r)' PROVE \A q \in Runs : JobTyped(q)'
  BY <1>1, <1>9, OnlyOwn
<1>10. ASSUME NEW r \in Runs, Progress(r) \/ RecordFails(r) \/ JobFails(r) \/ Kill(r)
       PROVE  UNCHANGED << stage, pos, local >> \/ (Others(r) /\ JobTyped(r)')
  BY Zenon, <1>3, <1>4, <1>5, <1>6, <1>7, <1>10 DEF Progress
<1> QED BY Zenon, <1>2, <1>8, <1>9, <1>10 DEF Next

LEMMA TypeStep ==
  ASSUME LedgerInv, ScriptInv, CarryInv, TypeInv, [Next]_vars
  PROVE  TypeInv'
<1>1. InputsTyped /\ StepsTyped /\ RowsTyped /\ \A r \in Runs : JobTyped(r)
  BY DEF TypeInv, RowsTyped
<1>2. InputsTyped' /\ StepsTyped' /\ RowsTyped'
  BY Zenon, <1>1, InputsStep, StepsStep, RowsStep
<1>3. \A r \in Runs : JobTyped(r)'
  BY Zenon, JobsStep
<1> QED BY <1>2, <1>3 DEF TypeInv, RowsTyped

\* Every reachable state of the ledger, the tables and the cycles is well typed.
THEOREM TypeCorrect == Spec => []TypeOK
<1>1. LedgerInv /\ ScriptInv /\ TypeInv => TypeOK
  <2> SUFFICES ASSUME LedgerInv, ScriptInv, TypeInv PROVE TypeOK
    OBVIOUS
  <2>1. /\ InputsTyped /\ StepsTyped /\ TablesTyped
        /\ env \in Environments /\ pos \in [Runs -> 0..Len(Script)]
    BY DEF TypeInv, ScriptInv
  <2>2. row \in [Runs -> {"absent", "running", "succeeded", "failed"}]
    BY DEF LedgerInv, Verdicts
  <2>3. stage \in [Runs -> {"new", "begin", "open", "work", "write", "flush", "ok",
                            "warn", "failing", "finish", "gone"}]
    BY DEF LedgerInv, Underway
  <2>4. ASSUME NEW r \in Runs PROVE done[r] \subseteq ToSet(Script)
    <3>1. At(stage[r], pos[r], done[r], steps[r]) /\ pos[r] \in 0..Len(Script)
      BY DEF ScriptInv
    <3>2. done[r] \subseteq {Script[i] : i \in 1..pos[r]}
      BY <3>1 DEF At
    <3>3. DOMAIN Script = 1..Len(Script) /\ Len(Script) \in Nat
      BY <2>1, ScriptFacts, LenProperties
    <3>4. \A i \in 1..pos[r] : i \in DOMAIN Script
      BY <3>1, <3>3
    <3> QED BY <3>2, <3>4 DEF ToSet
  <2> QED BY <2>1, <2>2, <2>3, <2>4 DEF TypeOK, InputsTyped, StepsTyped, EntryTyped,
       TablesTyped, BoundedWindows, Plume, Dispersion, Comparison, Score, FaultKinds
<1> QED BY <1>1, TypeInit, TypeStep, LedgerAlways, ScriptAlways, CarryAlways, PTL DEF Spec

=============================================================================
