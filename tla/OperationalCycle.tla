---------------------------- MODULE OperationalCycle ----------------------------
(***************************************************************************)
(* Operational cycles (scripts/run_operational_cycle.sh with               *)
(* operational_runs.py) and the four jobs of a cycle that hand rows to     *)
(* each other: match_fire_weather, compute_plume_exposure,                 *)
(* compute_dispersion_exposure with compare_dispersion_aq, and             *)
(* compute_smoke_risk.  Cycles may overlap: nothing locks the tables.      *)
(*                                                                         *)
(* A job first deletes what it will write again and commits, then fills    *)
(* the table in a second transaction.  Rows are keyed by the job's window, *)
(* whose end is the second in which the job started; a later job looks up  *)
(* the rows of exactly its own window.                                     *)
(*                                                                         *)
(* Of geometry and wind the model keeps which fires reach which            *)
(* geographies, of an exposure that it is positive, of a risk score where  *)
(* its transport came from (the scores are those of RiskScores).           *)
(***************************************************************************)
EXTENDS Naturals, Sequences, FiniteSets, SequencesExt

CONSTANTS
  Runs, Fires, Geos,
  Environments,   \* settings of the scheduler's cycles, see EnvFields
  OnGrid,         \* the fires with a weather grid cell in reach
  OnStation,      \* the fires with a wind station in reach
  Corridor,       \* << source, fire, geography >> in the corridor of the smoke
  Downwind,       \* the same, for a positive dispersion score
  Inside, Nearby, \* << fire, geography >>: in it, or out of it but near
  Measured,       \* the geographies with air quality measurements
  RiskHours, DispersionHours,   \* the lookbacks
  MaxTargets,     \* DISPERSION_MAX_TARGET_GEOGRAPHIES
  LastSecond, MaxFaults         \* bounds of the model

Models == {"v1", "v2", "v3", "v4", "v5"}

\* preset: RISK_MODEL_VERSION as the scheduler sets it ("" when it does not).
EnvFields == [mode : {"fixture", "live"}, grid : BOOLEAN, dispersion : BOOLEAN,
              strictLag : BOOLEAN, fallback : BOOLEAN, preset : Models \cup {""}]

ASSUME CycleInputs ==
  /\ Environments \subseteq EnvFields
  /\ OnGrid \subseteq Fires /\ OnStation \subseteq Fires /\ Measured \subseteq Geos
  /\ Inside \cup Nearby \subseteq Fires \X Geos
  /\ Corridor \subseteq {"grid", "station"} \X Fires \X Geos
  /\ Downwind \subseteq {"grid", "station"} \X Fires \X Geos
  /\ {RiskHours, DispersionHours, MaxTargets, LastSecond, MaxFaults} \subseteq Nat
  /\ IsFiniteSet(Fires) /\ IsFiniteSet(Geos)

VARIABLES
  env, now,
  fires,        \* normalized.fire_detections within the lookback
  row, steps,   \* analytics.operational_runs
  matches,      \* analytics.fire_weather_matches
  plumes,       \* analytics.smoke_plume_exposures
  dispersions,  \* analytics.smoke_dispersion_exposures
  comparisons,  \* analytics.dispersion_aq_comparisons
  risks,        \* analytics.smoke_risk_scores
  topic,        \* the smoke risk topic
  pos, stage,   \* where a cycle's script is
  local,        \* the running job's window, work list and rows
  queue,        \* what its Kafka producer has not delivered yet
  windows,      \* the window of each job of a cycle
  done,         \* the jobs of a cycle that ended well
  faults, lost  \* cycles that met a fault, with its kind; undelivered messages

tables == << matches, plumes, dispersions, comparisons, risks >>
ledger == << row, steps >>
vars == << env, now, fires, ledger, tables, topic, pos, stage, local, queue,
           windows, done, faults, lost >>

-----------------------------------------------------------------------------
(* The script.                                                             *)

\* live_ingest_once.sh, run as one command of the cycle.
LiveSteps == << "ingest", "normalize", "compute_plume", "compute_risk",
                "collect_lag", "quality_check", "alerts_materialize",
                "alerts_send" >>

GridSteps == << "grid_weather_replay", "normalize_grid_weather", "match_fire_weather" >>
DispersionSteps == << "compute_dispersion", "compare_dispersion_aq" >>
TransportSteps == {"compute_plume", "compute_dispersion", "compute_risk"}

Optional(enabled, block) == IF enabled THEN block ELSE << >>

FixtureSteps(e) ==
  << "replay", "normalize" >> \o Optional(e.grid, GridSteps)
  \o << "compute_plume" >> \o Optional(e.dispersion, DispersionSteps)
  \o << "compute_risk", "collect_lag", "quality_check", "alerts_materialize",
        "alerts_send" >>

Live == env.mode = "live"

Scripts ==
  [e \in Environments |-> IF e.mode = "live" THEN LiveSteps ELSE FixtureSteps(e)]

Script == Scripts[env]

Step(r) == IF pos[r] = 0 THEN "start" ELSE Script[pos[r]]

\* PLUME_MODEL_VERSION and RISK_MODEL_VERSION as the script exports them: the
\* first default that applies stays.
PlumeModel == IF ~Live /\ env.grid THEN "wind_grid_v2" ELSE "wind_v1"

RiskModel == CASE env.preset # "" -> env.preset
               [] env.preset = "" /\ ~Live /\ env.grid -> "v4"
               [] env.preset = "" /\ ~Live /\ ~env.grid /\ env.dispersion -> "v5"
               [] OTHER -> "v2"

\* A window: its end, and the hours it looks back.
Window(hours) == << now, hours >>

NoWindow == << >>

NoJob == [window |-> NoWindow, todo |-> {}, rows |-> {}]

TypeOK ==
  LET W == {NoWindow} \cup ((0..LastSecond) \X {RiskHours, DispersionHours}) IN
  /\ env \in Environments /\ now \in 0..LastSecond /\ fires \subseteq Fires
  /\ row \in [Runs -> {"absent", "running", "succeeded", "failed"}]
  /\ \A r \in Runs : \A i \in DOMAIN steps[r] :
       steps[r][i].name \in ToSet(Script) /\ steps[r][i].status \in {"start", "ok", "warn"}
  /\ matches \subseteq Fires
  /\ plumes \subseteq [key : W \X {"wind_v1", "wind_grid_v2"} \X Fires \X Geos,
                       wind : {"grid", "station"}]
  /\ dispersions \subseteq [key : W \X Fires \X Geos, wind : {"grid", "station"}]
  /\ comparisons \subseteq [key : W \X Geos, sawRisk : BOOLEAN]
  /\ risks \cup topic \cup lost \subseteq
       [key : W \X Models \X Geos, plume : BOOLEAN, fallback : BOOLEAN, dispersed : BOOLEAN]
  /\ pos \in [Runs -> 0..Len(Script)]
  /\ stage \in [Runs -> {"new", "begin", "open", "work", "write", "flush", "ok",
                         "warn", "failing", "finish", "gone"}]
  /\ \A r \in Runs : windows[r] \in [TransportSteps -> W] /\ done[r] \subseteq ToSet(Script)
  /\ faults \subseteq Runs \X {"killed", "unrecorded", "failed", "dropped"}

Init ==
  /\ env \in Environments /\ now = 0 /\ fires = {}
  /\ row = [r \in Runs |-> "absent"] /\ steps = [r \in Runs |-> << >>]
  /\ matches = {} /\ plumes = {} /\ dispersions = {} /\ comparisons = {}
  /\ risks = {} /\ topic = {} /\ lost = {} /\ faults = {}
  /\ pos = [r \in Runs |-> 0] /\ stage = [r \in Runs |-> "new"]
  /\ local = [r \in Runs |-> NoJob] /\ queue = [r \in Runs |-> {}]
  /\ windows = [r \in Runs |-> [s \in TransportSteps |-> NoWindow]]
  /\ done = [r \in Runs |-> {}]

-----------------------------------------------------------------------------
(* Pieces of an action.                                                    *)

Goto(r, s) == stage' = [stage EXCEPT ![r] = s] /\ UNCHANGED pos

\* On to the next command of the script, or to its end.
Advance(r) ==
  IF pos[r] = Len(Script)
  THEN stage' = [stage EXCEPT ![r] = "finish"] /\ UNCHANGED pos
  ELSE /\ pos' = [pos EXCEPT ![r] = @ + 1]
       /\ stage' = [stage EXCEPT ![r] = IF Live THEN "open" ELSE "begin"]

\* The job of the step exits with 0.
JobDone(r) ==
  /\ done' = [done EXCEPT ![r] = @ \cup {Step(r)}]
  /\ local' = [local EXCEPT ![r] = NoJob]
  /\ IF Live THEN Advance(r) ELSE Goto(r, "ok")

Fault(r, kind) == Cardinality(faults) < MaxFaults /\ faults' = faults \cup {<< r, kind >>}

\* INSERT ... ON CONFLICT DO UPDATE.
Upsert(table, new) == {x \in table : \A y \in new : x.key # y.key} \cup new

\* A job computes its window, deletes what the table has for it and commits.
\* The work list it reads next depends on nothing a job writes.
OpenJob(r, hours, todo) ==
  /\ stage[r] = "open" /\ Goto(r, "work")
  /\ local' = [local EXCEPT ![r] = [window |-> Window(hours), todo |-> todo, rows |-> {}]]
  /\ windows' = [windows EXCEPT ![r] =
                   IF Step(r) \in TransportSteps THEN [@ EXCEPT ![Step(r)] = Window(hours)] ELSE @]
  /\ UNCHANGED << env, now, fires, ledger, topic, queue, done, faults, lost >>

-----------------------------------------------------------------------------
(* The cycle.                                                              *)

\* operational_runs start; the ERR trap is set after it.
Start(r) ==
  /\ stage[r] = "new" /\ row' = [row EXCEPT ![r] = "running"]
  /\ Advance(r)
  /\ UNCHANGED << env, now, fires, steps, tables, topic, local, queue, windows,
                  done, faults, lost >>

AppendStep(r, status) ==
  steps' = [steps EXCEPT ![r] = Append(@, [name |-> Step(r), status |-> status])]

\* operational_runs step, before and after the job.
RecordStart(r) ==
  /\ stage[r] = "begin" /\ AppendStep(r, "start") /\ Goto(r, "open")
  /\ UNCHANGED << env, now, fires, row, tables, topic, local, queue, windows,
                  done, faults, lost >>

RecordOk(r) ==
  /\ stage[r] = "ok" /\ AppendStep(r, "ok") /\ Advance(r)
  /\ UNCHANGED << env, now, fires, row, tables, topic, local, queue, windows,
                  done, faults, lost >>

\* The lag collector failed: a warning, unless STRICT_LAG_COLLECTION.
RecordWarn(r) ==
  /\ stage[r] = "warn"
  /\ IF Live THEN UNCHANGED steps ELSE AppendStep(r, "warn")
  /\ IF env.strictLag THEN Goto(r, "failing") ELSE Advance(r)
  /\ UNCHANGED << env, now, fires, row, tables, topic, local, queue, windows,
                  done, faults, lost >>

\* The command that starts the run or records a step fails.  The ERR trap is
\* not set yet, or not inherited by the function py: the script just ends.
RecordFails(r) ==
  /\ stage[r] \in {"new", "begin", "ok", "warn"} /\ (Live => stage[r] = "new")
  /\ Fault(r, "unrecorded") /\ Goto(r, "gone")
  /\ UNCHANGED << env, now, fires, ledger, tables, topic, local, queue, windows,
                  done, lost >>

\* Mutant: a job that fails does not stop the script.
JobFails_Ignored(r) ==
  /\ stage[r] \in {"open", "work", "write", "flush"}
  /\ Fault(r, "failed") /\ Goto(r, "ok")
  /\ local' = [local EXCEPT ![r] = NoJob] /\ queue' = [queue EXCEPT ![r] = {}]
  /\ lost' = lost \cup queue[r]
  /\ UNCHANGED << env, now, fires, ledger, tables, topic, windows, done >>

\* A job raises: its open transaction is rolled back, what its producer had
\* queued is lost, and the ERR trap runs (unless it is the lag collector).
JobFails(r) ==
  /\ stage[r] \in {"open", "work", "write", "flush"}
  /\ Fault(r, "failed") /\ Goto(r, IF Step(r) = "collect_lag" THEN "warn" ELSE "failing")
  /\ local' = [local EXCEPT ![r] = NoJob] /\ queue' = [queue EXCEPT ![r] = {}]
  /\ lost' = lost \cup queue[r]
  /\ UNCHANGED << env, now, fires, ledger, tables, topic, windows, done >>

\* Mutant: the trap only ends the script.
FinishFailed_NoRow(r) ==
  /\ stage[r] = "failing" /\ Goto(r, "gone")
  /\ UNCHANGED << env, now, fires, ledger, tables, topic, local, queue, windows,
                  done, faults, lost >>

\* Mutant: the script goes on after the trap.
FinishFailed_Continues(r) ==
  /\ stage[r] = "failing" /\ row' = [row EXCEPT ![r] = "failed"] /\ Advance(r)
  /\ UNCHANGED << env, now, fires, steps, tables, topic, local, queue, windows,
                  done, faults, lost >>

\* finish_failed, whose own failure is ignored (|| true).
FinishFailed(r) ==
  /\ stage[r] = "failing" /\ Goto(r, "gone")
  /\ \/ row' = [row EXCEPT ![r] = "failed"] /\ UNCHANGED faults
     \/ Fault(r, "unrecorded") /\ UNCHANGED row
  /\ UNCHANGED << env, now, fires, steps, tables, topic, local, queue, windows,
                  done, lost >>

\* The trap is cleared, then the run is closed.
Finish(r) ==
  /\ stage[r] = "finish" /\ Goto(r, "gone")
  /\ \/ row' = [row EXCEPT ![r] = "succeeded"] /\ UNCHANGED faults
     \/ Fault(r, "unrecorded") /\ UNCHANGED row
  /\ UNCHANGED << env, now, fires, steps, tables, topic, local, queue, windows,
                  done, lost >>

\* The container stops, or the scheduler's docker exec is killed.
Kill(r) ==
  /\ stage[r] \notin {"new", "gone"} /\ Fault(r, "killed") /\ Goto(r, "gone")
  /\ local' = [local EXCEPT ![r] = NoJob] /\ queue' = [queue EXCEPT ![r] = {}]
  /\ lost' = lost \cup queue[r]
  /\ UNCHANGED << env, now, fires, ledger, tables, topic, windows, done >>

\* The commands that hand nothing to the jobs below, but that the normalizer
\* brings fires.
RunScript(r) ==
  /\ stage[r] = "open"
  /\ Step(r) \notin {"match_fire_weather", "compare_dispersion_aq"} \cup TransportSteps
  /\ fires' = IF Step(r) = "normalize" THEN Fires ELSE fires
  /\ JobDone(r)
  /\ UNCHANGED << env, now, ledger, tables, topic, queue, windows, faults, lost >>

-----------------------------------------------------------------------------
(* match_fire_weather, compute_plume_exposure, compute_dispersion_exposure. *)

OpenMatch(r) ==
  /\ Step(r) = "match_fire_weather" /\ OpenJob(r, RiskHours, fires)
  /\ matches' = matches \ fires
  /\ UNCHANGED << plumes, dispersions, comparisons, risks >>

\* The fires with a grid cell in reach are matched to the nearest.
CommitMatch(r) ==
  /\ stage[r] = "work" /\ Step(r) = "match_fire_weather"
  /\ matches' = matches \cup (local[r].todo \cap OnGrid)
  /\ JobDone(r)
  /\ UNCHANGED << env, now, fires, ledger, plumes, dispersions, comparisons,
                  risks, topic, queue, windows, faults, lost >>

OpenPlume(r) ==
  /\ Step(r) = "compute_plume" /\ OpenJob(r, RiskHours, fires)
  /\ plumes' = {x \in plumes : << x.key[1], x.key[2] >> # << Window(RiskHours), PlumeModel >>}
  /\ UNCHANGED << matches, dispersions, comparisons, risks >>

\* _resolve_wind and _resolve_wind_dispersion: the wind at a fire, if any.
Wind(f, useGrid, fallback) ==
  CASE useGrid /\ f \in matches -> {"grid"}
    [] useGrid /\ f \notin matches /\ fallback /\ f \in OnStation -> {"station"}
    [] ~useGrid /\ f \in OnStation -> {"station"}
    [] OTHER -> {}

\* One fire of the list: its wind, and the geographies its smoke may reach.
ResolvePlume(r, f) ==
  /\ stage[r] = "work" /\ Step(r) = "compute_plume"
  /\ local' = [local EXCEPT ![r].todo = @ \ {f},
       ![r].rows = @ \cup {[key |-> << local[r].window, PlumeModel, f, p[2] >>, wind |-> p[1]] :
           p \in {q \in Wind(f, PlumeModel = "wind_grid_v2", env.fallback) \X Geos :
                   << q[1], f, q[2] >> \in Corridor}}]
  /\ Goto(r, "work")
  /\ UNCHANGED << env, now, fires, ledger, tables, topic, queue, windows, done,
                  faults, lost >>

CommitPlume(r) ==
  /\ stage[r] = "work" /\ Step(r) = "compute_plume" /\ local[r].todo = {}
  /\ plumes' = Upsert(plumes, local[r].rows) /\ JobDone(r)
  /\ UNCHANGED << env, now, fires, ledger, matches, dispersions, comparisons,
                  risks, topic, queue, windows, faults, lost >>

OpenDispersion(r) ==
  /\ Step(r) = "compute_dispersion" /\ OpenJob(r, DispersionHours, fires)
  /\ dispersions' = {x \in dispersions : x.key[1] # Window(DispersionHours)}
  /\ UNCHANGED << matches, plumes, comparisons, risks >>

\* One fire of the list; rows stop at DISPERSION_MAX_TARGET_GEOGRAPHIES.  The
\* settings' defaults: grid wind, then station wind.
ResolveDispersion(r, f) ==
  /\ stage[r] = "work" /\ Step(r) = "compute_dispersion"
  /\ \E w \in {"grid", "station"}, T \in SUBSET Geos :
       LET targets == {g \in Geos : w \in Wind(f, TRUE, TRUE) /\ << w, f, g >> \in Downwind}
           room == MaxTargets - Cardinality(local[r].rows)
       IN  /\ Wind(f, TRUE, TRUE) \in {{w}, {}} /\ T \subseteq targets
           /\ Cardinality(T) = IF Cardinality(targets) < room THEN Cardinality(targets) ELSE room
           /\ local' = [local EXCEPT ![r].todo = @ \ {f},
                ![r].rows = @ \cup {[key |-> << local[r].window, f, g >>, wind |-> w] : g \in T}]
  /\ Goto(r, "work")
  /\ UNCHANGED << env, now, fires, ledger, tables, topic, queue, windows, done,
                  faults, lost >>

CommitDispersion(r) ==
  /\ stage[r] = "work" /\ Step(r) = "compute_dispersion" /\ local[r].todo = {}
  /\ dispersions' = Upsert(dispersions, local[r].rows) /\ JobDone(r)
  /\ UNCHANGED << env, now, fires, ledger, matches, plumes, comparisons,
                  risks, topic, queue, windows, faults, lost >>

-----------------------------------------------------------------------------
(* compare_dispersion_aq: the newest window with dispersion rows, its own  *)
(* or an older cycle's.                                                    *)

Newest == {x.key[1] : x \in {y \in dispersions :
             \A z \in dispersions : z.key[1][1] <= y.key[1][1]}}

OpenCompare(r) ==
  /\ Step(r) = "compare_dispersion_aq" /\ stage[r] = "open"
  /\ IF Newest = {}
     THEN JobDone(r) /\ UNCHANGED comparisons
     ELSE \E w \in Newest :
            /\ local' = [local EXCEPT ![r].window = w] /\ Goto(r, "work") /\ UNCHANGED done
            /\ comparisons' = {x \in comparisons : x.key[1] # w}
  /\ UNCHANGED << env, now, fires, ledger, matches, plumes, dispersions, risks,
                  topic, queue, windows, faults, lost >>

CommitCompare(r) ==
  /\ stage[r] = "work" /\ Step(r) = "compare_dispersion_aq"
  /\ LET w == local[r].window IN
     comparisons' = Upsert(comparisons,
       {[key |-> << w, g >>, sawRisk |-> \E x \in risks : x.key = << w, "v5", g >>] :
          g \in {x.key[3] : x \in {y \in dispersions : y.key[1] = w}}})
  /\ JobDone(r)
  /\ UNCHANGED << env, now, fires, ledger, matches, plumes, dispersions, risks,
                  topic, queue, windows, faults, lost >>

-----------------------------------------------------------------------------
(* compute_smoke_risk.                                                     *)

\* With the fires F: v1 joins the geographies with a fire inside or a
\* measurement, and _has_activity_v2 lets those near a fire pass too.
JoinedV1(F) == Measured \cup {g \in Geos : \E f \in F : << f, g >> \in Inside}
HasActivityV2(F) == JoinedV1(F) \cup {g \in Geos : \E f \in F : << f, g >> \in Nearby}

Scorable(F) == IF RiskModel = "v1" THEN JoinedV1(F) ELSE HasActivityV2(F)

OpenRisk(r) ==
  /\ Step(r) = "compute_risk" /\ OpenJob(r, RiskHours, Scorable(fires))
  /\ risks' = {x \in risks : << x.key[1], x.key[2] >> # << Window(RiskHours), RiskModel >>}
  /\ UNCHANGED << matches, plumes, dispersions, comparisons >>

\* Mutant: the latest exposures are taken, whatever their window.
Exposed_AnyWindow(w, model, g) == \E x \in plumes : x.key[2] = model /\ x.key[4] = g

\* Is there an exposure of this model, in this very window?
Exposed(w, model, g) == \E x \in plumes : x.key[1] = w /\ x.key[2] = model /\ x.key[4] = g

\* _v4_plume_selection.
GridExposed(w, g) == PlumeModel = "wind_grid_v2" /\ Exposed(w, "wind_grid_v2", g)
FallsBack(w, g) == /\ PlumeModel = "wind_grid_v2" /\ ~Exposed(w, "wind_grid_v2", g)
                   /\ env.fallback /\ Exposed(w, "wind_v1", g)

\* Mutant: without the grid model, no corridor is selected.
SelectedPlume_GridOnly(w, g) == GridExposed(w, g) \/ FallsBack(w, g)

SelectedPlume(w, g) == \/ GridExposed(w, g) \/ FallsBack(w, g)
                       \/ PlumeModel = "wind_v1" /\ Exposed(w, "wind_v1", g)

Scored(w, g) ==
  [key |-> << w, RiskModel, g >>,
   plume |-> CASE RiskModel = "v3" -> Exposed(w, "wind_v1", g)
               [] RiskModel \in {"v4", "v5"} -> SelectedPlume(w, g)
               [] OTHER -> FALSE,
   fallback |-> RiskModel \in {"v4", "v5"} /\ FallsBack(w, g),
   dispersed |-> /\ RiskModel = "v5"
                 /\ \E x \in dispersions : x.key[1] = w /\ x.key[3] = g]

\* The transport is looked up, every row is written and its message queued.
WriteRisk(r) ==
  /\ stage[r] = "work" /\ Step(r) = "compute_risk" /\ Goto(r, "write")
  /\ LET rows == {Scored(local[r].window, g) : g \in local[r].todo} IN
     /\ local' = [local EXCEPT ![r].rows = rows]
     /\ queue' = [queue EXCEPT ![r] = rows]
  /\ UNCHANGED << env, now, fires, ledger, tables, topic, windows, done, faults, lost >>

CommitRisk(r) ==
  /\ stage[r] = "write" /\ Goto(r, "flush")
  /\ risks' = Upsert(risks, local[r].rows)
  /\ UNCHANGED << env, now, fires, ledger, matches, plumes, dispersions,
                  comparisons, topic, local, queue, windows, done, faults, lost >>

\* The producer's thread delivers a message, or gives it up.
Deliver(r, m) ==
  /\ queue' = [queue EXCEPT ![r] = @ \ {m}]
  /\ \/ topic' = topic \cup {m} /\ UNCHANGED << faults, lost >>
     \/ Fault(r, "dropped") /\ lost' = lost \cup {m} /\ UNCHANGED topic
  /\ UNCHANGED << env, now, fires, ledger, tables, pos, stage, local, windows, done >>

\* Mutant: it waits until the broker has acknowledged every message.
FlushRisk_UntilAcked(r) ==
  /\ stage[r] = "flush" /\ queue[r] = {} /\ lost = {} /\ JobDone(r)
  /\ UNCHANGED << env, now, fires, ledger, tables, topic, queue, windows, faults, lost >>

\* flush waits for every message, and does not say which were given up.
FlushRisk(r) ==
  /\ stage[r] = "flush" /\ queue[r] = {} /\ JobDone(r)
  /\ UNCHANGED << env, now, fires, ledger, tables, topic, queue, windows, faults, lost >>

-----------------------------------------------------------------------------

Tick ==
  /\ now < LastSecond /\ now' = now + 1
  /\ UNCHANGED << env, fires, ledger, tables, topic, pos, stage, local, queue,
                  windows, done, faults, lost >>

\* What a cycle does if nothing goes wrong.
Progress(r) ==
  \/ Start(r) \/ RecordStart(r) \/ RecordOk(r) \/ RecordWarn(r) \/ RunScript(r)
  \/ OpenMatch(r) \/ CommitMatch(r) \/ OpenPlume(r) \/ CommitPlume(r)
  \/ OpenDispersion(r) \/ CommitDispersion(r) \/ OpenCompare(r) \/ CommitCompare(r)
  \/ OpenRisk(r) \/ WriteRisk(r) \/ CommitRisk(r) \/ FlushRisk(r)
  \/ FinishFailed(r) \/ Finish(r)
  \/ \E f \in local[r].todo : ResolvePlume(r, f) \/ ResolveDispersion(r, f)
  \/ \E m \in queue[r] : Deliver(r, m)

Next == \/ Tick
        \/ \E r \in Runs : Progress(r) \/ RecordFails(r) \/ JobFails(r) \/ Kill(r)

Spec == Init /\ [][Next]_vars

\* The operating system runs the script, and the broker and the database answer.
FairSpec == Spec /\ \A r \in Runs : WF_vars(Progress(r))

-----------------------------------------------------------------------------
(* Properties.                                                             *)

\* A cycle's row opens once and closes at most once: no cycle marked failed
\* becomes succeeded, or runs on.
Ledger == INSTANCE RunLedger

LedgerOnlyCloses == Ledger!Spec

\* "succeeded" is never told of a cycle that left something out: each job of
\* its script ended well, in the order of the script, and the row's steps say
\* so (a failed lag collector, when it may fail, is a warning).
SucceededMeansDone ==
  \A r \in Runs : row[r] = "succeeded" =>
    /\ \A i \in DOMAIN Script :
         Script[i] \in done[r] \/ (Script[i] = "collect_lag" /\ ~env.strictLag)
    /\ ~Live => steps[r] = [k \in 1..2 * Len(Script) |->
         LET s == Script[(k + 1) \div 2] IN
         [name |-> s, status |-> CASE k % 2 = 1 -> "start"
                                   [] k % 2 = 0 /\ s \in done[r] -> "ok"
                                   [] OTHER -> "warn"]]

\* A row says "running" of a cycle that is gone only if it was killed or the
\* ledger itself could not be written: a job that fails never leaves it so.
StuckOnlyIfUnrecorded ==
  \A r \in Runs : stage[r] = "gone" /\ row[r] = "running" =>
    << r, "killed" >> \in faults \/ << r, "unrecorded" >> \in faults

\* The jobs of r shared their second with no other cycle's jobs.
AloneInItsSeconds(r) ==
  \A q \in Runs \ {r} : \A s, t \in TransportSteps :
    windows[q][s] = NoWindow \/ windows[q][s] # windows[r][t]

\* Smoke reaches g whatever the source of the wind.
SmokeReaches(g) == \E f \in OnGrid \cap OnStation :
                     << "grid", f, g >> \in Corridor /\ << "station", f, g >> \in Corridor

\* No other cycle takes the grid's wind from r: match_fire_weather deletes the
\* matches that it will write again, and a plume job of another cycle in
\* between finds none.  Without the fallback to a station it finds no wind.
WindStays(r) == PlumeModel = "wind_grid_v2" /\ ~env.fallback =>
                  \A q \in Runs \ {r} : stage[q] = "new"

\* The transport a score blends is found by the window alone: a score has a
\* plume only if some cycle committed plumes of that second, and it has the
\* plume of its own cycle if both jobs started in the same second, no other
\* cycle's did, and none took its wind.
CarriesWithinTheSecond ==
  \A r \in Runs : Step(r) = "compute_risk" /\ stage[r] = "write" =>
    \A x \in local[r].rows :
      /\ x.plume => \E q \in Runs : /\ "compute_plume" \in done[q]
                                    /\ windows[q]["compute_plume"] = x.key[1]
      /\ (/\ windows[r]["compute_plume"] = x.key[1]
          /\ AloneInItsSeconds(r) /\ WindStays(r) /\ SmokeReaches(x.key[3])
          /\ RiskModel \in {"v4", "v5"} \/ (RiskModel = "v3" /\ PlumeModel = "wind_v1"))
         => x.plume

\* The wind that a cycle finds at f: the nearest grid cell's if it reads the
\* grid, else a station's.
FoundWind(f, useGrid, fallback) ==
  CASE useGrid /\ env.grid /\ f \in OnGrid -> {"grid"}
    [] useGrid /\ ~(env.grid /\ f \in OnGrid) /\ fallback /\ f \in OnStation -> {"station"}
    [] ~useGrid /\ f \in OnStation -> {"station"}
    [] OTHER -> {}

Transported(g, reach, useGrid, fallback) ==
  \E f \in Fires : \E w \in FoundWind(f, useGrid, fallback) : << w, f, g >> \in reach

\* The pairs of a fire and a geography that its dispersed smoke reaches.
Dispersing ==
  {p \in Fires \X Geos :
     \E w \in FoundWind(p[1], TRUE, TRUE) : << w, p[1], p[2] >> \in Downwind}

\* No other cycle has started.
Undisturbed(r) == \A q \in Runs \ {r} : stage[q] = "new"

\* What a cycle computes before any other starts: a score for each geography
\* that its model scores with the fires that it ingested and for no other, with the corridor's smoke if the
\* model reads the corridor that the cycle computed, in the same second, and
\* with dispersed smoke if it is v5, in the same second and lookback.  Of the
\* dispersed pairs it stores as many as the target limit allows, and only if
\* the limit cuts some off can a geography be scored without its own.
LoneCycleScores ==
  \A r \in Runs : Undisturbed(r) /\ row[r] = "succeeded" =>
    LET w == windows[r]["compute_risk"]
        corridor == /\ windows[r]["compute_plume"] = w
                    /\ RiskModel \in {"v4", "v5"} \/ (RiskModel = "v3" /\ PlumeModel = "wind_v1")
        proxy == RiskModel = "v5" /\ windows[r]["compute_dispersion"] = w
    IN  /\ {x.key : x \in risks} = {<< w, RiskModel, g >> : g \in Scorable(Fires)}
        /\ \A x \in risks : LET g == x.key[3] IN
             /\ x.plume <=> corridor /\ Transported(g, Corridor, PlumeModel = "wind_grid_v2", env.fallback)
             /\ x.dispersed => proxy /\ Transported(g, Downwind, TRUE, TRUE)
             /\ (proxy /\ Transported(g, Downwind, TRUE, TRUE)
                 /\ Cardinality(Dispersing) <= MaxTargets) => x.dispersed
        /\ "compute_dispersion" \in done[r] =>
             Cardinality({x \in dispersions :
                            x.key[1] = windows[r]["compute_dispersion"]})
               = IF Cardinality(Dispersing) <= MaxTargets THEN Cardinality(Dispersing)
                                                          ELSE MaxTargets

\* A cycle that started ends, whatever fails: flush never waits for ever.
CycleEnds == \A r \in Runs : stage[r] # "new" ~> stage[r] = "gone"

\* v4 and v5 are documented to use the corridor that the cycle computed: a
\* cycle that succeeded scored a geography that smoke reaches with its plume.
\* (It does so only if compute_plume and compute_risk start in one second.)
RiskUsesCyclePlumes ==
  \A r \in Runs : row[r] = "succeeded" /\ RiskModel \in {"v4", "v5"} =>
    \A x \in risks : x.key[1] = windows[r]["compute_risk"] /\ SmokeReaches(x.key[3])
                     => x.plume
=============================================================================
