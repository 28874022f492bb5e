# TLA+ models of the wildfire smoke risk correlator

The correlator ingests fire detections, air quality, wind and gridded weather
through Kafka, normalizes them into PostgreSQL, computes exposures and risk
scores in batch jobs, and turns threshold violations into incidents that are
announced through notifiers. Every job is a short-lived command-line process on
its own database connection, started by an operational cycle, by a scheduler or
by hand; nothing in the repository keeps two runs from overlapping. The models
here are about what that makes hard: interleaved transactions, crashes between
an external effect and its record, retries, and state read early and used late.

Paths below are relative to the repository's root; `src/` in `PROJECT.json` is
that root.

## 1. The system

| Part | State it keeps | Operations | Talks to |
|---|---|---|---|
| Producers (`src/wildfire_smoke/producers/`, `ingestion_runs.py`) | `analytics.ingestion_runs` | fetch from a provider, publish raw envelopes, finish the run | raw Kafka topics |
| Normalizers (`spark/normalize_*.py`) | `raw.*`, `normalized.*`, `analytics.kafka_consumer_offsets` | read a whole topic, one transaction per partition: insert raw, upsert normalized, publish, record offsets | raw topics, normalized topics, DLQ topics |
| Dead letters (`dlq.py`) | `analytics.parse_errors` | record a failure, publish it to two DLQ topics | called by the normalizers |
| Replay and compaction (`replay_dlq.py`, `compact_parse_errors.py`) | `analytics.dlq_replay_runs`, `dlq_replay_items`, `parse_errors.status` | republish a payload, resolve, archive | raw topics |
| Lag collection (`kafka_lag.py`) | `kafka_topic_offsets`, `kafka_lag_observations` | compare high watermarks with recorded offsets | brokers |
| Exposure and risk jobs (`spark/compute_*.py`, `match_fire_weather.py`, `compare_dispersion_aq.py`, `evaluate_risk.py`) | `smoke_plume_exposures`, `smoke_dispersion_exposures`, `smoke_risk_scores`, ... | delete and recompute the rows of one time window | each other, only through window-keyed rows |
| Risk formulas (`risk.py`, `plume_scoring.py`, `dispersion.py`, `wind.py`, ...) | none | scores, bands, clamps | called by the jobs |
| Alert materialization (`alerts.py`, `severity.py`) | `analytics.alert_events` | fetch candidates, upsert an incident per fingerprint, resolve what is missing | SQL function `fn_alert_candidates` |
| Notification delivery (`alert_delivery.py`, `notification_reliability.py`) | `analytics.notification_attempts`, `alert_events.notification_state` | read open incidents, skip or send, record | notifiers (console, webhook, Slack, SMTP) |
| Operational cycle (`operational_runs.py`, `scripts/run_operational_cycle.sh`) | `analytics.operational_runs` | start, append a step, finish | runs all of the above in order |

Where behaviour is hard, and what makes each part correct, is listed line by
line under `hazards` in `PROJECT.json`. In short:

* **incidents**: one active incident per fingerprint under any overlap; a
  resolved one is final; an acknowledged one is the operator's; an evaluation
  is visible as a whole or not at all;
* **deliveries**: the audit claims no delivery that did not happen; a mark in
  `notification_state` is always audited; one sighting is announced once;
  the backoff is kept; nobody is told of an incident
  that was closed before the run began; every run ends;
* **normalization**: a bad payload costs nothing but itself, and what the offsets
  claim to have processed is in a table, a row whose send raised as a parse
  error; the tables are the fold of the topic but for such rows;
* **replay**: a resolved error was sent; what a run books is what it did; an
  error whose message still fails is not forgotten;
* **lag**: a group that is said to have caught up has;
* **cycles**: a cycle that succeeded did all its steps; a score carries the
  smoke of its own window and no other; every cycle ends;
* **scores**: every index stays on the scale of its bands, and more smoke never
  lowers it;
* **run bookkeeping** (`operational_runs`, `ingestion_runs`, `dlq_replay_runs`):
  a row is opened once, a verdict is not taken back, counts agree with the
  topic.

## 2. Modules

| Module | Models | Kind |
|---|---|---|
| `AlertTables` | `analytics.alert_events`, `analytics.notification_attempts`, and the part of PostgreSQL's READ COMMITTED transactions the alert commands rely on (row locks, commit, rollback, `now()`, deadlock detection); operators editing the status column | state machine parts |
| `AlertMaterialize` | `alerts materialize`: `alerts.py:174-320` | actions of one process |
| `AlertDelivery` | `alerts send`: `alert_delivery.py`, `notification_reliability.py` | actions of one process |
| `AlertIncidents` | what the two commands promise about incidents, without transactions or processes | abstract specification |
| `AlertPipeline` | the composition: any number of runs of both commands, crashes, operators, time; the refinement mapping | specification |
| `AlertFingerprint` | `fingerprint_for_candidate`, `severity.py` | operators |
| `Normalize` | runs of a normalizer over one partition of a raw topic, and the dead-letter path: `spark/normalize_firms.py` (the other three have the same loop), `dlq.py`, migration 007 | specification |
| `ConsumerLag` | the lag collector `kafka_lag.py` beside the normalizer runs of `Normalize` | specification, extends `Normalize` |
| `Replay` | what becomes of a dead letter: `replay_dlq.py` with its bookkeeping connection, `compact_parse_errors.py`, triage by hand, the normalizer runs that open errors again (one step each) | specification |
| `OperationalCycle` | `scripts/run_operational_cycle.sh`, `live_ingest_once.sh`, `operational_runs.py`, and the jobs that hand rows to each other: `match_fire_weather`, `compute_plume_exposure`, `compute_dispersion_exposure`, `compare_dispersion_aq`, `compute_smoke_risk` | specification |
| `RiskScores` | the five indices of `risk.py` with `plume_scoring.py`, `wind.py`, `dispersion.py`, in exact integers | specification over changing inputs |
| `Ingestion` | one run of any of the four producers, with `ingestion_runs.py` | specification |
| `RunLedger` | what a table of runs promises: absent, running, at most one verdict | abstract specification |
| `MC...` | instances for TLC | |
| `..._proofs` | TLAPS proofs | |

`AlertPipeline` composes `AlertMaterialize` and `AlertDelivery` over
`AlertTables` and refines `AlertIncidents`; `ConsumerLag` composes the lag
collector with `Normalize`; `OperationalCycle` and `Replay` refine `RunLedger`.
`Ingestion` does not: a verdict of its ledger can worsen (`VerdictsOnlyWorsen`).
The parts meet in tables and topics only: what `Ingestion` publishes is the log
of `Normalize`, whose dead letters are the rows of `Replay`, whose messages are
that log again; the scores that a cycle stores are those of `RiskScores`.

### Correspondence

A process variable `mat[m]` or `snd[s]` is one run of a command: its program
counter stands for the line the run is at, its other fields for the local
variables used later (`cand` for `fingerprints`, `todo` for `planned` or for
the rows left to send, `at` for the transaction's `now()`).

| Code | Action |
|---|---|
| `connect`, `fetch_candidates` (alerts.py:179-181) | `StartMaterialize` |
| `INSERT ... ON CONFLICT` (250-291) | `Upsert` = `Refresh` or `Insert` |
| resolve pass (294-315) | `Sweep` |
| `conn.commit()` (317) | `CommitMaterialize` |
| `connect`, `maybe_cooldown_block` (alert_delivery.py:290-295) | `StartSend` |
| `SELECT ... LIMIT`, severity filter (299-343) | `SelectOpen`, `SelectDigest` |
| the four early `continue`s (391-448) | `Skip` |
| `SAVEPOINT`, `notifier.send` (459-461) | `Deliver` |
| audit row, mark, `RELEASE` (462-484) | `RecordSuccess` |
| `ROLLBACK TO`, failed audit row (485-500) | `RecordFailure` |
| digest (360-384) | `DeliverDigest`, `PersistDigest`, `FailDigest` |
| `conn.commit()` (502), (369) | `CommitSend` |
| killed, disconnected | `AbortMaterialize`, `AbortSend` |
| statement cancelled by the deadlock detector | `DeadlockMaterialize`, `DeadlockSend`, `DeadlockDigest` |

A row of `alert_events` has a committed version (`incidents`) and a newest one
(`draft`); they differ only while `lock` names the writer. Rows of
`notification_attempts` are invisible to others until the commit (`pending`
then `attempts`). `delivered` holds what left the system and is never rolled
back. `clock` is `now()`.

In `Normalize`, `run[r]` is one call of `_foreach_partition`: `pos` and `end`
say which message is next and where the partition ended when the run began,
`max`, `ok` and `err` are the fields of `partition_state`, `tx` is what the
transaction has written, `mark` what it had written at the savepoint that the
last failed row left behind, and `queue` what was sent to the producer and not
yet published. Three variables are history, for the properties: `spoilt` (a
parse error of this run was refused), `tainted` (such a run has committed) and
`fails`, which counts against `MaxFails`.

| Code (normalize_firms.py) | Action |
|---|---|
| `main` reads "earliest" to "latest", `foreachPartition` (242-259) | `StartRun` |
| `raw_val is None` (77-79) | `SkipNull` |
| `rb.decode` raises (91) | `FailDecode` |
| not JSON, not an envelope (92-141), `handle_normalize_failure` | `RejectBody`, through `Quarantine` |
| savepoint, raw row, upsert, `send`, release (143-175) | `AcceptRow` |
| `ROLLBACK TO SAVEPOINT` (176-198), the row being bad | `RejectRow` |
| the same, because `send` (172) or a statement raises, whatever the row | `RowRaises` |
| the same in a transaction that was aborted before | `RejectAfterAbort`, `FailAfterAbort` |
| parse error, two sends, both swallowed when they raise (dlq.py:224-304) | `Quarantine`: recorded and queued, recorded only, or refused |
| offsets, `commit` (200-220) | `Commit`, `FailCommit` |
| `flush` (221), `close` (237-239) | `Flush`, `Escape` |
| the process is killed | `Kill` |

`ConsumerLag` adds `ReadHigh` (`_end_offsets`, kafka_lag.py:29-70) and `StoreLag`
(the offsets and `max(0, hi - cur)`, which is `Observed`, 73-127); anything of `Normalize` may happen
between them.

In `Replay`, `replay[r]` is one process of `replay_dlq`: `todo` the rows it has
fetched, `queue` what its producer has not delivered, `items` and `ledger` what
it has written over the second connection, which commits each row.

| Code (replay_dlq.py) | Action |
|---|---|
| options, producer, `create_run` (365-457) | `Start` |
| rows fetched once (141-154); consumer on the DLQ topic (259-272) | `ReadRows`, `OpenConsumer` |
| dry run or no sample (160-195); bad letter (284-294) | `Skip`, `SkipBadLetter` |
| `producer.send`, item (197-209) | `Send`; the producer's thread: `Deliver`, `Drop` |
| `send` raises (210-223); an item cannot be written (206-223) | `SendRaises`, `BookingRaises` |
| `UPDATE parse_errors` and commit (225-241) | `Resolve` |
| `flush`, verdict (408-428); any other exception (429-440) | `Finish`, `RaiseFailed` |
| `producer.close()` (457-463) | `Close` |
| `compact_parse_errors.py:17-66` | `Compact` |
| a normalizer run over the topic (dlq.py) | `NormalizeRun` |

In `OperationalCycle`, `stage[r]` and `pos[r]` say where a cycle's script is,
`local[r]` what its running job holds in memory, `windows[r]` the window each
job computed from its own `now()`. A transport job is two transactions, as in
the code: delete and commit, then fill and commit.

| Code | Action |
|---|---|
| `operational_runs start` / `step` / `finish`; ERR trap | `Start`, `RecordStart`, `RecordOk`, `RecordWarn`, `Finish`, `FinishFailed` |
| a bookkeeping command fails, a job fails, the script is killed | `RecordFails`, `JobFails`, `Kill` |
| match_fire_weather.py:42-150 | `OpenMatch`, `CommitMatch` |
| compute_plume_exposure.py:178-312 | `OpenPlume`, `ResolvePlume` per fire, `CommitPlume` |
| compute_dispersion_exposure.py:105-308 | `OpenDispersion`, `ResolveDispersion`, `CommitDispersion` |
| compare_dispersion_aq.py:74-269 | `OpenCompare`, `CommitCompare` |
| compute_smoke_risk.py:409-680 | `OpenRisk`, `WriteRisk`, `CommitRisk`, `FlushRisk`; the producer: `Deliver` |
| commands that hand those jobs nothing (the normalizer brings fires) | `RunScript` |

`RiskScores` has one operator per function (`V1`, `V2`, `ScoreV3`..`ScoreV5`,
`Band`, `Exposure`, `Damping`, `AngularDifference`, ...); its actions change one
input between two runs of the risk job. In `Ingestion`, `run[r]` is one producer
process: `Start` (create_run), `StartRaises`, `FetchAll` and `Station` (by kind), `Send`,
`Finish` (flush, finish_run), `Raise` to `failing` and `FinishFailed` (main's
except clause), `Exit`, and `Deliver`, `Drop` of the producer's thread. OpenAQ's
three loops (openaq_producer.py:288-387) are a cursor, `par`, `loc`, `sen`:
`NextParameter` and `FetchLocations`, `NextLocation`, `NextSensor` and
`FetchMeasurements`, each with its pages and `Retry`; `Skip` passes over a
measurement without a value, `LocationRaises` and `MeasurementRaises` end the run.

What is abstracted:

* a payload is what the code tells apart: where it fails, whether `jsonb` takes
  it, and the key of its record; equal payloads have equal hashes;
* of a parse error the model keeps whether it is open, not `occurrence_count`
  or the sample; of `raw.*` which messages have a row, not how often (each run
  inserts them again);
* both dead-letter topics are one, so that a failure of the second send alone is
  not told apart; a lost connection is a kill, and any other statement or send
  that raises is `RowRaises` or a refusal in `Quarantine`;
* offsets count from 1 and 0 stands for null; the spatial association after
  a run writes other columns and is left out;
* a candidate is its fingerprint; two candidates of one fingerprint in one
  evaluation are one, because the second upsert changes nothing the model keeps;
* columns that only describe an incident (title, details, ...) are left out;
* the resolve pass takes its row locks in one step. PostgreSQL takes them row
  by row and re-checks each row after a wait; waiting for all of them first
  allows the same outcomes for a row whose lock is free, and a wait on several
  writers ends in the same set of resolved rows or in a deadlock that
  `DeadlockMaterialize` also produces;
* two transactions never begin in the same microsecond (`Begin` advances the
  clock), so `attempted_at` orders runs;
* `digest`'s own marks (`last_digest_at`, ...) are written and read by nobody:
  the column is overwritten, the marks are not kept;
* in `Replay` a sample is what jsonb, redaction and truncation leave of a
  payload (of a sample again, if a truncated one is truncated once more);
  `last_seen_at` does not order the rows of one normalizer run, so `LIMIT` may pick
  any of them; `--status` of a replay stays `open`, that of a compaction is any of
  `CompactStatuses`;
* in `OperationalCycle` geography and wind are relations: which fires are inside
  or near a geography, which a grid cell or a station is near, which geographies
  the smoke of a fire reaches with each wind, and which geographies have
  measurements. The measurements are there from the start, the fires once the
  normalizer has run; every script normalizes before it scores. Of an exposure it is kept that it is positive, of a score where its
  transport came from. `LIMIT 5000` of fires is out of reach of an instance;
* in `RiskScores` the weights are rational, so v1 is counted in twentieths of a
  point, v2 in hundredths, the exposure in 1/1500 and the blends in 1/Unit; of
  the dispersion proxy's exponentials only where the proxy is zero and that it
  stays below its maximum. Rounding to two digits is left out;
* in `Ingestion` a record is its position in the source: of a file or batch a
  number, of OpenAQ parameter, location, sensor and measurement.

## 3. What the runs check

| Run | Instance | What it shows |
|---|---|---|
| `alerts_materializers` | 2 materializers, 2 fingerprints, 3 transactions | incident identity and lifecycle, and refinement of `AlertIncidents`, at every interleaving of the statements of two overlapping runs, with crashes and operators |
| `alerts_one_sender` | 1 materializer, 1 sender, 1 fingerprint with up to 2 rows, 5 transactions or ticks, cooldown 2, backoff of 2 to 4, budget 2 | audit and notification state agree, no sighting is announced twice, nobody is told of an incident closed before the run, backoff and cooldown hold, with refused, timed-out and killed deliveries; a committed evaluation with `--resolve-missing` leaves its candidates behind and nothing else |
| `alerts_runs_end` | 1 materializer, 1 sender in the loop or sending digests of 2, 2 fingerprints, 3 transactions or ticks, fairness | row-lock deadlocks occur and every run that is not killed still ends; what is recorded as sent was sent, and a mark is audited, digests included |
| `normalize_one_run` | one run at a time, 1 kill, 1 send or statement that raises, 3 messages, 7 kinds of payload | the tables are the fold of the messages that the recorded offset covers, but for rows with the parse error of a row that raised; no row claims what did not happen; no valid message is lost without a parse error, but for the two cases under "Findings" |
| `normalize_converges` | 2 overlapping runs, 1 kill, 1 send or statement that raises, 2 messages of 3 kinds, the lag collector, fairness | after the last message the table settles on the newest versions; every message is published, though a run dies between commit and flush or a send raises; the observed lag brackets the backlog |
| `risk_scores` | 1 to 5 values of each input, below, between and beyond the thresholds, and None | scores stay between 0 and 100; more fires, power, smoke or concentration, all else equal, never lower a score or its band; an area that the wind comes from gets no transported smoke, and v4 and v5 never call it severe |
| `cycle` | 2 overlapping cycles, 1 fire, 2 geographies, 2 seconds, 1 fault, 4 environments: v3, v4, v5 with the grid's wind, and one without the fallback to a station's | what a verdict, a stuck row and a score's transport may claim; refinement of `RunLedger` |
| `cycle_alone` | 1 cycle in each of the 96 environments, 2 fires, 4 geographies (a fire inside, a fire near, neither, measurements), target limit 3 (below the 4 pairs that the grid's wind gives, equal to the 3 of the stations'), 2 faults, fairness | which geographies are scored and with which transport, exactly; every cycle that starts ends |
| `replay` | 2 replays (table with `--resolve`, table dry run, DLQ topic, DLQ topic dry run), compaction of resolved rows, 2 arrived payloads, one of them without a sample, limit 1, 4 letters, 1 triage, 1 fault, fairness | items, counts and verdicts against the topic; a closed row was sent; refinement of `RunLedger`; a failing message keeps coming back as an open error |
| `ingestion` | 1 run of each kind of producer, up to 3 records with bad ones anywhere; for OpenAQ 2 parameters with 6 kinds of locations each, up to 3 locations in pages of 1, up to 3 sensors, up to 5 measurements in pages of 2, at most 2 pages of either; 2 tries, 2 faults, fairness | verdict and counts against the topic; a verdict only worsens; every run that is not killed, knows its row and can write gets one |
| `alerts_retry_queue`, `cycle_windows` | | violated, see "Findings" |

**Bounds.** `MaxClock` bounds the number of transactions begun plus idle ticks,
`MaxIncidents` the rows per fingerprint (a materialize run that would need one
more is killed, `OutOfRoom`), `MaxLog`, `MaxKills` and `MaxFails` messages, kills,
and sends or statements that raise,
`MaxLetters` and `MaxTriage` dead letters kept and rows triaged, `LastSecond`
time, `MaxFaults` failures of any kind. They are the smallest in which the case
of interest happens and its mutant is found: three transactions are one that
opens incidents and two that overlap afterwards; five ticks are two sends, a
refresh between them and time for a backoff to run out; two fingerprints are
needed for opposite lock orders; three messages are a row that fails and leaves its
savepoint, one that is accepted, and one whose parse error is refused and takes the
transaction back to that savepoint; two seconds are enough for two jobs to share a window or not; five
records are two full pages and one that `max_pages` cuts off.

TLC's deadlock check is off in the `alerts_*`, `cycle*` and `ingestion`
configurations: time or the number of runs is bounded there, and when that is used
up nothing more can begin, as when nobody starts a command. That no run waits for ever is what `RunsEnd`, `CycleEnds` and
`StartedIsJudged` say. In the other runs it is on.

**Mutants.** Each property has one: an operator `X_Something` next to the
definition `X` it replaces, that changes it as a plausible bug would. TLC finds
the property violated with the mutant in place. Each module that has a state
of its own keeps a `TypeOK`; the runs check those of the alert pipeline and of
`Normalize`, and TLAPS proves all of them (section 5).

**Fairness** is only assumed in the runs with liveness properties, and always of
a process that is running: the operating system schedules it, PostgreSQL executes
its statement when locks are free and breaks deadlocks within
`deadlock_timeout`, requests, notifier calls and producer sends have time-outs.

* alerts (`RunsEnd`), cycles (`CycleEnds`), producers (`StartedIsJudged`): weak
  fairness of each running process's next step. Nothing is assumed about runs
  being started.
* normalization (`Converges`, `EveryMessageArrives`): also weak fairness of "some
  run begins", because `docker/scheduler/loop.sh` starts a cycle every
  `OPERATIONAL_INTERVAL_SECONDS` for ever, whatever became of the last one. The
  lag collector has no fairness.
* replay (`NoErrorIsForgotten`): the same for normalizer runs; replays, triage
  and compaction may never happen.

## 4. Findings

Two runs are expected to be violated; each states what the repository says and
shows a behaviour of the code that differs.

* `alerts_retry_queue` (`RetryQueueKeepsFailed`): `last_attempt_row` returns
  skipped rows too. A skip written during the backoff hides the failure, and
  `--retry-queue` never retries that incident again, although `alerts.py:359`
  says that it retries alerts whose last attempt failed.
* `cycle_windows` (`RiskUsesCyclePlumes`): every job takes its window from its own
  `now()`, in seconds, and the risk job reads the exposures of exactly its own
  window. A cycle whose plume job takes a second computes v4 and v5 scores with
  no corridor at all, although `docs/reference/risk-models.md:24` says that v4 uses
  the plume. `LoneCycleScores` and `CarriesWithinTheSecond` say what holds.

Behaviours the models show and no run is spent on:

* two senders with different notifiers read the same `notification_state`; the
  second UPDATE writes the whole column back and drops the first one's mark, so
  that notifier announces the sighting again (`MarkIsAudited` holds even then);
* of two overlapping materialize runs the older one resolves an incident that the
  newer has just committed: its resolve pass compares current rows with
  candidates fetched earlier. `CommitReflectsCandidates` is therefore checked with
  one materializer;
* one payload that is not UTF-8 ends every run over its partition before the
  commit, because `UnicodeDecodeError` is not a `JSONDecodeError`: nothing of that
  partition is recorded any more. `ValidRowsSurvive` excepts it;
* a parse error that PostgreSQL refuses (the sample has a NUL, or a deadlock is
  lost) fails inside the dead-letter path, which swallows the error in an aborted
  transaction. A later row goes back to the savepoint that an earlier failed row
  left, which drops the rows accepted in between, and the run commits an offset
  that covers them. `CoveredIsRecorded` holds as long as no run has committed after
  such a refusal (`tainted`);
* a `producer.send` that raises costs a valid message its raw row and its upsert: it
  is inside the row's `try` (normalize_firms.py:172), so that the row is rolled back,
  a parse error is filed against a good payload, and the offset that the run commits
  covers it. The properties of `Normalize` excuse such a row, by its parse error;
* a parse error that was marked ignored, or resolved by a replay, is opened again
  by the next normalizer run, which reads the topic from its beginning, and is
  replayed again (`docs/runbooks/parse-errors-high.md:20` lets operators mark
  noise). What a replay publishes is the sample, whose hash differs, so that one
  bad payload becomes two;
* `compare_dispersion_aq` runs before the risk job and sees the risk of an older
  cycle, if any;
* with grid weather and dispersion both enabled the cycle scores v4, and the
  dispersion it has computed is in no score; v3 with grid weather reads exposures
  of `wind_v1` that the cycle has not computed;
* the lag of a group that has caught up is reported as 1;
* one OpenAQ location without coordinates fails the whole run.

## 5. What is proved

Each theorem holds for every value of the constants that the named assumptions
of its modules allow, and so also for instances that no run covers, such as two
overlapping senders or any number of overlapping cycles. The shape is always the
same: an inductive invariant, one lemma per action or kind of action, and a
temporal step that puts them together.

| Theorem | Property | Argument |
|---|---|---|
| `AlertPipeline_proofs!TypeCorrect` | `TypeOK` | inductive as it stands; one lemma per action |
| `AlertPipeline_proofs!OneActive` | `OneActivePerFingerprint` | `RowInv` |
| `AlertPipeline_proofs!ResolvedStays` | `ResolvedIsFinal` | `RowInv` |
| `AlertPipeline_proofs!AcknowledgedStays` | `AcknowledgedIsLeftAlone` | `RowInv` |
| `AlertPipeline_proofs!IncidentsRefined` | `RefinesIncidents` | `RowInv` and `HoldInv`; implements `AlertIncidents` |
| `AlertPipeline_proofs!CommitReflects` | `CommitReflectsCandidates` | `ReflectInv`, if materialize runs do not overlap |
| `AlertAudit_proofs!SuccessDelivered` | `SuccessWasDelivered` | `DeliveryInv` |
| `AlertAudit_proofs!MarkAudited` | `MarkIsAudited` | `MarkInv` |
| `AlertAudit_proofs!NoLateNotice` | `NoNoticeAfterClose` | `NoticeInv` |
| `AlertAudit_proofs!CooldownKept` | `CooldownSpacing` | `Spaced`, if runs of one notifier do not overlap |
| `AlertAudit_proofs!BackoffKept` | `BackoffUnlessSkipped` | `BackoffInv`, under `BackoffApplies` |
| `AlertAudit_proofs!LatestMarked` | `MarkIsLatestSuccess` | `LatestInv`, if send runs do not overlap |
| `AlertAudit_proofs!AnnouncedOnce` | `NoRepeatedSuccess` | `FreshInv` and `RepeatInv`, under `SendsOnce` |
| `Normalize_proofs!TypeCorrect` | `TypeOK` | with `EndsInLog`: no run reads past the log |
| `Normalize_proofs!OffsetsMonotone` | `OffsetsNeverGoBack` | only `Commit` changes offsets |
| `Normalize_proofs!RecordsTrue` | `RecordsAreTrue` | `TruthInv` |
| `Normalize_proofs!CoveredRecorded` | `CoveredIsRecorded` | `CoverInv`, as long as no run has committed after a refused parse error |
| `Normalize_proofs!ValidSurvive` | `ValidRowsSurvive` | `CoverInv`, for runs that read no payload that is not UTF-8 and had no parse error refused |
| `Normalize_proofs!TablesFollowTopic` | `TablesAreTheFold` | `FoldInv`, if runs do not overlap |
| `ConsumerLag_proofs!LagIsTrue` | `LagBrackets` | `LagInv`: the watermark read is within the log; on top of `CoverInv` and monotone offsets |
| `Replay_proofs!ClosedSent` | `ClosedWasSent` | `SentInv` |
| `Replay_proofs!LedgerRefines` | `LedgerOnlyCloses` | `LedgerInv`; implements `RunLedger` |
| `Replay_proofs!AddsUp` | `SucceededAddsUp` | `BooksInv` |
| `Replay_proofs!WasDelivered` | `SucceededWasDelivered` | `BooksInv` |
| `Replay_proofs!TypeCorrect` | `TypeOK` | on top of `ReplayInv` and `BooksInv`; in no run |
| `Ingestion_proofs!CountsMatch` | `CountsMatchTopic` | `IngestionInv` |
| `Ingestion_proofs!SucceededComplete` | `SucceededIsComplete` | `IngestionInv` |
| `Ingestion_proofs!OnlyWorsen` | `VerdictsOnlyWorsen` | `IngestionInv` |
| `Ingestion_proofs!TypeCorrect` | `TypeOK` | `IngestionInv`; in no run |
| `OperationalCycle_proofs!LedgerRefines` | `LedgerOnlyCloses` | `LedgerInv`; implements `RunLedger` |
| `OperationalCycle_proofs!StuckIsUnrecorded` | `StuckOnlyIfUnrecorded` | `LedgerInv` |
| `OperationalCycle_proofs!SucceededIsDone` | `SucceededMeansDone` | `ScriptInv` |
| `OperationalCycle_proofs!CarriesWithin` | `CarriesWithinTheSecond` | `CarryInv` |
| `OperationalCycle_proofs!LoneScores` | `LoneCycleScores` | `LoneInv`, if fires and geographies are finitely many |
| `OperationalCycle_proofs!TypeCorrect` | `TypeOK` | `TypeInv`, on top of `LedgerInv` and `ScriptInv`; in no run |
| `RiskScores_proofs!ScoresStayInRange` | `ScoresInRange` | bounds of each component, then of each weighted sum |
| `RiskScores_proofs!SmokeNeverLowers` | `MoreSmokeNeverLowers` | each component is monotone, then each weighted sum |
| `RiskScores_proofs!UpwindStaysBelowSevere` | `UpwindIsNeverSevere` | an upwind bearing makes the exposure zero, and the rest weighs too little |

Six theorems have a premise on the constants that the property needs, because
the code promises no more: without it the property is false.

| Premise | Why |
|---|---|
| `OneMaterializer` (`CommitReflects`) | the resolve pass of an overlapping run compares newer rows with older candidates |
| `OneSenderEach` (`CooldownKept`) | two runs of one notifier both pass the cooldown check before either commits; runs of different notifiers may overlap |
| `BackoffApplies` (`BackoffKept`) | the same; digests consult no back-off, and `ALERT_RETRY_DISABLED` switches it off |
| `OneSender` (`LatestMarked`) | another sender writes back the whole `notification_state` that it had read before |
| `SendsOnce` (`AnnouncedOnce`) | the same; and a forced run is meant to repeat |
| `OneRun` (`TablesFollowTopic`) | of two overlapping normalizer runs the older may commit last and put older versions back |

`docker/scheduler/loop.sh` starts one cycle after another and a cycle runs each
command once, so the premises hold of a deployment that runs nothing by hand.

*Rows.* `OneActivePerFingerprint` is not inductive: an insert looks at the
conflicting rows of the committed and of the newest versions, so the invariant
must say that the two kinds together hold at most one active row per
fingerprint (`AtMostOneConflict`), and how an uncommitted version may differ
from the committed one: open rows may be resolved or stay open
(`OpenInDraft`), acknowledged and resolved ones keep their status
(`AcknowledgedInDraft`, `ResolvedInDraft`), and free rows are equal
(`FreeRowsAgree`). `RowStep` reduces every action of both commands to eight
ways of changing rows; `RowInvariant` goes through those.

*Refinement.* Every step must change the abstract state as one action of
`AlertIncidents` does. `Committed` and `OneRowChanged` show that between two committed versions at
most one row of a fingerprint changes, which needs `HoldInv`: an uncommitted row is an
insert of a candidate of the run that holds it. The row's old and new status then
say which of opening, acknowledging and closing it is (`Opened`, `Acked`, ...), and
the number of closed incidents grows with `Resolved`. `ReflectInv` says of a run that
each candidate is still to be upserted or has an active row that the run holds
(`Covered`), and after its sweep that nothing else is open (`Swept`); senders and
operators open nothing.

*Audit.* `DeliveryInv` says of a run between its notifier call and its record
that the message is in `delivered`, and the same of the pending audit rows;
`MarkInv` says that every mark, committed, drafted or held in a sender's item,
has an audit row, committed or pending in the transaction that holds the row;
`NoticeInv` says that an item of a run was open when the run began, so that
its close is later. `ItemsAfterSelect` gives the shape of a run's local state.

*One sender.* `Spaced` says that a run in progress began after the cooldown of
everything in the audit of its notifier; its own rows bear its own time.
`BackoffInv` says that what follows a failure that is still to be retried, in the
audit, in what a run has pending or in what it has just tried to send, has a skip
row between, because only a skip row hides the failure from `last_attempt_row`.
`LatestInv` follows a mark from the row as it was read, through the draft that the
run holds, to the commit; `MarksInv` says that materialize runs and operators copy marks
and never write them. That a sighting is not announced twice rests on
time: `FreshInv` says that a materialize run writes as `last_seen_at` a time that no
row, audit row or item in hand has mentioned (`Known`), so that a refreshed row
has a sighting nobody has announced, and `RepeatInv` that a sighting once sent is
marked for as long as the row has it.

*Normalization.* `TruthInv` says the same of what each transaction has written
and of what it would go back to at the savepoint that is left, because either
may be committed. `CoverInv` says that a reading run holds everything before its
position, and that the offset it would record is before that position too. The
conditions of `CoveredRecorded` and `ValidSurvive` (`tainted`, `spoilt`, a payload
that is not UTF-8) are what the two cases of loss under "Findings" need; a row that
raised is excused by the parse error that it leaves (`Excused`), which the same
transaction holds. `FoldInv` says that the tables are what the
messages up to the recorded offset make (`MadeBy`), and a transaction what those
behind its position make, of which only tombstones lie beyond the offset it would
record. `MadeBy` names the newest version of a key that is not excused (`RowAfter`) instead
of folding the log, so that it takes no induction to say what one more message does.

*Replay.* A row may be closed by a process that sent its sample long ago, in a
queue that somebody else's step empties. An archived row was sent as well if compaction keeps to resolved
rows (`SentStatuses`). `SentInv` adds to the property that a
process about to update a row has had the row's sample in the topic or in its
queue ever since (`WasSent`). `Becomes` states once what any step may do to the
process that takes it (no queued message disappears without `lost`), `RowsStep`
what any step may do to the table; every action is shown to be of those kinds,
and the invariant is preserved by the kinds.

`BooksInv` adds what a process has counted: its items are those of rows and letters
that it has read and is done with (`Tally`), which is why no two items are of one row;
an item that says replayed has its message in the topic or in the queue (`Noted`);
and a row that says succeeded was written with the counts of an empty queue (`Told`).

`TypeOK` rests on both: that the row or letter at hand is there, and its payload one
of `Payloads`, is that a process looks ahead only within what it has read. That the
topic of dead letters holds samples only takes that the `CHOOSE` in `Rejected` always
has something to choose: a finite set of positions has one of each rank
(`RankTaken`, by the pigeonhole principle).

*Producers.* `IngestionInv` is about each run by itself. `SentSoFar` says that what a
run has sent, each record once, is what it should have sent by now: of its `Goal`
those that its cursor has passed (`Due`, `Before`), so that nothing is left at the end
(`AllDue`) and a step of the three loops, or over a measurement without a value, may
not pass anything. It takes `Cursor`, which says what is received from the position in
the pages (`PageFacts`, `LastPageFacts`: a page that is empty or the last ends the
source, or `max_pages` does); `Gathered` is the same for the producers without nested
loops. `Tallied` says that the topic, followed by the queue, is what was sent, unless the
broker dropped something or the process died; `Judged` ties the row to the process.

*Cycles.* `LedgerInv` ties a row's status to where its script is; a step goes on,
opens, closes or breaks off (`Effect`). `ScriptInv` says that the jobs done and the steps
recorded are those of the script up to the cycle's position, which takes that a script
has no command twice (`ScriptOrdered`). `CarryInv` follows the exposures of a cycle
from the matches it wrote (`Matched`) through the plume job's rows (`Computing`) to
the table (`Computed`) and the scores (`Written`); each conjunct holds as long as no
other cycle's job has opened in the same second. The attempt to prove it showed that
`CarriesWithinTheSecond` was false as first stated: `match_fire_weather` deletes the
matches that it will write again, so that a cycle that overlaps takes the grid's wind
from this one's plume job, which then finds a station's, or none if the fallback is
off. `WindStays` excludes that, and the run `cycle` has an environment without the
fallback.

`LoneInv` is what the tables hold before any other cycle starts (`Undisturbed`), one
part for each: the matches are those of the grid or not there yet (`LoneMatches`);
the plumes are the pairs that the corridor reaches, each with its wind
(`LonePlumes`); the dispersions are some of the pairs that dispersed smoke reaches,
and as many as the limit allows (`LoneDispersions`); and the rows that the risk job
has in hand or in the table carry what the exposures of its window say
(`LoneRisks`). A score is compared with exposures that were stored earlier, so the
last part rests on the order of the script: no transport job is left when the
window of the risk job opens (`RiskNotYet`). How many pairs are stored is the
cardinality of the pairs done, which a step that stores one more raises by one
(`Stored`, `StoredMore`); that is why `CycleInputs` assumes finitely many fires and
geographies, as a table's rows are.

`TypeOK` says nothing of what a job holds in memory, and the tables get their rows from
there. `TypeInv` adds what the job of each step has in hand while it works: a plume
job plumes, a dispersion job dispersions, and whoever is about to write, scores
(`JobTyped`). It needs `ScriptInv`, since which job works is a matter of the position
in the script.

*Scores.* v4 and v5 of an area that the wind comes from stay below severe because
what is left of the score when no smoke is transported cannot weigh that much.

Only model-checked, because they are liveness and out of the prover's reach:
`RunsEnd`, `Converges`, `EveryMessageArrives`, `CycleEnds`, `NoErrorIsForgotten`,
`StartedIsJudged`. Every other property of a passing run has a theorem. The two violated properties have no theorem.

## 6. What could come next

`Normalize` and `Replay` over one topic, instead of a normalizer run in one step;
several partitions of one raw topic.

## 7. Not modelled

* Notifiers and digest text: formatting and one outbound call each. The call is
  `Deliver` in `AlertDelivery`, which may be accepted, refused or time out.
* The candidate SQL (`fn_alert_candidates`): an aggregate over the whole database;
  `AlertMaterialize` lets it return any set of candidates.
* Record parsers and provider payloads, evaluation and calibration reports: pure
  conversions and statistics that no other part reads back.
* Spatial joins and the association that follows a normalizer run: PostGIS; the
  models take the resulting relations as constants.
* Dry runs of the producers (files of fixtures), `max_scan` and the dataset filters
  of a replay, counters of a parse error.
* Settings, connection handling, loaders, doctor and release tooling, SQL views,
  dashboards, containers. The scheduler only decides when runs start, which the
  models leave open.
