------------------------------ MODULE Normalize ------------------------------
(***************************************************************************)
(* Normalizer runs over one partition of a raw topic, and the dead-letter  *)
(* path they share (spark/normalize_*.py, dlq.py, migration 007).          *)
(*                                                                         *)
(* A run reads the partition from its beginning up to the end it had when  *)
(* the run started, in one PostgreSQL transaction: a row per message in    *)
(* raw.*, an upsert in normalized.*, or a row in analytics.parse_errors.   *)
(* Kafka messages are only queued; the queue is drained by flush() or by   *)
(* close().  Nothing stops two runs from overlapping.                      *)
(*                                                                         *)
(* Offsets are positions in the log, counted from 1; 0 stands for null.    *)
(***************************************************************************)
EXTENDS Naturals, Sequences, FiniteSets

CONSTANTS
  Payloads,   \* message bodies; equal bodies have equal hashes
  Keys,       \* primary keys of the normalized table
  KeyOf,      \* the key of the record in a payload
  FailsAt,    \* where the normalizer's code gives up on a payload
  Storable,   \* whether PostgreSQL's jsonb accepts the payload (and a sample)
  NoRow,      \* a key without a row
  Runs,       \* processes: executors that may be given the partition
  MaxLog,     \* bound: messages in the partition
  MaxKills,   \* bound: runs killed
  MaxFails    \* bound: sends and statements that raise

\* "none": normalizes; "null": no value (a tombstone); "text": not UTF-8;
\* "json": not JSON; "envelope": no source or record; "row": anything later.
Stages == {"none", "null", "text", "json", "envelope", "row"}

ASSUME PayloadAssumption ==
  /\ KeyOf \in [Payloads -> Keys]
  /\ FailsAt \in [Payloads -> Stages]
  /\ Storable \in [Payloads -> BOOLEAN]
  /\ NoRow \notin Payloads
ASSUME NormalizeBounds == MaxLog \in Nat /\ MaxKills \in Nat
                           /\ MaxFails \in Nat

VARIABLES
  log,      \* the partition of the raw topic
  norm,     \* rows of normalized.*, by key
  raw,      \* offsets that have a row in raw.*
  open,     \* open rows of analytics.parse_errors
  closed,   \* the log's length when an error was last ignored or resolved
  offsets,  \* the row of analytics.kafka_consumer_offsets
  tainted,  \* history: a run has committed after a parse error was refused
  out,      \* messages published to the normalized and dead-letter topics
  run,      \* the state of each run
  kills,    \* runs killed so far
  fails     \* sends and statements that have raised so far

tables == << norm, raw, open, closed, offsets, tainted >>

vars == << log, tables, out, run, kills, fails >>

-----------------------------------------------------------------------------
(* Records.                                                                *)

\* error_class, by what raised.  The first three are the payload's fault;
\* "raised" is the class of a row that failed for no fault of its payload
\* (KafkaTimeoutError, DeadlockDetected, ...) and "aborted" is that of a row
\* in a transaction that has failed before (InFailedSqlTransaction).
Classes == {"json", "envelope", "row", "raised", "aborted"}

\* The columns of parse_errors_open_logical_uidx that differ in a partition.
ErrorKey == Payloads \X Classes

Message == [topic : {"normalized", "dead_letter"}, body : Payloads]

\* What a transaction has written.  A run holds the row locks of the keys and
\* error keys that are in it.
Tx == [norm : [Keys -> Payloads \cup {NoRow}], raw : SUBSET (1..MaxLog),
       errs : SUBSET ErrorKey]

EmptyTx == [norm |-> [k \in Keys |-> NoRow], raw |-> {}, errs |-> {}]

Offsets == [cur : 0..MaxLog, ok : 0..MaxLog, err : 0..MaxLog]

\* "mark" is the savepoint left behind by the last row that failed (a
\* savepoint is released only by a row that succeeds); "aborted" says that
\* a statement outside any handler of its own has failed; "max", "ok" and
\* "err" are the fields of partition_state.  "spoilt" is history: a parse
\* error of this run was refused.
RunState == [pc : {"idle", "read", "flush"}, end : 0..MaxLog,
             pos : 1..(MaxLog + 1), tx : Tx, mark : Tx, marked : BOOLEAN,
             aborted : BOOLEAN, spoilt : BOOLEAN, max : 0..MaxLog,
             ok : 0..MaxLog, err : 0..MaxLog, queue : SUBSET Message]

IdleRun == [pc |-> "idle", end |-> 0, pos |-> 1, tx |-> EmptyTx,
            mark |-> EmptyTx, marked |-> FALSE, aborted |-> FALSE,
            spoilt |-> FALSE, max |-> 0, ok |-> 0, err |-> 0, queue |-> {}]

TypeOK ==
  /\ log \in Seq(Payloads) /\ Len(log) <= MaxLog
  /\ norm \in [Keys -> Payloads \cup {NoRow}]
  /\ raw \subseteq 1..MaxLog
  /\ open \subseteq ErrorKey
  /\ closed \in [ErrorKey -> 0..MaxLog]
  /\ offsets \in Offsets /\ tainted \in BOOLEAN
  /\ out \subseteq Message
  /\ run \in [Runs -> RunState]
  /\ kills \in 0..MaxKills /\ fails \in 0..MaxFails

Init ==
  /\ log = << >>
  /\ norm = [k \in Keys |-> NoRow]
  /\ raw = {} /\ open = {} /\ closed = [e \in ErrorKey |-> 0]
  /\ offsets = [cur |-> 0, ok |-> 0, err |-> 0] /\ tainted = FALSE
  /\ out = {}
  /\ run = [r \in Runs |-> IdleRun]
  /\ kills = 0 /\ fails = 0

-----------------------------------------------------------------------------
(* Payloads.                                                               *)

\* A payload that normalizes, if its row is reached in a working transaction.
\* One that jsonb refuses fails at the insert into raw.*.
Valid(p) == FailsAt[p] = "none" /\ Storable[p]

\* Payloads whose row statements are reached.
ReachesRow(p) == FailsAt[p] \in {"none", "row"}

\* Payloads that the code means to quarantine.
Malformed(p) == FailsAt[p] # "null" /\ ~Valid(p)

\* The message at which run r is.
Body(r) == log[run[r].pos]

Reading(r) == run[r].pc = "read" /\ run[r].pos <= run[r].end

-----------------------------------------------------------------------------
(* Environment.                                                            *)

\* A producer or a replay publishes a message to the raw topic.
Produce(p) ==
  /\ Len(log) < MaxLog
  /\ log' = Append(log, p)
  /\ UNCHANGED << tables, out, run, kills, fails >>

LockedKey(r, k) == \E q \in Runs \ {r} : run[q].tx.norm[k] # NoRow
LockedError(r, e) == \E q \in Runs \ {r} : e \in run[q].tx.errs

\* A parse error is marked ignored or resolved, by hand or by a replay.
CloseError(e) ==
  /\ e \in open
  /\ \A q \in Runs : e \notin run[q].tx.errs
  /\ open' = open \ {e}
  /\ closed' = [closed EXCEPT ![e] = Len(log)]
  /\ UNCHANGED << log, norm, raw, offsets, tainted, out, run, kills, fails >>

-----------------------------------------------------------------------------
(* _foreach_partition.                                                     *)

\* Mutant: startingOffsets is the recorded offset, not "earliest".
StartRun_FromRecorded(r) ==
  /\ run[r].pc = "idle" /\ log # << >>
  /\ run' = [run EXCEPT ![r] = [IdleRun EXCEPT !.pc = "read",
                                               !.pos = offsets.cur + 1,
                                               !.end = Len(log)]]
  /\ UNCHANGED << log, tables, out, kills, fails >>

\* Connect, and read the partition from "earliest" to "latest".
StartRun(r) ==
  /\ run[r].pc = "idle" /\ log # << >>
  /\ run' = [run EXCEPT ![r] = [IdleRun EXCEPT !.pc = "read",
                                               !.end = Len(log)]]
  /\ UNCHANGED << log, tables, out, kills, fails >>

\* A message without a value is skipped and not counted.
SkipNull(r) ==
  /\ Reading(r) /\ FailsAt[Body(r)] = "null"
  /\ run' = [run EXCEPT ![r].pos = @ + 1]
  /\ UNCHANGED << log, tables, out, kills, fails >>

\* An exception leaves the function: close() drains the producer's queue and
\* the connection is closed without a commit.
Escape(r) ==
  /\ run' = [run EXCEPT ![r] = IdleRun]
  /\ out' = out \cup run[r].queue
  /\ UNCHANGED << log, tables, kills, fails >>

\* UnicodeDecodeError is not a JSONDecodeError, so no handler takes it.
FailDecode(r) ==
  /\ Reading(r) /\ FailsAt[Body(r)] = "text"
  /\ Escape(r)

\* The failure is counted and handed to handle_normalize_failure, which
\* upserts a parse error and queues dead letters.  It swallows its own
\* exceptions.  In an aborted transaction nothing is recorded.  An upsert that
\* PostgreSQL refuses (the sample is no jsonb, a deadlock is lost) aborts the
\* transaction, back to the savepoint that is left, if there is one.  A send
\* that raises leaves the parse error without a dead letter.  "raised" counts
\* what has raised before.
Quarantine(r, s, class, raised) ==
  LET p == log[s.pos]
      counted == [s EXCEPT !.pos = @ + 1, !.max = s.pos, !.err = s.pos]
      refused == [counted EXCEPT !.aborted = TRUE, !.spoilt = TRUE,
                                 !.tx = IF s.marked THEN s.mark ELSE EmptyTx]
      unsent == [counted EXCEPT !.tx.errs = @ \cup {<< p, class >>}]
      sent == [unsent EXCEPT !.queue = @ \cup {[topic |-> "dead_letter", body |-> p]}]
  IN  /\ \/ /\ s.aborted
            /\ run' = [run EXCEPT ![r] = counted] /\ fails' = raised
         \/ /\ ~s.aborted
            /\ run' = [run EXCEPT ![r] = refused]
            /\ fails' = IF Storable[p] THEN raised + 1 ELSE raised
         \/ /\ ~s.aborted /\ Storable[p] /\ ~LockedError(r, << p, class >>)
            /\ \/ run' = [run EXCEPT ![r] = sent] /\ fails' = raised
               \/ run' = [run EXCEPT ![r] = unsent] /\ fails' = raised + 1
      /\ fails' <= MaxFails

\* Mutant: the exception's class is recorded as it is, unclassified.
RejectBody_Unclassified(r) ==
  /\ Reading(r) /\ FailsAt[Body(r)] \in {"json", "envelope"}
  /\ Quarantine(r, run[r], "unclassified", fails)
  /\ UNCHANGED << log, tables, out, kills >>

\* The payload is not JSON, or not an envelope.
RejectBody(r) ==
  /\ Reading(r) /\ FailsAt[Body(r)] \in {"json", "envelope"}
  /\ Quarantine(r, run[r], FailsAt[Body(r)], fails)
  /\ UNCHANGED << log, tables, out, kills >>

\* SAVEPOINT, raw row, upsert, producer.send, RELEASE.
AcceptRow(r) ==
  LET p == Body(r)
      tx == [run[r].tx EXCEPT !.norm[KeyOf[p]] = p, !.raw = @ \cup {run[r].pos}]
  IN  /\ Reading(r) /\ Valid(p) /\ ~run[r].aborted
      /\ ~LockedKey(r, KeyOf[p])
      /\ run' = [run EXCEPT ![r] =
           [run[r] EXCEPT !.pos = @ + 1, !.max = run[r].pos, !.ok = run[r].pos,
                          !.tx = tx,
                          !.queue = @ \cup {[topic |-> "normalized", body |-> p]}]]
      /\ UNCHANGED << log, tables, out, kills, fails >>

\* ROLLBACK TO SAVEPOINT undoes the row at hand, and the savepoint stays.
Undone(s) == [s EXCEPT !.mark = s.tx, !.marked = TRUE]

\* Mutant: a failing row is not caught.
RejectRow_Raises(r) ==
  /\ Reading(r) /\ ReachesRow(Body(r)) /\ ~Valid(Body(r))
  /\ ~run[r].aborted
  /\ Escape(r)

\* Mutant: the raw row is inserted before the savepoint.
RejectRow_RawFirst(r) ==
  /\ Reading(r) /\ ReachesRow(Body(r)) /\ ~Valid(Body(r))
  /\ ~run[r].aborted
  /\ Quarantine(r, Undone([run[r] EXCEPT !.tx.raw = @ \cup {run[r].pos}]), "row", fails)
  /\ UNCHANGED << log, tables, out, kills >>

\* The row fails because of its payload.
RejectRow(r) ==
  /\ Reading(r) /\ ReachesRow(Body(r)) /\ ~Valid(Body(r))
  /\ ~run[r].aborted
  /\ Quarantine(r, Undone(run[r]), "row", fails)
  /\ UNCHANGED << log, tables, out, kills >>

\* Mutant: the error of a row that raises is not handed on.
RowRaises_Passes(r) ==
  /\ Reading(r) /\ ReachesRow(Body(r)) /\ ~run[r].aborted
  /\ fails < MaxFails /\ fails' = fails + 1
  /\ run' = [run EXCEPT ![r] = [Undone(run[r]) EXCEPT !.pos = @ + 1,
                                                     !.max = run[r].pos,
                                                     !.err = run[r].pos]]
  /\ UNCHANGED << log, tables, out, kills >>

\* The row fails whatever its payload: producer.send times out, the wait for
\* another run's row ends in a deadlock, a statement is cancelled.  The same
\* handler takes it, rolls a valid row back too and goes on with the next.
RowRaises(r) ==
  /\ Reading(r) /\ ReachesRow(Body(r)) /\ ~run[r].aborted
  /\ Quarantine(r, Undone(run[r]), "raised", fails + 1)
  /\ UNCHANGED << log, tables, out, kills >>

\* In an aborted transaction SAVEPOINT itself fails.  ROLLBACK TO SAVEPOINT
\* finds the savepoint of an earlier failed row and makes the transaction
\* usable again; the message at hand is quarantined whatever it is.
RejectAfterAbort(r) ==
  /\ Reading(r) /\ ReachesRow(Body(r))
  /\ run[r].aborted /\ run[r].marked
  /\ Quarantine(r, [run[r] EXCEPT !.aborted = FALSE], "aborted", fails)
  /\ UNCHANGED << log, tables, out, kills >>

\* With no savepoint to go back to, ROLLBACK TO SAVEPOINT raises as well.
FailAfterAbort(r) ==
  /\ Reading(r) /\ ReachesRow(Body(r))
  /\ run[r].aborted /\ ~run[r].marked
  /\ Escape(r)

Larger(a, b) == IF a >= b THEN a ELSE b

\* upsert_consumer_offset: GREATEST of the recorded and the run's offsets.
OffsetsAfter(r) == [cur |-> Larger(offsets.cur, run[r].max),
                    ok  |-> Larger(offsets.ok, run[r].ok),
                    err |-> Larger(offsets.err, run[r].err)]

Finished(r) == run[r].pc = "read" /\ run[r].pos > run[r].end

\* Mutant: ON CONFLICT (detection_id) DO NOTHING.
NormAfter_KeepsOld(r) == [k \in Keys |-> IF norm[k] = NoRow
                                         THEN run[r].tx.norm[k] ELSE norm[k]]

\* Committed rows of the normalized table after run r's commit.
NormAfter(r) == [k \in Keys |-> IF run[r].tx.norm[k] = NoRow
                                THEN norm[k] ELSE run[r].tx.norm[k]]

\* The offsets are upserted and everything is committed.
Commit(r) ==
  /\ Finished(r) /\ ~run[r].aborted
  /\ norm' = NormAfter(r)
  /\ raw' = raw \cup run[r].tx.raw
  /\ open' = open \cup run[r].tx.errs
  /\ offsets' = OffsetsAfter(r)
  /\ tainted' = (tainted \/ run[r].spoilt)
  /\ run' = [run EXCEPT ![r].pc = "flush", ![r].tx = EmptyTx,
                        ![r].mark = EmptyTx]
  /\ UNCHANGED << log, closed, out, kills, fails >>

\* upsert_consumer_offset raises in an aborted transaction.
FailCommit(r) == Finished(r) /\ run[r].aborted /\ Escape(r)

\* Mutant: neither flush() nor close() waits for the queue.
Flush_Forgets(r) ==
  /\ run[r].pc = "flush"
  /\ run' = [run EXCEPT ![r] = IdleRun]
  /\ UNCHANGED << log, tables, out, kills, fails >>

\* producer.flush(), and the end of the run.
Flush(r) == run[r].pc = "flush" /\ Escape(r)

\* The process is killed: the transaction is rolled back, and of the queued
\* messages those are published that the producer had already sent.
Kill(r) ==
  /\ run[r].pc # "idle" /\ kills < MaxKills
  /\ \E sent \in SUBSET run[r].queue : out' = out \cup sent
  /\ run' = [run EXCEPT ![r] = IdleRun]
  /\ kills' = kills + 1
  /\ UNCHANGED << log, tables, fails >>

-----------------------------------------------------------------------------

Progress(r) == \/ SkipNull(r) \/ FailDecode(r) \/ RejectBody(r)
               \/ AcceptRow(r) \/ RejectRow(r) \/ RowRaises(r)
               \/ RejectAfterAbort(r) \/ FailAfterAbort(r) \/ Commit(r) \/ FailCommit(r) \/ Flush(r)

Next == \/ \E p \in Payloads : Produce(p)
        \/ \E e \in ErrorKey : CloseError(e)
        \/ \E r \in Runs : StartRun(r) \/ Progress(r) \/ Kill(r)

Spec == Init /\ [][Next]_vars

\* A run that has started goes on, and the scheduler's loop always starts
\* another one (docker/scheduler/loop.sh); MaxKills of them are killed, and
\* MaxFails of their sends and statements raise.
FairSpec == /\ Spec
            /\ \A r \in Runs : WF_vars(Progress(r))
            /\ WF_vars(\E r \in Runs : StartRun(r))

-----------------------------------------------------------------------------
(* The promise, without runs and transactions: what the first n messages   *)
(* make of the tables.                                                     *)

\* Offsets up to n of valid payloads with key k.
Versions(k, n) == {i \in 1..n : Valid(log[i]) /\ KeyOf[log[i]] = k}

\* The latest version of key k among the first n messages.
Latest(k, n) ==
  IF Versions(k, n) = {} THEN NoRow
  ELSE log[CHOOSE i \in Versions(k, n) : \A j \in Versions(k, n) : j <= i]

\* Parse errors of the first n messages, each with the class of its stage.
ErrorsOf(n) == {<< log[i], FailsAt[log[i]] >> :
                  i \in {j \in 1..n : FailsAt[log[j]] \in Classes}}

\* Those of rows that failed for no fault of their payload.
RaisedOf(n) == {<< log[i], "raised" >> : i \in {j \in 1..n : ReachesRow(log[j])}}

\* The message at offset i has a parse error, among errs, of a row that raised.
Excused(i, errs) == << log[i], "raised" >> \in errs

\* v is the row of key k after the first n messages: the latest version, but
\* for versions that are excused.
RowAfter(k, n, v, errs) ==
  \/ v = NoRow /\ \A i \in Versions(k, n) : Excused(i, errs)
  \/ \E i \in Versions(k, n) :
       v = log[i] /\ \A j \in Versions(k, n) : j > i => Excused(j, errs)

\* The normalized rows, the raw rows and the parse errors that the first n
\* messages make.
MadeBy(n, rows, offs, errs) ==
  /\ \A k \in Keys : RowAfter(k, n, rows[k], errs)
  /\ \A i \in offs : i \in 1..n /\ Valid(log[i])
  /\ \A i \in 1..n :
       /\ Valid(log[i]) => i \in offs \/ Excused(i, errs)
       /\ FailsAt[log[i]] \in Classes =>
            << log[i], FailsAt[log[i]] >> \in errs \/ Excused(i, errs)
  /\ errs \subseteq ErrorsOf(n) \cup RaisedOf(n)

Arrived == {log[i] : i \in 1..Len(log)}

EverRecorded == open \cup {e \in ErrorKey : closed[e] > 0}

-----------------------------------------------------------------------------
(* Properties.                                                             *)

\* Runs one after another, killed at any point, whose rows may raise: unless a
\* parse error was refused, the tables are always those of the messages that
\* the recorded offset covers, no more and no less, but for the rows that have
\* a parse error because a send or a statement raised.
TablesAreTheFold == ~tainted => MadeBy(offsets.cur, norm, raw, EverRecorded)

\* The message at offset i is in a table, as a raw row with a normalized one or
\* as a parse error.
Recorded(i) ==
  /\ Valid(log[i]) => \/ i \in raw /\ norm[KeyOf[log[i]]] # NoRow
                      \/ Excused(i, EverRecorded)
  /\ Malformed(log[i]) => \E c \in Classes : << log[i], c >> \in EverRecorded

\* kafka_consumer_offsets is "application evidence of last processed Kafka
\* offsets" (migration 007): a message that the recorded offset covers is in
\* a table.
OffsetsAreEvidence == \A i \in 1..offsets.cur : Recorded(i)

\* The same, as long as no parse error was refused: however runs overlap, are
\* killed, fail to decode a message or lose rows to a send that raises.
CoveredIsRecorded == ~tainted => OffsetsAreEvidence

\* Whatever the payloads and however often a transaction was rolled back in
\* part: no row claims what did not happen.  Raw rows are of valid messages,
\* a normalized row has its raw row, and a parse error names what failed: the
\* stage of its payload, or a row that was reached.
RecordsAreTrue ==
  /\ \A i \in raw : i <= Len(log) /\ Valid(log[i])
  /\ \A k \in Keys : norm[k] # NoRow => \E i \in raw : log[i] = norm[k]
  /\ \A e \in EverRecorded :
       e[2] # "aborted" => e \in ErrorsOf(Len(log)) \cup RaisedOf(Len(log))

\* Overlapping runs, in whatever order they commit: no recorded offset goes
\* back.
OffsetsNeverGoBack ==
  [][/\ offsets'.cur >= offsets.cur
     /\ offsets'.ok >= offsets.ok
     /\ offsets'.err >= offsets.err]_offsets

\* "Bad Kafka payloads are quarantined ... so valid rows in the same batch
\* still normalize" (dlq-and-replay.md): a run that is not killed leaves a
\* raw row for every valid message that it read, or a parse error if its row
\* raised.  The code keeps this only as long as the run read nothing that is
\* not UTF-8 and no parse error of it was refused.
ValidRowsSurvive ==
  [][\A r \in Runs :
       run[r].pc = "read" /\ run'[r].pc # "read" /\ kills' = kills =>
         \/ run[r].spoilt
         \/ \E i \in 1..run[r].end : FailsAt[log[i]] = "text"
         \/ \A i \in 1..run[r].end :
              Valid(log[i]) => i \in raw' \/ Excused(i, EverRecorded')]_vars

\* When messages stop coming, the table settles on the latest version of
\* every key, even if an older run has overwritten a newer version before.
Converges == <>[](\A k \in Keys : norm[k] = Latest(k, Len(log)))

\* What the message with payload p is published as.
Published(p) == [topic |-> IF Valid(p) THEN "normalized" ELSE "dead_letter",
                 body |-> p]

\* When messages stop coming, every one is published at last, as a normalized
\* record or as a dead letter, although runs are killed between commit and flush
\* and sends raise.
EveryMessageArrives ==
  <>[](\A p \in Arrived : FailsAt[p] # "null" => Published(p) \in out)
=============================================================================
