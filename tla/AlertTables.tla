---------------------------- MODULE AlertTables -----------------------------
(***************************************************************************)
(* The two PostgreSQL tables the alerting commands share, and the part of  *)
(* PostgreSQL's READ COMMITTED transactions those commands rely on:        *)
(*                                                                         *)
(*   analytics.alert_events           incidents (and draft, see below)     *)
(*   analytics.notification_attempts  attempts  (and pending)              *)
(*                                                                         *)
(* A process (one run of a command-line tool on its own connection) writes *)
(* a row only while it holds the row's lock, until it commits or rolls     *)
(* back.  So a row has at most one uncommitted version: draft[i] is the    *)
(* newest version of row i and incidents[i] the committed one; they differ *)
(* only while lock[i] names the writer.  Inserted attempts are private to  *)
(* the writer (pending) until it commits.                                  *)
(***************************************************************************)
EXTENDS Naturals, FiniteSets

CONSTANTS
  Fingerprints,   \* fingerprints that candidate rows can have
  SeverityOf,     \* rank of the severity that a fingerprint contains
  Notifiers,      \* notifier keys: console, webhook, slack, smtp
  Materializers,  \* processes running "alerts materialize"
  Senders,        \* processes running "alerts send"
  Nobody,         \* the holder of a free lock
  MaxIncidents,   \* bound: incident rows per fingerprint
  MaxClock        \* bound: transactions begun plus idle clock ticks

Procs == Materializers \cup Senders

ASSUME ProcsAssumption == /\ Nobody \notin Procs
                          /\ Materializers \cap Senders = {}
                          /\ IsFiniteSet(Procs)
ASSUME BoundsAssumption == MaxIncidents \in Nat \ {0} /\ MaxClock \in Nat
ASSUME SeverityAssumption == SeverityOf \in [Fingerprints -> 0..3]

VARIABLES
  incidents,  \* committed rows of alert_events
  closedAt,   \* history: when a row was committed as no longer open (0: not)
  draft,      \* newest version of each row, committed or not
  lock,       \* row lock: the process that holds row i until it ends
  attempts,   \* committed rows of notification_attempts
  pending,    \* attempts inserted by a sender's open transaction
  clock       \* now(): advances at least once between transactions

committed == << incidents, closedAt >>

tableVars == << committed, draft, lock, attempts, pending, clock >>

-----------------------------------------------------------------------------
(* Rows.                                                                   *)

\* Incident rows of one fingerprint are numbered in the order of insertion.
Incident == Fingerprints \X (1..MaxIncidents)

Status == {"none", "open", "acknowledged", "resolved"}

\* "seen" is last_seen_at; "marks" is notification_state, one
\* last_sent_last_seen_at per notifier key (0: none).
Row == [status : Status, seen : Nat, marks : [Notifiers -> Nat]]

NoRow == [status |-> "none", seen |-> 0, marks |-> [n \in Notifiers |-> 0]]

\* "why" is error_class for a skipped row, and which payload was sent for the
\* others; "seen" is the last_seen_at the payload was made from; "retry" is
\* retry_after (0: null).
Attempt == [inc : Incident, by : Notifiers,
            status : {"succeeded", "failed", "skipped"},
            why : {"send", "digest", "max_attempts", "retry_queue_filter",
                   "retry_backoff", "already_current"},
            at : Nat, seen : Nat, retry : Nat]

Active(row) == row.status \in {"open", "acknowledged"}

TablesTypeOK ==
  /\ incidents \in [Incident -> Row]
  /\ closedAt \in [Incident -> Nat]
  /\ draft \in [Incident -> Row]
  /\ lock \in [Incident -> Procs \cup {Nobody}]
  /\ attempts \in SUBSET Attempt
  /\ pending \in [Senders -> SUBSET Attempt]
  /\ clock \in 1..(MaxClock + 1)

TablesInit ==
  /\ incidents = [i \in Incident |-> NoRow]
  /\ closedAt = [i \in Incident |-> 0]
  /\ draft = [i \in Incident |-> NoRow]
  /\ lock = [i \in Incident |-> Nobody]
  /\ attempts = {}
  /\ pending = [s \in Senders |-> {}]
  /\ clock = 1

-----------------------------------------------------------------------------
(* Transactions.                                                           *)

Free(i, p) == lock[i] \in {Nobody, p}

\* Process p writes version row of i: it takes the row lock.
Write(p, i, row) ==
  /\ draft' = [draft EXCEPT ![i] = row]
  /\ lock' = [lock EXCEPT ![i] = p]

\* The lock table after p ends its transaction.
Released(p) == [i \in Incident |-> IF lock[i] = p THEN Nobody ELSE lock[i]]

\* COMMIT: what p wrote becomes the committed version.
CommitRows(p) ==
  /\ incidents' = [i \in Incident |-> IF lock[i] = p THEN draft[i]
                                                      ELSE incidents[i]]
  /\ closedAt' = [i \in Incident |->
                    IF /\ lock[i] = p
                       /\ incidents[i].status = "open"
                       /\ draft[i].status # "open"
                    THEN clock ELSE closedAt[i]]
  /\ lock' = Released(p)
  /\ UNCHANGED draft

\* ROLLBACK: what p wrote is undone.
RollbackRows(p) ==
  /\ draft' = [i \in Incident |-> IF lock[i] = p THEN incidents[i]
                                                  ELSE draft[i]]
  /\ lock' = Released(p)
  /\ UNCHANGED committed

\* BEGIN: now() is fixed for the whole transaction, and no two transactions
\* have the same now().
Begin ==
  /\ clock <= MaxClock
  /\ clock' = clock + 1

\* Time passes between transactions, and while an external call lasts.
Tick ==
  /\ clock <= MaxClock
  /\ clock' = clock + 1
  /\ UNCHANGED << committed, draft, lock, attempts, pending >>

\* p is on a cycle of the wait-for graph, where waits[q] is the set of
\* processes whose locks q is waiting for.  PostgreSQL's deadlock detector
\* cancels the statement of a process for which this holds.
OnCycle(p, waits) ==
  \E n \in 1..Cardinality(Procs) : \E c \in [0..(n - 1) -> Procs] :
    /\ c[0] = p
    /\ \A k \in 0..(n - 1) : c[(k + 1) % n] \in waits[c[k]]

-----------------------------------------------------------------------------
(* Operators of the deployment write the status column by hand (psql); no  *)
(* command of the repository acknowledges an incident.                     *)

SetStatus(i, status) ==
  /\ lock[i] = Nobody
  /\ incidents' = [incidents EXCEPT ![i].status = status]
  /\ draft' = [draft EXCEPT ![i].status = status]
  /\ closedAt' = [closedAt EXCEPT ![i] = IF @ = 0 THEN clock ELSE @]
  /\ UNCHANGED << lock, attempts, pending, clock >>

Acknowledge(i) == /\ incidents[i].status = "open"
                  /\ SetStatus(i, "acknowledged")

CloseByHand(i) == /\ Active(incidents[i])
                  /\ SetStatus(i, "resolved")

-----------------------------------------------------------------------------
(* Properties of the tables.                                               *)

\* Migration 003: "One active incident row per fingerprint while triage is
\* incomplete", in the newest versions too, so that no commit can break it.
OneActivePerFingerprint ==
  \A fp \in Fingerprints : \A g, h \in 1..MaxIncidents :
    /\ Active(incidents[fp, g]) /\ Active(incidents[fp, h]) => g = h
    /\ Active(draft[fp, g]) /\ Active(draft[fp, h]) => g = h
=============================================================================
