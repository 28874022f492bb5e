---------------------------- MODULE AlertDelivery ----------------------------
(***************************************************************************)
(* "alerts send": one transaction that reads the open incidents, hands     *)
(* them to a notifier and records what happened (alert_delivery.py,        *)
(* notification_reliability.py).  The notifier is outside the database, so *)
(* what it accepted ("delivered") survives a rollback.                     *)
(***************************************************************************)
EXTENDS AlertTables

CONSTANTS
  NotifierOf,     \* ALERT_NOTIFIER of each sender
  Modes,          \* the ways senders are run, see Mode
  MinSeverity,    \* rank of ALERT_SEVERITY_MIN
  Limit,          \* ALERT_LIMIT
  DigestLimit,    \* ALERT_DIGEST_MAX_ITEMS
  MaxAttempts,    \* ALERT_MAX_ATTEMPTS
  Cooldown,       \* ALERT_SEND_COOLDOWN_SECONDS, in clock ticks
  RetryDisabled,  \* ALERT_RETRY_DISABLED
  RetryDelays     \* retry_delay_seconds after failure 1, 2 and later, in ticks

\* --digest, --retry-queue and FORCE_NOTIFY.
Mode == [digest : BOOLEAN, retryOnly : BOOLEAN, force : BOOLEAN]

ASSUME NotifierAssumption == NotifierOf \in [Senders -> Notifiers]
ASSUME ModesAssumption == Modes \subseteq Mode
ASSUME SettingsAssumption ==
  /\ MinSeverity \in 0..3
  /\ Limit \in Nat /\ DigestLimit \in Nat \ {0} /\ MaxAttempts \in Nat \ {0}
  /\ Cooldown \in Nat /\ RetryDisabled \in BOOLEAN
  /\ RetryDelays \in [1..3 -> Nat]

VARIABLES
  snd,        \* the state of each sender
  delivered   \* what notifiers accepted: messages that left the system

senderVars == << snd, delivered >>

\* An incident as a sender read it: last_seen_at and notification_state are
\* those of the SELECT, whatever happens to the row later.
Item == [inc : Incident, seen : Nat, marks : [Notifiers -> Nat]]

\* "cur" holds the item whose notifier call has returned ("record") or raised
\* ("undo") and is not yet recorded.
SndState == [pc : {"idle", "select", "loop", "record", "undo", "persist"},
             mode : Mode, at : Nat, todo : SUBSET Item,
             cur : SUBSET Item]

PlainMode == [digest |-> FALSE, retryOnly |-> FALSE, force |-> FALSE]

IdleSnd == [pc |-> "idle", mode |-> PlainMode, at |-> 0, todo |-> {},
            cur |-> {}]

Delivery == [inc : Incident, by : Notifiers, seen : Nat, at : Nat,
             time : Nat, digest : BOOLEAN]

SndTypeOK == /\ snd \in [Senders -> SndState]
             /\ delivered \in SUBSET Delivery

SndInit == /\ snd = [s \in Senders |-> IdleSnd]
           /\ delivered = {}

-----------------------------------------------------------------------------
(* What a sender reads from the audit table: committed attempts and its    *)
(* own, of its notifier.                                                   *)

Visible(s, i) == {a \in attempts \cup pending[s] :
                    a.inc = i /\ a.by = NotifierOf[s]}

AttemptCount(s, i) ==
  Cardinality({a \in Visible(s, i) : a.status # "skipped"})

FailureCount(s, i) ==
  Cardinality({a \in Visible(s, i) : a.status = "failed"})

\* last_attempt_row: the row with the greatest attempted_at, of any status.
\* (A set of at most one row: the rows of one run differ in the incident.)
LastAttempt(s, i) ==
  {a \in Visible(s, i) : \A b \in Visible(s, i) : b.at <= a.at}

LastFailed(s, i) == \E a \in LastAttempt(s, i) : a.status = "failed"

\* Mutant: retry_after compared the wrong way round.
InBackoff_Reversed(s, i) == \E a \in LastAttempt(s, i) :
                              a.status = "failed" /\ a.retry < clock

\* The last attempt failed and its retry_after has not come.
InBackoff(s, i) == \E a \in LastAttempt(s, i) :
                     a.status = "failed" /\ a.retry > clock

RetryDelay(failures) == IF failures <= 1 THEN RetryDelays[1]
                        ELSE IF failures = 2 THEN RetryDelays[2]
                        ELSE RetryDelays[3]

\* Mutant: only successes start the cooldown.
CooldownActive_SuccessOnly(s) ==
  /\ Cooldown > 0
  /\ \E a \in attempts : /\ a.by = NotifierOf[s] /\ a.status = "succeeded"
                         /\ a.at + Cooldown > clock

CooldownActive(s) ==
  /\ Cooldown > 0
  /\ \E a \in attempts : a.by = NotifierOf[s] /\ a.at + Cooldown > clock

-----------------------------------------------------------------------------
(* The SELECT: open incidents by severity, then by last_seen_at.           *)

Precedes(e, f) ==
  LET p == SeverityOf[e.inc[1]]
      q == SeverityOf[f.inc[1]]
  IN  p > q \/ (p = q /\ e.seen >= f.seen)

\* ORDER BY ... LIMIT n: ties may be broken either way.
FirstOf(S, n) ==
  {T \in SUBSET S : /\ Cardinality(T) = IF Cardinality(S) <= n
                                        THEN Cardinality(S) ELSE n
                    /\ \A e \in T, f \in S \ T : Precedes(e, f)}

\* Mutant: the SELECT does not look at the status.
OpenItems_AnyStatus == {[inc |-> i, seen |-> incidents[i].seen,
                         marks |-> incidents[i].marks] :
                           i \in {j \in Incident :
                                    incidents[j].status # "none"}}

OpenItems == {[inc |-> i, seen |-> incidents[i].seen,
               marks |-> incidents[i].marks] :
                 i \in {j \in Incident : incidents[j].status = "open"}}

Severe(e) == SeverityOf[e.inc[1]] >= MinSeverity

\* The items a run may take next: the loop follows the order of the SELECT.
Heads(s) == {e \in snd[s].todo : \A f \in snd[s].todo : Precedes(e, f)}

-----------------------------------------------------------------------------
(* send_notifications_impl.                                                *)

\* Connect, BEGIN and the cooldown check.  A run in the cooldown returns
\* without writing, so it is no action.
StartSend(s) ==
  /\ snd[s].pc = "idle"
  /\ ~CooldownActive(s)
  /\ Begin
  /\ \E mode \in Modes :
       snd' = [snd EXCEPT ![s].pc = "select", ![s].mode = mode,
                          ![s].at = clock]
  /\ UNCHANGED << committed, draft, lock, attempts, pending, delivered >>

\* LIMIT comes before the severity filter.
SelectOpen(s) ==
  /\ snd[s].pc = "select" /\ ~snd[s].mode.digest
  /\ \E page \in FirstOf(OpenItems, Limit) :
       snd' = [snd EXCEPT ![s].pc = "loop",
                          ![s].todo = {e \in page : Severe(e)}]
  /\ UNCHANGED << tableVars, delivered >>

\* A digest keeps the incidents observed in its window, any of those read,
\* and caps their number.  With none left the run returns.
SelectDigest(s) ==
  /\ snd[s].pc = "select" /\ snd[s].mode.digest
  /\ \E page \in FirstOf(OpenItems, Limit) : \E recent \in SUBSET page :
       \E items \in FirstOf({e \in recent : Severe(e)}, DigestLimit) :
         snd' = [snd EXCEPT ![s] =
                   IF items = {} THEN IdleSnd
                   ELSE [@ EXCEPT !.pc = "loop", !.todo = items]]
  /\ UNCHANGED << tableVars, delivered >>

\* A row of the audit table; attempted_at is now(), the run's start.
NewAttempt(s, e, status, why, retry) ==
  [inc |-> e.inc, by |-> NotifierOf[s], status |-> status, why |-> why,
   at |-> snd[s].at, seen |-> e.seen, retry |-> retry]

Record(s, a) == pending' = [pending EXCEPT ![s] = @ \cup {a}]

\* Mutant: notification_state is not consulted.
SkipReason_NeverCurrent(s, e) ==
  IF AttemptCount(s, e.inc) >= MaxAttempts THEN "max_attempts"
  ELSE IF snd[s].mode.retryOnly /\ ~LastFailed(s, e.inc)
       THEN "retry_queue_filter"
  ELSE IF InBackoff(s, e.inc) /\ ~RetryDisabled THEN "retry_backoff"
  ELSE "none"

\* The early "continue"s of the loop, in their order.
SkipReason(s, e) ==
  IF AttemptCount(s, e.inc) >= MaxAttempts THEN "max_attempts"
  ELSE IF snd[s].mode.retryOnly /\ ~LastFailed(s, e.inc)
       THEN "retry_queue_filter"
  ELSE IF InBackoff(s, e.inc) /\ ~RetryDisabled THEN "retry_backoff"
  ELSE IF ~snd[s].mode.force /\ e.marks[NotifierOf[s]] = e.seen
       THEN "already_current"
  ELSE "none"

InLoop(s) == snd[s].pc = "loop" /\ ~snd[s].mode.digest

\* Mutant: the skip is recorded but the loop does not move on.
Skip_Repeats(s) ==
  /\ InLoop(s)
  /\ \E e \in Heads(s) :
       /\ SkipReason(s, e) # "none"
       /\ Record(s, NewAttempt(s, e, "skipped", SkipReason(s, e), 0))
  /\ UNCHANGED << committed, draft, lock, attempts, clock, snd, delivered >>

\* Mutant: a skip is recorded of the items that are to be sent, too.
Skip_NoReason(s) ==
  /\ InLoop(s)
  /\ \E e \in Heads(s) :
       /\ Record(s, NewAttempt(s, e, "skipped", SkipReason(s, e), 0))
       /\ snd' = [snd EXCEPT ![s].todo = @ \ {e}]
  /\ UNCHANGED << committed, draft, lock, attempts, clock, delivered >>

Skip(s) ==
  /\ InLoop(s)
  /\ \E e \in Heads(s) :
       LET why == SkipReason(s, e)
       IN  /\ why # "none"
           /\ \E retry \in (IF why = "retry_backoff"
                            THEN {a.retry : a \in LastAttempt(s, e.inc)}
                            ELSE {0}) :
                Record(s, NewAttempt(s, e, "skipped", why, retry))
           /\ snd' = [snd EXCEPT ![s].todo = @ \ {e}]
  /\ UNCHANGED << committed, draft, lock, attempts, clock, delivered >>

\* What leaves the system when run s sends the items of E.
Sent(s, E) == {[inc |-> e.inc, by |-> NotifierOf[s], seen |-> e.seen,
                at |-> snd[s].at, time |-> clock,
                digest |-> snd[s].mode.digest] : e \in E}

\* Mutant: an exception of the notifier is swallowed.
Deliver_Swallows(s) ==
  /\ InLoop(s)
  /\ \E e \in Heads(s), arrived \in BOOLEAN :
       /\ SkipReason(s, e) = "none"
       /\ delivered' = delivered \cup (IF arrived THEN Sent(s, {e}) ELSE {})
       /\ snd' = [snd EXCEPT ![s].pc = "record", ![s].cur = {e}]
  /\ UNCHANGED tableVars

\* notifier.send([ev]) under SAVEPOINT alert_send.  It returns, or it raises
\* before or after the message arrived (a timeout).
Deliver(s) ==
  /\ InLoop(s)
  /\ \E e \in Heads(s), ok \in BOOLEAN, arrived \in BOOLEAN :
       /\ SkipReason(s, e) = "none"
       /\ ok => arrived
       /\ delivered' = delivered \cup (IF arrived THEN Sent(s, {e}) ELSE {})
       /\ snd' = [snd EXCEPT ![s].pc = IF ok THEN "record" ELSE "undo",
                             ![s].cur = {e}]
  /\ UNCHANGED tableVars

NextItem(s) == [snd EXCEPT ![s].pc = "loop", ![s].cur = {},
                           ![s].todo = @ \ snd[s].cur]

\* UPDATE alert_events SET notification_state: the whole column is written
\* from the value read by the SELECT, on the newest version of the row.
Mark(s, e, marks) ==
  /\ Free(e.inc, s)
  /\ Write(s, e.inc, [draft[e.inc] EXCEPT !.marks = marks])

\* Mutant: the mark is the row's present last_seen_at, not the one sent.
RecordSuccess_MarksNewest(s) ==
  /\ snd[s].pc = "record"
  /\ \E e \in snd[s].cur :
       /\ Mark(s, e, [e.marks EXCEPT ![NotifierOf[s]] = draft[e.inc].seen])
       /\ Record(s, NewAttempt(s, e, "succeeded", "send", 0))
  /\ snd' = NextItem(s)
  /\ UNCHANGED << committed, attempts, clock, delivered >>

RecordSuccess(s) ==
  /\ snd[s].pc = "record"
  /\ \E e \in snd[s].cur :
       /\ Mark(s, e, [e.marks EXCEPT ![NotifierOf[s]] = e.seen])
       /\ Record(s, NewAttempt(s, e, "succeeded", "send", 0))
  /\ snd' = NextItem(s)
  /\ UNCHANGED << committed, attempts, clock, delivered >>

\* Mutant: the savepoint is not rolled back, so the mark stays.
RecordFailure_KeepsMark(s) ==
  /\ snd[s].pc = "undo"
  /\ \E e \in snd[s].cur :
       /\ Mark(s, e, [e.marks EXCEPT ![NotifierOf[s]] = e.seen])
       /\ Record(s, NewAttempt(s, e, "failed", "send", clock))
  /\ snd' = NextItem(s)
  /\ UNCHANGED << committed, attempts, clock, delivered >>

\* ROLLBACK TO SAVEPOINT, then the failed attempt.
RecordFailure(s) ==
  /\ snd[s].pc = "undo"
  /\ \E e \in snd[s].cur :
       Record(s, NewAttempt(s, e, "failed", "send",
                            clock + RetryDelay(FailureCount(s, e.inc) + 1)))
  /\ snd' = NextItem(s)
  /\ UNCHANGED << committed, draft, lock, attempts, clock, delivered >>

\* One message for all items of a digest.
DeliverDigest(s) ==
  /\ snd[s].pc = "loop" /\ snd[s].mode.digest
  /\ delivered' = delivered \cup Sent(s, snd[s].todo)
  /\ snd' = [snd EXCEPT ![s].pc = "persist"]
  /\ UNCHANGED tableVars

\* persist_digest_success, one item at a time.  The digest marks themselves
\* are read by nobody and left out; the column is still overwritten.
PersistDigest(s) ==
  /\ snd[s].pc = "persist"
  /\ \E e \in Heads(s) :
       /\ Mark(s, e, e.marks)
       /\ Record(s, NewAttempt(s, e, "succeeded", "digest", 0))
       /\ snd' = [snd EXCEPT ![s].todo = @ \ {e}]
  /\ UNCHANGED << committed, attempts, clock, delivered >>

\* send_digest_external raised (whether or not the message arrived): every
\* item gets a failed attempt, and that is committed.
FailDigest(s) ==
  /\ snd[s].pc = "loop" /\ snd[s].mode.digest
  /\ \E arrived \in BOOLEAN :
       delivered' = delivered \cup
                      (IF arrived THEN Sent(s, snd[s].todo) ELSE {})
  /\ attempts' = attempts \cup
       {NewAttempt(s, e, "failed", "digest",
                   clock + RetryDelay(FailureCount(s, e.inc) + 1)) :
          e \in snd[s].todo}
  /\ snd' = [snd EXCEPT ![s] = IdleSnd]
  /\ UNCHANGED << committed, draft, lock, pending, clock >>

CommitSend(s) ==
  /\ \/ InLoop(s)
     \/ snd[s].pc = "persist"
  /\ snd[s].todo = {}
  /\ CommitRows(s)
  /\ attempts' = attempts \cup pending[s]
  /\ pending' = [pending EXCEPT ![s] = {}]
  /\ snd' = [snd EXCEPT ![s] = IdleSnd]
  /\ UNCHANGED << clock, delivered >>

\* The processes s waits for at its UPDATE statement.
SndWaits(s) ==
  LET next == IF snd[s].pc = "record" THEN snd[s].cur
              ELSE IF snd[s].pc = "persist" THEN Heads(s) ELSE {}
  IN  {lock[e.inc] : e \in next} \ {Nobody, s}

\* Killed or disconnected: the transaction is rolled back, and what was
\* delivered stays delivered.
AbortSend(s) ==
  /\ snd[s].pc # "idle"
  /\ RollbackRows(s)
  /\ pending' = [pending EXCEPT ![s] = {}]
  /\ snd' = [snd EXCEPT ![s] = IdleSnd]
  /\ UNCHANGED << attempts, clock, delivered >>

\* The deadlock detector cancels the UPDATE.  In the loop that is one more
\* exception under the savepoint, so the delivery is recorded as failed.
DeadlockSend(s, waits) ==
  /\ OnCycle(s, waits)
  /\ snd[s].pc = "record"
  /\ snd' = [snd EXCEPT ![s].pc = "undo"]
  /\ UNCHANGED << tableVars, delivered >>

\* In a digest there is no savepoint: persist_digest_failures runs in the
\* aborted transaction, raises too, and nothing is recorded.
DeadlockDigest(s, waits) ==
  /\ OnCycle(s, waits)
  /\ snd[s].pc = "persist"
  /\ AbortSend(s)

SndStep(s, waits) == \/ StartSend(s)
                     \/ SelectOpen(s)
                     \/ SelectDigest(s)
                     \/ Skip(s)
                     \/ Deliver(s)
                     \/ RecordSuccess(s)
                     \/ RecordFailure(s)
                     \/ DeliverDigest(s)
                     \/ PersistDigest(s)
                     \/ FailDigest(s)
                     \/ CommitSend(s)
                     \/ DeadlockSend(s, waits)
                     \/ DeadlockDigest(s, waits)
=============================================================================
