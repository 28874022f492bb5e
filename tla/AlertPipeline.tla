---------------------------- MODULE AlertPipeline ----------------------------
(***************************************************************************)
(* The alerting commands at work on the same tables: any number of runs of *)
(* "alerts materialize" and "alerts send", started by the operational      *)
(* cycle, by its scheduler or by hand, and operators editing incidents.    *)
(***************************************************************************)
EXTENDS AlertMaterialize, AlertDelivery

vars == << tableVars, mat, snd, delivered >>

Init == TablesInit /\ MatInit /\ SndInit

\* Who waits for whose row locks.
Waits == [p \in Procs |-> IF p \in Materializers THEN MatWaits(p)
                                                 ELSE SndWaits(p)]

Materialize == \E m \in Materializers : MatStep(m, Waits)
                                        /\ UNCHANGED senderVars
Send == \E s \in Senders : SndStep(s, Waits) /\ UNCHANGED mat

\* A process is killed at any point.
Crash == \/ \E m \in Materializers : AbortMaterialize(m)
                                     /\ UNCHANGED senderVars
         \/ \E s \in Senders : AbortSend(s) /\ UNCHANGED mat

Operator == /\ \E i \in Incident : Acknowledge(i) \/ CloseByHand(i)
            /\ UNCHANGED << mat, snd, delivered >>

Elapse == Tick /\ UNCHANGED << mat, snd, delivered >>

Next == Materialize \/ Send \/ Crash \/ Operator \/ Elapse

Spec == Init /\ [][Next]_vars

\* A command that has started goes on: every statement it can execute is
\* executed, and PostgreSQL's deadlock detector runs.  Nothing makes a new
\* run start.
MatProgress(m) == /\ mat[m].pc # "idle"
                  /\ MatStep(m, Waits) /\ UNCHANGED senderVars
SndProgress(s) == /\ snd[s].pc # "idle"
                  /\ SndStep(s, Waits) /\ UNCHANGED mat

FairSpec == /\ Spec
            /\ \A m \in Materializers : WF_vars(MatProgress(m))
            /\ \A s \in Senders : WF_vars(SndProgress(s))

TypeOK == TablesTypeOK /\ MatTypeOK /\ SndTypeOK

-----------------------------------------------------------------------------
(* The incidents as their readers see them: committed rows only.           *)

ActiveStatus(fp) ==
  IF \E g \in 1..MaxIncidents : Active(incidents[fp, g])
  THEN incidents[fp, CHOOSE g \in 1..MaxIncidents :
                       Active(incidents[fp, g])].status
  ELSE "none"

Resolved(fp) ==
  {g \in 1..MaxIncidents : incidents[fp, g].status = "resolved"}

Incidents == INSTANCE AlertIncidents WITH
               active <- [fp \in Fingerprints |-> ActiveStatus(fp)],
               closed <- [fp \in Fingerprints |-> Cardinality(Resolved(fp))]

\* Whatever the interleaving of runs, crashes and deadlocks, the incidents
\* change as AlertIncidents says.
RefinesIncidents == Incidents!Spec

-----------------------------------------------------------------------------
(* Properties of the audit trail and of the notification state.            *)

Succeeded(i, n) ==
  {a \in attempts : a.inc = i /\ a.by = n /\ a.status = "succeeded"}

\* Every attempt recorded as succeeded stands for a message that a notifier
\* accepted, in that run and about that sighting: the audit never claims a
\* delivery that did not happen.
SuccessWasDelivered ==
  \A a \in attempts : a.status = "succeeded" =>
    \E d \in delivered : /\ d.inc = a.inc /\ d.by = a.by
                         /\ d.seen = a.seen /\ d.at = a.at

\* notification_state never says "sent" without an audit row that says so:
\* the two tables are written in one transaction, under one savepoint.
MarkIsAudited ==
  \A i \in Incident, n \in Notifiers : incidents[i].marks[n] # 0 =>
    \E a \in Succeeded(i, n) : a.why = "send"
                               /\ a.seen = incidents[i].marks[n]

\* The mark is that of the latest success, so no success is forgotten.
MarkIsLatestSuccess ==
  \A i \in Incident, n \in Notifiers :
    \A a \in Succeeded(i, n) :
      (a.why = "send" /\ \A b \in Succeeded(i, n) :
                           b.why = "send" => b.at <= a.at)
      => incidents[i].marks[n] = a.seen

\* One sighting of an incident is not announced twice after it was recorded
\* as announced.
NoRepeatedSuccess ==
  \A a, b \in attempts :
    /\ a.inc = b.inc /\ a.by = b.by /\ a.seen = b.seen
    /\ a.status = "succeeded" /\ b.status = "succeeded"
    /\ a.why = "send" /\ b.why = "send"
    => a = b

\* A message about an incident that is closed came from a run that began
\* before it was closed: nobody is told of an incident closed before.
NoNoticeAfterClose ==
  \A d \in delivered : closedAt[d.inc] # 0 => d.at < closedAt[d.inc]

\* A failed attempt's retry_after is respected until a later run skips the
\* incident: the skip row then is the "last attempt", and the run after that
\* may send at once.  So an early send always has a skip row before it.
BackoffUnlessSkipped ==
  \A f \in attempts, d \in delivered :
    (/\ f.status = "failed" /\ f.inc = d.inc /\ f.by = d.by
     /\ f.at < d.at /\ d.time < f.retry)
    => \E a \in attempts : /\ a.status = "skipped" /\ a.inc = f.inc
                           /\ a.by = f.by /\ f.at < a.at /\ a.at < d.at

\* Runs of one notifier that leave an audit row begin at least the cooldown
\* apart, whatever the rows say and however the runs end.
CooldownSpacing ==
  \A a, b \in attempts :
    a.by = b.by /\ a.at < b.at => a.at + Cooldown <= b.at

\* --retry-queue filters out only incidents whose last notification failure
\* has been dealt with: when the last row that is not a skip is a failure,
\* the run does not call the incident "not_retry_eligible".
RetryQueueKeepsFailed ==
  \A a \in attempts : a.why = "retry_queue_filter" =>
    \A f \in attempts :
      (/\ f.status = "failed" /\ f.inc = a.inc /\ f.by = a.by /\ f.at < a.at)
      => \E b \in Succeeded(a.inc, a.by) : f.at < b.at /\ b.at < a.at

\* An acknowledged incident is closed by an operator only: neither command
\* touches the status of one.
AcknowledgedIsLeftAlone ==
  [][\A i \in Incident :
       incidents[i].status = "acknowledged"
         /\ incidents'[i].status # "acknowledged"
       => CloseByHand(i)]_vars

\* Every run that is not killed ends: no set of runs waits for each other's
\* row locks for ever.
RunsEnd == /\ \A m \in Materializers : mat[m].pc # "idle" ~> mat[m].pc = "idle"
           /\ \A s \in Senders : snd[s].pc # "idle" ~> snd[s].pc = "idle"
=============================================================================
