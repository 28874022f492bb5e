------------------------------- MODULE RunLedger -------------------------------
(***************************************************************************)
(* What a bookkeeping table of runs promises (analytics.operational_runs,  *)
(* ingestion_runs, dlq_replay_runs): a run has no row, then a row that is  *)
(* running, then at most one verdict, which is never taken back.  A run    *)
(* may stop without a verdict.                                             *)
(***************************************************************************)
CONSTANT Runs

VARIABLE row

TypeOK == row \in [Runs -> {"absent", "running", "succeeded", "failed"}]

Init == row = [r \in Runs |-> "absent"]

Open(r) == row[r] = "absent" /\ row' = [row EXCEPT ![r] = "running"]

Close(r, verdict) ==
  row[r] = "running" /\ row' = [row EXCEPT ![r] = verdict]

Next == \E r \in Runs : \/ Open(r)
                        \/ \E v \in {"succeeded", "failed"} : Close(r, v)

Spec == Init /\ [][Next]_row
=============================================================================
