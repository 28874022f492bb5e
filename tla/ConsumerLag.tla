------------------------------ MODULE ConsumerLag ------------------------------
(***************************************************************************)
(* The lag collector (kafka_lag.py) beside the normalizer runs of one      *)
(* partition.  It reads the high watermarks from the broker and only then  *)
(* the offsets that the normalizers have recorded, so runs may commit and  *)
(* messages arrive between the two readings.  Nothing in the models reads  *)
(* an observation back, so that the rows it writes are not kept.           *)
(***************************************************************************)
EXTENDS Normalize

VARIABLES
  high,     \* the watermark of the collection under way
  reading   \* whether one is under way

lagVars == << high, reading >>

LagInit == Init /\ high = 0 /\ reading = FALSE

\* _end_offsets: the offset that the next message will get.
ReadHigh ==
  /\ ~reading
  /\ high' = Len(log) /\ reading' = TRUE
  /\ UNCHANGED vars

\* Mutant: the last processed message is taken off twice.
Difference_OffByOne(end, offset) == IF end > offset + 1 THEN end - offset - 2 ELSE 0

\* max(0, hi - cur_off).
Difference(end, offset) == IF end > offset THEN end - offset ELSE 0

\* The lag of the row that is written: current_offset is that of the last
\* processed message, which is one less than its position in log.
Observed == Difference(high, offsets.cur - 1)

\* collect_and_store_lag reads the offsets and writes the row.  (A partition
\* that no run has recorded has no row, and no observation.)
StoreLag ==
  /\ reading
  /\ high' = 0 /\ reading' = FALSE
  /\ UNCHANGED vars

Collect == ReadHigh \/ StoreLag

LagNext == \/ Next /\ UNCHANGED lagVars
           \/ Collect

LagSpec == LagInit /\ [][LagNext]_<< vars, lagVars >>

\* The normalizers' fairness; nothing is assumed of the collector.
LagFairSpec == /\ LagSpec
               /\ \A r \in Runs : WF_vars(Progress(r))
               /\ WF_vars(\E r \in Runs : StartRun(r))

\* However runs commit and messages arrive between the two readings: the lag
\* that is observed when the second is done is at most one more than what is
\* unprocessed then, and a lag of 0 or 1 says that everything is processed that
\* was in the partition when the watermark was read.  (One more, because the
\* offset is that of the last message and the watermark that of the next: a
\* normalizer that has caught up is always reported one behind.)
LagBrackets ==
  [][reading /\ ~reading' /\ offsets.cur > 0 =>
       /\ Observed <= Len(log) - offsets.cur + 1
       /\ Observed <= 1 => offsets.cur >= high]_<< vars, lagVars >>
=============================================================================
