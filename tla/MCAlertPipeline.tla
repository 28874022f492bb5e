--------------------------- MODULE MCAlertPipeline ---------------------------
(***************************************************************************)
(* Instances of AlertPipeline for TLC: two candidate rows as the SQL       *)
(* function returns them, of different severity, and small settings.       *)
(***************************************************************************)
EXTENDS AlertPipeline, AlertFingerprint, TLC

CONSTANTS m1, m2, s1

Candidates ==
  {[type |-> "high_smoke_risk", severity |-> "warn", geo |-> "tract:1",
    title |-> "High smoke risk",
    detail |-> [model_version |-> "v5", risk_band |-> "high"]],
   [type |-> "kafka_lag_high", severity |-> "warn", geo |-> "",
    title |-> "Kafka lag", detail |-> [lag |-> 1]]}

MCFingerprints == {FingerprintOf(c) : c \in Candidates}
MCOneFingerprint == {fp \in MCFingerprints : fp.type = "kafka_lag_high"}
MCSeverityOf == [fp \in MCFingerprints |-> SeverityRank[fp.severity]]
MCSeverityOfOne == [fp \in MCOneFingerprint |-> SeverityRank[fp.severity]]

OneConsole == (s1 :> "console")
NoSender == [s \in {} |-> "console"]

Plain == [digest |-> FALSE, retryOnly |-> FALSE, force |-> FALSE]
PlainOnly == {Plain}
DigestToo == {Plain, [Plain EXCEPT !.digest = TRUE]}
RetryToo == {Plain, [Plain EXCEPT !.retryOnly = TRUE]}

ShortDelays == << 1, 2, 3 >>
LongDelays == << 2, 3, 4 >>
=============================================================================
