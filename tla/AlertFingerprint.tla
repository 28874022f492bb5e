-------------------------- MODULE AlertFingerprint --------------------------
(***************************************************************************)
(* The identity of an alert: which candidate rows of                       *)
(* analytics.fn_alert_candidates count as one incident.  The code hashes   *)
(* a canonical JSON payload (alerts.py) of a severity normalised to one    *)
(* scale (severity.py); the model keeps the payload itself, because SHA256 *)
(* of different payloads is taken to be different.                         *)
(*                                                                         *)
(* A candidate is a record with fields type, severity, geo, title, detail. *)
(* "detail" is a record whose fields are those the code may pick from.     *)
(***************************************************************************)
EXTENDS Naturals

\* The severity scale, weakest first.
SeverityOrder == << "info", "warning", "high", "critical" >>

Severities == {"info", "warning", "high", "critical"}

\* Position of a severity on the scale (0 for the weakest).
SeverityRank == [s \in Severities |->
                   (CHOOSE k \in 1..4 : SeverityOrder[k] = s) - 1]

\* Alert types whose SQL "warn" means "high" rather than "warning".
ElevatedTypes == {"high_smoke_risk", "high_plume_exposure",
                  "high_dispersion_exposure"}

\* normalize_db_severity: the SQL scale mapped to the notification scale.
NormalSeverity(type, raw) ==
  CASE raw = "critical"                          -> "critical"
    [] raw = "warn" /\ type \in ElevatedTypes    -> "high"
    [] raw = "warn" /\ type \notin ElevatedTypes -> "warning"
    [] raw \in Severities \ {"critical"}         -> raw
    [] OTHER                                     -> "warning"

\* Types whose title is wording only and is left out of the identity.  The
\* others (freshness and ingestion alerts) are told apart by their title.
TitledTypes == {"ingestion_failed", "no_recent_fire_detections",
                "no_recent_air_quality", "stale_firms_normalized",
                "stale_openaq_normalized", "wind_data_stale",
                "no_recent_wind_data"}

\* stable_fingerprint_details: the part of the details the identity keeps.
StableDetails(type, d) ==
  CASE type = "ingestion_failed"         -> << d.source >>
    [] type = "high_smoke_risk"          -> << d.model_version, d.risk_band >>
    [] type = "high_plume_exposure"      -> << d.model_version, d.max_score >>
    [] type = "high_dispersion_exposure" -> << d.max_score, d.threshold >>
    [] OTHER                             -> << >>

\* fingerprint_for_candidate: two candidates are one incident exactly when
\* these payloads are equal.
FingerprintOf(c) ==
  [type     |-> c.type,
   severity |-> NormalSeverity(c.type, c.severity),
   geo      |-> c.geo,
   title    |-> IF c.type \in TitledTypes THEN c.title ELSE "",
   detail   |-> StableDetails(c.type, c.detail)]
=============================================================================
