SPECIFICATION Spec
CONSTANTS
  m1 = m1
  m2 = m2
  s1 = s1
  Nobody = Nobody
  Materializers = {m1, m2}
  Senders = {}
  Notifiers = {"console"}
  NotifierOf <- NoSender
  Modes <- PlainOnly
  Fingerprints <- MCFingerprints
  SeverityOf <- MCSeverityOf
  MaxIncidents = 3
  MaxClock = 3
  MinSeverity = 1
  Limit = 2
  DigestLimit = 1
  MaxAttempts = 2
  Cooldown = 0
  RetryDisabled = FALSE
  RetryDelays <- ShortDelays
CHECK_DEADLOCK FALSE
INVARIANTS
  OneActivePerFingerprint
PROPERTIES
  ResolvedIsFinal
  AcknowledgedIsLeftAlone
  RefinesIncidents
