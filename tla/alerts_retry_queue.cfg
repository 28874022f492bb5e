SPECIFICATION Spec
CONSTANTS
  m1 = m1
  m2 = m2
  s1 = s1
  Nobody = Nobody
  Materializers = {m1}
  Senders = {s1}
  Notifiers = {"console"}
  NotifierOf <- OneConsole
  Modes <- RetryToo
  Fingerprints <- MCOneFingerprint
  SeverityOf <- MCSeverityOfOne
  MaxIncidents = 1
  MaxClock = 6
  MinSeverity = 1
  Limit = 2
  DigestLimit = 1
  MaxAttempts = 3
  Cooldown = 0
  RetryDisabled = FALSE
  RetryDelays <- LongDelays
CHECK_DEADLOCK FALSE
INVARIANT RetryQueueKeepsFailed
