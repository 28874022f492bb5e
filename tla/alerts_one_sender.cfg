SPECIFICATION Spec
CONSTANTS
  m1 = m1
  m2 = m2
  s1 = s1
  Nobody = Nobody
  Materializers = {m1}
  Senders = {s1}
  Notifiers = {"console"}
  NotifierOf <- OneConsole
  Modes <- PlainOnly
  Fingerprints <- MCOneFingerprint
  SeverityOf <- MCSeverityOfOne
  MaxIncidents = 2
  MaxClock = 5
  MinSeverity = 1
  Limit = 2
  DigestLimit = 1
  MaxAttempts = 2
  Cooldown = 2
  RetryDisabled = FALSE
  RetryDelays <- LongDelays
CHECK_DEADLOCK FALSE
INVARIANTS
  TypeOK
  MarkIsLatestSuccess
  NoRepeatedSuccess
  NoNoticeAfterClose
  BackoffUnlessSkipped
  CooldownSpacing
PROPERTIES CommitReflectsCandidates
