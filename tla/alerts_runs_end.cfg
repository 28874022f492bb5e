SPECIFICATION FairSpec
CONSTANTS
  m1 = m1
  m2 = m2
  s1 = s1
  Nobody = Nobody
  Materializers = {m1}
  Senders = {s1}
  Notifiers = {"console"}
  NotifierOf <- OneConsole
  Modes <- DigestToo
  Fingerprints <- MCFingerprints
  SeverityOf <- MCSeverityOf
  MaxIncidents = 1
  MaxClock = 3
  MinSeverity = 1
  Limit = 2
  DigestLimit = 2
  MaxAttempts = 1
  Cooldown = 2
  RetryDisabled = FALSE
  RetryDelays <- ShortDelays
CHECK_DEADLOCK FALSE
INVARIANTS
  SuccessWasDelivered
  MarkIsAudited
PROPERTY RunsEnd
