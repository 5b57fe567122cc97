\* RELAY_ALLOW_SHARED_ALERT_OUTPUTS: QR failure alerts share the relays with the alarm.
SPECIFICATION FairSpec
CONSTANTS
  person = person
  tamper = tamper
  qr_failure = qr_failure
  Camera <- OneSource
  Alert <- QrAlert
  FaultKind <- Stuck
  Timeout = 2
  Debounce = 1
  SourceTTL = 2
  Failsafe = 3
  RetryCount = 2
  MaxDelay = 1
  MaxFaults = 2
INVARIANT AlertHasWorker
PROPERTIES OffAfterShutdown AlertsSurviveSecurityWrites AlarmReleased
