\* test_worker_recovers_after_on_command_exception: an ON write that raises on its last attempt.
SPECIFICATION FairSpec
CONSTANTS
  person = person
  tamper = tamper
  qr_failure = qr_failure
  Camera <- OneSource
  Alert <- NoAlert
  FaultKind <- AnyFault
  Timeout = 2
  Debounce = 1
  SourceTTL = 2
  Failsafe = 3
  RetryCount = 2
  MaxDelay = 1
  MaxFaults = 2
PROPERTY WorkerRecovers
