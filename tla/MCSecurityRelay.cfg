\* The relays exclusive to the manager; two sources; up to three GPIO writes fail in either way.
\* Time counts in steps of the worker's poll; Failsafe is longer than Timeout and SourceTTL so
\* that the countdown, the expiry and the failsafe can each be the one that ends an alarm.
SPECIFICATION FairSpec
CONSTANTS
  person = person
  tamper = tamper
  qr_failure = qr_failure
  Camera <- Sources
  Alert <- NoAlert
  FaultKind <- AnyFault
  Timeout = 3
  Debounce = 1
  SourceTTL = 3
  Failsafe = 4
  RetryCount = 3
  MaxDelay = 1
  MaxFaults = 3
INVARIANTS TypeOK RegistryConsistent HoldHonoured LitIsKnown
PROPERTIES NeverSilenced KeepsPromise SilenceEndsAlarm
