\* A camera event and the frame buffers the detectors were given at start.
SPECIFICATION Spec
CONSTANTS
  MaxAttempts = 1
  MaxDeaths = 1
  MaxStuck = 0
  MaxReconnects = 1
  MaxEvents = 1
  MaxTroubles = 3
INVARIANT DetectorsFed
CHECK_DEADLOCK FALSE
