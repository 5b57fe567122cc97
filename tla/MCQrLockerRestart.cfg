\* One token scanned twice around a shutdown or a crash; a second failure can hit a relock, the
\* cleanup or the next start after a first one hit something else.
SPECIFICATION FairSpec
CONSTANTS
  parcel = parcel
  courier = courier
  Token <- OneToken
  SignalFailures = FALSE
  MaxScans = 2
  MaxFaults = 2
  MaxStops = 1
INVARIANTS OpenIsKnown
PROPERTIES LockerRelocks
