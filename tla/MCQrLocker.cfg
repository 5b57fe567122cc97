\* Two scans by two decoders, of the same or of different tokens, with the failure alert
\* sharing the board and one GPIO or log write failing anywhere.
SPECIFICATION FairSpec
CONSTANTS
  parcel = parcel
  courier = courier
  Token <- TwoTokens
  SignalFailures = TRUE
  MaxScans = 2
  MaxFaults = 1
  MaxStops = 0
INVARIANTS TypeOK OneValidationPerToken CycleKeepsOpen
PROPERTIES ResultsInOrder CyclesEnd TokenReleased
