\* A tampered camera that keeps sending frames, and a source that expires without refreshes.
SPECIFICATION PipelineSpec
CONSTANTS
  internal_person = internal_person
  external_tamper = external_tamper
  external = external
  Camera <- Cameras
  Role <- Roles
  Scanned <- Roles
  Person <- internal_person
  TamperSource <- SourceOf
  Evidence <- Shown
  ModelSkips = TRUE
  View <- Views
  Textured <- Pictures
  SceneChange = FALSE
  BaselineFrames = 1
  TriggerFrames = 1
  ClearFrames = 1
  ClearSeconds = 0
  Hold = 1
  TamperFrames = 2
  TamperConfirm = 1
  TamperClearFrames = 2
  TamperClear = 1
  StaleAfter = 1
  Refresh = 1
  FrameGap = 1
  Alert <- None
  FaultKind <- None
  Timeout = 1
  Debounce = 1
  SourceTTL = 3
  Failsafe = 2
  RetryCount = 1
  MaxDelay = 1
  MaxFaults = 0
INVARIANT TamperKeepsAlarm
