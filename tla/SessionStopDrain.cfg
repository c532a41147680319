SPECIFICATION Spec
CONSTANTS
  CorrectionEnabled = FALSE
  AudioCapacity = 2
  FinalsCapacity = 2
  MaxChunks = 2
  MaxUtterances = 1
  MaxPartials = 0
INVARIANT StopDrainsEverything
CHECK_DEADLOCK FALSE
