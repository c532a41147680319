SPECIFICATION Spec
CONSTANTS
  CorrectionEnabled = TRUE
  AudioCapacity = 1
  FinalsCapacity = 1
  MaxChunks = 1
  MaxUtterances = 1
  MaxPartials = 1
PROPERTIES
  EndsOnlyWhenTold
  StartupEnds
  StopTerminates
CHECK_DEADLOCK FALSE
