SPECIFICATION Spec
CONSTANTS
  CorrectionEnabled = TRUE
  AudioCapacity = 1
  FinalsCapacity = 1
  MaxChunks = 4
  MaxUtterances = 2
  MaxPartials = 1
INVARIANTS
  UtteranceIsContiguous
  HeldExactlyOnce
  FinalPreemptsProvisional
PROPERTIES
  ImplementsAudioFlow
  ImplementsCaptionFlow
CONSTRAINT WithinMaxWork
CHECK_DEADLOCK FALSE
