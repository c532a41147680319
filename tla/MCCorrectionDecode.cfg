SPECIFICATION Spec
CONSTANT MaxJobs = 3
INVARIANTS
  NeverClosedInUse
  PcmIntactWhileDecoding
  JoinedMeansReleased
PROPERTIES
  CorrectorIsNeverStuck
  StopReleasesEverything
CHECK_DEADLOCK FALSE
