SPECIFICATION Spec
CONSTANT
  MaxRequests = 5
INVARIANTS
  OneSessionAtATime
  ListeningMeansRunning
PROPERTIES
  SessionsLiveOnce
  NewestStartIsServed
  StoppingEnds
CHECK_DEADLOCK FALSE
