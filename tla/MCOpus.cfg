SPECIFICATION Spec
CONSTANTS
  Token = {"a", "b"}
  Sources <- MCSources
  Ranked <- MCRanked
  Layers = 2
  MaxInput = 2
  MaxSteps = 4
PROPERTY OpusImplementsTranslation
CHECK_DEADLOCK FALSE
