SPECIFICATION Spec
CONSTANTS
  Files = {"encoder", "tokens"}
  BundleFiles = {"model"}
  MaxFaults = 2
  MaxRemoves = 1
INVARIANTS
  LoadsOnlyGenuine
  ReportedMeansUsable
PROPERTIES
  UsableIsNeverLost
  AskingAgainInstalls
