SPECIFICATION FairSpec
CONSTANTS
  Calls = {"c", "d"}
  Sends = {"d"}
  Streams = {"s", "t"}
  Scenarios <- MCScenarios
  MaxItems = 1
  MaxRuntimes = 2
INVARIANTS
  UploadedInOrder
  OwnIds
PROPERTIES
  StreamsCompleted
CHECK_DEADLOCK FALSE
