SPECIFICATION FairSpec
CONSTANTS
  Base = 8
  MaxPrefix = 2
  LastMax = 5
  MaxDepth = 3
  I32 = 16
  Scenarios <- MCScenarios
  Names <- MCNames
  Lower <- MCLower
  Results <- MCResults
  MaxFrames = 1
INVARIANTS
  MessagesAsSent
  ConnectedIfAccepted
  HandlersAsRegistered
  AnsweredOnce
CHECK_DEADLOCK FALSE
PROPERTIES
  FramesEnd
