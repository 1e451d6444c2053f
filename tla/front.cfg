SPECIFICATION Spec
CONSTANTS
  Lowered <- Hosts
  Begin127 <- Begins
  ThisMachine <- Here
  NoText = NoText
  Break = Break
  Unit = Unit
  Requests <- TwoRequests
  Sent <- ManyLines
  Setups <- Configured
  Answers <- SomeAnswers
  Faults <- TwoFaults
  FindingsKept = 1
  EventsKept = 1
INVARIANTS NothingCrossesInSilence ScopesFollowConversations LossesAreCounted GoesWhereThePathSays
CHECK_DEADLOCK FALSE
