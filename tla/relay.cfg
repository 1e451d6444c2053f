SPECIFICATION Spec
CONSTANTS
  Lanes <- BothLanes
  Letter = {"P", "1", "2"}
  Policies <- EveryPolicy
  None = None
  MaxTime = 1
INVARIANTS CutsAreInvisible FramesWaitTheirTurn
PROPERTY NoLetterOutstaysTheBudget
CHECK_DEADLOCK FALSE
