SPECIFICATION Spec
CONSTANTS
  Lanes <- BothLanes
  Letter = {"P", "1", "2"}
  Policies <- ChoicesPolicy
  None = None
  MaxTime = 0
INVARIANTS CutsAreInvisible
CHECK_DEADLOCK FALSE
