SPECIFICATION Spec
CONSTANTS
  Callers = {"c1", "c2"}
  Setups <- Processes
  MaxCalls = 3
INVARIANTS WindowIsBacked OnlyRacesGoUncounted
PROPERTIES ImplementsEventChannel EveryCallIsSettled
CHECK_DEADLOCK FALSE
