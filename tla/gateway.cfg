CONSTANTS
  v1 = v1
  v2 = v2
  Seed = {v1, v2}
  Alias <- Labels
  None = None
  Session = {s1, s2}
  Request = {q1, q2}
  Setups <- EverySetup
  Ttl = 1
  Ceiling = 2
SPECIFICATION Spec
INVARIANTS SentIsFiled
PROPERTIES FailClosed RightValue AnswersAreRestored
SYMMETRY Interchangeable
