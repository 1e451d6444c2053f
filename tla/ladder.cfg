SPECIFICATION Spec
CONSTANTS
  None = None
  Scenes <- Ladders
  Literals <- Words
  Streams <- Draws
  Styles = {"type-preserving", "opaque"}
  MaxAsks = 4
  PoolAttempts = 2
  MaxAttempts = 4
INVARIANTS EvidenceIsAsReported
CHECK_DEADLOCK FALSE
