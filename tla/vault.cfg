CONSTANTS
  Proc = {p1, p2}
  Record = {r1, r2}
  Inode = {i1, i2}
  None = None
  Torn = Torn
  DurableNames = {"create", "rename"}
  Setups <- Surroundings
SYMMETRY Interchangeable
SPECIFICATION Spec
INVARIANTS OwedRecordsAreFiled EveryInstantIsWhole LastWriterIsNeverRefused
PROPERTIES CounterTellsTheAge ImplementsRecordLog
CONSTRAINT WhileTheClaimsApply
