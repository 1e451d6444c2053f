CONSTANTS
  Session = {s1, s2}
  Seed = {v1, v2, v3}
  Alias = {a1, a2, a3}
  None = None
  Ttl = 1
  Ceiling = 2
  FileBacked = TRUE
  MaxTime = 2
  MaxFrames = 2
  StepsBack = TRUE
SYMMETRY Interchangeable
SPECIFICATION Spec
INVARIANTS BooksAgree FileCoversMemory NotResurrected
