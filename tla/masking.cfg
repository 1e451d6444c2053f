SPECIFICATION Spec
CONSTANTS
  None = None
  Words <- Vocabulary
  Fence = "fence"
  Apostrophe = "'"
  Affixes = {"in"}
  Harmony <- InHarmony
  LongEnough <- LongBase
  MaxAffixChain = 2
  IsShape <- ShapeOf
  Admit <- AdmittedOf
  RetryMaxRuns = 12
  Invalid = Invalid
  Files <- EveryFile
  Identifiers <- KeyNames
  ScopeParts <- Scopes
  Folded <- CaseFold
  Blanks = {"_"}
  Bodies <- EveryBody
  MaxRequests = 2
  MaxFailures = 1
  Unescaped <- Spelling
  Indexes = {"[0]", "[1]"}
  Pool <- AliasesOf
  AliasShaped = {"P1", "P2"}
  MaxAttempts = 2
INVARIANTS ClaimsAreAccountedFor EverySurvivorIsExplained FiledMasksAreApplied AliasesSpeakForOneValue
CHECK_DEADLOCK FALSE
