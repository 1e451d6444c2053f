CONSTANTS
  Names <- TwoNames
  Scenes <- EveryScene
SPECIFICATION Spec
INVARIANTS EpisodesAreConversations OrderAndRepetitionAreInvisible AccusedFlowsAreUnexplained
PROPERTIES EvidenceOnlyExplains
CHECK_DEADLOCK FALSE
