SPECIFICATION FairSpec
CONSTANTS
  Nobody = Nobody
  Clients = {c1, c2}
INVARIANTS ElectionIsSound RunsOnce
PROPERTIES RemovesNoOthersSocket LazyStartAnswers
