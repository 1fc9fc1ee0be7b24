SPECIFICATION Spec
CONSTANTS
  MaxRounds = 2
  MaxPerRound = 2
  MaxTotal = 3
  TopK = 2
  MinFailures = 2
  MinBreaches = 2
  MinExcess = 2
  mild = mild
  severe = severe
  twin = twin
  broad = broad
  broken = broken
  harmless = harmless
  refused = refused
  NoScenario = NoScenario
  HeadlineRequired = TRUE
  Semantics <- MCSemantics
  AdmissibleSemantics <- MCAdmissible
  Engine <- MCEngine
  Candidates <- MCCandidates
INVARIANTS
  TypeOK
  SlotsAccounted
  DuplicatesAreExact
  StopReasonHonest
  EvidenceBacked
  TopFailuresAreMostSevere
  BudgetNeverRaises
