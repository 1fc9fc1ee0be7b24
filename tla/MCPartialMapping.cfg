SPECIFICATION Spec
CONSTANTS
  MaxRounds = 1
  MaxPerRound = 1
  MaxTotal = 1
  TopK = 1
  MinFailures = 1
  MinBreaches = 1
  MinExcess = 1
  mild = mild
  severe = severe
  twin = twin
  broad = broad
  broken = broken
  harmless = harmless
  refused = refused
  NoScenario = NoScenario
  HeadlineRequired = TRUE
  Semantics <- MCSemantics
  AdmissibleSemantics <- MCAdmissible
  Engine <- MCEngine
  Candidates <- MCCandidates
INVARIANT
  EveryBundlePublishes
