SPECIFICATION ServiceSpec
CONSTANTS
  MaxRounds = 3
  MaxPerRound = 2
  MaxTotal = 4
  TopK = 2
  MinFailures = 2
  MinBreaches = 1
  MinExcess = 1
  severe = severe
  mild = mild
  broken = broken
  NoScenario = NoScenario
  HeadlineRequired = TRUE
  Semantics <- MCSemantics
  AdmissibleSemantics <- MCSemantics
  Engine <- MCEngine
  Candidates <- MCCandidates
  InvalidBatchId <- MCInvalidBatchId
INVARIANTS
  SummaryHonest
  EveryBundlePublishes
