SPECIFICATION EngineSpec
CONSTANTS
  WindowRows = 2
  Rows = 7
  Cash = Cash
  Positions <- MCPositions
  ExitCost = 1
  RuleSets <- MCRuleSets
  HistoryLengths <- MCHistoryLengths
  TopK = 2
  SPY = SPY
  TLT = TLT
  Symbols = {SPY, TLT}
  Recolored = SPY
  Markets <- MCMarkets
  TargetPaths <- MCTargetPaths
  Costs = {0, 6}
  CostLimit = 30
  Ruin = 120
  Scenarios <- MCScenarios
  StressRuleSets <- MCStressRuleSets
  Policies <- MCPolicies
  Kinds = {"monthly_60_40", "external_weights"}
  Calendars <- MCCalendars
  Sources <- MCSources
CHECK_DEADLOCK FALSE
INVARIANTS
  OnlyCostLossesAreRefused
  OneWindowPerEpisode
  ScanAgreesWithBacktest
  StressStaysInItsWindow
  StressIsWhatItDeclares
  DryRunSettlesComponents
  BreachesAreTrue
  AdmittedScenariosFit
  OfflineProposalsFit
