SPECIFICATION Spec
CONSTANTS
  crash = crash
  drift = drift
  Scenarios = {crash, drift}
  Strangers = {other, another}
  gap = gap
  volatility = volatility
  Families = {gap, volatility}
  FamiliesOf <- MCFamiliesOf
  TopK = 2
  Alterations <- MCAlterations
  Replays <- MCReplays
  Claims <- MCClaims
INVARIANT
  NarrativeCannotAbort
