SPECIFICATION FairSpec
CONSTANTS
  Calls = {c1, c2}
  Artifacts = 2
  original = original
  longer = longer
  Versions = {original, longer}
  Size <- MCSize
  MaxSize = 2
  Nobody = Nobody
  Torn = Torn
  MaxFaults = 2
CHECK_DEADLOCK FALSE
INVARIANTS
  AnswersAreOfThePinnedDataset
  AnsweredArtifactsStay
  ArtifactsAreOfOneRun
  FailedPublicationLeavesNothing
PROPERTIES
  CallsAreAnswered
