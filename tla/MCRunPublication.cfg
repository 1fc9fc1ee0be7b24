SPECIFICATION FairSpec
CONSTANTS
  Processes = {p1, p2}
  NoDir = NoDir
  MaxFaults = 2
INVARIANTS
  PublishedIsWhole
  AnswersAreTrue
  NothingIsLeft
PROPERTIES
  DestinationIsWriteOnce
  RunsEnd
