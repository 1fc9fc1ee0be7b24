SPECIFICATION FairSpec
CONSTANTS
  Processes = {p1, p2}
  full = full
  part = part
  Queries = {full, part}
  old = old
  corrected = corrected
  Data = {old, corrected}
  Acceptable <- MCAcceptable
  Stamps = {1, 2}
  NoFile = NoFile
  Torn = Torn
  MaxFaults = 2
INVARIANTS
  ReadersFindTheDataset
  AnswersAreOfOneDownload
PROPERTIES
  CacheIsWriteOnce
  CallsEnd
