SPECIFICATION Spec
CONSTANTS
  Processes = {p1, p2}
  NoDir = NoDir
  MaxFaults = 0
INVARIANT
  IndexIsWrittenLast
