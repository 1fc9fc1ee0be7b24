SPECIFICATION Spec
CONSTANTS
  first = first
  second = second
  key = key
  NoKey = NoKey
  Requests = {first, second}
  Readers = {client}
  MaxFaults = 2
  KeyOf <- MCKeyOf
INVARIANTS
  SameKeySameRecord
  ClientsSeeTheEnd
PROPERTIES
  ImplementsLifecycle
  RecordsSettle
