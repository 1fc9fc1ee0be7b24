SPECIFICATION Spec
CONSTANTS
  first = first
  second = second
  key = key
  NoKey = NoKey
  Requests = {first, second}
  Readers = {}
  MaxFaults = 0
  KeyOf <- MCKeyOf
INVARIANT
  RetryReturnsOriginal
