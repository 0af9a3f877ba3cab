CONSTANTS
  Junk = {"junk"}
  NoBytes = NoBytes
  Workers = {w1, w2}
  Caller = w1
  Pending = Pending
  Empty = Empty
  Idle = Idle
  MaxBytes = 4
  RecordLens = {2, 3}
  Calls <- MCCalls
SPECIFICATION Spec
INVARIANTS
  ObjectsCoverInput
PROPERTIES
  ImplementsEvidence
  
