CONSTANTS
  Idle = Idle
  NoNumber = NoNumber
  NoType = NoType
  NoOutput = NoOutput
  NoHash = NoHash
  NoAmount = NoAmount
  Malformed = Malformed
  IntMax = 127
  MaxDetails = 2
  MaxRecords = 3
  MaxEntries = 2
  MaxTransforms = 2
  MaxPostings = 4
  RecordLens = {0, 8}
  NoField = NoField
  Dirty = Dirty
  Garbage = {0, 17}
  PostingRecords <- MCPostingRecords
  BatchCalls <- MCBatchCalls
  RouteCalls <- MCRouteCalls
  DiffCalls <- MCDiffCalls
  TransformCalls <- MCTransformCalls
  PostingCalls <- MCPostingCalls
SPECIFICATION Spec
INVARIANTS
  TypeOK
  MatchExact
  NeverGuessed
  VerdictExact
  
  TransformsCompose
  DuplicatesExact
  CleanContiguousIsComplete
  
