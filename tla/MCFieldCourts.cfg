CONSTANTS
  Idle = Idle
  NoBytes = NoBytes
  NoOutput = NoOutput
  NotNumber = NotNumber
  NoName = NoName
  NoPolicy = NoPolicy
  Hidden = Hidden
  Null = Null
  SumLimit = 6
  Junk <- MCJunk
  FileCalls <- MCFileCalls
  PairCalls <- MCPairCalls
  ProfileCalls <- MCProfileCalls
  RedactCalls <- MCRedactCalls
  MaxBytes = 5
  RecordLens = {3}
  MaxPairs = 2
  MaxRules = 3
SPECIFICATION Spec
INVARIANTS
  TypeOK
  SumsExact
  EveryFieldAccounted
  NothingSilentlyPresent
  
  OutputsHideTheSame
