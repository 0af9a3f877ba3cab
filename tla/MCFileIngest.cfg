CONSTANTS
  MaxInput = 9
  MaxRecordLen = 4
  Calls <- MCCalls
SPECIFICATION Spec
INVARIANTS
  TypeOK
  SpansTile
  OnlyFinalLfLost
  AuditAccountsForInput
