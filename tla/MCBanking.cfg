SPECIFICATION Spec
CONSTANTS
  NoField = NoField
  Records <- MCAllRecords
  Calls <- MCCalls
  VariantTable <- MCVariantTable
  DetailVariant = "detail"
  TrailerVariant = "trailer"
  DebitValues <- MCDebit
  CreditValues <- MCCredit
  MinCents <- MCMinCents
  MaxCents <- MCMaxCents
  MaxRecords = 3
INVARIANTS
  TypeOK
  EveryRefusalReported
  DeclaredFromLastTrailer
  BalancedIsEarned
  CasefileAccountsForFile

  
