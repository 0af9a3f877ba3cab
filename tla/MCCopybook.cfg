CONSTANTS
  Idle = Idle
  None = None
  NoName = NoName
  Declarations <- MCDeclarations
  ConditionLines <- MCConditionLines
  TailOf <- MCTailOf
  Programs <- MCPrograms
  ViewCalls <- MCViewCalls
  UpperOf <- MCUpperOf
  MaxClauses = 4
  MaxLines = 4
  MaxValues = 4
SPECIFICATION Spec
INVARIANTS
  TypeOK
  
  CheckedItemsAreTheirOwn
  ConditionsReadTheirParent
  RegionsAreStorage
