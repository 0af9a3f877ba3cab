CONSTANTS
  Idle = Idle
  None = None
  NoName = NoName
  Declarations <- MCDeclarations
  ConditionLines <- MCConditionLines
  TailOf <- MCTailOf
  Programs <- MCPrograms
  ViewCalls <- MCViewCalls
  UpperOf <- MCUpperOf
  MaxClauses = 1
  MaxLines = 3
  MaxValues = 4
SPECIFICATION Spec
INVARIANT EveryItemIsItsOwn
