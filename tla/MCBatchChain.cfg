CONSTANTS
  Batches = {b1, b2, b3}
  MaxLinks = 4
  MaxRuns = 3
  MaxDamage = 2
SYMMETRY BatchSymmetry
SPECIFICATION Spec
INVARIANTS
  TypeOK
  VerdictLocatesDamage
  HeadAnchorsChain
