SPECIFICATION Spec
CONSTANTS
  MaxThreads = 4
  Stacks = {s1, s2, s3}
  NoStack = NoStack
  Wild = Wild
INVARIANTS
  CoopTypeOK
  TidsAccounted
  ReadyOnce
  StacksSafe
  KilledRunsOnlyAfterExit
PROPERTIES
  LostOnlyAtExit
  CoopLifeSpec
SYMMETRY StackSymmetry
