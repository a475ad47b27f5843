SPECIFICATION Spec
CONSTANTS
  MaxThreads = 4
  Stacks = {s1, s2, s3}
  NoStack = NoStack
  Wild = Wild
INVARIANT EveryThreadKept
