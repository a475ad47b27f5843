SPECIFICATION Spec
CONSTANTS
  Pages = {0, 1, 2, 4}
  Vals = {0, 1}
  SIMPAGESIZE = 1
  Offsets = {0}
  Radix = 2
  Algs = {"rand", "rr", "clock", "s2q"}
  MemSizes = {1, 2, 3}
  SwapSizes = {1, 4}
  ThresholdPart = 3
CONSTRAINT Workload
INVARIANTS
  VMTypeOK
  Coherent
  TablesAgree
  NoFaultWhenSized
  S2QLists
  RoundRobinIsFIFO
  ClockExceptAtLastFrame
