SPECIFICATION Spec
CONSTANTS
  Names = {n1, n2}
  Bytes = {1}
  Sizes = {0, 1, 3, 6, 8}
  Offsets = {1, 4}
  NumBlocks = 11
  NumInodes = 3
  InodesPerBlock = 4
  BlockSize = 2
  NumDirect = 1
  NumIndirect = 2
  PerBlock = 2
  UintRange = 16
  Leftovers = {7}
  Careful = TRUE
INVARIANTS
  FSTypeOK
  BlocksAccounted
  InodesAccounted
  FreeCounts
  BlocksMatchSize
  NoFSFault
PROPERTY
  FilesImplement
SYMMETRY NameSymmetry
VIEW ImageView
