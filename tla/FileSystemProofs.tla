---------------------------- MODULE FileSystemProofs ----------------------------
(***************************************************************************)
(* The invariants of FileSystem, for an image of any size and any number   *)
(* of files, under a client that keeps out of the cases Careful names.     *)
(***************************************************************************)
EXTENDS FileSystem, DataLemmas

-----------------------------------------------------------------------------
(***************************************************************************)
(* Bitmaps.                                                                *)
(***************************************************************************)

LEMMA ConstantTypes ==
  /\ NumBlocks \in Nat \ {0} /\ NumInodes \in Nat \ {0} /\ InodesPerBlock \in Nat \ {0}
  /\ BlockSize \in Nat \ {0} /\ NumDirect \in Nat \ {0} /\ NumIndirect \in Nat
  /\ PerBlock \in Nat /\ PerBlock >= 2 /\ MaxBlocks \in Nat
  /\ Leftovers \subseteq Nat /\ Sizes \subseteq Nat /\ Offsets \subseteq Nat
  /\ Bytes \subseteq Int
<1>1. \A n \in {NumBlocks, NumInodes, InodesPerBlock, BlockSize, NumDirect} : n \in Nat \ {0}
  BY FSAssumption
<1>2. /\ NumBlocks \in Nat \ {0} /\ NumInodes \in Nat \ {0} /\ InodesPerBlock \in Nat \ {0}
      /\ BlockSize \in Nat \ {0} /\ NumDirect \in Nat \ {0}
  BY <1>1
<1>3. NumIndirect \in Nat /\ PerBlock \in Nat \ {0, 1}
  BY FSAssumption
<1>4. Leftovers \subseteq Nat /\ Sizes \subseteq Nat /\ Offsets \subseteq Nat
  BY FSAssumption
<1>5. Bytes \subseteq Int
  BY FSAssumption
<1>6. PerBlock \in Nat /\ PerBlock >= 2 /\ MaxBlocks \in Nat
  BY <1>2, <1>3 DEF MaxBlocks
<1> QED
  BY <1>2, <1>3, <1>4, <1>5, <1>6

LEMMA Bitmap ==
  ASSUME NEW size \in Nat, NEW used \in SUBSET (0 .. size - 1)
  PROVE  /\ IsFiniteSet(used) /\ Cardinality(used) \in 0 .. size
         /\ Cardinality(used) = size <=> used = 0 .. size - 1
<1>1. IsFiniteSet(0 .. size - 1) /\ Cardinality(0 .. size - 1) = size
  BY FS_Interval
<1>2. /\ IsFiniteSet(used) /\ Cardinality(used) <= size
      /\ size = Cardinality(used) => used = 0 .. size - 1
  BY <1>1, FS_Subset
<1> QED
  BY <1>1, <1>2, FS_CardinalityType

\* The clear bits below b.
ClearBelow(b, used) == {c \in 0 .. b - 1 : c \notin used}

LEMMA ClearBits ==
  ASSUME NEW size \in Nat, NEW used \in SUBSET (0 .. size - 1)
  PROVE  /\ \A b \in 0 .. size : IsFiniteSet(ClearBelow(b, used)) /\ Cardinality(ClearBelow(b, used)) \in Nat
         /\ Cardinality(ClearBelow(0, used)) = 0
         /\ Cardinality(ClearBelow(size, used)) = size - Cardinality(used)
         /\ \A b \in 0 .. size - 1 :
              Cardinality(ClearBelow(b + 1, used)) =
                Cardinality(ClearBelow(b, used)) + (IF b \in used THEN 0 ELSE 1)
<1>1. ASSUME NEW b \in 0 .. size
      PROVE  IsFiniteSet(ClearBelow(b, used)) /\ Cardinality(ClearBelow(b, used)) \in Nat
  <2>1. ClearBelow(b, used) \in SUBSET (0 .. b - 1) /\ IsFiniteSet(0 .. b - 1)
    BY FS_Interval DEF ClearBelow
  <2> QED
    BY <2>1, FS_Subset, FS_CardinalityType
<1>2. ClearBelow(0, used) = {}
  BY DEF ClearBelow
<1>3. Cardinality(ClearBelow(size, used)) = size - Cardinality(used)
  <2>1. ClearBelow(size, used) = (0 .. size - 1) \ used /\ (0 .. size - 1) \cap used = used
    BY DEF ClearBelow
  <2>2. IsFiniteSet(0 .. size - 1) /\ Cardinality(0 .. size - 1) = size
    BY FS_Interval
  <2> QED
    BY <2>1, <2>2, FS_Difference, ZenonT(30)
<1>4. ASSUME NEW b \in 0 .. size - 1
      PROVE  Cardinality(ClearBelow(b + 1, used)) =
               Cardinality(ClearBelow(b, used)) + (IF b \in used THEN 0 ELSE 1)
  <2>1. CASE b \in used
    <3>1. ClearBelow(b + 1, used) = ClearBelow(b, used)
      BY <2>1 DEF ClearBelow
    <3> QED
      BY <3>1, <2>1, <1>1
  <2>2. CASE b \notin used
    <3>1. ClearBelow(b + 1, used) = ClearBelow(b, used) \cup {b} /\ b \notin ClearBelow(b, used)
      BY <2>2 DEF ClearBelow
    <3> QED
      BY <3>1, <2>2, <1>1, FS_AddElement
  <2> QED
    BY <2>1, <2>2
<1> QED
  BY <1>1, <1>2, <1>3, <1>4, FS_EmptySet

\* bitmap_alloc finds a clear bit each time when there are enough of them, and
\* never the same one twice.
LEMMA LowestClear ==
  ASSUME NEW size \in Nat, NEW used \in SUBSET (0 .. size - 1),
         NEW n \in Nat, n <= size - Cardinality(used)
  PROVE  /\ Lowest(n, used, size) \in [1 .. n -> (0 .. size - 1) \ used]
         /\ DOMAIN Lowest(n, used, size) = 1 .. n
         /\ \A k \in 1 .. n : Lowest(n, used, size)[k] \in (0 .. size - 1) \ used
         /\ \A k, m \in 1 .. n :
              Lowest(n, used, size)[k] = Lowest(n, used, size)[m] => k = m
<1> DEFINE C(b) == Cardinality(ClearBelow(b, used))
<1>1. /\ \A b \in 0 .. size : C(b) \in Nat
      /\ C(0) = 0 /\ C(size) >= n
      /\ \A b \in 0 .. size - 1 : C(b + 1) = C(b) + (IF b \in used THEN 0 ELSE 1)
  <2>1. Cardinality(used) \in Int
    BY Bitmap
  <2> QED
    BY <2>1, ClearBits
<1>2. Lowest(n, used, size) =
        [k \in 1 .. n |-> CHOOSE b \in (0 .. size - 1) \ used : C(b) = k - 1]
  BY DEF Lowest, ClearBelow
<1> HIDE DEF C
<1>3. ASSUME NEW k \in 1 .. n PROVE \E b \in (0 .. size - 1) \ used : C(b) = k - 1
  <2> DEFINE T == {b \in 0 .. size : C(b) >= k}
  <2>1. T \in SUBSET (0 .. size) /\ T # {}
    BY <1>1
  <2>2. PICK x \in T : \A y \in T : x <= y
    <3>1. 0 \in Int /\ size \in Int
      OBVIOUS
    <3> HIDE DEF T
    <3> QED BY <2>1, <3>1, LeastExists, Zenon
  <2>3. x \in 0 .. size /\ C(x) >= k /\ x # 0
    BY <1>1
  <2>4. x - 1 \in 0 .. size - 1 /\ C(x - 1) \in Nat /\ C(x - 1) < k
    <3>1. x - 1 \in 0 .. size - 1 /\ x - 1 \notin T
      BY <2>2, <2>3
    <3> QED BY <3>1, <1>1
  <2>5. C(x) = C(x - 1) + (IF x - 1 \in used THEN 0 ELSE 1)
    <3>1. C((x - 1) + 1) = C(x - 1) + (IF x - 1 \in used THEN 0 ELSE 1)
      BY <2>4, <1>1
    <3>2. (x - 1) + 1 = x
      BY <2>3
    <3> QED BY <3>1, <3>2
  <2>6. x - 1 \notin used /\ C(x - 1) = k - 1
    BY <2>3, <2>4, <2>5, <1>1
  <2> QED
    BY <2>4, <2>6
<1>4. ASSUME NEW k \in 1 .. n
      PROVE  /\ Lowest(n, used, size)[k] \in (0 .. size - 1) \ used
             /\ C(Lowest(n, used, size)[k]) = k - 1
  <2> DEFINE w == CHOOSE b \in (0 .. size - 1) \ used : C(b) = k - 1
  <2>1. w \in (0 .. size - 1) \ used /\ C(w) = k - 1
    BY <1>3
  <2> QED
    BY <2>1, <1>2
<1>5. ASSUME NEW k \in 1 .. n, NEW m \in 1 .. n,
             Lowest(n, used, size)[k] = Lowest(n, used, size)[m]
      PROVE  k = m
  <2>1. k - 1 = m - 1
    BY <1>4, <1>5
  <2> QED
    BY <2>1
<1> QED
  BY <1>2, <1>4, <1>5

-----------------------------------------------------------------------------
(***************************************************************************)
(* Numbers of blocks.                                                      *)
(***************************************************************************)

\* A quotient bounds the number divided; multiplication is monotonic.
LEMMA Multiples ==
  ASSUME NEW s \in Nat \ {0}
  PROVE  /\ \A i, j \in Int : i * s \in Int /\ (i < j => i * s + s <= j * s)
         /\ \A i, j \in Int : i * s < j * s <=> i < j
         /\ \A i \in Int : (i + 1) * s = i * s + s /\ (i - 1) * s = i * s - s
         /\ \A x \in Nat : /\ x \div s \in Nat /\ x % s \in 0 .. s - 1
                           /\ x = (x \div s) * s + (x % s)
<1>1. ASSUME NEW i \in Int, NEW j \in Int, i < j PROVE i * s + s <= j * s
  <2> DEFINE d == j - i - 1
  <2>1. d \in Nat /\ j = i + 1 + d
    BY <1>1
  <2> HIDE DEF d
  <2>2. j * s = i * s + s + d * s /\ d * s \in Nat /\ i * s \in Int
    BY <2>1
  <2> QED
    BY <2>2
<1>2. \A i, j \in Int : i * s \in Int /\ j * s \in Int
  OBVIOUS
<1>3. \A i, j \in Int : i * s < j * s <=> i < j
  <2> SUFFICES ASSUME NEW i \in Int, NEW j \in Int PROVE i * s < j * s <=> i < j
    OBVIOUS
  <2>1. i < j => i * s + s <= j * s
    BY <1>1
  <2>2. j < i => j * s + s <= i * s
    BY <1>1
  <2>3. i < j \/ j < i \/ i = j
    OBVIOUS
  <2>4. i * s \in Int /\ j * s \in Int
    OBVIOUS
  <2> QED
    BY <2>1, <2>2, <2>3, <2>4
<1>4. \A i \in Int : (i + 1) * s = i * s + s /\ (i - 1) * s = i * s - s
  OBVIOUS
<1>5. ASSUME NEW x \in Nat
      PROVE  x \div s \in Nat /\ x % s \in 0 .. s - 1 /\ x = (x \div s) * s + (x % s)
  <2>1. x = s * (x \div s) + (x % s) /\ x % s \in 0 .. s - 1 /\ x \div s \in Int
    OBVIOUS
  <2>2. ~(x \div s < 0)
    <3> SUFFICES ASSUME x \div s < 0 PROVE FALSE
      OBVIOUS
    <3>1. (x \div s) * s + s <= 0 * s
      BY <1>1, <2>1
    <3>2. s * (x \div s) = (x \div s) * s /\ (x \div s) * s \in Int /\ 0 * s = 0
      BY <2>1
    <3> QED
      BY <3>1, <3>2, <2>1
  <2>3. s * (x \div s) = (x \div s) * s
    BY <2>1
  <2> QED
    BY <2>1, <2>2, <2>3
<1> QED
  BY <1>1, <1>2, <1>3, <1>4, <1>5

\* div_round_up, of a number that does not overflow.
LEMMA RoundUp ==
  ASSUME NEW x \in Nat, NEW y \in Nat \ {0}, x + y <= UintRange, UintRange \in Nat
  PROVE  /\ DivRoundUp(x, y) \in Nat
         /\ DivRoundUp(x, y) * y >= x
         /\ (DivRoundUp(x, y) - 1) * y < x
         /\ x > 0 => DivRoundUp(x, y) > 0
<1> DEFINE q == (x + y - 1) \div y
           r == (x + y - 1) % y
<1>1. x + y - 1 \in Nat /\ (x + y - 1) % UintRange = x + y - 1
  OBVIOUS
<1>2. DivRoundUp(x, y) = q
  BY <1>1 DEF DivRoundUp
<1>3. q \in Nat /\ r \in 0 .. y - 1 /\ x + y - 1 = q * y + r
  BY <1>1, Multiples
<1> HIDE DEF q, r
<1>4. q * y \in Int /\ (q - 1) * y = q * y - y
  BY <1>3
<1>5. q * y >= x /\ (q - 1) * y < x
  BY <1>3, <1>4
<1>6. q = 0 => q * y = 0
  BY <1>3
<1> QED
  BY <1>2, <1>3, <1>5, <1>6

\* A file of at most MaxBlocks blocks has a size that does not overflow.
LEMMA NoOverflow ==
  /\ UintRange \in Nat
  /\ \A x \in Nat : x <= MaxBlocks * BlockSize => x + BlockSize <= UintRange
<1> DEFINE M == MaxBlocks
           B == BlockSize
<1>1. B \in Nat \ {0} /\ M \in Nat /\ NumDirect + NumIndirect = M
  BY ConstantTypes DEF MaxBlocks
<1>2. UintRange > M * B /\ UintRange % B = 0 /\ UintRange >= NumInodes + InodesPerBlock
  BY <1>1, FSAssumption
<1>3. UintRange \in Nat
  BY FSAssumption
<1> DEFINE Q == UintRange \div B
<1> HIDE DEF M, B
<1>4. Q \in Nat /\ UintRange = Q * B + (UintRange % B)
  BY <1>1, <1>3, Multiples
<1> HIDE DEF Q
<1>6. /\ M * B < Q * B <=> M < Q
      /\ M < Q => M * B + B <= Q * B
      /\ M * B \in Int /\ Q * B \in Int
  BY <1>1, <1>4, Multiples
<1>5. M * B + B <= UintRange
  BY <1>2, <1>3, <1>4, <1>6, <1>1
<1> QED
  BY <1>1, <1>3, <1>5 DEF M, B

-----------------------------------------------------------------------------
(***************************************************************************)
(* The inductive invariant.  d is an image, L the inodes whose blocks      *)
(* count: those of the inode bitmap, but for the steps inside a call.      *)
(***************************************************************************)

IsImage(d) ==
  d = [free_blocks |-> d.free_blocks, free_inodes |-> d.free_inodes, dbmap |-> d.dbmap,
       ibmap |-> d.ibmap, itable |-> d.itable, data |-> d.data, dirs |-> d.dirs,
       tables |-> d.tables, status |-> d.status]

ByteBlock == [0 .. BlockSize - 1 -> Bytes \cup {0}]
DirEntry == [ino : 0 .. INO_MAX, name : Names \cup {"", ".", ".."}]
DirBlock == [0 .. PerBlock - 1 -> DirEntry]

\* The types, and what the blocks with contents have to do with the bitmap.
Typed(d) ==
  /\ IsImage(d) /\ d.status = "ok"
  /\ d.free_blocks \in Int /\ d.free_inodes \in Int
  /\ d.dbmap \subseteq Blocks /\ d.ibmap \subseteq Inodes
  /\ d.itable \in [Inodes -> Inode]
  /\ \A b \in DOMAIN d.data : d.data[b] \in ByteBlock
  /\ \A b \in DOMAIN d.dirs : d.dirs[b] \in DirBlock
  /\ \A b \in DOMAIN d.tables : \A k \in DOMAIN d.tables[b] : d.tables[b][k] \in Blocks
  /\ DOMAIN d.data \cup DOMAIN d.dirs \cup DOMAIN d.tables \subseteq d.dbmap
  /\ DOMAIN d.data \cap DOMAIN d.dirs = {}
  /\ (DOMAIN d.data \cup DOMAIN d.dirs) \cap DOMAIN d.tables = {}

\* The indirect block, if there is one, has a pointer for each block it stands for.
TableFilled(d, i) ==
  HasTable(d, i) =>
    /\ d.itable[i].i_indirect \in DOMAIN d.tables
    /\ \A k \in 0 .. d.itable[i].i_blocks - NumDirect - 1 :
         k \in DOMAIN d.tables[d.itable[i].i_indirect]

NeverShared(d, L) ==
  \A i, j \in L : \A k \in Places(d, i) : \A m \in Places(d, j) :
    At(d, i, k) = At(d, j, m) => i = j /\ k = m

InUse(d, L) ==
  \A i \in L : \A k \in Places(d, i) : At(d, i, k) \in d.dbmap /\ At(d, i, k) >= DataRegion

NeverLost(d, L) ==
  \A b \in d.dbmap : b >= DataRegion => \E i \in L : \E k \in Places(d, i) : b = At(d, i, k)

\* The bitmap and the pointers of the inodes of L tell the same.
Linked(d, L) ==
  /\ \A i \in L : d.itable[i].i_blocks <= MaxBlocks /\ TableFilled(d, i)
  /\ NeverShared(d, L) /\ InUse(d, L) /\ NeverLost(d, L)
  /\ \A b \in 0 .. DataRegion - 1 : b \in d.dbmap

\* A block holds what its inode takes it to hold.
Roles(d, L) ==
  \A i \in L : \A k \in 0 .. d.itable[i].i_blocks - 1 :
    At(d, i, k) \in (IF i = ROOT_INO THEN DOMAIN d.dirs ELSE DOMAIN d.data)

\* Entry e is that of a file.
NamesFile(d, e) == e \in Entries(d) /\ e \notin {0, 1} /\ Entry(d, e) # Unused

\* The directory names each inode of L once.
Directory(d, L) ==
  /\ ROOT_INO \in L /\ d.itable[ROOT_INO].i_blocks >= 1
  /\ d.itable[ROOT_INO].i_nlink = 2
  /\ \A i \in L : i # ROOT_INO => d.itable[i].i_nlink = 1
  /\ Entry(d, 0) = [ino |-> ROOT_INO, name |-> "."]
  /\ Entry(d, 1) = [ino |-> ROOT_INO, name |-> ".."]
  /\ \A e \in Entries(d) : NamesFile(d, e) =>
       /\ Entry(d, e).ino \in L /\ Entry(d, e).ino # ROOT_INO
       /\ Entry(d, e).name \in Names
  /\ \A e, f \in Entries(d) : NamesFile(d, e) /\ NamesFile(d, f) =>
       \/ e = f
       \/ Entry(d, e).name # Entry(d, f).name /\ Entry(d, e).ino # Entry(d, f).ino
  /\ \A i \in L : i # ROOT_INO => \E e \in Entries(d) : NamesFile(d, e) /\ Entry(d, e).ino = i

Sized(d, L) ==
  \A i \in L :
    /\ d.itable[i].i_size <= d.itable[i].i_blocks * BlockSize
    /\ d.itable[i].i_size > (d.itable[i].i_blocks - 1) * BlockSize

Counted(d) ==
  d.free_blocks = Clear(d) /\ d.free_inodes = NumInodes - Cardinality(d.ibmap)

Sound(d) ==
  /\ Typed(d) /\ Linked(d, d.ibmap) /\ Roles(d, d.ibmap)
  /\ Directory(d, d.ibmap) /\ Sized(d, d.ibmap) /\ Counted(d)

FSInv == Sound(fs) /\ stamped \subseteq Inodes

-----------------------------------------------------------------------------
(***************************************************************************)
(* Block pointers.                                                         *)
(***************************************************************************)

LEMMA InodeFields ==
  ASSUME NEW d, Typed(d), NEW i \in Inodes
  PROVE  /\ d.itable[i] \in Inode
         /\ d.itable[i].i_nlink \in Nat /\ d.itable[i].i_blocks \in Nat
         /\ d.itable[i].i_size \in Nat /\ d.itable[i].i_indirect \in Nat
         /\ d.itable[i].i_direct \in [0 .. NumDirect - 1 -> Nat]
  BY DEF Typed, Inode

LEMMA PlacesOf ==
  ASSUME NEW d, NEW i, d.itable[i].i_blocks \in Nat
  PROVE  /\ \A k : k \in Places(d, i) <=>
              \/ k \in Nat /\ k < d.itable[i].i_blocks
              \/ k = -1 /\ d.itable[i].i_blocks > NumDirect
         /\ -1 \in Places(d, i) <=> HasTable(d, i)
         /\ \A k \in Nat : At(d, i, k) = Pointer(d, i, k)
         /\ At(d, i, -1) = d.itable[i].i_indirect
  BY DEF Places, At, HasTable

\* What the pointers of an inode are, by the part of the image they are in.
LEMMA PointersOf ==
  ASSUME NEW d, NEW i, TableFilled(d, i), d.itable[i].i_blocks \in Nat,
         NEW k \in Nat, k < d.itable[i].i_blocks
  PROVE  /\ k < NumDirect => Pointer(d, i, k) = d.itable[i].i_direct[k]
         /\ k >= NumDirect =>
              /\ d.itable[i].i_indirect \in DOMAIN d.tables
              /\ k - NumDirect \in DOMAIN d.tables[d.itable[i].i_indirect]
              /\ Pointer(d, i, k) = d.tables[d.itable[i].i_indirect][k - NumDirect]
<1>1. NumDirect \in Nat
  BY ConstantTypes
<1>2. ~(k < NumDirect) =>
        /\ HasTable(d, i) /\ k - NumDirect \in 0 .. d.itable[i].i_blocks - NumDirect - 1
  BY <1>1 DEF HasTable
<1> QED
  BY <1>1, <1>2 DEF TableFilled, Pointer

\* Inode i keeps its first blocks, and its table as far as it needs it.
KeepsPointers(d, x, i) ==
  /\ x.itable[i].i_blocks \in Nat /\ x.itable[i].i_blocks <= d.itable[i].i_blocks
  /\ \A k \in 0 .. NumDirect - 1 : k < x.itable[i].i_blocks =>
       x.itable[i].i_direct[k] = d.itable[i].i_direct[k]
  /\ x.itable[i].i_blocks > NumDirect =>
       /\ x.itable[i].i_indirect = d.itable[i].i_indirect
       /\ d.itable[i].i_indirect \in DOMAIN x.tables
       /\ x.tables[d.itable[i].i_indirect] = d.tables[d.itable[i].i_indirect]

LEMMA SamePointers ==
  ASSUME NEW d, NEW x, NEW i, TableFilled(d, i), d.itable[i].i_blocks \in Nat,
         KeepsPointers(d, x, i)
  PROVE  /\ TableFilled(x, i)
         /\ \A k \in Places(x, i) : k \in Places(d, i) /\ At(x, i, k) = At(d, i, k)
         /\ x.itable[i].i_blocks = d.itable[i].i_blocks => Places(x, i) = Places(d, i)
<1> USE DEF KeepsPointers
<1> DEFINE m == d.itable[i].i_blocks
           n == x.itable[i].i_blocks
           t == d.itable[i].i_indirect
<1>1. NumDirect \in Nat
  BY ConstantTypes
<1>2. TableFilled(x, i)
  BY <1>1 DEF TableFilled, HasTable
<1>3. ASSUME NEW k \in Places(x, i)
      PROVE  k \in Places(d, i) /\ At(x, i, k) = At(d, i, k)
  <2>1. CASE k \in Nat /\ k < n
    <3>1. k \in Places(d, i) /\ At(x, i, k) = Pointer(x, i, k) /\ At(d, i, k) = Pointer(d, i, k)
      BY <2>1, PlacesOf
    <3>2. CASE k < NumDirect
      <4>1. Pointer(x, i, k) = x.itable[i].i_direct[k] /\ Pointer(d, i, k) = d.itable[i].i_direct[k]
        BY <3>2 DEF Pointer
      <4>2. k \in 0 .. NumDirect - 1
        BY <2>1, <3>2, <1>1
      <4> QED
        BY <3>1, <4>1, <4>2, <2>1
    <3>3. CASE k >= NumDirect
      <4>1. x.itable[i].i_indirect = t /\ x.tables[t] = d.tables[t]
        BY <2>1, <3>3, <1>1
      <4>2. Pointer(x, i, k) = x.tables[t][k - NumDirect]
        BY <2>1, <3>3, <1>2, <4>1, PointersOf
      <4>3. Pointer(d, i, k) = d.tables[t][k - NumDirect]
        BY <2>1, <3>3, PointersOf
      <4> QED
        BY <3>1, <4>1, <4>2, <4>3
    <3> QED
      BY <2>1, <3>2, <3>3, <1>1
  <2>2. CASE k = -1 /\ n > NumDirect
    BY <2>2, <1>1, PlacesOf
  <2> QED
    BY <2>1, <2>2, PlacesOf
<1>4. n = m => Places(x, i) = Places(d, i)
  BY DEF Places, HasTable
<1> QED
  BY <1>2, <1>3, <1>4

LEMMA SharedOnce ==
  ASSUME NEW d, NEW L, NeverShared(d, L), NEW i \in L, NEW j \in L,
         NEW k \in Places(d, i), NEW m \in Places(d, j), At(d, i, k) = At(d, j, m)
  PROVE  i = j /\ k = m
  BY DEF NeverShared

\* Inode i gets the blocks N, which were free.
LEMMA LinkedGrows ==
  ASSUME NEW d, NEW x, NEW L, NEW i \in L, NEW N,
         Linked(d, L),
         \A j \in L : x.itable[j].i_blocks <= MaxBlocks /\ TableFilled(x, j),
         x.dbmap = d.dbmap \cup N, \A b \in N : b \notin d.dbmap /\ b \in Nat,
         DataRegion \in Nat,
         \A j \in L : j # i => Places(x, j) = Places(d, j),
         \A j \in L : \A k \in Places(d, j) : k \in Places(x, j) /\ At(x, j, k) = At(d, j, k),
         \A k \in Places(x, i) : k \notin Places(d, i) => At(x, i, k) \in N,
         \A k, m \in Places(x, i) :
           k \notin Places(d, i) /\ m \notin Places(d, i) /\ At(x, i, k) = At(x, i, m) => k = m,
         \A b \in N : \E k \in Places(x, i) : b = At(x, i, k)
  PROVE  Linked(x, L)
<1>1. ASSUME NEW j \in L, NEW k \in Places(x, j)
      PROVE  \/ k \in Places(d, j) /\ At(x, j, k) = At(d, j, k) /\ At(x, j, k) \in d.dbmap
                /\ At(x, j, k) >= DataRegion
             \/ j = i /\ k \notin Places(d, i) /\ At(x, j, k) \in N /\ At(x, j, k) \notin d.dbmap
  BY DEF Linked, InUse
<1>2. \A b \in N : b >= DataRegion
  BY DEF Linked
<1>3. NeverShared(x, L)
  <2> SUFFICES ASSUME NEW j \in L, NEW l \in L, NEW k \in Places(x, j), NEW m \in Places(x, l),
                      At(x, j, k) = At(x, l, m)
               PROVE  j = l /\ k = m
    BY DEF NeverShared
  <2>1. CASE k \in Places(d, j) /\ At(x, j, k) = At(d, j, k) /\ At(x, j, k) \in d.dbmap
    <3>1. m \in Places(d, l) /\ At(x, l, m) = At(d, l, m)
      BY <2>1, <1>1
    <3>2. NeverShared(d, L) /\ At(d, j, k) = At(d, l, m)
      BY <2>1, <3>1 DEF Linked
    <3> QED
      BY <2>1, <3>1, <3>2, SharedOnce
  <2>2. CASE j = i /\ k \notin Places(d, i) /\ At(x, j, k) \notin d.dbmap
    <3>1. l = i /\ m \notin Places(d, i)
      BY <2>2, <1>1
    <3> QED
      BY <2>2, <3>1
  <2> QED
    BY <1>1, <2>1, <2>2
<1>4. InUse(x, L)
  BY <1>1, <1>2 DEF InUse
<1>5. NeverLost(x, L)
  <2> SUFFICES ASSUME NEW b \in x.dbmap, b >= DataRegion
               PROVE  \E j \in L : \E k \in Places(x, j) : b = At(x, j, k)
    BY DEF NeverLost
  <2>1. CASE b \in N
    BY <2>1
  <2>2. CASE b \in d.dbmap
    <3>1. PICK j \in L : \E k \in Places(d, j) : b = At(d, j, k)
      BY <2>2 DEF Linked, NeverLost
    <3> QED
      BY <3>1
  <2> QED
    BY <2>1, <2>2
<1>6. \A b \in 0 .. DataRegion - 1 : b \in x.dbmap
  BY DEF Linked
<1> QED
  BY <1>3, <1>4, <1>5, <1>6 DEF Linked

\* The blocks F go back, and nobody keeps a pointer to them that counts.
LEMMA LinkedShrinks ==
  ASSUME NEW d, NEW x, NEW L, NEW K \in SUBSET L, NEW F,
         Linked(d, L),
         \A j \in K : x.itable[j].i_blocks <= MaxBlocks /\ TableFilled(x, j),
         x.dbmap = d.dbmap \ F, \A b \in F : b \in Nat /\ b >= DataRegion,
         DataRegion \in Nat,
         \A j \in K : \A k \in Places(x, j) :
           k \in Places(d, j) /\ At(x, j, k) = At(d, j, k) /\ At(d, j, k) \notin F,
         \A j \in L : \A k \in Places(d, j) :
           At(d, j, k) \notin F => j \in K /\ k \in Places(x, j)
  PROVE  Linked(x, K)
<1>1. NeverShared(x, K)
  BY DEF Linked, NeverShared
<1>2. InUse(x, K)
  BY DEF Linked, InUse
<1>3. NeverLost(x, K)
  <2> SUFFICES ASSUME NEW b \in x.dbmap, b >= DataRegion
               PROVE  \E j \in K : \E k \in Places(x, j) : b = At(x, j, k)
    BY DEF NeverLost
  <2>1. PICK j \in L : \E k \in Places(d, j) : b = At(d, j, k)
    BY DEF Linked, NeverLost
  <2>2. PICK k \in Places(d, j) : b = At(d, j, k)
    BY <2>1
  <2>3. j \in K /\ k \in Places(x, j) /\ At(x, j, k) = b
    BY <2>2
  <2> QED
    BY <2>3
<1>4. \A b \in 0 .. DataRegion - 1 : b \in x.dbmap
  BY DEF Linked
<1> QED
  BY <1>1, <1>2, <1>3, <1>4 DEF Linked

\* The same pointers in another image, for the same inodes.
LEMMA LinkedSame ==
  ASSUME NEW d, NEW x, NEW L, Linked(d, L), DataRegion \in Nat,
         \A j \in L : x.itable[j].i_blocks <= MaxBlocks /\ TableFilled(x, j),
         x.dbmap = d.dbmap,
         \A j \in L : Places(x, j) = Places(d, j),
         \A j \in L : \A k \in Places(d, j) : At(x, j, k) = At(d, j, k)
  PROVE  Linked(x, L)
<1>1. NeverShared(x, L) /\ InUse(x, L) /\ NeverLost(x, L)
  BY DEF Linked, NeverShared, InUse, NeverLost
<1> QED
  BY <1>1 DEF Linked

\* An inode without blocks joins.
LEMMA LinkedMore ==
  ASSUME NEW d, NEW L, NEW i, Linked(d, L), d.itable[i].i_blocks = 0
  PROVE  Linked(d, L \cup {i})
<1>1. Places(d, i) = {} /\ TableFilled(d, i) /\ d.itable[i].i_blocks <= MaxBlocks
  BY ConstantTypes DEF Places, HasTable, TableFilled
<1>2. NeverShared(d, L \cup {i}) /\ InUse(d, L \cup {i}) /\ NeverLost(d, L \cup {i})
  BY <1>1 DEF Linked, NeverShared, InUse, NeverLost
<1> QED
  BY <1>1, <1>2 DEF Linked

-----------------------------------------------------------------------------
(***************************************************************************)
(* An inode grows: the blocks Extend allocates, in the order of the code.  *)
(***************************************************************************)

NewPlaces(curr, wanted) ==
  curr .. wanted - 1 \cup (IF NewTable(curr, wanted) THEN {-1} ELSE {})

\* The how manieth allocated block goes to a place.
Turn(curr, wanted, k) ==
  IF k = -1 THEN NumDirect - curr + 1
  ELSE k - curr + (IF NewTable(curr, wanted) /\ k >= NumDirect THEN 2 ELSE 1)

Got(d, i, wanted) == Lowest(Need(d.itable[i].i_blocks, wanted), d.dbmap, NumBlocks)

\* The block that a new place gets.
Given(d, i, wanted, k) == Got(d, i, wanted)[Turn(d.itable[i].i_blocks, wanted, k)]

TableOf(d, i, wanted) ==
  IF NewTable(d.itable[i].i_blocks, wanted) THEN Given(d, i, wanted, -1)
  ELSE d.itable[i].i_indirect

\* Extend when it succeeds.
ExtendedInode(d, i, wanted) ==
  [d.itable[i] EXCEPT
    !.i_blocks = wanted, !.i_indirect = TableOf(d, i, wanted),
    !.i_direct = [k \in 0 .. NumDirect - 1 |->
      IF k \in d.itable[i].i_blocks .. wanted - 1 THEN Given(d, i, wanted, k)
      ELSE d.itable[i].i_direct[k]]]

ExtendedTables(d, i, wanted) ==
  IF wanted <= NumDirect THEN d.tables
  ELSE [b \in DOMAIN d.tables \cup {TableOf(d, i, wanted)} |->
         IF b # TableOf(d, i, wanted) THEN d.tables[b]
         ELSE [k \in 0 .. wanted - NumDirect - 1 |->
                IF k + NumDirect \in d.itable[i].i_blocks .. wanted - 1
                THEN Given(d, i, wanted, k + NumDirect)
                ELSE d.tables[b][k]]]

LEMMA ExtendFields ==
  ASSUME NEW d, Typed(d), NEW i \in Inodes, NEW wanted \in Nat, wanted <= MaxBlocks,
         Need(d.itable[i].i_blocks, wanted) <= Clear(d), Clear(d) \in Int,
         Need(d.itable[i].i_blocks, wanted) \in Int
  PROVE  LET x == Extend(d, i, wanted)
         IN /\ IsImage(x) /\ x.status = "ok"
            /\ x.free_blocks = d.free_blocks - Need(d.itable[i].i_blocks, wanted)
            /\ x.free_inodes = d.free_inodes /\ x.ibmap = d.ibmap
            /\ x.data = d.data /\ x.dirs = d.dirs
            /\ x.dbmap = d.dbmap \cup Range(Got(d, i, wanted))
            /\ x.itable = [d.itable EXCEPT ![i] = ExtendedInode(d, i, wanted)]
            /\ x.tables = ExtendedTables(d, i, wanted)
<1> DEFINE curr == d.itable[i].i_blocks
           need == Need(curr, wanted)
           got == Got(d, i, wanted)
           e == ExtendedInode(d, i, wanted)
           tables == ExtendedTables(d, i, wanted)
           x == [d EXCEPT !.dbmap = @ \cup Range(got), !.free_blocks = @ - need,
                          !.itable = [@ EXCEPT ![i] = e], !.tables = tables]
<1>1. MaxBlocks \in Nat /\ NumDirect \in Nat
  BY ConstantTypes
<1>2. ~(need > Clear(d)) /\ ~(wanted > MaxBlocks)
  BY <1>1
<1>3. \A k \in curr .. wanted - 1 :
        got[k - curr + (IF NewTable(curr, wanted) /\ k >= NumDirect THEN 2 ELSE 1)]
          = Given(d, i, wanted, k)
  BY InodeFields DEF Given, Turn
<1>4. DOMAIN d.itable[i].i_direct = 0 .. NumDirect - 1
  BY InodeFields
<1>5. TableOf(d, i, wanted) =
        IF NewTable(curr, wanted) THEN got[NumDirect - curr + 1] ELSE d.itable[i].i_indirect
  BY DEF TableOf, Given, Turn
<1>6. Extend(d, i, wanted) = x
  BY <1>2, <1>3, <1>4, <1>5, <1>1, InodeFields, ZenonT(30) DEF Extend, Got, ExtendedInode, ExtendedTables
<1>7. IsImage(d) /\ d.status = "ok"
  BY DEF Typed
<1> HIDE DEF got, e, tables, need
<1>8. ASSUME NEW y, y = x
      PROVE  /\ IsImage(y) /\ y.status = "ok"
             /\ y.free_blocks = d.free_blocks - need
             /\ y.free_inodes = d.free_inodes /\ y.ibmap = d.ibmap
             /\ y.data = d.data /\ y.dirs = d.dirs
             /\ y.dbmap = d.dbmap \cup Range(got)
             /\ y.itable = [d.itable EXCEPT ![i] = e]
             /\ y.tables = tables
  BY <1>7, <1>8 DEF IsImage
<1> HIDE DEF x
<1> QED
  BY <1>6, <1>8 DEF got, e, tables, need

LEMMA Turns ==
  ASSUME NEW curr \in Nat, NEW wanted \in Nat, curr < wanted
  PROVE  /\ Need(curr, wanted) \in Nat
         /\ \A k : k \in NewPlaces(curr, wanted) <=>
              \/ k \in Nat /\ curr <= k /\ k < wanted
              \/ k = -1 /\ curr <= NumDirect /\ wanted > NumDirect
         /\ \A k \in NewPlaces(curr, wanted) : Turn(curr, wanted, k) \in 1 .. Need(curr, wanted)
         /\ \A k, m \in NewPlaces(curr, wanted) :
              Turn(curr, wanted, k) = Turn(curr, wanted, m) => k = m
         /\ \A n \in 1 .. Need(curr, wanted) :
              \E k \in NewPlaces(curr, wanted) : Turn(curr, wanted, k) = n
<1>1. NumDirect \in Nat
  BY ConstantTypes
<1>2. \A k : k \in NewPlaces(curr, wanted) <=>
        \/ k \in Nat /\ curr <= k /\ k < wanted
        \/ k = -1 /\ curr <= NumDirect /\ wanted > NumDirect
  BY <1>1 DEF NewPlaces, NewTable
<1>3. Need(curr, wanted) \in Nat
  BY <1>1 DEF Need, NewTable
<1>4. /\ \A k \in NewPlaces(curr, wanted) : Turn(curr, wanted, k) \in 1 .. Need(curr, wanted)
      /\ \A k, m \in NewPlaces(curr, wanted) :
           Turn(curr, wanted, k) = Turn(curr, wanted, m) => k = m
  <2>1. ASSUME NewTable(curr, wanted), NEW k \in NewPlaces(curr, wanted)
        PROVE  /\ k \in Nat => curr <= k /\ k < wanted
               /\ k \in Nat \/ k = -1
               /\ Turn(curr, wanted, k) = IF k = -1 THEN NumDirect - curr + 1
                    ELSE IF k >= NumDirect THEN k - curr + 2 ELSE k - curr + 1
    BY <2>1, <1>1, <1>2 DEF Turn
  <2>2. ASSUME ~NewTable(curr, wanted), NEW k \in NewPlaces(curr, wanted)
        PROVE  k \in Nat /\ curr <= k /\ k < wanted /\ Turn(curr, wanted, k) = k - curr + 1
    BY <2>2, <1>1, <1>2 DEF Turn, NewTable
  <2>3. CASE NewTable(curr, wanted)
    <3>1. Need(curr, wanted) = wanted - curr + 1 /\ curr <= NumDirect /\ NumDirect < wanted
      BY <2>3, <1>1 DEF Need, NewTable
    <3>2. \A k \in NewPlaces(curr, wanted) : Turn(curr, wanted, k) \in 1 .. Need(curr, wanted)
      BY <2>1, <2>3, <3>1, <1>1
    <3>3. \A k, m \in NewPlaces(curr, wanted) :
            Turn(curr, wanted, k) = Turn(curr, wanted, m) => k = m
      BY <2>1, <2>3, <3>1, <1>1
    <3> QED
      BY <3>2, <3>3
  <2>4. CASE ~NewTable(curr, wanted)
    <3>1. Need(curr, wanted) = wanted - curr
      BY <2>4, <1>1 DEF Need
    <3> QED
      BY <2>2, <2>4, <3>1
  <2> QED
    BY <2>3, <2>4
<1>5. ASSUME NEW n \in 1 .. Need(curr, wanted)
      PROVE  \E k \in NewPlaces(curr, wanted) : Turn(curr, wanted, k) = n
  <2>1. CASE ~NewTable(curr, wanted) \/ n <= NumDirect - curr
    <3>1. n + curr - 1 \in Nat /\ curr <= n + curr - 1 /\ n + curr - 1 < wanted
      BY <2>1, <1>1 DEF Need, NewTable
    <3>2. Turn(curr, wanted, n + curr - 1) = n
      BY <2>1, <3>1, <1>1 DEF Turn
    <3> QED
      BY <3>1, <3>2, <1>2
  <2>2. CASE NewTable(curr, wanted) /\ n = NumDirect - curr + 1
    <3>1. -1 \in NewPlaces(curr, wanted) /\ Turn(curr, wanted, -1) = n
      BY <2>2, <1>2 DEF Turn, NewTable
    <3> QED
      BY <3>1
  <2>3. CASE NewTable(curr, wanted) /\ n > NumDirect - curr + 1
    <3>1. /\ n + curr - 2 \in Nat /\ n + curr - 2 >= NumDirect
          /\ curr <= n + curr - 2 /\ n + curr - 2 < wanted
      BY <2>3, <1>1 DEF Need, NewTable
    <3>2. Turn(curr, wanted, n + curr - 2) = n
      BY <2>3, <3>1, <1>1 DEF Turn
    <3> QED
      BY <3>1, <3>2, <1>2
  <2> QED
    BY <2>1, <2>2, <2>3, <1>1
<1> QED
  BY <1>2, <1>3, <1>4, <1>5

\* The blocks that are allocated were free, and each new place gets its own.
LEMMA GivenBlocks ==
  ASSUME NEW d, Typed(d), NEW i \in Inodes, NEW wanted \in Nat,
         d.itable[i].i_blocks < wanted,
         Need(d.itable[i].i_blocks, wanted) <= Clear(d)
  PROVE  LET new == NewPlaces(d.itable[i].i_blocks, wanted)
             N == Range(Got(d, i, wanted))
         IN /\ \A k \in new : Given(d, i, wanted, k) \in N
            /\ \A k, m \in new : Given(d, i, wanted, k) = Given(d, i, wanted, m) => k = m
            /\ \A b \in N : \E k \in new : b = Given(d, i, wanted, k)
            /\ \A b \in N : b \in Blocks /\ b \notin d.dbmap
            /\ IsFiniteSet(N) /\ Cardinality(N) = Need(d.itable[i].i_blocks, wanted)
<1> DEFINE curr == d.itable[i].i_blocks
           need == Need(curr, wanted)
           got == Got(d, i, wanted)
           new == NewPlaces(curr, wanted)
<1>1. curr \in Nat /\ curr < wanted
  BY InodeFields
<1>2. NumBlocks \in Nat /\ d.dbmap \in SUBSET (0 .. NumBlocks - 1)
  BY ConstantTypes DEF Typed, Blocks
<1>3. need \in Nat /\ need <= NumBlocks - Cardinality(d.dbmap)
  BY <1>1, Turns DEF Clear
<1>4. /\ got \in [1 .. need -> (0 .. NumBlocks - 1) \ d.dbmap] /\ DOMAIN got = 1 .. need
      /\ \A n \in 1 .. need : got[n] \in (0 .. NumBlocks - 1) \ d.dbmap
      /\ \A n, m \in 1 .. need : got[n] = got[m] => n = m
  <2> HIDE DEF need
  <2>1. got = Lowest(need, d.dbmap, NumBlocks)
    BY DEF Got, need
  <2> HIDE DEF got
  <2> QED
    BY <2>1, <1>2, <1>3, LowestClear
<1>5. \A k : Given(d, i, wanted, k) = got[Turn(curr, wanted, k)]
  BY DEF Given
<1>6. /\ \A k \in new : Turn(curr, wanted, k) \in 1 .. need
      /\ \A k, m \in new : Turn(curr, wanted, k) = Turn(curr, wanted, m) => k = m
      /\ \A n \in 1 .. need : \E k \in new : Turn(curr, wanted, k) = n
  BY <1>1, Turns
<1>7. Range(got) = {got[n] : n \in 1 .. need}
  BY <1>4 DEF Range
<1> HIDE DEF curr, need, got, new
<1>8. IsFiniteSet(Range(got)) /\ Cardinality(Range(got)) = need
  <2>1. IsFiniteSet(1 .. need) /\ Cardinality(1 .. need) = need
    BY <1>3, FS_Interval
  <2> QED
    BY <2>1, <1>4, InjectiveRange
<1>9. /\ \A k \in new : Given(d, i, wanted, k) \in Range(got)
      /\ \A k, m \in new : Given(d, i, wanted, k) = Given(d, i, wanted, m) => k = m
      /\ \A b \in Range(got) : \E k \in new : b = Given(d, i, wanted, k)
      /\ \A b \in Range(got) : b \in Blocks /\ b \notin d.dbmap
  <2>1. \A k \in new : Given(d, i, wanted, k) \in Range(got)
    BY <1>5, <1>6, <1>7
  <2>2. \A k, m \in new : Given(d, i, wanted, k) = Given(d, i, wanted, m) => k = m
    BY <1>4, <1>5, <1>6
  <2>3. \A b \in Range(got) : \E k \in new : b = Given(d, i, wanted, k)
    BY <1>5, <1>6, <1>7
  <2>4. \A b \in Range(got) : b \in Blocks /\ b \notin d.dbmap
    BY <1>4, <1>7 DEF Blocks
  <2> QED
    BY <2>1, <2>2, <2>3, <2>4
<1> QED
  BY <1>8, <1>9 DEF curr, need, got, new

LEMMA LayoutTypes == DataRegion \in Nat /\ DataRegion < NumBlocks
<1>1. NumInodes \in Nat /\ InodesPerBlock \in Nat \ {0} /\ NumInodes + InodesPerBlock <= UintRange
  BY ConstantTypes, NoOverflow, FSAssumption
<1>2. DivRoundUp(NumInodes, InodesPerBlock) \in Nat
  BY <1>1, RoundUp, NoOverflow
<1> QED
  BY <1>2, LayoutAssumption DEF DataRegion

LEMMA ClearTypes ==
  ASSUME NEW d, Typed(d)
  PROVE  IsFiniteSet(d.dbmap) /\ Cardinality(d.dbmap) \in Nat /\ Clear(d) \in Nat
<1>1. NumBlocks \in Nat /\ d.dbmap \in SUBSET (0 .. NumBlocks - 1)
  BY ConstantTypes DEF Typed, Blocks
<1> QED
  BY <1>1, Bitmap DEF Clear

\* The tables after Extend: one more, or one longer, the others as before.
TablesAfter(d, i, wanted, tables) ==
  LET t == TableOf(d, i, wanted)
  IN /\ t \in Nat
     /\ wanted <= NumDirect => tables = d.tables
     /\ wanted > NumDirect =>
          /\ DOMAIN tables = DOMAIN d.tables \cup {t}
          /\ DOMAIN tables[t] = 0 .. wanted - NumDirect - 1
          /\ NewTable(d.itable[i].i_blocks, wanted) => t \notin d.dbmap
          /\ ~NewTable(d.itable[i].i_blocks, wanted) =>
               t = d.itable[i].i_indirect /\ HasTable(d, i) /\ t \in DOMAIN d.tables
     /\ \A b \in DOMAIN d.tables : b \in DOMAIN tables
     /\ \A b \in DOMAIN d.tables :
          wanted <= NumDirect \/ b # t => tables[b] = d.tables[b]
     /\ \A b \in DOMAIN tables : \A k \in DOMAIN tables[b] : tables[b][k] \in Blocks
     /\ \A b \in DOMAIN tables :
          b \in DOMAIN d.tables \/ b \in Range(Got(d, i, wanted))
     /\ \A k \in Nat : NumDirect <= k /\ k < wanted =>
          tables[t][k - NumDirect] =
            IF d.itable[i].i_blocks <= k THEN Given(d, i, wanted, k)
            ELSE d.tables[t][k - NumDirect]

LEMMA ExtendedTable ==
  ASSUME NEW d, Typed(d), NEW i \in Inodes, TableFilled(d, i),
         NEW wanted \in Nat, d.itable[i].i_blocks < wanted,
         Need(d.itable[i].i_blocks, wanted) <= Clear(d)
  PROVE  TablesAfter(d, i, wanted, ExtendedTables(d, i, wanted))
<1> DEFINE curr == d.itable[i].i_blocks
           new == NewPlaces(curr, wanted)
           tables == ExtendedTables(d, i, wanted)
           t == TableOf(d, i, wanted)
           N == Range(Got(d, i, wanted))
<1>1. NumDirect \in Nat /\ curr \in Nat /\ d.itable[i].i_indirect \in Nat
  BY ConstantTypes, InodeFields
<1>2. \A k : k \in new <=> \/ k \in Nat /\ curr <= k /\ k < wanted
                           \/ k = -1 /\ curr <= NumDirect /\ wanted > NumDirect
  BY <1>1, Turns
<1>3. /\ \A k \in new : Given(d, i, wanted, k) \in N
      /\ \A b \in N : b \in Blocks /\ b \notin d.dbmap
  BY GivenBlocks
<1>4. \A b \in Blocks : b \in Nat
  BY ConstantTypes DEF Blocks
<1>5. /\ NewTable(curr, wanted) => t \in N
      /\ ~NewTable(curr, wanted) => t = d.itable[i].i_indirect
  <2>1. NewTable(curr, wanted) => -1 \in new
    BY <1>2 DEF NewTable
  <2> QED
    BY <2>1, <1>3 DEF TableOf
<1>6. t \in Nat
  BY <1>1, <1>3, <1>4, <1>5
<1>7. wanted > NumDirect /\ ~NewTable(curr, wanted) => HasTable(d, i) /\ t \in DOMAIN d.tables
  BY <1>1, <1>5 DEF NewTable, HasTable, TableFilled
<1>8. \A b \in DOMAIN d.tables : \A k \in DOMAIN d.tables[b] : d.tables[b][k] \in Blocks
  BY DEF Typed
<1>9. \A k \in 0 .. wanted - NumDirect - 1 :
        /\ k + NumDirect \in curr .. wanted - 1 <=> curr <= k + NumDirect
        /\ curr <= k + NumDirect => Given(d, i, wanted, k + NumDirect) \in Blocks
        /\ ~(curr <= k + NumDirect) => t \in DOMAIN d.tables /\ k \in DOMAIN d.tables[t]
  <2> TAKE k \in 0 .. wanted - NumDirect - 1
  <2>1. k + NumDirect \in curr .. wanted - 1 <=> curr <= k + NumDirect
    BY <1>1
  <2>2. curr <= k + NumDirect => Given(d, i, wanted, k + NumDirect) \in Blocks
    BY <1>1, <1>2, <1>3
  <2>3. ASSUME ~(curr <= k + NumDirect)
        PROVE  t \in DOMAIN d.tables /\ k \in DOMAIN d.tables[t]
    <3>1. HasTable(d, i) /\ ~NewTable(curr, wanted) /\ k \in 0 .. curr - NumDirect - 1
      BY <2>3, <1>1 DEF HasTable, NewTable
    <3> QED
      BY <3>1, <1>5 DEF TableFilled
  <2> QED
    BY <2>1, <2>2, <2>3
<1>10. CASE wanted <= NumDirect
  <2>1. tables = d.tables
    BY <1>10 DEF ExtendedTables
  <2> HIDE DEF tables, t, N
  <2> QED
    BY <2>1, <1>10, <1>1, <1>6, <1>8 DEF tables, t, N, TablesAfter
<1>11. CASE wanted > NumDirect
  <2>1. tables = [b \in DOMAIN d.tables \cup {t} |->
           IF b # t THEN d.tables[b]
           ELSE [k \in 0 .. wanted - NumDirect - 1 |->
                  IF k + NumDirect \in curr .. wanted - 1
                  THEN Given(d, i, wanted, k + NumDirect) ELSE d.tables[b][k]]]
    BY <1>11, <1>1 DEF ExtendedTables
  <2> HIDE DEF tables, t, N, curr
  <2>2. /\ DOMAIN tables = DOMAIN d.tables \cup {t}
        /\ \A b \in DOMAIN d.tables : b # t => tables[b] = d.tables[b]
        /\ tables[t] = [k \in 0 .. wanted - NumDirect - 1 |->
                  IF k + NumDirect \in curr .. wanted - 1
                  THEN Given(d, i, wanted, k + NumDirect) ELSE d.tables[t][k]]
    BY <2>1
  <2>3. /\ DOMAIN tables[t] = 0 .. wanted - NumDirect - 1
        /\ \A k \in 0 .. wanted - NumDirect - 1 :
             tables[t][k] = IF curr <= k + NumDirect THEN Given(d, i, wanted, k + NumDirect)
                            ELSE d.tables[t][k]
    BY <2>2, <1>9
  <2>4. \A k \in 0 .. wanted - NumDirect - 1 : tables[t][k] \in Blocks
    BY <2>3, <1>9, <1>8
  <2>5. \A b \in DOMAIN tables : \A k \in DOMAIN tables[b] : tables[b][k] \in Blocks
    BY <2>2, <2>3, <2>4, <1>8
  <2>6. \A k \in Nat : NumDirect <= k /\ k < wanted =>
          tables[t][k - NumDirect] =
            IF curr <= k THEN Given(d, i, wanted, k) ELSE d.tables[t][k - NumDirect]
    <3> SUFFICES ASSUME NEW k \in Nat, NumDirect <= k, k < wanted
                 PROVE  tables[t][k - NumDirect] =
                   IF curr <= k THEN Given(d, i, wanted, k) ELSE d.tables[t][k - NumDirect]
      OBVIOUS
    <3>1. k - NumDirect \in 0 .. wanted - NumDirect - 1 /\ (k - NumDirect) + NumDirect = k
      BY <1>1
    <3> QED
      BY <3>1, <2>3
  <2>7. NewTable(curr, wanted) => t \notin d.dbmap
    BY <1>5, <1>3
  <2>8. \A b \in DOMAIN tables : b \in DOMAIN d.tables \/ b \in N
    BY <2>2, <1>5, <1>7, <1>11
  <2>9. ~(wanted <= NumDirect)
    BY <1>11, <1>1
  <2> QED
    BY <2>2, <2>3, <2>5, <2>6, <2>7, <2>8, <2>9, <1>5, <1>6, <1>7
    DEF tables, t, N, curr, TablesAfter
<1> QED
  BY <1>10, <1>11, <1>1

LEMMA InodeUpdate ==
  ASSUME NEW r \in Inode, NEW b \in Nat, NEW t \in Nat, NEW f \in [0 .. NumDirect - 1 -> Nat],
         NEW e, e = [r EXCEPT !.i_blocks = b, !.i_indirect = t, !.i_direct = f]
  PROVE  /\ e \in Inode /\ e.i_blocks = b /\ e.i_indirect = t /\ e.i_direct = f
         /\ e.i_nlink = r.i_nlink /\ e.i_size = r.i_size
  BY DEF Inode

\* What holds of inode i, and of the bitmap, once Extend has succeeded.
Extended(d, x, L, i, wanted) ==
  /\ IsImage(x) /\ x.status = "ok"
  /\ x.free_inodes = d.free_inodes /\ x.ibmap = d.ibmap
  /\ x.data = d.data /\ x.dirs = d.dirs
  /\ d.free_blocks = Clear(d) => x.free_blocks = Clear(x)
  /\ \A j \in Inodes : j # i => x.itable[j] = d.itable[j]
  /\ x.itable[i].i_blocks = wanted
  /\ x.itable[i].i_nlink = d.itable[i].i_nlink /\ x.itable[i].i_size = d.itable[i].i_size
  /\ \A b \in d.dbmap : b \in x.dbmap
  /\ \A j \in L : \A k \in Places(d, j) : k \in Places(x, j) /\ At(x, j, k) = At(d, j, k)
  /\ \A k \in Nat : d.itable[i].i_blocks <= k /\ k < wanted =>
       /\ k \in Places(x, i)
       /\ At(x, i, k) \in x.dbmap /\ At(x, i, k) \notin d.dbmap
       /\ At(x, i, k) \notin DOMAIN x.tables

LEMMA ExtendSteps ==
  ASSUME NEW d, Typed(d), NEW L \in SUBSET Inodes, Linked(d, L), NEW i \in L,
         NEW wanted \in Nat, d.itable[i].i_blocks < wanted, wanted <= MaxBlocks,
         Need(d.itable[i].i_blocks, wanted) <= Clear(d)
  PROVE  LET x == Extend(d, i, wanted)
         IN Typed(x) /\ Linked(x, L) /\ Extended(d, x, L, i, wanted)
<1> DEFINE curr == d.itable[i].i_blocks
           need == Need(curr, wanted)
           new == NewPlaces(curr, wanted)
           N == Range(Got(d, i, wanted))
           e == ExtendedInode(d, i, wanted)
           t == TableOf(d, i, wanted)
           x == Extend(d, i, wanted)
<1>1. /\ i \in Inodes /\ NumDirect \in Nat /\ curr \in Nat /\ DataRegion \in Nat
      /\ d.itable[i].i_nlink \in Nat /\ d.itable[i].i_size \in Nat
      /\ d.itable[i].i_direct \in [0 .. NumDirect - 1 -> Nat]
  BY ConstantTypes, InodeFields, LayoutTypes
<1>2. TableFilled(d, i) /\ \A j \in L : TableFilled(d, j) /\ d.itable[j].i_blocks <= MaxBlocks
  BY DEF Linked
<1>3. \A j \in L : j \in Inodes /\ d.itable[j].i_blocks \in Nat
  BY InodeFields
<1>4. /\ need \in Nat
      /\ \A k : k \in new <=> \/ k \in Nat /\ curr <= k /\ k < wanted
                              \/ k = -1 /\ curr <= NumDirect /\ wanted > NumDirect
  BY <1>1, Turns
<1>5. /\ \A k \in new : Given(d, i, wanted, k) \in N
      /\ \A k, m \in new : Given(d, i, wanted, k) = Given(d, i, wanted, m) => k = m
      /\ \A b \in N : \E k \in new : b = Given(d, i, wanted, k)
      /\ \A b \in N : b \in Blocks /\ b \notin d.dbmap
      /\ IsFiniteSet(N) /\ Cardinality(N) = need
  BY <1>1, GivenBlocks
<1>6. /\ IsImage(x) /\ x.status = "ok" /\ x.free_blocks = d.free_blocks - need
      /\ x.free_inodes = d.free_inodes /\ x.ibmap = d.ibmap
      /\ x.data = d.data /\ x.dirs = d.dirs
      /\ x.dbmap = d.dbmap \cup N
      /\ x.itable = [d.itable EXCEPT ![i] = e]
      /\ x.tables = ExtendedTables(d, i, wanted)
  BY <1>1, <1>4, ClearTypes, ExtendFields
<1>7. /\ t \in Nat
      /\ wanted <= NumDirect => x.tables = d.tables
      /\ wanted > NumDirect =>
           /\ DOMAIN x.tables = DOMAIN d.tables \cup {t}
           /\ DOMAIN x.tables[t] = 0 .. wanted - NumDirect - 1
           /\ NewTable(curr, wanted) => t \notin d.dbmap
           /\ ~NewTable(curr, wanted) =>
                t = d.itable[i].i_indirect /\ HasTable(d, i) /\ t \in DOMAIN d.tables
      /\ \A b \in DOMAIN d.tables : b \in DOMAIN x.tables
      /\ \A b \in DOMAIN d.tables :
           wanted <= NumDirect \/ b # t => x.tables[b] = d.tables[b]
      /\ \A b \in DOMAIN x.tables : \A k \in DOMAIN x.tables[b] : x.tables[b][k] \in Blocks
      /\ \A b \in DOMAIN x.tables : b \in DOMAIN d.tables \/ b \in N
      /\ \A k \in Nat : NumDirect <= k /\ k < wanted =>
           x.tables[t][k - NumDirect] =
             IF curr <= k THEN Given(d, i, wanted, k) ELSE d.tables[t][k - NumDirect]
  <2>1. TablesAfter(d, i, wanted, ExtendedTables(d, i, wanted))
    BY <1>1, <1>2, ExtendedTable
  <2>2. TablesAfter(d, i, wanted, x.tables)
    BY <2>1, <1>6
  <2> HIDE DEF x
  <2> QED
    BY <2>2 DEF TablesAfter
<1>8. \A b \in Blocks : b \in Nat
  BY ConstantTypes DEF Blocks
<1> HIDE DEF x, need, new, N, e, t
<1>9. /\ e.i_blocks = wanted /\ e.i_indirect = t
      /\ e.i_nlink = d.itable[i].i_nlink /\ e.i_size = d.itable[i].i_size
      /\ e.i_direct = [k \in 0 .. NumDirect - 1 |->
           IF k \in curr .. wanted - 1 THEN Given(d, i, wanted, k) ELSE d.itable[i].i_direct[k]]
      /\ e \in Inode
  <2>1. \A k \in 0 .. NumDirect - 1 :
          (IF k \in curr .. wanted - 1 THEN Given(d, i, wanted, k) ELSE d.itable[i].i_direct[k]) \in Nat
    BY <1>1, <1>4, <1>5, <1>8
  <2>2. d.itable[i] \in Inode
    BY <1>1, InodeFields
  <2> DEFINE f == [k \in 0 .. NumDirect - 1 |->
                    IF k \in curr .. wanted - 1 THEN Given(d, i, wanted, k)
                    ELSE d.itable[i].i_direct[k]]
  <2>3. f \in [0 .. NumDirect - 1 -> Nat]
    BY <2>1
  <2>4. e = [d.itable[i] EXCEPT !.i_blocks = wanted, !.i_indirect = t, !.i_direct = f]
    BY DEF e, t, ExtendedInode
  <2> HIDE DEF f
  <2>6. t \in Nat /\ wanted \in Nat
    BY <1>7
  <2>5. /\ e \in Inode /\ e.i_blocks = wanted /\ e.i_indirect = t /\ e.i_direct = f
        /\ e.i_nlink = d.itable[i].i_nlink /\ e.i_size = d.itable[i].i_size
    BY <2>2, <2>3, <2>4, <2>6 DEF Inode
  <2> QED
    BY <2>5 DEF f
<1>10. x.itable \in [Inodes -> Inode] /\ x.itable[i] = e
       /\ \A j \in Inodes : j # i => x.itable[j] = d.itable[j]
  BY <1>1, <1>6, <1>9 DEF Typed
<1>11. Typed(x)
  <2>1. x.dbmap \subseteq Blocks /\ x.free_blocks \in Int
    BY <1>4, <1>5, <1>6 DEF Typed
  <2>2. DOMAIN d.data \cup DOMAIN d.dirs \cup DOMAIN x.tables \subseteq x.dbmap
    BY <1>5, <1>6, <1>7 DEF Typed
  <2>3. /\ DOMAIN x.data \cap DOMAIN x.dirs = {}
        /\ (DOMAIN x.data \cup DOMAIN x.dirs) \cap DOMAIN x.tables = {}
    BY <1>5, <1>6, <1>7 DEF Typed
  <2> QED
    BY <2>1, <2>2, <2>3, <1>6, <1>7, <1>10 DEF Typed
<1>12. \A k : /\ k \in Places(d, i) <=> \/ k \in Nat /\ k < curr
                                        \/ k = -1 /\ curr > NumDirect
              /\ k \in Places(x, i) <=> \/ k \in Nat /\ k < wanted
                                        \/ k = -1 /\ wanted > NumDirect
  BY <1>1, <1>9, <1>10, PlacesOf
<1>13. \A k : /\ k \in Places(x, i) <=> k \in Places(d, i) \/ k \in new
              /\ k \in new => k \notin Places(d, i)
  <2> TAKE k
  <2>1. curr < wanted
    OBVIOUS
  <2> HIDE DEF curr
  <2>2. CASE k \in Nat
    <3>1. k # -1
      BY <2>2
    <3> QED
      BY <2>1, <2>2, <3>1, <1>12, <1>4, <1>1
  <2>3. CASE k = -1
    <3>1. k \notin Nat
      BY <2>3
    <3>2. /\ k \in Places(d, i) <=> curr > NumDirect
          /\ k \in Places(x, i) <=> wanted > NumDirect
          /\ k \in new <=> curr <= NumDirect /\ wanted > NumDirect
      BY <2>3, <3>1, <1>12, <1>4
    <3> QED
      BY <2>1, <3>2, <1>1
  <2>4. CASE k \notin Nat /\ k # -1
    BY <2>4, <1>12, <1>4
  <2> QED
    BY <2>2, <2>3, <2>4
<1>15. TableFilled(x, i)
  BY <1>7, <1>9, <1>10, <1>1 DEF TableFilled, HasTable
<1>16. ASSUME NEW k \in Nat, k < wanted
       PROVE  /\ At(x, i, k) = IF k < NumDirect THEN e.i_direct[k] ELSE x.tables[t][k - NumDirect]
              /\ k \in Places(x, i)
  <2>1. At(x, i, k) = Pointer(x, i, k)
    BY <1>16, <1>9, <1>10, PlacesOf
  <2>2. /\ k < NumDirect => Pointer(x, i, k) = e.i_direct[k]
        /\ k >= NumDirect => Pointer(x, i, k) = x.tables[t][k - NumDirect]
    <3>1. /\ x.itable[i].i_blocks = wanted /\ x.itable[i].i_indirect = t
          /\ x.itable[i].i_direct = e.i_direct
      BY <1>9, <1>10
    <3>2. x.itable[i].i_blocks \in Nat /\ k < x.itable[i].i_blocks
      BY <3>1, <1>16
    <3>3. /\ k < NumDirect => Pointer(x, i, k) = x.itable[i].i_direct[k]
          /\ k >= NumDirect =>
               Pointer(x, i, k) = x.tables[x.itable[i].i_indirect][k - NumDirect]
      BY <3>2, <1>15, PointersOf
    <3> QED
      BY <3>1, <3>3
  <2>3. k < NumDirect \/ k >= NumDirect
    BY <1>1
  <2> QED
    BY <2>1, <2>2, <2>3, <1>12, <1>16, <1>1
<1>17. ASSUME NEW k \in new PROVE At(x, i, k) = Given(d, i, wanted, k)
  <2>1. CASE k \in Nat /\ curr <= k /\ k < wanted
    <3>1. CASE k < NumDirect
      <4>1. k \in 0 .. NumDirect - 1 /\ k \in curr .. wanted - 1
        BY <2>1, <3>1, <1>1
      <4> QED
        BY <2>1, <3>1, <4>1, <1>9, <1>16
    <3>2. CASE ~(k < NumDirect)
      <4>1. \A m \in Nat : NumDirect <= m /\ m < wanted =>
              x.tables[t][m - NumDirect] =
                IF curr <= m THEN Given(d, i, wanted, m) ELSE d.tables[t][m - NumDirect]
        BY <1>7
      <4>2. k \in Nat /\ NumDirect <= k /\ k < wanted /\ curr <= k
        BY <2>1, <3>2, <1>1
      <4>3. x.tables[t][k - NumDirect] = Given(d, i, wanted, k)
        BY <4>1, <4>2
      <4> QED
        BY <2>1, <3>2, <4>3, <1>16
    <3> QED
      BY <3>1, <3>2
  <2>2. CASE k = -1 /\ curr <= NumDirect /\ wanted > NumDirect
    <3>1. At(x, i, -1) = t
      BY <1>9, <1>10, PlacesOf
    <3>2. t = Given(d, i, wanted, -1)
      BY <2>2 DEF t, TableOf, NewTable
    <3> QED
      BY <2>2, <3>1, <3>2
  <2> QED
    BY <2>1, <2>2, <1>4
<1>18. ASSUME NEW k \in Places(d, i) PROVE At(x, i, k) = At(d, i, k)
  <2>1. CASE k \in Nat /\ k < curr
    <3>1. At(d, i, k) = Pointer(d, i, k) /\ k < wanted
      BY <2>1, <1>1, PlacesOf
    <3>2. CASE k < NumDirect
      <4>1. Pointer(d, i, k) = d.itable[i].i_direct[k]
        BY <3>2 DEF Pointer
      <4>2. e.i_direct[k] = d.itable[i].i_direct[k]
        BY <2>1, <3>2, <1>1, <1>9
      <4> QED
        BY <2>1, <3>1, <3>2, <4>1, <4>2, <1>16
    <3>3. CASE k >= NumDirect
      <4>1. Pointer(d, i, k) = d.tables[d.itable[i].i_indirect][k - NumDirect]
        BY <2>1, <3>3, <1>1, <1>2, PointersOf
      <4>2. wanted > NumDirect /\ ~NewTable(curr, wanted) /\ ~(k < NumDirect) /\ ~(curr <= k)
        BY <2>1, <3>1, <3>3, <1>1 DEF NewTable
      <4>3. x.tables[t][k - NumDirect] = d.tables[d.itable[i].i_indirect][k - NumDirect]
        BY <2>1, <3>1, <3>3, <4>2, <1>7
      <4> QED
        BY <2>1, <3>1, <4>1, <4>2, <4>3, <1>16
    <3> QED
      BY <3>2, <3>3, <2>1, <1>1
  <2>2. CASE k = -1 /\ curr > NumDirect
    <3>1. At(x, i, -1) = t /\ At(d, i, -1) = d.itable[i].i_indirect
      BY <1>1, <1>9, <1>10, PlacesOf
    <3>2. ~NewTable(curr, wanted) /\ wanted > NumDirect
      BY <2>2, <1>1 DEF NewTable
    <3> QED
      BY <2>2, <3>1, <3>2, <1>7
  <2> QED
    BY <2>1, <2>2, <1>12
<1>19. ASSUME NEW j \in L, j # i
       PROVE  /\ TableFilled(x, j) /\ Places(x, j) = Places(d, j)
              /\ \A k \in Places(d, j) : At(x, j, k) = At(d, j, k)
  <2>1. x.itable[j] = d.itable[j]
    BY <1>3, <1>10, <1>19
  <2>2. ASSUME d.itable[j].i_blocks > NumDirect
        PROVE  /\ d.itable[j].i_indirect \in DOMAIN d.tables
               /\ wanted > NumDirect => d.itable[j].i_indirect # t
    <3>1. HasTable(d, j)
      BY <2>2 DEF HasTable
    <3>2. d.itable[j].i_indirect \in DOMAIN d.tables /\ d.itable[j].i_indirect \in d.dbmap
      BY <3>1, <1>2 DEF TableFilled, Typed
    <3>3. ASSUME ~NewTable(curr, wanted), wanted > NumDirect, d.itable[j].i_indirect = t
          PROVE  FALSE
      <4>1. HasTable(d, i) /\ t = d.itable[i].i_indirect
        BY <3>3, <1>7
      <4>2. -1 \in Places(d, i) /\ -1 \in Places(d, j) /\ At(d, i, -1) = t
            /\ At(d, j, -1) = d.itable[j].i_indirect
        BY <3>1, <4>1, <1>1, <1>3, PlacesOf
      <4>3. NeverShared(d, L)
        BY DEF Linked
      <4> QED
        BY <3>3, <4>2, <4>3, <1>19, SharedOnce
    <3> QED
      BY <3>2, <3>3, <1>7
  <2>3. d.itable[j].i_blocks > NumDirect =>
          /\ d.itable[j].i_indirect \in DOMAIN x.tables
          /\ x.tables[d.itable[j].i_indirect] = d.tables[d.itable[j].i_indirect]
    BY <2>2, <1>7, <1>1
  <2>4. d.itable[j].i_blocks \in Nat /\ TableFilled(d, j)
    BY <1>2, <1>3
  <2>5. KeepsPointers(d, x, j)
    BY <2>1, <2>3, <2>4 DEF KeepsPointers
  <2>7. /\ TableFilled(x, j)
        /\ \A k \in Places(x, j) : k \in Places(d, j) /\ At(x, j, k) = At(d, j, k)
        /\ Places(x, j) = Places(d, j)
    BY <2>1, <2>4, <2>5, SamePointers
  <2> QED
    BY <2>7
<1>20. \A j \in L : x.itable[j].i_blocks <= MaxBlocks /\ TableFilled(x, j)
  BY <1>2, <1>3, <1>9, <1>10, <1>15, <1>19
<1>21. \A j \in L : \A k \in Places(d, j) : k \in Places(x, j) /\ At(x, j, k) = At(d, j, k)
  BY <1>13, <1>18, <1>19
<1>22. Linked(x, L)
  <2>1. \A b \in N : b \notin d.dbmap /\ b \in Nat
    BY <1>5, <1>8
  <2>2. \A k \in Places(x, i) : k \notin Places(d, i) => At(x, i, k) \in N
    BY <1>5, <1>13, <1>17
  <2>3. \A k, m \in Places(x, i) :
          k \notin Places(d, i) /\ m \notin Places(d, i) /\ At(x, i, k) = At(x, i, m) => k = m
    BY <1>5, <1>13, <1>17
  <2>4. \A b \in N : \E k \in Places(x, i) : b = At(x, i, k)
    BY <1>5, <1>13, <1>17
  <2>5. \A j \in L : j # i => Places(x, j) = Places(d, j)
    BY <1>19
  <2>6. x.dbmap = d.dbmap \cup N
    BY <1>6
  <2>7. DataRegion \in Nat
    BY <1>1
  <2> QED
    BY <2>1, <2>2, <2>3, <2>4, <2>5, <2>6, <2>7, <1>20, <1>21, LinkedGrows
<1>23. ASSUME NEW k \in Nat, curr <= k, k < wanted
       PROVE  /\ k \in Places(x, i)
              /\ At(x, i, k) \in x.dbmap /\ At(x, i, k) \notin d.dbmap
              /\ At(x, i, k) \notin DOMAIN x.tables
  <2>1. k \in new /\ k \in Places(x, i)
    BY <1>23, <1>4, <1>13
  <2>2. At(x, i, k) = Given(d, i, wanted, k) /\ At(x, i, k) \in N
    BY <2>1, <1>5, <1>17
  <2>3. At(x, i, k) \in x.dbmap /\ At(x, i, k) \notin d.dbmap
    BY <2>2, <1>5, <1>6
  <2>4. ASSUME At(x, i, k) \in DOMAIN x.tables PROVE FALSE
    <3>1. At(x, i, k) \notin DOMAIN d.tables
      BY <2>3 DEF Typed
    <3>2. wanted > NumDirect /\ At(x, i, k) = t
      BY <2>4, <3>1, <1>1, <1>7
    <3>3. HasTable(x, i)
      BY <3>2, <1>9, <1>10 DEF HasTable
    <3>4. -1 \in Places(x, i) /\ At(x, i, -1) = t
      BY <3>3, <1>9, <1>10, PlacesOf
    <3>5. NeverShared(x, L)
      BY <1>22 DEF Linked
    <3>6. k = -1
      BY <2>1, <3>2, <3>4, <3>5, SharedOnce
    <3> QED
      BY <3>6
  <2> QED
    BY <2>1, <2>3, <2>4
<1>24. d.free_blocks = Clear(d) => x.free_blocks = Clear(x)
  <2>1. IsFiniteSet(d.dbmap) /\ Cardinality(d.dbmap) \in Nat /\ NumBlocks \in Nat
    BY ClearTypes, ConstantTypes
  <2>2. Cardinality(d.dbmap \cup N) = Cardinality(d.dbmap) + need
    BY <2>1, <1>5, CountedUnion
  <2> QED
    BY <2>1, <2>2, <1>4, <1>6 DEF Clear
<1>25. \A b \in d.dbmap : b \in x.dbmap
  BY <1>6
<1>26. Extended(d, x, L, i, wanted)
  BY <1>6, <1>9, <1>10, <1>21, <1>23, <1>24, <1>25 DEF Extended
<1> QED
  BY <1>11, <1>22, <1>26 DEF x

-----------------------------------------------------------------------------
(***************************************************************************)
(* An inode shrinks: the blocks Free gives back.                           *)
(***************************************************************************)

GonePlaces(d, i, low, table) ==
  low .. d.itable[i].i_blocks - 1 \cup (IF table THEN {-1} ELSE {})

GoneBlocks(d, i, low, table) == {At(d, i, k) : k \in GonePlaces(d, i, low, table)}

\* The list holds each block of the places that go, once, and all are in use.
LEMMA GoneList ==
  ASSUME NEW d, Typed(d), NEW L \in SUBSET Inodes, Linked(d, L), NEW i \in L,
         NEW low \in Nat, low <= d.itable[i].i_blocks,
         NEW table \in BOOLEAN, table => HasTable(d, i)
  PROVE  LET list == BlocksFrom(d, i, low, table)
             F == GoneBlocks(d, i, low, table)
         IN /\ IsInjective(list) /\ Range(list) = F
            /\ F \subseteq d.dbmap /\ \A b \in F : b \in Nat /\ b >= DataRegion
            /\ IsFiniteSet(F) /\ Len(list) = Cardinality(F)
            /\ \A k \in GonePlaces(d, i, low, table) : k \in Places(d, i)
<1> DEFINE curr == d.itable[i].i_blocks
           n == curr - low
           m == n + (IF table THEN 1 ELSE 0)
           list == BlocksFrom(d, i, low, table)
           F == GoneBlocks(d, i, low, table)
           gone == GonePlaces(d, i, low, table)
           P(p) == IF p <= n THEN low + p - 1 ELSE -1
<1>1. curr \in Nat /\ n \in Nat /\ m \in Nat /\ NumDirect \in Nat
  <2>1. i \in Inodes
    OBVIOUS
  <2>2. curr \in Nat /\ NumDirect \in Nat
    BY <2>1, InodeFields, ConstantTypes
  <2> HIDE DEF curr
  <2>3. n \in Nat
    BY <2>2 DEF curr
  <2> QED
    BY <2>2, <2>3
<1>2. \A k : k \in gone <=> k \in low .. curr - 1 \/ (table /\ k = -1)
  BY DEF GonePlaces
<1>3. /\ \A k : k \in Places(d, i) <=>
              \/ k \in Nat /\ k < curr
              \/ k = -1 /\ curr > NumDirect
      /\ \A k \in Nat : At(d, i, k) = Pointer(d, i, k)
      /\ At(d, i, -1) = d.itable[i].i_indirect
  BY <1>1, PlacesOf
<1>4. \A k \in gone : k \in Places(d, i)
  BY <1>1, <1>2, <1>3 DEF HasTable
<1>5. list = [p \in 1 .. m |->
                IF p <= n THEN Pointer(d, i, low + p - 1) ELSE d.itable[i].i_indirect]
  BY DEF BlocksFrom
<1> HIDE DEF curr, m, list, F, gone
<1>6. ASSUME NEW p \in 1 .. m
      PROVE  P(p) \in gone /\ list[p] = At(d, i, P(p))
  <2>1. CASE p <= n
    <3>1. low + p - 1 \in low .. curr - 1 /\ low + p - 1 \in Nat
      BY <2>1, <1>1
    <3>2. list[p] = Pointer(d, i, low + p - 1)
      BY <2>1, <1>5
    <3> QED
      BY <2>1, <3>1, <3>2, <1>2, <1>3
  <2>2. CASE ~(p <= n)
    <3>1. table
      BY <2>2, <1>1 DEF m
    <3>2. list[p] = d.itable[i].i_indirect
      BY <2>2, <1>5
    <3> QED
      BY <2>2, <3>1, <3>2, <1>2, <1>3
  <2> QED
    BY <2>1, <2>2
<1>7. \A p, q \in 1 .. m : P(p) = P(q) => p = q
  BY <1>1 DEF m
<1>8. ASSUME NEW k \in gone PROVE \E p \in 1 .. m : P(p) = k
  <2>1. CASE k \in low .. curr - 1
    <3>1. k - low + 1 \in 1 .. m /\ P(k - low + 1) = k
      BY <2>1, <1>1 DEF m
    <3> QED
      BY <3>1
  <2>2. CASE table /\ k = -1
    <3>1. n + 1 \in 1 .. m /\ P(n + 1) = k
      BY <2>2, <1>1 DEF m
    <3> QED
      BY <3>1
  <2> QED
    BY <2>1, <2>2, <1>2
<1>9. \A p, q \in 1 .. m : list[p] = list[q] => p = q
  <2> SUFFICES ASSUME NEW p \in 1 .. m, NEW q \in 1 .. m, list[p] = list[q]
               PROVE  p = q
    OBVIOUS
  <2>1. P(p) \in Places(d, i) /\ P(q) \in Places(d, i) /\ At(d, i, P(p)) = At(d, i, P(q))
    BY <1>4, <1>6
  <2>2. NeverShared(d, L)
    BY DEF Linked
  <2> HIDE DEF P
  <2>3. P(p) = P(q)
    BY <2>1, <2>2, SharedOnce
  <2> QED
    BY <2>3, <1>7
<1> HIDE DEF P
<1>10. list \in [1 .. m -> Range(list)] /\ DOMAIN list = 1 .. m
  BY <1>5 DEF Range
<1>11. IsFiniteSet(1 .. m) /\ Cardinality(1 .. m) = m
  BY <1>1, FS_Interval
<1>12. /\ IsFiniteSet(Range(list)) /\ Cardinality(Range(list)) = m
       /\ Range(list) = {list[p] : p \in 1 .. m}
  <2>1. IsFiniteSet(Range(list)) /\ Cardinality(Range(list)) = Cardinality(1 .. m)
    BY <1>9, <1>10, <1>11, InjectiveRange
  <2>2. Range(list) = {list[p] : p \in 1 .. m}
    BY <1>10 DEF Range
  <2> QED
    BY <2>1, <2>2, <1>11
<1>13. F = {At(d, i, k) : k \in gone}
  BY DEF F, gone, GoneBlocks
<1>14. Range(list) = F
  BY <1>6, <1>8, <1>12, <1>13
<1>15. IsInjective(list)
  BY <1>9, <1>10 DEF IsInjective
<1>16. list \in Seq(Range(list)) /\ Len(list) = m
  BY <1>1, <1>10
<1>17. F \subseteq d.dbmap /\ \A b \in F : b \in Nat /\ b >= DataRegion
  <2>1. \A b \in d.dbmap : b \in Nat
    BY ConstantTypes DEF Typed, Blocks
  <2>2. \A k \in gone : At(d, i, k) \in d.dbmap /\ At(d, i, k) >= DataRegion
    BY <1>4 DEF Linked, InUse
  <2> QED
    BY <2>1, <2>2, <1>13
<1> QED
  BY <1>4, <1>12, <1>14, <1>15, <1>16, <1>17 DEF list, F, gone

\* What Free leaves when the blocks F go back.
Freed(d, x, F) ==
  /\ IsImage(x) /\ x.status = "ok"
  /\ x.free_inodes = d.free_inodes /\ x.ibmap = d.ibmap /\ x.itable = d.itable
  /\ x.free_blocks \in Int /\ x.dbmap = d.dbmap \ F
  /\ d.free_blocks = Clear(d) => x.free_blocks = Clear(x)
  /\ DOMAIN x.data = DOMAIN d.data \ F /\ \A b \in DOMAIN x.data : x.data[b] = d.data[b]
  /\ DOMAIN x.dirs = DOMAIN d.dirs \ F /\ \A b \in DOMAIN x.dirs : x.dirs[b] = d.dirs[b]
  /\ DOMAIN x.tables = DOMAIN d.tables \ F
  /\ \A b \in DOMAIN x.tables : x.tables[b] = d.tables[b]

LEMMA FreeSteps ==
  ASSUME NEW d, Typed(d), NEW F \in SUBSET d.dbmap, IsFiniteSet(F),
         NEW list, IsInjective(list), Range(list) = F, Len(list) = Cardinality(F)
  PROVE  Freed(d, Free(d, list), F)
<1> DEFINE D == Restrict(d.data, DOMAIN d.data \ F)
           E == Restrict(d.dirs, DOMAIN d.dirs \ F)
           T == Restrict(d.tables, DOMAIN d.tables \ F)
           y == [d EXCEPT !.dbmap = @ \ F, !.free_blocks = @ + Len(list),
                          !.data = D, !.dirs = E, !.tables = T]
<1>1. Free(d, list) = y
  BY DEF Free
<1>2. IsImage(d) /\ d.status = "ok" /\ d.free_blocks \in Int
  BY DEF Typed
<1>3. /\ DOMAIN D = DOMAIN d.data \ F /\ \A b \in DOMAIN D : D[b] = d.data[b]
      /\ DOMAIN E = DOMAIN d.dirs \ F /\ \A b \in DOMAIN E : E[b] = d.dirs[b]
      /\ DOMAIN T = DOMAIN d.tables \ F /\ \A b \in DOMAIN T : T[b] = d.tables[b]
  BY DEF Restrict
<1>4. Cardinality(F) \in Nat
  BY FS_CardinalityType
<1> HIDE DEF D, E, T
<1>5. ASSUME NEW x, x = y
      PROVE  /\ IsImage(x) /\ x.status = "ok"
             /\ x.free_inodes = d.free_inodes /\ x.ibmap = d.ibmap /\ x.itable = d.itable
             /\ x.free_blocks = d.free_blocks + Len(list)
             /\ x.dbmap = d.dbmap \ F
             /\ x.data = D /\ x.dirs = E /\ x.tables = T
  BY <1>2, <1>5 DEF IsImage
<1> HIDE DEF y
<1>6. y.free_blocks \in Int
  BY <1>2, <1>4, <1>5
<1>7. d.free_blocks = Clear(d) => y.free_blocks = Clear(y)
  <2>1. IsFiniteSet(d.dbmap) /\ Cardinality(d.dbmap) \in Nat /\ NumBlocks \in Nat
    BY ClearTypes, ConstantTypes
  <2>2. Cardinality(d.dbmap \ F) = Cardinality(d.dbmap) - Cardinality(F)
    BY <2>1, CountedUnion
  <2>3. Clear(y) = NumBlocks - Cardinality(d.dbmap \ F)
    BY <1>5 DEF Clear
  <2>4. y.free_blocks = d.free_blocks + Cardinality(F)
    BY <1>5
  <2> QED
    BY <2>1, <2>2, <2>3, <2>4, <1>4 DEF Clear
<1>8. Freed(d, y, F)
  BY <1>3, <1>5, <1>6, <1>7 DEF Freed
<1> QED
  BY <1>1, <1>8

\* Either inode i keeps its first blocks, or it goes.
Remains(d, y, L, K, i, low) ==
  \/ /\ K = L /\ y.itable[i].i_blocks = low
     /\ y.itable[i].i_direct = d.itable[i].i_direct
     /\ y.itable[i].i_indirect = d.itable[i].i_indirect
  \/ K = L \ {i} /\ low = 0

LEMMA Removal ==
  ASSUME NEW d, Typed(d), NEW L \in SUBSET Inodes, Linked(d, L), NEW i \in L,
         NEW low \in Nat, low <= d.itable[i].i_blocks,
         NEW table \in BOOLEAN, table <=> HasTable(d, i) /\ low <= NumDirect,
         NEW x, Freed(d, x, GoneBlocks(d, i, low, table)),
         NEW y, y.dbmap = x.dbmap, y.tables = x.tables,
         \A j \in Inodes : j # i => y.itable[j] = d.itable[j],
         NEW K, Remains(d, y, L, K, i, low)
  PROVE  /\ Linked(y, K)
         /\ \A j \in K : \A k \in Places(y, j) :
              /\ k \in Places(d, j) /\ At(y, j, k) = At(d, j, k)
              /\ At(d, j, k) \notin GoneBlocks(d, i, low, table)
         /\ \A j \in K : j # i => Places(y, j) = Places(d, j)
<1> DEFINE F == GoneBlocks(d, i, low, table)
           gone == GonePlaces(d, i, low, table)
           curr == d.itable[i].i_blocks
<1>1. NumDirect \in Nat /\ DataRegion \in Nat /\ \A j \in L : j \in Inodes
  BY ConstantTypes, LayoutTypes
<1>2. \A j \in L : /\ d.itable[j].i_blocks \in Nat /\ TableFilled(d, j)
                   /\ d.itable[j].i_blocks <= MaxBlocks
  BY <1>1, InodeFields DEF Linked
<1>3. NeverShared(d, L)
  BY DEF Linked
<1>4. /\ \A b \in F : b \in Nat /\ b >= DataRegion
      /\ \A k \in gone : k \in Places(d, i)
  BY GoneList
<1>5. K \subseteq L /\ \A j \in L : j # i => j \in K
  BY DEF Remains
<1>6. \A k : k \in gone <=> k \in low .. curr - 1 \/ (table /\ k = -1)
  BY DEF GonePlaces
<1>7. F = {At(d, i, k) : k \in gone}
  BY DEF GoneBlocks
<1> HIDE DEF F, gone
<1>8. ASSUME NEW j \in L, NEW k \in Places(d, j)
      PROVE  At(d, j, k) \in F <=> j = i /\ k \in gone
  <2>1. ASSUME At(d, j, k) \in F PROVE j = i /\ k \in gone
    <3>1. PICK m \in gone : At(d, j, k) = At(d, i, m)
      BY <2>1, <1>7
    <3>2. m \in Places(d, i)
      BY <1>4
    <3>3. j = i /\ k = m
      BY <3>1, <3>2, <1>3, SharedOnce
    <3> QED
      BY <3>3
  <2> QED
    BY <2>1, <1>7
<1>9. DOMAIN y.tables = DOMAIN d.tables \ F /\ \A b \in DOMAIN y.tables : y.tables[b] = d.tables[b]
  BY DEF Freed, F
<1>10. ASSUME NEW j \in L, HasTable(d, j), j # i \/ ~table
       PROVE  /\ d.itable[j].i_indirect \in DOMAIN y.tables
              /\ y.tables[d.itable[j].i_indirect] = d.tables[d.itable[j].i_indirect]
  <2>1. -1 \in Places(d, j) /\ At(d, j, -1) = d.itable[j].i_indirect
    BY <1>2, <1>10, PlacesOf
  <2>2. ~(j = i /\ -1 \in gone)
    BY <1>6, <1>10
  <2>3. d.itable[j].i_indirect \notin F
    BY <2>1, <2>2, <1>8
  <2>4. d.itable[j].i_indirect \in DOMAIN d.tables
    BY <1>2, <1>10 DEF TableFilled
  <2> QED
    BY <2>3, <2>4, <1>9
<1>11. ASSUME NEW j \in K PROVE KeepsPointers(d, y, j)
  <2>1. CASE j # i
    <3>1. y.itable[j] = d.itable[j] /\ j \in L
      BY <2>1, <1>1, <1>5
    <3>2. d.itable[j].i_blocks > NumDirect =>
            /\ d.itable[j].i_indirect \in DOMAIN y.tables
            /\ y.tables[d.itable[j].i_indirect] = d.tables[d.itable[j].i_indirect]
      BY <2>1, <3>1, <1>10 DEF HasTable
    <3> QED
      BY <3>1, <3>2, <1>2 DEF KeepsPointers
  <2>2. CASE j = i
    <3>1. /\ y.itable[i].i_blocks = low
          /\ y.itable[i].i_direct = d.itable[i].i_direct
          /\ y.itable[i].i_indirect = d.itable[i].i_indirect
      BY <2>2 DEF Remains
    <3>2. low > NumDirect => HasTable(d, i) /\ ~table
      BY <1>1, <1>2 DEF HasTable
    <3>3. low > NumDirect =>
            /\ d.itable[i].i_indirect \in DOMAIN y.tables
            /\ y.tables[d.itable[i].i_indirect] = d.tables[d.itable[i].i_indirect]
      BY <3>2, <1>10
    <3> QED
      BY <2>2, <3>1, <3>3 DEF KeepsPointers
  <2> QED
    BY <2>1, <2>2
<1>12. ASSUME NEW j \in K
       PROVE  /\ TableFilled(y, j)
              /\ \A k \in Places(y, j) : k \in Places(d, j) /\ At(y, j, k) = At(d, j, k)
              /\ y.itable[j].i_blocks = d.itable[j].i_blocks => Places(y, j) = Places(d, j)
              /\ y.itable[j].i_blocks \in Nat /\ y.itable[j].i_blocks <= d.itable[j].i_blocks
  <2>1. j \in L /\ KeepsPointers(d, y, j)
    BY <1>5, <1>11
  <2>2. TableFilled(d, j) /\ d.itable[j].i_blocks \in Nat
    BY <2>1, <1>2
  <2> QED
    BY <2>1, <2>2, SamePointers DEF KeepsPointers
<1>13. \A j \in K : j # i => Places(y, j) = Places(d, j)
  BY <1>1, <1>5, <1>12
<1>14. i \in K => \A k : /\ k \in Places(y, i) => k \notin gone
                         /\ k \in Places(d, i) /\ k \notin gone => k \in Places(y, i)
  <2> SUFFICES ASSUME i \in K, NEW k
               PROVE  /\ k \in Places(y, i) => k \notin gone
                      /\ k \in Places(d, i) /\ k \notin gone => k \in Places(y, i)
    OBVIOUS
  <2>1. y.itable[i].i_blocks = low
    BY DEF Remains
  <2>2. /\ k \in Places(y, i) <=>
             \/ k \in Nat /\ k < low
             \/ k = -1 /\ low > NumDirect
        /\ k \in Places(d, i) <=>
             \/ k \in Nat /\ k < curr
             \/ k = -1 /\ curr > NumDirect
    BY <2>1, <1>2, PlacesOf
  <2>3. table <=> curr > NumDirect /\ low <= NumDirect
    BY DEF HasTable
  <2>4. curr \in Nat /\ low <= curr
    BY <1>2
  <2> HIDE DEF curr
  <2>5. CASE k = -1
    <3>1. k \notin Nat /\ k \notin low .. curr - 1
      BY <2>5, <2>4
    <3> QED
      BY <2>5, <3>1, <2>2, <2>3, <1>6, <1>1
  <2>6. CASE k \in Nat
    <3>1. k # -1 /\ (k \in low .. curr - 1 <=> low <= k /\ k < curr)
      BY <2>6, <2>4
    <3> QED
      BY <2>6, <3>1, <2>2, <2>4, <1>6
  <2> QED
    BY <2>5, <2>6, <2>2
<1>15. \A j \in K : \A k \in Places(y, j) :
         k \in Places(d, j) /\ At(y, j, k) = At(d, j, k) /\ At(d, j, k) \notin F
  <2> SUFFICES ASSUME NEW j \in K, NEW k \in Places(y, j)
               PROVE  k \in Places(d, j) /\ At(y, j, k) = At(d, j, k) /\ At(d, j, k) \notin F
    OBVIOUS
  <2>1. j \in L /\ k \in Places(d, j) /\ At(y, j, k) = At(d, j, k)
    BY <1>5, <1>12
  <2>2. ~(j = i /\ k \in gone)
    BY <1>14
  <2> QED
    BY <2>1, <2>2, <1>8
<1>16. \A j \in L : \A k \in Places(d, j) : At(d, j, k) \notin F => j \in K /\ k \in Places(y, j)
  <2> SUFFICES ASSUME NEW j \in L, NEW k \in Places(d, j), At(d, j, k) \notin F
               PROVE  j \in K /\ k \in Places(y, j)
    OBVIOUS
  <2>1. ~(j = i /\ k \in gone)
    BY <1>8
  <2>2. CASE j # i
    BY <2>2, <1>5, <1>13
  <2>3. CASE j = i /\ i \in K
    BY <2>1, <2>3, <1>14
  <2>4. CASE j = i /\ i \notin K
    <3>1. low = 0
      BY <2>4 DEF Remains
    <3>2. table <=> curr > NumDirect
      BY <3>1, <1>1 DEF HasTable
    <3>3. \/ k \in Nat /\ k < curr
          \/ k = -1 /\ curr > NumDirect
      BY <2>4, <1>2, PlacesOf
    <3>4. k \in gone
      BY <3>1, <3>2, <3>3, <1>2, <1>6
    <3> QED
      BY <3>4, <2>1, <2>4
  <2> QED
    BY <2>2, <2>3, <2>4
<1>17. \A j \in K : y.itable[j].i_blocks <= MaxBlocks /\ TableFilled(y, j)
  <2> SUFFICES ASSUME NEW j \in K
               PROVE  y.itable[j].i_blocks <= MaxBlocks /\ TableFilled(y, j)
    OBVIOUS
  <2>1. j \in L
    BY <1>5
  <2>2. d.itable[j].i_blocks <= MaxBlocks /\ d.itable[j].i_blocks \in Nat /\ MaxBlocks \in Nat
    BY <2>1, <1>2, ConstantTypes
  <2> QED
    BY <2>2, <1>12
<1>18. y.dbmap = d.dbmap \ F
  BY DEF Freed, F
<1>19. Linked(y, K)
  <2>1. K \in SUBSET L
    BY <1>5
  <2> QED
    BY <2>1, <1>1, <1>4, <1>15, <1>16, <1>17, <1>18, LinkedShrinks
<1> QED
  BY <1>13, <1>15, <1>19 DEF F

-----------------------------------------------------------------------------
(***************************************************************************)
(* The directory.                                                          *)
(***************************************************************************)

\* An entry is found by its block and its index there.
LEMMA EntryIndex ==
  ASSUME NEW n \in Nat, NEW e \in 0 .. n * PerBlock - 1
  PROVE  /\ e \div PerBlock \in 0 .. n - 1 /\ e % PerBlock \in 0 .. PerBlock - 1
         /\ \A f \in Nat : f \div PerBlock = e \div PerBlock /\ f % PerBlock = e % PerBlock => f = e
<1> DEFINE s == PerBlock
<1>1. s \in Nat \ {0}
  BY ConstantTypes
<1>2. e \in Nat
  OBVIOUS
<1>3. \A f \in Nat : f \div s \in Nat /\ f % s \in 0 .. s - 1 /\ f = (f \div s) * s + (f % s)
  BY <1>1, Multiples
<1>4. (e \div s) * s < n * s
  <2> DEFINE q == e \div s
             r == e % s
  <2>1. q \in Nat /\ r \in 0 .. s - 1 /\ e = q * s + r
    BY <1>2, <1>3
  <2>2. q * s \in Int /\ n * s \in Int
    BY <1>1, <2>1
  <2> HIDE DEF q, r
  <2> QED
    BY <2>1, <2>2 DEF q
<1>5. e \div s < n
  <2>1. e \div s \in Int /\ n \in Int
    BY <1>2, <1>3
  <2> QED
    BY <1>1, <1>4, <2>1, Multiples
<1>6. \A f \in Nat : f \div s = e \div s /\ f % s = e % s => f = e
  BY <1>2, <1>3
<1> QED
  BY <1>2, <1>3, <1>5, <1>6

\* The first entries are in the first block.
LEMMA FirstEntries ==
  ASSUME NEW d, d.itable[ROOT_INO].i_blocks \in Nat, d.itable[ROOT_INO].i_blocks >= 1
  PROVE  0 \in Entries(d) /\ 1 \in Entries(d)
<1> DEFINE n == d.itable[ROOT_INO].i_blocks
<1>1. PerBlock \in Nat \ {0} /\ PerBlock >= 2
  BY ConstantTypes
<1>2. n = 1 \/ 1 < n
  OBVIOUS
<1> HIDE DEF n
<1>3. n \in Nat /\ 1 * PerBlock = PerBlock /\ n * PerBlock \in Int
  BY <1>1 DEF n
<1>4. 1 < n => 1 * PerBlock + PerBlock <= n * PerBlock
  BY <1>1, <1>3, Multiples
<1>5. n * PerBlock >= 2
  BY <1>1, <1>2, <1>3, <1>4
<1> QED
  BY <1>5, <1>3 DEF Entries, n

LEMMA RootFacts ==
  /\ ROOT_INO = 0 /\ ROOT_INO \in Inodes /\ INO_MAX = NumInodes /\ INO_MAX \notin Inodes
  /\ \A i \in Inodes : i \in 0 .. INO_MAX
  BY ConstantTypes DEF ROOT_INO, Inodes, INO_MAX

LEMMA NameFacts == "" \notin Names /\ "." \notin Names /\ ".." \notin Names
  BY FSAssumption

\* Two images with the same blocks of entries have the same entries.
LEMMA SameEntries ==
  ASSUME NEW d, NEW x, d.itable[ROOT_INO].i_blocks \in Nat,
         x.itable[ROOT_INO].i_blocks = d.itable[ROOT_INO].i_blocks,
         \A k \in 0 .. d.itable[ROOT_INO].i_blocks - 1 :
           /\ Pointer(x, ROOT_INO, k) = Pointer(d, ROOT_INO, k)
           /\ x.dirs[Pointer(d, ROOT_INO, k)] = d.dirs[Pointer(d, ROOT_INO, k)]
  PROVE  Entries(x) = Entries(d) /\ \A e \in Entries(d) : Entry(x, e) = Entry(d, e)
<1>1. Entries(x) = Entries(d)
  BY DEF Entries
<1>2. ASSUME NEW e \in Entries(d) PROVE Entry(x, e) = Entry(d, e)
  <2>1. e \div PerBlock \in 0 .. d.itable[ROOT_INO].i_blocks - 1
    BY EntryIndex DEF Entries
  <2> QED
    BY <2>1 DEF Entry
<1> QED
  BY <1>1, <1>2

\* The blocks of the directory hold entries.
LEMMA EntryTypes ==
  ASSUME NEW d, Typed(d), NEW L, ROOT_INO \in L, Roles(d, L), NEW e \in Entries(d)
  PROVE  /\ e \in Nat
         /\ e \div PerBlock \in Nat /\ e \div PerBlock < d.itable[ROOT_INO].i_blocks
         /\ e % PerBlock \in 0 .. PerBlock - 1
         /\ Pointer(d, ROOT_INO, e \div PerBlock) \in DOMAIN d.dirs
         /\ d.dirs[Pointer(d, ROOT_INO, e \div PerBlock)] \in DirBlock
         /\ Entry(d, e) \in DirEntry
<1> DEFINE n == d.itable[ROOT_INO].i_blocks
           k == e \div PerBlock
<1>1. n \in Nat
  BY RootFacts, InodeFields
<1>2. k \in 0 .. n - 1 /\ e % PerBlock \in 0 .. PerBlock - 1 /\ e \in Nat
  <2>1. e \in 0 .. n * PerBlock - 1
    BY DEF Entries
  <2> HIDE DEF n
  <2>2. n * PerBlock \in Int
    BY <1>1, ConstantTypes
  <2>3. e \in Nat
    BY <2>1, <2>2
  <2>4. k \in 0 .. n - 1 /\ e % PerBlock \in 0 .. PerBlock - 1
    BY <2>1, <1>1, EntryIndex
  <2> QED
    BY <2>3, <2>4
<1> HIDE DEF k
<1>3. At(d, ROOT_INO, k) \in DOMAIN d.dirs
  BY <1>2 DEF Roles
<1>4. At(d, ROOT_INO, k) = Pointer(d, ROOT_INO, k)
  BY <1>1, <1>2, PlacesOf
<1>5. d.dirs[Pointer(d, ROOT_INO, k)] \in DirBlock
  BY <1>3, <1>4 DEF Typed
<1>6. d.dirs[Pointer(d, ROOT_INO, k)][e % PerBlock] \in DirEntry
  BY <1>2, <1>5 DEF DirBlock
<1> QED
  BY <1>1, <1>2, <1>3, <1>4, <1>5, <1>6 DEF Entry, k

\* SetEntry changes one entry, and nothing but the blocks of entries.
LEMMA SetEntrySteps ==
  ASSUME NEW d, Typed(d), NEW L \in SUBSET Inodes, ROOT_INO \in L, Roles(d, L), NeverShared(d, L),
         NEW e \in Entries(d), NEW entry \in DirEntry
  PROVE  LET x == SetEntry(d, e, entry)
         IN /\ Typed(x)
            /\ x.free_blocks = d.free_blocks /\ x.free_inodes = d.free_inodes
            /\ x.dbmap = d.dbmap /\ x.ibmap = d.ibmap /\ x.itable = d.itable
            /\ x.data = d.data /\ x.tables = d.tables /\ DOMAIN x.dirs = DOMAIN d.dirs
            /\ Entries(x) = Entries(d)
            /\ \A f \in Entries(d) : Entry(x, f) = IF f = e THEN entry ELSE Entry(d, f)
<1> DEFINE b == Pointer(d, ROOT_INO, e \div PerBlock)
           c == e % PerBlock
           D == [d.dirs EXCEPT ![b][c] = entry]
           y == [d EXCEPT !.dirs = D]
<1>1. SetEntry(d, e, entry) = y
  BY DEF SetEntry
<1>2. IsImage(d)
  BY DEF Typed
<1>3. c \in 0 .. PerBlock - 1 /\ b \in DOMAIN d.dirs /\ d.dirs[b] \in DirBlock
  BY EntryTypes
<1>4. DOMAIN D = DOMAIN d.dirs
  OBVIOUS
<1>5. \A a \in DOMAIN D : D[a] = IF a = b THEN [d.dirs[b] EXCEPT ![c] = entry] ELSE d.dirs[a]
  BY <1>3
<1> HIDE DEF D
<1>6. ASSUME NEW x, x = y
      PROVE  /\ IsImage(x) /\ x.status = d.status
             /\ x.free_blocks = d.free_blocks /\ x.free_inodes = d.free_inodes
             /\ x.dbmap = d.dbmap /\ x.ibmap = d.ibmap /\ x.itable = d.itable
             /\ x.data = d.data /\ x.tables = d.tables /\ x.dirs = D
  BY <1>2, <1>6 DEF IsImage
<1> HIDE DEF y
<1>7. \A a \in DOMAIN D : D[a] \in DirBlock
  <2>1. [d.dirs[b] EXCEPT ![c] = entry] \in DirBlock
    BY <1>3 DEF DirBlock
  <2>2. \A a \in DOMAIN d.dirs : d.dirs[a] \in DirBlock
    BY DEF Typed
  <2> QED
    BY <2>1, <2>2, <1>4, <1>5
<1>8. Typed(y)
  BY <1>4, <1>6, <1>7 DEF Typed
<1>9. Entries(y) = Entries(d) /\ \A k : Pointer(y, ROOT_INO, k) = Pointer(d, ROOT_INO, k)
  BY <1>6 DEF Entries, Pointer
<1>10. ASSUME NEW f \in Entries(d)
       PROVE  Entry(y, f) = IF f = e THEN entry ELSE Entry(d, f)
  <2> DEFINE g == Pointer(d, ROOT_INO, f \div PerBlock)
  <2>1. /\ f \in Nat /\ e \in Nat /\ f \div PerBlock \in Nat /\ e \div PerBlock \in Nat
        /\ f \div PerBlock < d.itable[ROOT_INO].i_blocks
        /\ e \div PerBlock < d.itable[ROOT_INO].i_blocks
        /\ f % PerBlock \in 0 .. PerBlock - 1
        /\ g \in DOMAIN d.dirs
    BY EntryTypes
  <2>2. Entry(y, f) = D[g][f % PerBlock] /\ Entry(d, f) = d.dirs[g][f % PerBlock]
    BY <1>6, <1>9 DEF Entry
  <2>3. CASE g # b
    <3>1. f # e
      BY <2>3
    <3> QED
      BY <2>1, <2>2, <2>3, <3>1, <1>4, <1>5
  <2>4. CASE g = b
    <3>1. f \div PerBlock = e \div PerBlock
      <4>1. d.itable[ROOT_INO].i_blocks \in Nat
        BY RootFacts, InodeFields
      <4>2. /\ f \div PerBlock \in Places(d, ROOT_INO) /\ e \div PerBlock \in Places(d, ROOT_INO)
            /\ At(d, ROOT_INO, f \div PerBlock) = g /\ At(d, ROOT_INO, e \div PerBlock) = b
        BY <2>1, <4>1, PlacesOf
      <4> QED
        BY <2>4, <4>2, SharedOnce
    <3>2. D[g] = [d.dirs[b] EXCEPT ![c] = entry]
      BY <2>1, <2>4, <1>4, <1>5
    <3>3. CASE f % PerBlock = c
      <4>1. f = e
        <5>1. e \in 0 .. d.itable[ROOT_INO].i_blocks * PerBlock - 1
              /\ d.itable[ROOT_INO].i_blocks \in Nat
          BY RootFacts, InodeFields DEF Entries
        <5> QED
          BY <2>1, <3>1, <3>3, <5>1, EntryIndex
      <4>2. D[g][c] = entry
        BY <3>2, <1>3 DEF DirBlock
      <4> QED
        BY <2>2, <3>3, <4>1, <4>2
    <3>4. CASE f % PerBlock # c
      <4>1. f # e
        BY <3>4
      <4>2. D[g][f % PerBlock] = d.dirs[b][f % PerBlock]
        BY <2>1, <3>2, <3>4, <1>3 DEF DirBlock
      <4> QED
        BY <2>2, <2>4, <4>1, <4>2
    <3> QED
      BY <3>3, <3>4
  <2> QED
    BY <2>3, <2>4
<1> QED
  BY <1>1, <1>4, <1>6, <1>8, <1>9, <1>10

\* Calls on files that leave the directory alone.
LEMMA DirectoryKept ==
  ASSUME NEW d, NEW x, NEW L, Directory(d, L), 0 \in Entries(d), 1 \in Entries(d),
         Entries(x) = Entries(d), \A e \in Entries(d) : Entry(x, e) = Entry(d, e),
         x.itable[ROOT_INO].i_blocks = d.itable[ROOT_INO].i_blocks,
         \A i \in L : x.itable[i].i_nlink = d.itable[i].i_nlink
  PROVE  Directory(x, L)
<1>1. \A e \in Entries(d) : NamesFile(x, e) <=> NamesFile(d, e)
  BY DEF NamesFile
<1> QED
  BY <1>1 DEF Directory

\* An entry for a new file, in a place that was unused or is new.
LEMMA DirectoryAdds ==
  ASSUME NEW d, NEW x, NEW L, Directory(d, L), 0 \in Entries(d), 1 \in Entries(d),
         NEW ino \in Inodes, ino \notin L, NEW name \in Names,
         \A e \in Entries(d) : Entry(d, e).name # name,
         NEW new \in Entries(x), new \notin {0, 1},
         new \in Entries(d) => Entry(d, new) = Unused,
         Entry(x, new) = [ino |-> ino, name |-> name],
         Entries(d) \subseteq Entries(x),
         \A e \in Entries(x) : e # new =>
           Entry(x, e) = IF e \in Entries(d) THEN Entry(d, e) ELSE Unused,
         x.itable[ROOT_INO].i_blocks >= 1,
         \A i \in L : x.itable[i].i_nlink = d.itable[i].i_nlink,
         x.itable[ino].i_nlink = 1
  PROVE  Directory(x, L \cup {ino})
<1>1. ROOT_INO \in L /\ ino # ROOT_INO
  BY DEF Directory
<1>2. Entry(x, new).ino = ino /\ Entry(x, new).name = name /\ Entry(x, new) # Unused
  <2>1. Unused.ino = INO_MAX
    BY DEF Unused
  <2> QED
    BY <2>1, RootFacts
<1>3. \A e \in Entries(x) : NamesFile(x, e) <=> e = new \/ (e \in Entries(d) /\ NamesFile(d, e))
  BY <1>2 DEF NamesFile
<1>4. \A e \in Entries(d) : NamesFile(d, e) => e # new /\ Entry(x, e) = Entry(d, e)
  BY DEF NamesFile
<1>5. Entry(x, 0) = Entry(d, 0) /\ Entry(x, 1) = Entry(d, 1)
  OBVIOUS
<1>6. \A e \in Entries(x) : NamesFile(x, e) =>
        /\ Entry(x, e).ino \in L \cup {ino} /\ Entry(x, e).ino # ROOT_INO
        /\ Entry(x, e).name \in Names
  BY <1>1, <1>2, <1>3, <1>4 DEF Directory
<1>7. \A e, f \in Entries(x) : NamesFile(x, e) /\ NamesFile(x, f) =>
        \/ e = f
        \/ Entry(x, e).name # Entry(x, f).name /\ Entry(x, e).ino # Entry(x, f).ino
  <2>1. \A e \in Entries(d) : NamesFile(d, e) =>
          Entry(d, e).ino # ino /\ Entry(d, e).name # name
    BY DEF Directory
  <2>2. \A e, f \in Entries(d) : NamesFile(d, e) /\ NamesFile(d, f) =>
          \/ e = f
          \/ Entry(d, e).name # Entry(d, f).name /\ Entry(d, e).ino # Entry(d, f).ino
    BY DEF Directory
  <2> QED
    BY <2>1, <2>2, <1>2, <1>3, <1>4
<1>8. \A i \in L \cup {ino} : i # ROOT_INO =>
        \E e \in Entries(x) : NamesFile(x, e) /\ Entry(x, e).ino = i
  <2> SUFFICES ASSUME NEW i \in L \cup {ino}, i # ROOT_INO
               PROVE  \E e \in Entries(x) : NamesFile(x, e) /\ Entry(x, e).ino = i
    OBVIOUS
  <2>1. CASE i = ino
    BY <2>1, <1>2, <1>3
  <2>2. CASE i \in L
    <3>1. PICK e \in Entries(d) : NamesFile(d, e) /\ Entry(d, e).ino = i
      BY <2>2 DEF Directory
    <3>2. e \in Entries(x) /\ NamesFile(x, e) /\ Entry(x, e).ino = i
      BY <3>1, <1>3, <1>4
    <3> QED
      BY <3>2
  <2> QED
    BY <2>1, <2>2
<1>9. /\ x.itable[ROOT_INO].i_nlink = 2
      /\ \A i \in L \cup {ino} : i # ROOT_INO => x.itable[i].i_nlink = 1
      /\ Entry(x, 0) = [ino |-> ROOT_INO, name |-> "."]
      /\ Entry(x, 1) = [ino |-> ROOT_INO, name |-> ".."]
  BY <1>1, <1>5 DEF Directory
<1> QED
  BY <1>1, <1>6, <1>7, <1>8, <1>9 DEF Directory

\* The entry of a file that goes.
LEMMA DirectoryDrops ==
  ASSUME NEW d, NEW x, NEW L, Directory(d, L), 0 \in Entries(d), 1 \in Entries(d),
         NEW old \in Entries(d), NamesFile(d, old), NEW i, i = Entry(d, old).ino,
         Entries(x) = Entries(d),
         \A e \in Entries(d) : Entry(x, e) = IF e = old THEN Unused ELSE Entry(d, e),
         x.itable[ROOT_INO].i_blocks = d.itable[ROOT_INO].i_blocks,
         \A j \in L : j # i => x.itable[j].i_nlink = d.itable[j].i_nlink
  PROVE  Directory(x, L \ {i})
<1>1. i \in L /\ i # ROOT_INO /\ old \notin {0, 1}
  BY DEF Directory, NamesFile
<1>2. \A e \in Entries(x) : NamesFile(x, e) <=> NamesFile(d, e) /\ e # old
  BY DEF NamesFile
<1>3. \A e \in Entries(x) : NamesFile(x, e) =>
        e \in Entries(d) /\ Entry(x, e) = Entry(d, e) /\ Entry(d, e).ino # i
  BY <1>2 DEF Directory
<1>4. Entry(x, 0) = Entry(d, 0) /\ Entry(x, 1) = Entry(d, 1)
  BY <1>1
<1>5. \A e \in Entries(x) : NamesFile(x, e) =>
        /\ Entry(x, e).ino \in L \ {i} /\ Entry(x, e).ino # ROOT_INO
        /\ Entry(x, e).name \in Names
  BY <1>2, <1>3 DEF Directory
<1>6. \A e, f \in Entries(x) : NamesFile(x, e) /\ NamesFile(x, f) =>
        \/ e = f
        \/ Entry(x, e).name # Entry(x, f).name /\ Entry(x, e).ino # Entry(x, f).ino
  BY <1>2, <1>3 DEF Directory
<1>7. \A j \in L \ {i} : j # ROOT_INO =>
        \E e \in Entries(x) : NamesFile(x, e) /\ Entry(x, e).ino = j
  <2> SUFFICES ASSUME NEW j \in L \ {i}, j # ROOT_INO
               PROVE  \E e \in Entries(x) : NamesFile(x, e) /\ Entry(x, e).ino = j
    OBVIOUS
  <2>1. PICK e \in Entries(d) : NamesFile(d, e) /\ Entry(d, e).ino = j
    BY DEF Directory
  <2>2. e \in Entries(x) /\ NamesFile(x, e) /\ Entry(x, e).ino = j
    BY <2>1, <1>2
  <2> QED
    BY <2>2
<1>8. /\ ROOT_INO \in L \ {i} /\ x.itable[ROOT_INO].i_blocks >= 1
      /\ x.itable[ROOT_INO].i_nlink = 2
      /\ \A j \in L \ {i} : j # ROOT_INO => x.itable[j].i_nlink = 1
      /\ Entry(x, 0) = [ino |-> ROOT_INO, name |-> "."]
      /\ Entry(x, 1) = [ino |-> ROOT_INO, name |-> ".."]
  BY <1>1, <1>4 DEF Directory
<1> QED
  BY <1>5, <1>6, <1>7, <1>8 DEF Directory

\* path_lookup finds the entry that names the file.
LEMMA LookupSteps ==
  ASSUME NEW d, Sound(d), NEW name \in Names, Exists(d, name)
  PROVE  LET e == First(Named(d, name))
             i == PathLookup(d, name)
         IN /\ e \in Entries(d) /\ NamesFile(d, e) /\ Entry(d, e).name = name
            /\ i = Entry(d, e).ino /\ i \in d.ibmap /\ i # ROOT_INO /\ i \in Inodes
<1> DEFINE e == First(Named(d, name))
           m == d.itable[ROOT_INO].i_blocks * PerBlock - 1
<1>1. Named(d, name) \in SUBSET (0 .. m) /\ Named(d, name) # {}
  BY DEF Named, Exists, Entries
<1>2. 0 \in Int /\ m \in Int
  BY ConstantTypes, RootFacts, InodeFields DEF Sound
<1> HIDE DEF m
<1>3. \E x \in Named(d, name) : \A y \in Named(d, name) : x <= y
  BY <1>1, <1>2, LeastExists, Zenon
<1>4. e \in Named(d, name)
  BY <1>3 DEF First
<1> HIDE DEF e
<1>5. e \in Entries(d) /\ Entry(d, e).name = name
  BY <1>4 DEF Named
<1>6. NamesFile(d, e)
  <2>1. Entry(d, 0).name = "." /\ Entry(d, 1).name = ".." /\ Unused.name = ""
    BY DEF Sound, Directory, Unused
  <2> QED
    BY <2>1, <1>5, NameFacts DEF NamesFile
<1>7. Entry(d, e).ino \in d.ibmap /\ Entry(d, e).ino # ROOT_INO
  BY <1>5, <1>6 DEF Sound, Directory
<1> QED
  BY <1>5, <1>6, <1>7 DEF PathLookup, Sound, Typed, e

-----------------------------------------------------------------------------
(***************************************************************************)
(* The calls.                                                              *)
(***************************************************************************)

\* The file of inode j reads the same.
Untouched(d, y, j) ==
  /\ y.itable[j] = d.itable[j]
  /\ \A k \in 0 .. d.itable[j].i_blocks - 1 : y.data[At(y, j, k)] = d.data[At(d, j, k)]

OthersUntouched(d, y, L) == \A j \in L : j # ROOT_INO => Untouched(d, y, j)

\* Block k of file i holds what it held, or zeros if it is new.
OldOrZero(d, y, i, k) ==
  y.data[At(y, i, k)] = IF k < d.itable[i].i_blocks THEN d.data[At(d, i, k)] ELSE ZeroBlock

SameNames(d, y) == Entries(y) = Entries(d) /\ \A e \in Entries(d) : Entry(y, e) = Entry(d, e)

\* What a call leaves that resizes file i.
Retained(d, y, i) ==
  /\ SameNames(d, y) /\ OthersUntouched(d, y, d.ibmap \ {i})
  /\ \A k \in 0 .. y.itable[i].i_blocks - 1 : OldOrZero(d, y, i, k)

\* One inode is written.
WroteInode(d, y, i, r) ==
  /\ Typed(y)
  /\ y.free_blocks = d.free_blocks /\ y.free_inodes = d.free_inodes
  /\ y.dbmap = d.dbmap /\ y.ibmap = d.ibmap
  /\ y.data = d.data /\ y.dirs = d.dirs /\ y.tables = d.tables
  /\ y.itable[i] = r
  /\ \A j \in Inodes : j # i => y.itable[j] = d.itable[j]

LEMMA InodeWritten ==
  ASSUME NEW d, Typed(d), NEW i \in Inodes, NEW r \in Inode,
         NEW I, I = [d.itable EXCEPT ![i] = r], NEW y, y = [d EXCEPT !.itable = I]
  PROVE  WroteInode(d, y, i, r)
<1>1. IsImage(d) /\ d.itable \in [Inodes -> Inode]
  BY DEF Typed
<1>2. I \in [Inodes -> Inode] /\ I[i] = r /\ \A j \in Inodes : j # i => I[j] = d.itable[j]
  BY <1>1
<1>3. /\ IsImage(y) /\ y.status = d.status /\ y.itable = I
      /\ y.free_blocks = d.free_blocks /\ y.free_inodes = d.free_inodes
      /\ y.dbmap = d.dbmap /\ y.ibmap = d.ibmap
      /\ y.data = d.data /\ y.dirs = d.dirs /\ y.tables = d.tables
  BY <1>1 DEF IsImage
<1> QED
  BY <1>2, <1>3 DEF Typed, WroteInode

\* The same pointers where neither the inodes that count nor the tables changed.
LEMMA SameAt ==
  ASSUME NEW d, NEW y, NEW i, y.tables = d.tables,
         y.itable[i].i_blocks = d.itable[i].i_blocks,
         y.itable[i].i_direct = d.itable[i].i_direct,
         y.itable[i].i_indirect = d.itable[i].i_indirect
  PROVE  /\ Places(y, i) = Places(d, i) /\ \A k : At(y, i, k) = At(d, i, k)
         /\ \A k : Pointer(y, i, k) = Pointer(d, i, k)
         /\ TableFilled(y, i) <=> TableFilled(d, i)
<1>1. \A k : Pointer(y, i, k) = Pointer(d, i, k)
  BY DEF Pointer
<1>2. HasTable(y, i) <=> HasTable(d, i)
  BY DEF HasTable
<1> QED
  BY <1>1, <1>2 DEF Places, At, TableFilled

LEMMA LinkedFields ==
  ASSUME NEW d, NEW y, NEW L, Linked(d, L), y.dbmap = d.dbmap, y.tables = d.tables,
         \A i \in L : /\ y.itable[i].i_blocks = d.itable[i].i_blocks
                      /\ y.itable[i].i_direct = d.itable[i].i_direct
                      /\ y.itable[i].i_indirect = d.itable[i].i_indirect
  PROVE  Linked(y, L)
<1>1. \A j \in L : Places(y, j) = Places(d, j) /\ (TableFilled(y, j) <=> TableFilled(d, j))
  BY SameAt
<1>2. \A j \in L : \A k \in Places(d, j) : At(y, j, k) = At(d, j, k)
  BY SameAt
<1>3. \A j \in L : y.itable[j].i_blocks <= MaxBlocks /\ TableFilled(y, j)
  BY <1>1 DEF Linked
<1> QED
  BY <1>1, <1>2, <1>3, LayoutTypes, LinkedSame

\* The index of a block of a file is one of its places.
LEMMA Indices ==
  ASSUME NEW d, NEW i, d.itable[i].i_blocks \in Nat
  PROVE  \A k \in 0 .. d.itable[i].i_blocks - 1 : k \in Places(d, i) /\ k \in Nat
  BY DEF Places

\* A call on the files does not touch the entries.
LEMMA RootKept ==
  ASSUME NEW d, Sound(d), NEW y, y.itable[ROOT_INO] = d.itable[ROOT_INO],
         \A j \in d.ibmap : y.itable[j].i_nlink = d.itable[j].i_nlink,
         \A k \in 0 .. d.itable[ROOT_INO].i_blocks - 1 :
           /\ At(y, ROOT_INO, k) = At(d, ROOT_INO, k)
           /\ y.dirs[At(d, ROOT_INO, k)] = d.dirs[At(d, ROOT_INO, k)]
  PROVE  /\ Directory(y, d.ibmap) /\ Entries(y) = Entries(d)
         /\ \A e \in Entries(d) : Entry(y, e) = Entry(d, e)
<1> DEFINE n == d.itable[ROOT_INO].i_blocks
<1>1. n \in Nat /\ n >= 1 /\ Directory(d, d.ibmap)
  BY RootFacts, InodeFields DEF Sound, Directory
<1>2. \A k \in 0 .. n - 1 :
        /\ Pointer(y, ROOT_INO, k) = Pointer(d, ROOT_INO, k)
        /\ y.dirs[Pointer(d, ROOT_INO, k)] = d.dirs[Pointer(d, ROOT_INO, k)]
  <2> SUFFICES ASSUME NEW k \in 0 .. n - 1
               PROVE  /\ Pointer(y, ROOT_INO, k) = Pointer(d, ROOT_INO, k)
                      /\ y.dirs[Pointer(d, ROOT_INO, k)] = d.dirs[Pointer(d, ROOT_INO, k)]
    OBVIOUS
  <2>1. k \in Nat
    BY <1>1
  <2>2. At(d, ROOT_INO, k) = Pointer(d, ROOT_INO, k) /\ At(y, ROOT_INO, k) = Pointer(y, ROOT_INO, k)
    BY <2>1, <1>1, PlacesOf
  <2> QED
    BY <2>2
<1>3. Entries(y) = Entries(d) /\ \A e \in Entries(d) : Entry(y, e) = Entry(d, e)
  BY <1>1, <1>2, SameEntries
<1>4. 0 \in Entries(d) /\ 1 \in Entries(d)
  BY <1>1, FirstEntries
<1> QED
  BY <1>1, <1>3, <1>4, DirectoryKept

\* The contents of the files are written.
LEMMA DataWritten ==
  ASSUME NEW d, Typed(d), NEW D, \A b \in DOMAIN D : D[b] \in ByteBlock,
         DOMAIN D \subseteq d.dbmap,
         DOMAIN D \cap DOMAIN d.dirs = {}, DOMAIN D \cap DOMAIN d.tables = {},
         NEW y, y = [d EXCEPT !.data = D]
  PROVE  /\ Typed(y) /\ y.data = D
         /\ y.free_blocks = d.free_blocks /\ y.free_inodes = d.free_inodes
         /\ y.dbmap = d.dbmap /\ y.ibmap = d.ibmap
         /\ y.itable = d.itable /\ y.dirs = d.dirs /\ y.tables = d.tables
<1>1. IsImage(d)
  BY DEF Typed
<1>2. /\ IsImage(y) /\ y.status = d.status /\ y.data = D
      /\ y.free_blocks = d.free_blocks /\ y.free_inodes = d.free_inodes
      /\ y.dbmap = d.dbmap /\ y.ibmap = d.ibmap
      /\ y.itable = d.itable /\ y.dirs = d.dirs /\ y.tables = d.tables
  BY <1>1 DEF IsImage
<1>3. (D = y.data) /\ DOMAIN d.dirs \cup DOMAIN d.tables \subseteq d.dbmap
      /\ DOMAIN d.dirs \cap DOMAIN d.tables = {}
  BY <1>2 DEF Typed
<1>4. /\ DOMAIN y.data \cup DOMAIN y.dirs \cup DOMAIN y.tables \subseteq y.dbmap
      /\ DOMAIN y.data \cap DOMAIN y.dirs = {}
      /\ (DOMAIN y.data \cup DOMAIN y.dirs) \cap DOMAIN y.tables = {}
  BY <1>2, <1>3
<1> QED
  BY <1>2, <1>4 DEF Typed

\* File i has its new number of blocks, but still its old size.
Resized(d, y, i, wanted) ==
  /\ Typed(y) /\ Linked(y, d.ibmap) /\ Roles(y, d.ibmap) /\ Directory(y, d.ibmap)
  /\ Counted(y)
  /\ y.ibmap = d.ibmap /\ y.itable[i].i_blocks = wanted
  /\ \A j \in Inodes : j # i => y.itable[j] = d.itable[j]
  /\ Retained(d, y, i)

\* The new blocks of a file that grows are free, and zeroed.
LEMMA GrownSteps ==
  ASSUME NEW d, Sound(d), NEW i \in d.ibmap, i # ROOT_INO,
         NEW wanted \in Nat, d.itable[i].i_blocks < wanted, wanted <= MaxBlocks,
         Need(d.itable[i].i_blocks, wanted) <= Clear(d)
  PROVE  Resized(d, Grown(d, i, wanted), i, wanted)
<1> DEFINE x == Extend(d, i, wanted)
           curr == d.itable[i].i_blocks
           new == {Pointer(x, i, k) : k \in curr .. wanted - 1}
           D == [b \in DOMAIN x.data \cup new |-> IF b \in new THEN ZeroBlock ELSE x.data[b]]
           y == [x EXCEPT !.data = D]
<1>1. /\ Typed(d) /\ Linked(d, d.ibmap) /\ d.ibmap \in SUBSET Inodes /\ Counted(d)
      /\ Roles(d, d.ibmap) /\ Directory(d, d.ibmap) /\ i \in Inodes
      /\ ROOT_INO \in d.ibmap /\ ROOT_INO \in Inodes
  BY RootFacts DEF Sound, Typed, Directory
<1>2. curr \in Nat /\ \A j \in d.ibmap : j \in Inodes /\ d.itable[j].i_blocks \in Nat
  BY <1>1, InodeFields
<1>3. Typed(x) /\ Linked(x, d.ibmap) /\ Extended(d, x, d.ibmap, i, wanted)
  BY <1>1, ExtendSteps
<1>4. Grown(d, i, wanted) = y
  BY <1>3 DEF Grown, Extended
<1> HIDE DEF x
<1>5. /\ x.ibmap = d.ibmap /\ x.free_inodes = d.free_inodes
      /\ x.data = d.data /\ x.dirs = d.dirs
      /\ x.free_blocks = Clear(x)
      /\ \A j \in Inodes : j # i => x.itable[j] = d.itable[j]
      /\ x.itable[i].i_blocks = wanted /\ x.itable[i].i_nlink = d.itable[i].i_nlink
      /\ \A j \in d.ibmap : \A k \in Places(d, j) : k \in Places(x, j) /\ At(x, j, k) = At(d, j, k)
      /\ \A k \in Nat : curr <= k /\ k < wanted =>
           /\ k \in Places(x, i)
           /\ At(x, i, k) \in x.dbmap /\ At(x, i, k) \notin d.dbmap
           /\ At(x, i, k) \notin DOMAIN x.tables
  BY <1>1, <1>3 DEF Extended, Counted
<1> HIDE DEF curr
<1>6. \A k \in curr .. wanted - 1 : k \in Nat /\ curr <= k /\ k < wanted /\ Pointer(x, i, k) = At(x, i, k)
  BY <1>2, <1>5, PlacesOf
<1>7. new = {At(x, i, k) : k \in curr .. wanted - 1}
  BY <1>6
<1>8. \A b \in new : b \in x.dbmap /\ b \notin d.dbmap /\ b \notin DOMAIN x.tables
  BY <1>5, <1>6, <1>7
<1> HIDE DEF new
<1>9. DOMAIN D = DOMAIN d.data \cup new
      /\ \A b \in DOMAIN D : D[b] = IF b \in new THEN ZeroBlock ELSE d.data[b]
  BY <1>5
<1>10. ZeroBlock \in ByteBlock
  BY DEF ZeroBlock, ByteBlock
<1>11. \A b \in DOMAIN D : D[b] \in ByteBlock
  BY <1>1, <1>9, <1>10 DEF Typed
<1>12. DOMAIN D \subseteq x.dbmap /\ DOMAIN D \cap DOMAIN x.dirs = {} /\ DOMAIN D \cap DOMAIN x.tables = {}
  BY <1>1, <1>3, <1>5, <1>8, <1>9 DEF Typed
<1> HIDE DEF D
<1>13. /\ Typed(y) /\ y.data = D
       /\ y.free_blocks = x.free_blocks /\ y.free_inodes = x.free_inodes
       /\ y.dbmap = x.dbmap /\ y.ibmap = x.ibmap
       /\ y.itable = x.itable /\ y.dirs = x.dirs /\ y.tables = x.tables
  BY <1>3, <1>11, <1>12, DataWritten
<1> HIDE DEF y
<1>14. Linked(y, d.ibmap)
  BY <1>3, <1>13, LinkedFields
<1>15. \A j : \A k : At(y, j, k) = At(x, j, k)
  BY <1>13, SameAt
<1>16. ASSUME NEW j \in d.ibmap, NEW k \in 0 .. y.itable[j].i_blocks - 1
       PROVE  At(y, j, k) \in (IF j = ROOT_INO THEN DOMAIN y.dirs ELSE DOMAIN y.data)
  <2>1. CASE k \in 0 .. d.itable[j].i_blocks - 1
    <3>1. At(y, j, k) = At(d, j, k)
      BY <2>1, <1>2, <1>5, <1>15, Indices
    <3>2. At(d, j, k) \in (IF j = ROOT_INO THEN DOMAIN d.dirs ELSE DOMAIN d.data)
      BY <2>1, <1>1 DEF Roles
    <3> QED
      BY <3>1, <3>2, <1>5, <1>9, <1>13
  <2>2. CASE ~(k \in 0 .. d.itable[j].i_blocks - 1)
    <3>1. j = i /\ k \in curr .. wanted - 1
      BY <2>2, <1>2, <1>5, <1>13 DEF curr
    <3>2. At(y, j, k) \in new
      BY <3>1, <1>7, <1>15
    <3> QED
      BY <3>1, <3>2, <1>9, <1>13
  <2> QED
    BY <2>1, <2>2
<1>17. Directory(y, d.ibmap) /\ SameNames(d, y)
  <2>1. y.itable[ROOT_INO] = d.itable[ROOT_INO]
    BY <1>1, <1>5, <1>13
  <2>2. \A j \in d.ibmap : y.itable[j].i_nlink = d.itable[j].i_nlink
    BY <1>2, <1>5, <1>13
  <2>3. \A k \in 0 .. d.itable[ROOT_INO].i_blocks - 1 : At(y, ROOT_INO, k) = At(d, ROOT_INO, k)
    BY <1>1, <1>2, <1>5, <1>15, Indices
  <2> QED
    BY <2>1, <2>2, <2>3, <1>5, <1>13, RootKept DEF SameNames
<1>18. Counted(y)
  BY <1>1, <1>5, <1>13 DEF Counted, Clear
<1>19. ASSUME NEW j \in d.ibmap, j # ROOT_INO, NEW k \in 0 .. d.itable[j].i_blocks - 1
       PROVE  y.data[At(y, j, k)] = d.data[At(d, j, k)]
  <2>1. At(y, j, k) = At(d, j, k)
    BY <1>2, <1>5, <1>15, Indices
  <2>2. At(d, j, k) \in DOMAIN d.data /\ At(d, j, k) \in d.dbmap
    BY <1>1, <1>19 DEF Roles, Typed
  <2> QED
    BY <2>1, <2>2, <1>8, <1>9, <1>13
<1>20. Retained(d, y, i)
  <2>1. ASSUME NEW j \in d.ibmap \ {i}, j # ROOT_INO PROVE Untouched(d, y, j)
    BY <2>1, <1>2, <1>5, <1>13, <1>19 DEF Untouched
  <2>2. ASSUME NEW k \in 0 .. y.itable[i].i_blocks - 1 PROVE OldOrZero(d, y, i, k)
    <3>1. CASE k < d.itable[i].i_blocks
      <4>1. k \in 0 .. d.itable[i].i_blocks - 1
        BY <3>1, <1>2 DEF curr
      <4> QED
        BY <3>1, <4>1, <1>19 DEF OldOrZero
    <3>2. CASE ~(k < d.itable[i].i_blocks)
      <4>1. k \in curr .. wanted - 1
        BY <3>2, <1>2, <1>5, <1>13 DEF curr
      <4>2. At(y, i, k) \in new
        BY <4>1, <1>7, <1>15
      <4> QED
        BY <3>2, <4>2, <1>9, <1>13 DEF OldOrZero
    <3> QED
      BY <3>1, <3>2
  <2> QED
    BY <2>1, <2>2, <1>17 DEF Retained, OthersUntouched
<1> QED
  BY <1>4, <1>5, <1>13, <1>14, <1>16, <1>17, <1>18, <1>20 DEF Resized, Roles

\* A file that shrinks gives back the blocks it does not need.
LEMMA ShrunkSteps ==
  ASSUME NEW d, Sound(d), NEW i \in d.ibmap, i # ROOT_INO,
         NEW wanted \in Nat, wanted <= d.itable[i].i_blocks,
         ~(d.itable[i].i_blocks = NumDirect /\ wanted = NumDirect)
  PROVE  Resized(d, Shrunk(d, i, wanted), i, wanted)
<1> DEFINE curr == d.itable[i].i_blocks
           table == FreesTable(curr, wanted)
           list == BlocksFrom(d, i, wanted, table)
           F == GoneBlocks(d, i, wanted, table)
           x == Free(d, list)
           r == [x.itable[i] EXCEPT !.i_blocks = wanted]
           I == [x.itable EXCEPT ![i] = r]
           y == [x EXCEPT !.itable = I]
<1>1. /\ Typed(d) /\ Linked(d, d.ibmap) /\ d.ibmap \in SUBSET Inodes /\ Counted(d)
      /\ Roles(d, d.ibmap) /\ Directory(d, d.ibmap) /\ i \in Inodes
      /\ ROOT_INO \in d.ibmap /\ ROOT_INO \in Inodes
  BY RootFacts DEF Sound, Typed, Directory
<1>2. /\ curr \in Nat /\ NumDirect \in Nat /\ d.itable[i] \in Inode
      /\ \A j \in d.ibmap : j \in Inodes /\ d.itable[j].i_blocks \in Nat
  BY <1>1, InodeFields, ConstantTypes
<1>3. table \in BOOLEAN /\ (table <=> HasTable(d, i) /\ wanted <= NumDirect)
  BY <1>2 DEF FreesTable, HasTable
<1> HIDE DEF table
<1>4. /\ IsInjective(list) /\ Range(list) = F
      /\ F \subseteq d.dbmap /\ IsFiniteSet(F) /\ Len(list) = Cardinality(F)
  BY <1>1, <1>3, GoneList
<1> HIDE DEF list, F
<1>5. Freed(d, x, F)
  BY <1>1, <1>4, FreeSteps
<1> HIDE DEF x
<1>6. x.itable = d.itable /\ x.ibmap = d.ibmap /\ x.free_inodes = d.free_inodes /\ x.status = "ok"
  BY <1>5 DEF Freed
<1>7. Typed(x)
  <2>1. /\ \A b \in DOMAIN x.data : x.data[b] \in ByteBlock
        /\ \A b \in DOMAIN x.dirs : x.dirs[b] \in DirBlock
        /\ \A b \in DOMAIN x.tables : \A k \in DOMAIN x.tables[b] : x.tables[b][k] \in Blocks
    BY <1>1, <1>5 DEF Freed, Typed
  <2>2. /\ DOMAIN x.data \cup DOMAIN x.dirs \cup DOMAIN x.tables \subseteq x.dbmap
        /\ DOMAIN x.data \cap DOMAIN x.dirs = {}
        /\ (DOMAIN x.data \cup DOMAIN x.dirs) \cap DOMAIN x.tables = {}
        /\ x.dbmap \subseteq Blocks
    BY <1>1, <1>5 DEF Freed, Typed
  <2> QED
    BY <2>1, <2>2, <1>1, <1>5 DEF Freed, Typed
<1>8. /\ r \in Inode /\ r.i_blocks = wanted /\ r.i_nlink = d.itable[i].i_nlink
      /\ r.i_direct = d.itable[i].i_direct /\ r.i_indirect = d.itable[i].i_indirect
  <2>1. r = [d.itable[i] EXCEPT !.i_blocks = wanted]
    BY <1>6
  <2> QED
    BY <2>1, <1>2 DEF Inode
<1>9. Shrunk(d, i, wanted) = y
  BY <1>6 DEF Shrunk, x, list, table
<1> HIDE DEF r
<1>10. I = [x.itable EXCEPT ![i] = r] /\ y = [x EXCEPT !.itable = I]
  OBVIOUS
<1> HIDE DEF y, I
<1>11. WroteInode(x, y, i, r)
  <2>1. i \in Inodes /\ Typed(x) /\ r \in Inode
    BY <1>1, <1>7, <1>8
  <2> QED
    BY <2>1, <1>10, InodeWritten
<1>12. /\ Typed(y)
       /\ y.free_blocks = x.free_blocks /\ y.free_inodes = x.free_inodes
       /\ y.dbmap = x.dbmap /\ y.ibmap = x.ibmap
       /\ y.data = x.data /\ y.dirs = x.dirs /\ y.tables = x.tables
       /\ y.itable[i] = r /\ \A j \in Inodes : j # i => y.itable[j] = x.itable[j]
  BY <1>11 DEF WroteInode
<1>13. /\ Linked(y, d.ibmap)
       /\ \A j \in d.ibmap : \A k \in Places(y, j) :
            k \in Places(d, j) /\ At(y, j, k) = At(d, j, k) /\ At(d, j, k) \notin F
       /\ \A j \in d.ibmap : j # i => Places(y, j) = Places(d, j)
  <2>1. Remains(d, y, d.ibmap, d.ibmap, i, wanted)
    BY <1>8, <1>12 DEF Remains
  <2>2. \A j \in Inodes : j # i => y.itable[j] = d.itable[j]
    BY <1>6, <1>12
  <2>3. Freed(d, x, GoneBlocks(d, i, wanted, table))
    BY <1>5 DEF F
  <2> HIDE DEF curr
  <2>4. y.dbmap = x.dbmap /\ y.tables = x.tables
    BY <1>12
  <2> QED
    BY <2>1, <2>2, <2>3, <2>4, <1>1, <1>3, Removal DEF F
<1>14. ASSUME NEW j \in d.ibmap, NEW k \in 0 .. y.itable[j].i_blocks - 1
       PROVE  At(y, j, k) \in (IF j = ROOT_INO THEN DOMAIN y.dirs ELSE DOMAIN y.data)
  <2>1. y.itable[j].i_blocks \in Nat
    BY <1>2, <1>12, InodeFields
  <2>2. k \in Places(y, j) /\ k \in Nat
    BY <2>1, Indices
  <2>3. k \in Places(d, j) /\ At(y, j, k) = At(d, j, k) /\ At(d, j, k) \notin F
    BY <2>2, <1>13
  <2>4. k \in 0 .. d.itable[j].i_blocks - 1
    BY <2>2, <2>3, <1>2, PlacesOf
  <2>5. At(d, j, k) \in (IF j = ROOT_INO THEN DOMAIN d.dirs ELSE DOMAIN d.data)
    BY <2>4, <1>1 DEF Roles
  <2> QED
    BY <2>3, <2>5, <1>5, <1>12 DEF Freed
<1>15. Directory(y, d.ibmap) /\ SameNames(d, y)
  <2>1. y.itable[ROOT_INO] = d.itable[ROOT_INO]
    BY <1>1, <1>6, <1>12
  <2>2. \A j \in d.ibmap : y.itable[j].i_nlink = d.itable[j].i_nlink
    BY <1>2, <1>6, <1>8, <1>12
  <2>3. ASSUME NEW k \in 0 .. d.itable[ROOT_INO].i_blocks - 1
        PROVE  At(y, ROOT_INO, k) = At(d, ROOT_INO, k)
               /\ y.dirs[At(d, ROOT_INO, k)] = d.dirs[At(d, ROOT_INO, k)]
    <3>1. k \in Places(d, ROOT_INO) /\ k \in Places(y, ROOT_INO)
      BY <1>1, <1>2, <1>13, Indices
    <3>2. At(y, ROOT_INO, k) = At(d, ROOT_INO, k) /\ At(d, ROOT_INO, k) \notin F
      BY <3>1, <1>1, <1>13
    <3>3. At(d, ROOT_INO, k) \in DOMAIN d.dirs
      BY <1>1 DEF Roles
    <3> QED
      BY <3>2, <3>3, <1>5, <1>12 DEF Freed
  <2> QED
    BY <2>1, <2>2, <2>3, RootKept DEF SameNames
<1>16. Counted(y)
  BY <1>1, <1>5, <1>6, <1>12 DEF Counted, Clear, Freed
<1>17. ASSUME NEW j \in d.ibmap, j # ROOT_INO, NEW k \in 0 .. y.itable[j].i_blocks - 1
       PROVE  k < d.itable[j].i_blocks /\ y.data[At(y, j, k)] = d.data[At(d, j, k)]
  <2>1. k \in Places(y, j) /\ k \in Nat
    BY <1>2, <1>12, InodeFields, Indices
  <2>2. k \in Places(d, j) /\ At(y, j, k) = At(d, j, k) /\ At(d, j, k) \notin F
    BY <2>1, <1>13
  <2>3. k \in 0 .. d.itable[j].i_blocks - 1
    BY <2>1, <2>2, <1>2, PlacesOf
  <2>4. At(d, j, k) \in DOMAIN d.data
    BY <2>3, <1>1, <1>17 DEF Roles
  <2> QED
    BY <2>2, <2>3, <2>4, <1>2, <1>5, <1>12 DEF Freed
<1>18. Retained(d, y, i)
  <2>1. ASSUME NEW j \in d.ibmap \ {i}, j # ROOT_INO PROVE Untouched(d, y, j)
    <3>1. y.itable[j] = d.itable[j]
      BY <2>1, <1>2, <1>6, <1>12
    <3> QED
      BY <2>1, <3>1, <1>17 DEF Untouched
  <2>2. ASSUME NEW k \in 0 .. y.itable[i].i_blocks - 1 PROVE OldOrZero(d, y, i, k)
    BY <1>17 DEF OldOrZero
  <2> QED
    BY <2>1, <2>2, <1>15 DEF Retained, OthersUntouched
<1> QED
  BY <1>6, <1>8, <1>9, <1>12, <1>13, <1>14, <1>15, <1>16, <1>18 DEF Resized, Roles

\* A resized file gets its new size.
LEMMA SizedSteps ==
  ASSUME NEW d, Sound(d), NEW i \in d.ibmap, i # ROOT_INO, NEW wanted \in Nat, NEW size \in Nat,
         size <= wanted * BlockSize, size > (wanted - 1) * BlockSize,
         NEW x, Resized(d, x, i, wanted),
         NEW y, WroteInode(x, y, i, [x.itable[i] EXCEPT !.i_size = size])
  PROVE  /\ Sound(y) /\ y.ibmap = d.ibmap /\ y.itable[i].i_size = size
         /\ y.itable[i].i_blocks = wanted /\ Retained(d, y, i)
<1> DEFINE r == [x.itable[i] EXCEPT !.i_size = size]
<1>1. /\ Typed(x) /\ Linked(x, d.ibmap) /\ Roles(x, d.ibmap) /\ Directory(x, d.ibmap)
      /\ Counted(x) /\ x.ibmap = d.ibmap /\ x.itable[i].i_blocks = wanted
      /\ \A j \in Inodes : j # i => x.itable[j] = d.itable[j]
  BY DEF Resized
<1>2. /\ Sized(d, d.ibmap) /\ \A j \in d.ibmap : j \in Inodes
      /\ ROOT_INO \in d.ibmap /\ i \in Inodes
  BY DEF Sound, Typed, Directory
<1>3. /\ r \in Inode /\ r.i_blocks = wanted /\ r.i_size = size
      /\ r.i_nlink = x.itable[i].i_nlink
      /\ r.i_direct = x.itable[i].i_direct /\ r.i_indirect = x.itable[i].i_indirect
  <2>1. x.itable[i] \in Inode
    BY <1>1, <1>2, InodeFields
  <2> QED
    BY <2>1, <1>1 DEF Inode
<1>4. WroteInode(x, y, i, r)
  OBVIOUS
<1> HIDE DEF r
<1>5. d.ibmap \subseteq Inodes
  BY <1>2
<1>6. /\ Typed(y)
      /\ y.free_blocks = x.free_blocks /\ y.free_inodes = x.free_inodes
      /\ y.dbmap = x.dbmap /\ y.ibmap = x.ibmap
      /\ y.data = x.data /\ y.dirs = x.dirs /\ y.tables = x.tables
      /\ y.itable[i] = r /\ \A j \in Inodes : j # i => y.itable[j] = x.itable[j]
  BY <1>4 DEF WroteInode
<1>7. \A j \in d.ibmap : /\ y.itable[j].i_blocks = x.itable[j].i_blocks
                         /\ y.itable[j].i_direct = x.itable[j].i_direct
                         /\ y.itable[j].i_indirect = x.itable[j].i_indirect
                         /\ y.itable[j].i_nlink = x.itable[j].i_nlink
  <2> SUFFICES ASSUME NEW j \in d.ibmap
               PROVE  /\ y.itable[j].i_blocks = x.itable[j].i_blocks
                      /\ y.itable[j].i_direct = x.itable[j].i_direct
                      /\ y.itable[j].i_indirect = x.itable[j].i_indirect
                      /\ y.itable[j].i_nlink = x.itable[j].i_nlink
    OBVIOUS
  <2>1. CASE j = i
    BY <2>1, <1>1, <1>3, <1>6
  <2>2. CASE j # i
    BY <2>2, <1>2, <1>6
  <2> QED
    BY <2>1, <2>2
<1>8. Linked(y, d.ibmap)
  <2>1. \A j \in d.ibmap : /\ y.itable[j].i_blocks = x.itable[j].i_blocks
                           /\ y.itable[j].i_direct = x.itable[j].i_direct
                           /\ y.itable[j].i_indirect = x.itable[j].i_indirect
    BY <1>7
  <2>2. y.dbmap = x.dbmap /\ y.tables = x.tables /\ Linked(x, d.ibmap)
    BY <1>1, <1>6
  <2> QED
    BY <2>1, <2>2, LinkedFields
<1>9. \A j \in d.ibmap : \A k : At(y, j, k) = At(x, j, k) /\ Pointer(y, j, k) = Pointer(x, j, k)
  <2> SUFFICES ASSUME NEW j \in d.ibmap
               PROVE  \A k : At(y, j, k) = At(x, j, k) /\ Pointer(y, j, k) = Pointer(x, j, k)
    OBVIOUS
  <2>1. /\ y.tables = x.tables
        /\ y.itable[j].i_blocks = x.itable[j].i_blocks
        /\ y.itable[j].i_direct = x.itable[j].i_direct
        /\ y.itable[j].i_indirect = x.itable[j].i_indirect
    BY <1>6, <1>7
  <2>2. /\ \A k : At(y, j, k) = At(x, j, k)
        /\ \A k : Pointer(y, j, k) = Pointer(x, j, k)
    BY <2>1, SameAt
  <2> QED
    BY <2>2
<1>10. Roles(y, d.ibmap)
  BY <1>1, <1>6, <1>7, <1>9 DEF Roles
<1>11. Directory(y, d.ibmap) /\ SameNames(x, y)
  <2>1. x.itable[ROOT_INO].i_blocks \in Nat /\ x.itable[ROOT_INO].i_blocks >= 1
    BY <1>1, RootFacts, InodeFields DEF Directory
  <2>2. y.itable[ROOT_INO].i_blocks = x.itable[ROOT_INO].i_blocks
    BY <1>2, <1>7
  <2>3. \A k \in 0 .. x.itable[ROOT_INO].i_blocks - 1 :
          /\ Pointer(y, ROOT_INO, k) = Pointer(x, ROOT_INO, k)
          /\ y.dirs[Pointer(x, ROOT_INO, k)] = x.dirs[Pointer(x, ROOT_INO, k)]
    BY <1>2, <1>6, <1>9
  <2>4. Entries(y) = Entries(x) /\ \A e \in Entries(x) : Entry(y, e) = Entry(x, e)
    BY <2>1, <2>2, <2>3, SameEntries
  <2>5. 0 \in Entries(x) /\ 1 \in Entries(x)
    BY <2>1, FirstEntries
  <2>6. \A j \in d.ibmap : y.itable[j].i_nlink = x.itable[j].i_nlink
    BY <1>7
  <2>7. Directory(x, d.ibmap)
    BY <1>1
  <2> QED
    BY <2>2, <2>4, <2>5, <2>6, <2>7, DirectoryKept DEF SameNames
<1>12. Sized(y, d.ibmap)
  <2> SUFFICES ASSUME NEW j \in d.ibmap
               PROVE  /\ y.itable[j].i_size <= y.itable[j].i_blocks * BlockSize
                      /\ y.itable[j].i_size > (y.itable[j].i_blocks - 1) * BlockSize
    BY DEF Sized
  <2>1. CASE j = i
    BY <2>1, <1>3, <1>6
  <2>2. CASE j # i
    <3>1. y.itable[j] = d.itable[j]
      BY <2>2, <1>1, <1>2, <1>6
    <3> QED
      BY <3>1, <1>2 DEF Sized
  <2> QED
    BY <2>1, <2>2
<1>13. Counted(y)
  BY <1>1, <1>6 DEF Counted, Clear
<1>14. Retained(d, y, i)
  <2>1. Retained(d, x, i)
    BY DEF Resized
  <2>2. SameNames(d, y)
    BY <2>1, <1>11 DEF Retained, SameNames
  <2>3. ASSUME NEW j \in d.ibmap \ {i}, j # ROOT_INO PROVE Untouched(d, y, j)
    <3>1. Untouched(d, x, j) /\ y.itable[j] = x.itable[j]
      BY <2>1, <2>3, <1>2, <1>6 DEF Retained, OthersUntouched
    <3> QED
      BY <3>1, <1>6, <1>9 DEF Untouched
  <2>4. ASSUME NEW k \in 0 .. y.itable[i].i_blocks - 1 PROVE OldOrZero(d, y, i, k)
    <3>1. OldOrZero(d, x, i, k)
      BY <2>1, <1>1, <1>3, <1>6 DEF Retained
    <3>2. y.data[At(y, i, k)] = x.data[At(x, i, k)]
      BY <1>6, <1>9
    <3> QED
      BY <3>1, <3>2 DEF OldOrZero
  <2> QED
    BY <2>2, <2>3, <2>4 DEF Retained, OthersUntouched
<1> QED
  BY <1>1, <1>3, <1>6, <1>8, <1>10, <1>11, <1>12, <1>13, <1>14 DEF Sound

\* An image that does not change retains all of its files.
LEMMA RetainedItself ==
  ASSUME NEW d, NEW i, d.itable[i].i_blocks \in Nat
  PROVE  Retained(d, d, i)
BY DEF Retained, SameNames, OthersUntouched, Untouched, OldOrZero

\* vsfs_truncate, of a file that MayResize lets pass.
LEMMA TruncateSteps ==
  ASSUME NEW d, Sound(d), NEW i \in d.ibmap, i # ROOT_INO,
         NEW size \in Nat, size + BlockSize <= UintRange, MayResize(d, i, size)
  PROVE  /\ Sound(Truncated(d, i, size)) /\ Truncated(d, i, size).ibmap = d.ibmap
         /\ ~Refused(d, i, size) => Truncated(d, i, size).itable[i].i_size = size
         /\ Retained(d, Truncated(d, i, size), i)
<1> DEFINE wanted == DivRoundUp(size, BlockSize)
           curr == d.itable[i].i_blocks
<1>1. BlockSize \in Nat \ {0} /\ MaxBlocks \in Nat /\ UintRange \in Nat
  BY ConstantTypes, NoOverflow
<1>2. wanted \in Nat /\ wanted * BlockSize >= size /\ (wanted - 1) * BlockSize < size
  BY <1>1, RoundUp
<1>3. i \in Inodes /\ curr \in Nat
  BY InodeFields DEF Sound, Typed
<1>4. CASE Refused(d, i, size)
  BY <1>3, <1>4, RetainedItself DEF Truncated
<1>5. CASE ~Refused(d, i, size)
  <2>1. wanted <= MaxBlocks
    BY <1>5, <1>1, <1>2 DEF Refused
  <2>2. ~(curr = NumDirect /\ wanted = NumDirect) /\ Need(curr, wanted) <= Clear(d)
    BY <1>5 DEF MayResize
  <2> DEFINE x == IF wanted > curr THEN Grown(d, i, wanted) ELSE Shrunk(d, i, wanted)
             y == [x EXCEPT !.itable[i].i_size = size]
  <2>3. Truncated(d, i, size) = IF x.status # "ok" THEN x ELSE y
    BY <1>5 DEF Truncated
  <2>4. Resized(d, x, i, wanted)
    <3>1. CASE wanted > curr
      <4>1. Resized(d, Grown(d, i, wanted), i, wanted)
        BY <3>1, <2>1, <2>2, <1>2, <1>3, GrownSteps
      <4> QED
        BY <3>1, <4>1
    <3>2. CASE ~(wanted > curr)
      <4>1. Resized(d, Shrunk(d, i, wanted), i, wanted)
        BY <3>2, <2>2, <1>2, <1>3, ShrunkSteps
      <4> QED
        BY <3>2, <4>1
    <3> QED
      BY <3>1, <3>2
  <2> HIDE DEF x, wanted
  <2>5. Truncated(d, i, size) = y
    BY <2>3, <2>4 DEF Resized, Typed
  <2>6. size <= wanted * BlockSize /\ size > (wanted - 1) * BlockSize
    <3>1. wanted * BlockSize \in Int /\ (wanted - 1) * BlockSize \in Int
      BY <1>1, <1>2
    <3> QED
      BY <3>1, <1>2
  <2>8. WroteInode(x, y, i, [x.itable[i] EXCEPT !.i_size = size])
    <3> DEFINE r == [x.itable[i] EXCEPT !.i_size = size]
               I == [x.itable EXCEPT ![i] = r]
    <3>1. Typed(x) /\ r \in Inode
      <4>1. Typed(x)
        BY <2>4 DEF Resized
      <4>2. x.itable[i] \in Inode
        BY <4>1, <1>3, InodeFields
      <4> QED
        BY <4>1, <4>2 DEF Inode
    <3>2. y = [x EXCEPT !.itable = I]
      OBVIOUS
    <3> HIDE DEF y
    <3>3. I = [x.itable EXCEPT ![i] = r]
      OBVIOUS
    <3> HIDE DEF I, r
    <3>4. WroteInode(x, y, i, r)
      BY <3>1, <3>2, <3>3, <1>3, InodeWritten
    <3> QED
      BY <3>4 DEF r
  <2> HIDE DEF y
  <2>9. wanted \in Nat
    BY <1>2
  <2>7. Sound(y) /\ y.ibmap = d.ibmap /\ y.itable[i].i_size = size /\ Retained(d, y, i)
    BY <2>4, <2>6, <2>8, <2>9, SizedSteps
  <2> QED
    BY <2>5, <2>7
<1> QED
  BY <1>4, <1>5

\* What a write leaves: all but one block.
Overwritten(d, y, i, offset, n) ==
  /\ SameNames(d, y) /\ OthersUntouched(d, y, d.ibmap \ {i})
  /\ y.itable[i].i_size = IF offset + n > d.itable[i].i_size THEN offset + n ELSE d.itable[i].i_size
  /\ \A k \in 0 .. y.itable[i].i_blocks - 1 : k # offset \div BlockSize => OldOrZero(d, y, i, k)

\* vsfs_write, of a file that MayWrite lets pass.
LEMMA WriteSteps ==
  ASSUME NEW d, Sound(d), NEW i \in d.ibmap, i # ROOT_INO,
         NEW offset \in Nat, NEW n \in 1 .. BlockSize, NEW byte \in Bytes,
         offset + n <= MaxBlocks * BlockSize, MayWrite(d, i, offset + n)
  PROVE  /\ Sound(Written(d, i, offset, n, byte)) /\ Written(d, i, offset, n, byte).ibmap = d.ibmap
         /\ Overwritten(d, Written(d, i, offset, n, byte), i, offset, n)
<1> DEFINE end == offset + n
           x == IF end > d.itable[i].i_size THEN Truncated(d, i, end) ELSE d
           k == offset \div BlockSize
           b == Pointer(x, i, k)
           f == [j \in DOMAIN x.data[b] |->
                  IF j \in (offset % BlockSize) .. (offset % BlockSize) + n - 1 THEN byte
                  ELSE x.data[b][j]]
           D == [x.data EXCEPT ![b] = f]
           y == [x EXCEPT !.data = D]
<1>1. BlockSize \in Nat \ {0} /\ end \in Nat /\ end + BlockSize <= UintRange /\ i \in Inodes
  <2>1. BlockSize \in Nat \ {0} /\ i \in Inodes
    BY ConstantTypes DEF Sound, Typed
  <2>2. end \in Nat
    BY <2>1
  <2> QED
    BY <2>1, <2>2, NoOverflow
<1>2. /\ Sound(x) /\ x.ibmap = d.ibmap /\ x.itable[i].i_size >= end
      /\ x.itable[i].i_size = IF end > d.itable[i].i_size THEN end ELSE d.itable[i].i_size
      /\ Retained(d, x, i)
  <2>1. CASE end > d.itable[i].i_size
    <3>1. MayResize(d, i, end) /\ ~Refused(d, i, end)
      BY <2>1 DEF MayWrite
    <3>2. /\ Sound(Truncated(d, i, end)) /\ Truncated(d, i, end).ibmap = d.ibmap
          /\ Truncated(d, i, end).itable[i].i_size = end
          /\ Retained(d, Truncated(d, i, end), i)
      BY <3>1, <1>1, TruncateSteps
    <3> QED
      BY <2>1, <3>2, <1>1
  <2>2. CASE ~(end > d.itable[i].i_size)
    BY <2>2, <1>1, InodeFields, RetainedItself DEF Sound
  <2> QED
    BY <2>1, <2>2
<1>3. Typed(x) /\ Roles(x, d.ibmap) /\ Linked(x, d.ibmap) /\ Directory(x, d.ibmap)
      /\ Sized(x, d.ibmap) /\ Counted(x)
  BY <1>2 DEF Sound
<1>4. x.itable[i].i_blocks \in Nat /\ x.itable[i].i_size \in Nat /\ offset # x.itable[i].i_size
  BY <1>1, <1>2, <1>3, InodeFields
<1>5. k \in Nat /\ k < x.itable[i].i_blocks
  <2>1. k \in Nat /\ offset % BlockSize \in 0 .. BlockSize - 1
        /\ offset = k * BlockSize + (offset % BlockSize)
    BY <1>1, Multiples
  <2>2. x.itable[i].i_size <= x.itable[i].i_blocks * BlockSize
    BY <1>3 DEF Sized
  <2> HIDE DEF k, x
  <2> DEFINE m == x.itable[i].i_blocks
  <2>3. k \in Int /\ m \in Int /\ k * BlockSize \in Int /\ m * BlockSize \in Int
    BY <2>1, <1>1, <1>4
  <2>4. k * BlockSize < m * BlockSize
    BY <2>1, <2>2, <2>3, <1>1, <1>2, <1>4
  <2> HIDE DEF m
  <2>5. k < m
    BY <2>3, <2>4, <1>1, Multiples
  <2> QED
    BY <2>1, <2>5 DEF m
<1>6. b \in DOMAIN x.data
  <2>1. k \in 0 .. x.itable[i].i_blocks - 1
    BY <1>4, <1>5
  <2> HIDE DEF x, k
  <2>2. At(x, i, k) \in DOMAIN x.data /\ At(x, i, k) = b
    BY <2>1, <1>3, <1>4, <1>5, PlacesOf DEF Roles
  <2> QED
    BY <2>2
<1>7. Written(d, i, offset, n, byte) = y
  <2> DEFINE z == IF offset = x.itable[i].i_size THEN [x EXCEPT !.itable[i].i_size = @ + n] ELSE x
             W(v) == IF Pointer(v, i, k) \notin DOMAIN v.data
                     THEN [v EXCEPT !.status = "write outside the files"]
                     ELSE [v EXCEPT !.data[Pointer(v, i, k)] = [j \in DOMAIN @ |->
                             IF j \in (offset % BlockSize) .. (offset % BlockSize) + n - 1
                             THEN byte ELSE @[j]]]
  <2>1. Written(d, i, offset, n, byte) = IF x.status # "ok" THEN x ELSE W(z)
    BY DEF Written
  <2> HIDE DEF x
  <2>2. x.status = "ok" /\ z = x
    BY <1>3, <1>4 DEF Typed
  <2>3. W(x) = y
    BY <1>6
  <2> HIDE DEF z, W, y
  <2> QED
    BY <2>1, <2>2, <2>3
<1> HIDE DEF x, b, k
<1>8. f \in ByteBlock
  <2>1. x.data[b] \in ByteBlock
    BY <1>3, <1>6 DEF Typed
  <2> QED
    BY <2>1 DEF ByteBlock
<1> HIDE DEF f
<1>9. DOMAIN D = DOMAIN x.data /\ \A a \in DOMAIN D : D[a] \in ByteBlock
  BY <1>3, <1>8 DEF Typed
<1>10. DOMAIN D \subseteq x.dbmap /\ DOMAIN D \cap DOMAIN x.dirs = {} /\ DOMAIN D \cap DOMAIN x.tables = {}
  BY <1>3, <1>9 DEF Typed
<1>11. y = [x EXCEPT !.data = D]
  OBVIOUS
<1> HIDE DEF D, y
<1>12. /\ Typed(y) /\ y.data = D
       /\ y.free_blocks = x.free_blocks /\ y.free_inodes = x.free_inodes
       /\ y.dbmap = x.dbmap /\ y.ibmap = x.ibmap
       /\ y.itable = x.itable /\ y.dirs = x.dirs /\ y.tables = x.tables
  BY <1>3, <1>9, <1>10, <1>11, DataWritten
<1>13. Linked(y, d.ibmap)
  BY <1>3, <1>12, LinkedFields
<1>14. \A j : \A m : At(y, j, m) = At(x, j, m)
  BY <1>12, SameAt
<1>15. Roles(y, d.ibmap)
  BY <1>3, <1>9, <1>12, <1>14 DEF Roles
<1>16. Directory(y, d.ibmap) /\ SameNames(x, y)
  BY <1>2, <1>12, <1>14, RootKept DEF SameNames
<1>17. Sized(y, d.ibmap) /\ Counted(y)
  BY <1>3, <1>12 DEF Sized, Counted, Clear
<1>18. \A a : a # b => D[a] = x.data[a] \/ a \notin DOMAIN x.data
  BY DEF D
<1>19. At(x, i, k) = b /\ k \in Places(x, i)
  BY <1>4, <1>5, PlacesOf DEF b
<1>20. ASSUME NEW j \in d.ibmap, j # ROOT_INO, NEW m \in 0 .. x.itable[j].i_blocks - 1,
              j # i \/ m # k
       PROVE  y.data[At(y, j, m)] = x.data[At(x, j, m)]
  <2>1. j \in Inodes /\ x.itable[j].i_blocks \in Nat
    BY <1>2, <1>3, InodeFields DEF Typed
  <2>2. m \in Places(x, j)
    BY <2>1, Indices
  <2>3. At(x, j, m) # b
    BY <2>2, <1>3, <1>19, <1>20 DEF Linked, NeverShared
  <2>4. At(x, j, m) \in DOMAIN x.data
    BY <1>3, <1>20 DEF Roles
  <2> QED
    BY <2>3, <2>4, <1>12, <1>14, <1>18
<1>21. Overwritten(d, y, i, offset, n)
  <2>1. SameNames(d, y)
    BY <1>2, <1>16 DEF Retained, SameNames
  <2>2. ASSUME NEW j \in d.ibmap \ {i}, j # ROOT_INO PROVE Untouched(d, y, j)
    <3>1. Untouched(d, x, j) /\ y.itable[j] = x.itable[j]
      BY <2>2, <1>2, <1>12 DEF Retained, OthersUntouched
    <3>2. \A m \in 0 .. d.itable[j].i_blocks - 1 : y.data[At(y, j, m)] = x.data[At(x, j, m)]
      BY <3>1, <2>2, <1>20 DEF Untouched
    <3> QED
      BY <3>1, <3>2 DEF Untouched
  <2>3. ASSUME NEW m \in 0 .. y.itable[i].i_blocks - 1, m # k PROVE OldOrZero(d, y, i, m)
    <3>1. OldOrZero(d, x, i, m)
      BY <2>3, <1>2, <1>12 DEF Retained
    <3>2. y.data[At(y, i, m)] = x.data[At(x, i, m)]
      BY <2>3, <1>12, <1>20
    <3> QED
      BY <3>1, <3>2 DEF OldOrZero
  <2>4. y.itable[i].i_size = IF end > d.itable[i].i_size THEN end ELSE d.itable[i].i_size
    BY <1>2, <1>12
  <2> QED
    BY <2>1, <2>2, <2>3, <2>4 DEF Overwritten, OthersUntouched, k
<1> QED
  BY <1>2, <1>7, <1>12, <1>13, <1>15, <1>16, <1>17, <1>21 DEF Sound

\* vsfs_unlink, on the inode bitmap and the inode.
DropInode(x, i, n) ==
  [x EXCEPT !.ibmap = @ \ {i}, !.free_inodes = @ + 1,
            !.itable[i].i_nlink = @ - 1,
            !.itable[i].i_direct = [k \in DOMAIN @ |-> IF k < n THEN BLK_UNASSIGNED ELSE @[k]]]

LEMMA InodeDropped ==
  ASSUME NEW x, Typed(x), NEW i \in Inodes, x.itable[i].i_nlink = 1, NEW n \in Nat,
         NEW y, y = DropInode(x, i, n)
  PROVE  /\ Typed(y) /\ y.ibmap = x.ibmap \ {i} /\ y.free_inodes = x.free_inodes + 1
         /\ y.free_blocks = x.free_blocks /\ y.dbmap = x.dbmap
         /\ y.data = x.data /\ y.dirs = x.dirs /\ y.tables = x.tables
         /\ \A j \in Inodes : j # i => y.itable[j] = x.itable[j]
<1> DEFINE q == x.itable[i]
           r == [q EXCEPT !.i_nlink = @ - 1,
                          !.i_direct = [k \in DOMAIN @ |-> IF k < n THEN BLK_UNASSIGNED ELSE @[k]]]
           B == x.ibmap \ {i}
           m == x.free_inodes + 1
<1>1. /\ IsImage(x) /\ x.itable \in [Inodes -> Inode] /\ q \in Inode
      /\ q.i_direct \in [0 .. NumDirect - 1 -> Nat]
  BY InodeFields DEF Typed
<1>2. r \in Inode
  <2> DEFINE f == [k \in DOMAIN q.i_direct |-> IF k < n THEN BLK_UNASSIGNED ELSE q.i_direct[k]]
  <2>1. f \in [0 .. NumDirect - 1 -> Nat]
    BY <1>1 DEF BLK_UNASSIGNED
  <2>2. r = [q EXCEPT !.i_nlink = 0, !.i_direct = f]
    OBVIOUS
  <2> HIDE DEF f, r, q
  <2> QED
    BY <2>1, <2>2, <1>1 DEF Inode
<1> DEFINE I == [x.itable EXCEPT ![i] = r]
<1>3. y = [x EXCEPT !.ibmap = B, !.free_inodes = m, !.itable = I]
  BY <1>1 DEF Inode, DropInode
<1>4. I \in [Inodes -> Inode] /\ \A j \in Inodes : j # i => I[j] = x.itable[j]
  BY <1>1, <1>2
<1>5. B \subseteq Inodes /\ m \in Int
  BY DEF Typed
<1> HIDE DEF r, I, B, m
<1>7. ASSUME NEW z, z = [x EXCEPT !.ibmap = B, !.free_inodes = m, !.itable = I]
      PROVE  /\ IsImage(z) /\ z.ibmap = B /\ z.free_inodes = m /\ z.itable = I
             /\ z.free_blocks = x.free_blocks /\ z.dbmap = x.dbmap
             /\ z.data = x.data /\ z.dirs = x.dirs /\ z.tables = x.tables
             /\ z.status = x.status
  BY <1>1, <1>7 DEF IsImage
<1>8. ASSUME NEW z, /\ IsImage(z) /\ z.ibmap = B /\ z.free_inodes = m /\ z.itable = I
                    /\ z.free_blocks = x.free_blocks /\ z.dbmap = x.dbmap
                    /\ z.data = x.data /\ z.dirs = x.dirs /\ z.tables = x.tables
                    /\ z.status = x.status
      PROVE  Typed(z)
  BY <1>4, <1>5, <1>8 DEF Typed
<1>9. /\ IsImage(y) /\ y.ibmap = B /\ y.free_inodes = m /\ y.itable = I
      /\ y.free_blocks = x.free_blocks /\ y.dbmap = x.dbmap
      /\ y.data = x.data /\ y.dirs = x.dirs /\ y.tables = x.tables
      /\ y.status = x.status
  BY <1>3, <1>7
<1>10. Typed(y)
  BY <1>8, <1>9
<1> QED
  BY <1>4, <1>9, <1>10 DEF B, m

\* Free leaves an image of the right types.
LEMMA FreedTyped ==
  ASSUME NEW d, Typed(d), NEW F, NEW x, Freed(d, x, F)
  PROVE  Typed(x)
<1>1. /\ \A b \in DOMAIN x.data : x.data[b] \in ByteBlock
      /\ \A b \in DOMAIN x.dirs : x.dirs[b] \in DirBlock
      /\ \A b \in DOMAIN x.tables : \A k \in DOMAIN x.tables[b] : x.tables[b][k] \in Blocks
  BY DEF Freed, Typed
<1>2. /\ DOMAIN x.data \cup DOMAIN x.dirs \cup DOMAIN x.tables \subseteq x.dbmap
      /\ DOMAIN x.data \cap DOMAIN x.dirs = {}
      /\ (DOMAIN x.data \cup DOMAIN x.dirs) \cap DOMAIN x.tables = {}
      /\ x.dbmap \subseteq Blocks
  BY DEF Freed, Typed
<1> QED
  BY <1>1, <1>2 DEF Freed, Typed

\* vsfs_unlink.
\* What vsfs_unlink leaves: all entries but one, and all files but its.
Removed(d, y, name) ==
  /\ y.ibmap = d.ibmap \ {PathLookup(d, name)} /\ OthersUntouched(d, y, y.ibmap)
  /\ Entries(y) = Entries(d)
  /\ \A f \in Entries(d) :
       Entry(y, f) = IF f = First(Named(d, name)) THEN Unused ELSE Entry(d, f)

LEMMA UnlinkSteps ==
  ASSUME NEW d, Sound(d), NEW name \in Names, Exists(d, name)
  PROVE  Sound(Unlinked(d, name)) /\ Removed(d, Unlinked(d, name), name)
<1> DEFINE e == First(Named(d, name))
           i == PathLookup(d, name)
           L == d.ibmap
           K == d.ibmap \ {i}
           table == HasTable(d, i)
           list == BlocksFrom(d, i, 0, table)
           s == SetEntry(d, e, Unused)
           F == GoneBlocks(s, i, 0, table)
           x == Free(s, list)
           n == d.itable[i].i_blocks
           y == DropInode(x, i, n)
<1>1. /\ Typed(d) /\ Linked(d, L) /\ L \in SUBSET Inodes /\ Counted(d)
      /\ Roles(d, L) /\ Directory(d, L) /\ Sized(d, L) /\ NeverShared(d, L)
      /\ ROOT_INO \in L /\ ROOT_INO \in Inodes
  BY RootFacts DEF Sound, Typed, Directory, Linked
<1>2. /\ e \in Entries(d) /\ NamesFile(d, e) /\ i = Entry(d, e).ino
      /\ i \in L /\ i # ROOT_INO /\ i \in Inodes
  BY LookupSteps
<1>3. Unlinked(d, name) = IF x.status # "ok" THEN x ELSE y
  BY DEF Unlinked, DropInode
<1> HIDE DEF e, i
<1>4. Unused \in DirEntry
  BY RootFacts, ConstantTypes DEF Unused, DirEntry, INO_MAX
<1>5. /\ Typed(s)
      /\ s.free_blocks = d.free_blocks /\ s.free_inodes = d.free_inodes
      /\ s.dbmap = d.dbmap /\ s.ibmap = d.ibmap /\ s.itable = d.itable
      /\ s.data = d.data /\ s.tables = d.tables /\ DOMAIN s.dirs = DOMAIN d.dirs
      /\ Entries(s) = Entries(d)
      /\ \A f \in Entries(d) : Entry(s, f) = IF f = e THEN Unused ELSE Entry(d, f)
  BY <1>1, <1>2, <1>4, SetEntrySteps
<1> HIDE DEF s
<1>6. Linked(s, L)
  BY <1>1, <1>5, LinkedFields
<1>7. /\ \A j : \A k : At(s, j, k) = At(d, j, k) /\ Pointer(s, j, k) = Pointer(d, j, k)
      /\ list = BlocksFrom(s, i, 0, table)
  <2>1. \A j : \A k : At(s, j, k) = At(d, j, k)
    BY <1>5, SameAt
  <2>2. \A j : \A k : Pointer(s, j, k) = Pointer(d, j, k)
    BY <1>5, SameAt
  <2> QED
    BY <2>1, <2>2, <1>5 DEF BlocksFrom
<1>8. table \in BOOLEAN /\ (table <=> HasTable(s, i) /\ 0 <= NumDirect)
  BY <1>5, ConstantTypes DEF HasTable
<1>9. n \in Nat /\ s.itable[i].i_blocks = n /\ 0 \in Nat /\ 0 <= n
  BY <1>1, <1>2, <1>5, InodeFields
<1> HIDE DEF list, table, n
<1>10. /\ IsInjective(list) /\ Range(list) = F
       /\ F \in SUBSET s.dbmap /\ IsFiniteSet(F) /\ Len(list) = Cardinality(F)
  BY <1>1, <1>2, <1>5, <1>6, <1>7, <1>8, <1>9, GoneList
<1>11. Freed(s, x, F)
  <2> HIDE DEF F
  <2> QED
    BY <1>5, <1>10, FreeSteps
<1> HIDE DEF x
<1>12. x.status = "ok" /\ Typed(x) /\ x.itable = d.itable /\ x.ibmap = d.ibmap
       /\ x.free_inodes = d.free_inodes
  BY <1>5, <1>11, FreedTyped DEF Freed
<1>13. Unlinked(d, name) = y
  BY <1>3, <1>12
<1>14. x.itable[i].i_nlink = 1
  BY <1>1, <1>2, <1>12 DEF Directory
<1>15. y = DropInode(x, i, n)
  OBVIOUS
<1> HIDE DEF y
<1>16. /\ Typed(y) /\ y.ibmap = x.ibmap \ {i} /\ y.free_inodes = x.free_inodes + 1
       /\ y.free_blocks = x.free_blocks /\ y.dbmap = x.dbmap
       /\ y.data = x.data /\ y.dirs = x.dirs /\ y.tables = x.tables
       /\ \A j \in Inodes : j # i => y.itable[j] = x.itable[j]
  BY <1>2, <1>9, <1>12, <1>14, <1>15, InodeDropped
<1>17. /\ Linked(y, K)
       /\ \A j \in K : \A k \in Places(y, j) :
            k \in Places(s, j) /\ At(y, j, k) = At(s, j, k) /\ At(s, j, k) \notin F
       /\ \A j \in K : j # i => Places(y, j) = Places(s, j)
  <2>1. \A j \in Inodes : j # i => y.itable[j] = s.itable[j]
    BY <1>5, <1>12, <1>16
  <2>2. Remains(s, y, L, K, i, 0)
    BY DEF Remains
  <2>3. y.dbmap = x.dbmap /\ y.tables = x.tables /\ 0 <= s.itable[i].i_blocks
    BY <1>9, <1>16
  <2>4. Freed(s, x, GoneBlocks(s, i, 0, table))
    BY <1>11
  <2> HIDE DEF K, L
  <2> QED
    BY <2>1, <2>2, <2>3, <2>4, <1>1, <1>2, <1>5, <1>6, <1>8, <1>9, Removal
<1> HIDE DEF F
<1>18. \A j \in K : j \in L /\ j \in Inodes /\ j # i /\ y.itable[j] = d.itable[j]
  BY <1>1, <1>12, <1>16
<1>19. ASSUME NEW j \in K, NEW k \in 0 .. y.itable[j].i_blocks - 1
       PROVE  /\ At(y, j, k) \in (IF j = ROOT_INO THEN DOMAIN y.dirs ELSE DOMAIN y.data)
              /\ At(y, j, k) = At(d, j, k) /\ At(d, j, k) \notin F
  <2>1. y.itable[j].i_blocks \in Nat /\ y.itable[j].i_blocks = d.itable[j].i_blocks
    BY <1>16, <1>18, InodeFields
  <2>2. k \in Places(y, j)
    BY <2>1, Indices
  <2>3. At(y, j, k) = At(d, j, k) /\ At(d, j, k) \notin F
    BY <2>2, <1>7, <1>17
  <2>4. At(d, j, k) \in (IF j = ROOT_INO THEN DOMAIN d.dirs ELSE DOMAIN d.data)
    BY <2>1, <1>1, <1>18 DEF Roles
  <2> QED
    BY <2>3, <2>4, <1>5, <1>11, <1>16 DEF Freed
<1>20. /\ Directory(y, K) /\ Entries(y) = Entries(d)
       /\ \A f \in Entries(d) : Entry(y, f) = IF f = e THEN Unused ELSE Entry(d, f)
  <2>1. ROOT_INO \in K /\ y.itable[ROOT_INO] = d.itable[ROOT_INO]
        /\ d.itable[ROOT_INO].i_blocks \in Nat /\ d.itable[ROOT_INO].i_blocks >= 1
    BY <1>1, <1>2, <1>18, InodeFields DEF Directory
  <2>2. ASSUME NEW k \in 0 .. s.itable[ROOT_INO].i_blocks - 1
        PROVE  /\ Pointer(y, ROOT_INO, k) = Pointer(s, ROOT_INO, k)
               /\ y.dirs[Pointer(s, ROOT_INO, k)] = s.dirs[Pointer(s, ROOT_INO, k)]
    <3>1. k \in Nat /\ k \in 0 .. y.itable[ROOT_INO].i_blocks - 1
      BY <2>1, <1>5
    <3>2. At(y, ROOT_INO, k) \in DOMAIN y.dirs /\ At(y, ROOT_INO, k) = At(s, ROOT_INO, k)
      BY <3>1, <2>1, <1>7, <1>19
    <3>3. At(y, ROOT_INO, k) = Pointer(y, ROOT_INO, k) /\ At(s, ROOT_INO, k) = Pointer(s, ROOT_INO, k)
      BY <3>1, <2>1, <1>5, PlacesOf
    <3> QED
      BY <3>2, <3>3, <1>11, <1>16, ZenonT(30) DEF Freed
  <2>3. Entries(y) = Entries(s) /\ \A f \in Entries(s) : Entry(y, f) = Entry(s, f)
    BY <2>1, <2>2, <1>5, SameEntries
  <2>4. 0 \in Entries(d) /\ 1 \in Entries(d)
    BY <2>1, FirstEntries
  <2>5. Entries(y) = Entries(d)
        /\ \A f \in Entries(d) : Entry(y, f) = IF f = e THEN Unused ELSE Entry(d, f)
    BY <2>3, <1>5
  <2>6. /\ \A j \in L : j # i => y.itable[j].i_nlink = d.itable[j].i_nlink
        /\ y.itable[ROOT_INO].i_blocks = d.itable[ROOT_INO].i_blocks
    BY <2>1, <1>18
  <2>7. Directory(d, L) /\ e \in Entries(d) /\ NamesFile(d, e) /\ i = Entry(d, e).ino
    BY <1>1, <1>2
  <2> HIDE DEF L
  <2>8. Directory(y, L \ {i})
    BY <2>4, <2>5, <2>6, <2>7, DirectoryDrops
  <2> QED
    BY <2>5, <2>8 DEF L
<1>21. Sized(y, K)
  BY <1>1, <1>18 DEF Sized
<1>22. Counted(y)
  <2>1. IsFiniteSet(d.ibmap) /\ Cardinality(d.ibmap) \in Nat /\ NumInodes \in Nat
    <3>1. NumInodes \in Nat /\ d.ibmap \in SUBSET (0 .. NumInodes - 1)
      BY <1>1, ConstantTypes DEF Inodes
    <3> QED
      BY <3>1, Bitmap
  <2>2. Cardinality(K) = Cardinality(d.ibmap) - 1
    BY <2>1, <1>2, FS_RemoveElement
  <2>3. y.free_inodes = NumInodes - Cardinality(y.ibmap)
    BY <2>1, <2>2, <1>1, <1>12, <1>16 DEF Counted
  <2>4. y.free_blocks = Clear(y)
    BY <1>1, <1>5, <1>11, <1>16 DEF Counted, Clear, Freed
  <2> QED
    BY <2>3, <2>4 DEF Counted
<1>23. y.ibmap = K /\ Roles(y, K)
  BY <1>12, <1>16, <1>19 DEF Roles
<1>24. ASSUME NEW j \in K, j # ROOT_INO PROVE Untouched(d, y, j)
  <2>1. y.itable[j] = d.itable[j]
    BY <1>18
  <2>2. ASSUME NEW k \in 0 .. d.itable[j].i_blocks - 1
        PROVE  y.data[At(y, j, k)] = d.data[At(d, j, k)]
    <3>1. At(y, j, k) = At(d, j, k) /\ At(y, j, k) \in DOMAIN y.data
      BY <2>1, <1>19, <1>24
    <3> QED
      BY <3>1, <1>5, <1>11, <1>16 DEF Freed
  <2> QED
    BY <2>1, <2>2 DEF Untouched
<1>25. Removed(d, y, name)
  BY <1>20, <1>23, <1>24 DEF Removed, OthersUntouched, e, i
<1> QED
  BY <1>13, <1>16, <1>17, <1>20, <1>21, <1>22, <1>23, <1>25 DEF Sound

\* The name of an unused entry.
NoName == ""

LEMMA NoNameFacts == NoName \notin Names /\ NoName # "." /\ NoName # ".."
  BY NameFacts DEF NoName

\* set_dir_entry finds an entry of no file.
LEMMA FreeEntry ==
  ASSUME NEW d, Sound(d), Exists(d, NoName)
  PROVE  LET e == First(Named(d, NoName))
         IN e \in Entries(d) /\ e \notin {0, 1} /\ Entry(d, e) = Unused
<1> DEFINE e == First(Named(d, NoName))
           n == d.itable[ROOT_INO].i_blocks
           m == n * PerBlock - 1
<1>1. Named(d, NoName) \in SUBSET (0 .. m) /\ Named(d, NoName) # {}
  BY DEF Named, Exists, Entries
<1>2. 0 \in Int /\ m \in Int
  <2>1. n \in Nat /\ PerBlock \in Nat
    BY ConstantTypes, RootFacts, InodeFields DEF Sound
  <2> HIDE DEF n
  <2> QED
    BY <2>1
<1> HIDE DEF m
<1>3. \E x \in Named(d, NoName) : \A y \in Named(d, NoName) : x <= y
  BY <1>1, <1>2, LeastExists, Zenon
<1>4. e \in Named(d, NoName)
  BY <1>3 DEF First
<1> HIDE DEF e
<1>5. e \in Entries(d) /\ Entry(d, e).name = NoName
  BY <1>4 DEF Named
<1>6. e \notin {0, 1}
  <2>1. Entry(d, 0).name = "." /\ Entry(d, 1).name = ".."
    BY DEF Sound, Directory
  <2> QED
    BY <2>1, <1>5, NoNameFacts
<1>7. ~NamesFile(d, e)
  BY <1>5, NoNameFacts DEF Sound, Directory
<1> QED
  BY <1>5, <1>6, <1>7 DEF NamesFile, e

\* bitmap_alloc on the inode bitmap.
TakeInode(d, ino) == [d EXCEPT !.ibmap = @ \cup {ino}]

TookInode(d, y, ino) ==
  /\ Typed(y) /\ y.ibmap = d.ibmap \cup {ino}
  /\ y.free_blocks = d.free_blocks /\ y.free_inodes = d.free_inodes
  /\ y.dbmap = d.dbmap /\ y.itable = d.itable
  /\ y.data = d.data /\ y.dirs = d.dirs /\ y.tables = d.tables

LEMMA InodeTaken ==
  ASSUME NEW d, Typed(d), NEW ino \in Inodes, NEW y, y = TakeInode(d, ino)
  PROVE  TookInode(d, y, ino)
<1> DEFINE B == d.ibmap \cup {ino}
<1>1. IsImage(d) /\ y = [d EXCEPT !.ibmap = B]
  BY DEF Typed, TakeInode
<1>2. B \subseteq Inodes
  BY DEF Typed
<1> HIDE DEF B
<1>3. /\ IsImage(y) /\ y.status = d.status /\ y.ibmap = B
      /\ y.free_blocks = d.free_blocks /\ y.free_inodes = d.free_inodes
      /\ y.dbmap = d.dbmap /\ y.itable = d.itable
      /\ y.data = d.data /\ y.dirs = d.dirs /\ y.tables = d.tables
  BY <1>1 DEF IsImage
<1>4. Typed(y)
  BY <1>2, <1>3 DEF Typed
<1> QED
  BY <1>3, <1>4 DEF B, TookInode

\* What set_dir_entry leaves: one more entry, for an inode still to be written.
EntryAdded(d, x, ino, name) ==
  /\ Typed(x) /\ Linked(x, d.ibmap) /\ Roles(x, d.ibmap) /\ Sized(x, d.ibmap)
  /\ x.ibmap = d.ibmap \cup {ino} /\ x.free_inodes = d.free_inodes /\ x.free_blocks = Clear(x)
  /\ x.itable[ROOT_INO].i_blocks >= 1
  /\ \A i \in Inodes : x.itable[i].i_nlink = d.itable[i].i_nlink
  /\ OthersUntouched(d, x, d.ibmap) /\ Entries(d) \subseteq Entries(x)
  /\ \E new \in Entries(x) :
       /\ new \notin {0, 1}
       /\ new \in Entries(d) => Entry(d, new) = Unused
       /\ Entry(x, new) = [ino |-> ino, name |-> name]
       /\ \A e \in Entries(x) : e # new =>
            Entry(x, e) = IF e \in Entries(d) THEN Entry(d, e) ELSE Unused

\* An entry that was unused.
LEMMA ReuseSteps ==
  ASSUME NEW d, Sound(d), NEW ino \in Inodes, ino \notin d.ibmap, NEW name \in Names,
         NEW c, TookInode(d, c, ino), Exists(d, NoName)
  PROVE  EntryAdded(d, SetEntry(c, First(Named(c, NoName)), [ino |-> ino, name |-> name]), ino, name)
<1> DEFINE e == First(Named(d, NoName))
           entry == [ino |-> ino, name |-> name]
           L == d.ibmap
           x == SetEntry(c, e, entry)
<1>1. /\ Typed(d) /\ Linked(d, L) /\ L \in SUBSET Inodes /\ Counted(d)
      /\ Roles(d, L) /\ Directory(d, L) /\ Sized(d, L) /\ NeverShared(d, L)
      /\ ROOT_INO \in L /\ ROOT_INO \in Inodes
  BY RootFacts DEF Sound, Typed, Directory, Linked
<1>2. /\ Typed(c) /\ c.ibmap = L \cup {ino}
      /\ c.free_blocks = d.free_blocks /\ c.free_inodes = d.free_inodes
      /\ c.dbmap = d.dbmap /\ c.itable = d.itable
      /\ c.data = d.data /\ c.dirs = d.dirs /\ c.tables = d.tables
  BY DEF TookInode
<1>3. /\ \A j : \A k : Pointer(c, j, k) = Pointer(d, j, k)
      /\ \A j : \A k : At(c, j, k) = At(d, j, k)
  <2>1. \A j : \A k : Pointer(c, j, k) = Pointer(d, j, k)
    BY <1>2, SameAt
  <2>2. \A j : \A k : At(c, j, k) = At(d, j, k)
    BY <1>2, SameAt
  <2> QED
    BY <2>1, <2>2
<1>4. /\ Entries(c) = Entries(d) /\ \A f : Entry(c, f) = Entry(d, f)
      /\ Named(c, NoName) = Named(d, NoName)
  BY <1>2, <1>3 DEF Entries, Entry, Named
<1>5. e \in Entries(c) /\ e \notin {0, 1} /\ Entry(d, e) = Unused
  BY <1>4, FreeEntry
<1>6. entry \in DirEntry
  BY RootFacts DEF DirEntry
<1>7. Linked(c, L) /\ NeverShared(c, L) /\ Roles(c, L)
  <2>1. Linked(c, L)
    BY <1>1, <1>2, LinkedFields
  <2>2. Roles(c, L)
    BY <1>1, <1>2, <1>3 DEF Roles
  <2> QED
    BY <2>1, <2>2 DEF Linked
<1>8. SetEntry(c, First(Named(c, NoName)), entry) = x
  BY <1>4
<1> HIDE DEF e, entry
<1>9. /\ Typed(x)
      /\ x.free_blocks = c.free_blocks /\ x.free_inodes = c.free_inodes
      /\ x.dbmap = c.dbmap /\ x.ibmap = c.ibmap /\ x.itable = c.itable
      /\ x.data = c.data /\ x.tables = c.tables /\ DOMAIN x.dirs = DOMAIN c.dirs
      /\ Entries(x) = Entries(c)
      /\ \A f \in Entries(c) : Entry(x, f) = IF f = e THEN entry ELSE Entry(c, f)
  <2>1. /\ Typed(c) /\ L \in SUBSET Inodes /\ ROOT_INO \in L /\ Roles(c, L) /\ NeverShared(c, L)
        /\ e \in Entries(c) /\ entry \in DirEntry
    BY <1>1, <1>2, <1>5, <1>6, <1>7
  <2> HIDE DEF L
  <2> QED
    BY <2>1, SetEntrySteps
<1> HIDE DEF x
<1>10. Linked(x, L)
  BY <1>7, <1>9, LinkedFields
<1>11. \A j : \A k : At(x, j, k) = At(c, j, k)
  BY <1>9, SameAt
<1>12. Roles(x, L)
  BY <1>7, <1>9, <1>11 DEF Roles
<1>13. Sized(x, L) /\ x.free_blocks = Clear(x)
  BY <1>1, <1>2, <1>9 DEF Sized, Counted, Clear
<1>14. x.itable = d.itable /\ d.itable[ROOT_INO].i_blocks >= 1
  BY <1>1, <1>2, <1>9 DEF Directory
<1>15. \E new \in Entries(x) :
         /\ new \notin {0, 1}
         /\ new \in Entries(d) => Entry(d, new) = Unused
         /\ Entry(x, new) = entry
         /\ \A f \in Entries(x) : f # new =>
              Entry(x, f) = IF f \in Entries(d) THEN Entry(d, f) ELSE Unused
  <2>1. e \in Entries(x) /\ Entry(x, e) = entry
    BY <1>5, <1>9
  <2>2. \A f \in Entries(x) : f # e => Entry(x, f) = IF f \in Entries(d) THEN Entry(d, f) ELSE Unused
    BY <1>4, <1>9
  <2> QED
    BY <2>1, <2>2, <1>5
<1>16. EntryAdded(d, x, ino, name)
  <2>1. Entries(d) \subseteq Entries(x) /\ x.ibmap = L \cup {ino} /\ x.free_inodes = d.free_inodes
    BY <1>2, <1>4, <1>9
  <2>2. OthersUntouched(d, x, L)
    BY <1>2, <1>3, <1>9, <1>11 DEF OthersUntouched, Untouched
  <2> QED
    BY <2>1, <2>2, <1>9, <1>10, <1>12, <1>13, <1>14, <1>15 DEF EntryAdded, entry
<1> QED
  BY <1>8, <1>16 DEF entry

\* The blocks of entries are written.
LEMMA DirsWritten ==
  ASSUME NEW d, Typed(d), NEW E, \A b \in DOMAIN E : E[b] \in DirBlock,
         DOMAIN E \subseteq d.dbmap,
         DOMAIN E \cap DOMAIN d.data = {}, DOMAIN E \cap DOMAIN d.tables = {},
         NEW y, y = [d EXCEPT !.dirs = E]
  PROVE  /\ Typed(y) /\ y.dirs = E
         /\ y.free_blocks = d.free_blocks /\ y.free_inodes = d.free_inodes
         /\ y.dbmap = d.dbmap /\ y.ibmap = d.ibmap
         /\ y.itable = d.itable /\ y.data = d.data /\ y.tables = d.tables
<1>1. IsImage(d)
  BY DEF Typed
<1>2. /\ IsImage(y) /\ y.status = d.status /\ y.dirs = E
      /\ y.free_blocks = d.free_blocks /\ y.free_inodes = d.free_inodes
      /\ y.dbmap = d.dbmap /\ y.ibmap = d.ibmap
      /\ y.itable = d.itable /\ y.data = d.data /\ y.tables = d.tables
  BY <1>1 DEF IsImage
<1>3. (E = y.dirs) /\ DOMAIN d.data \cup DOMAIN d.tables \subseteq d.dbmap
      /\ DOMAIN d.data \cap DOMAIN d.tables = {}
  BY <1>2 DEF Typed
<1>4. /\ DOMAIN y.data \cup DOMAIN y.dirs \cup DOMAIN y.tables \subseteq y.dbmap
      /\ DOMAIN y.data \cap DOMAIN y.dirs = {}
      /\ (DOMAIN y.data \cup DOMAIN y.dirs) \cap DOMAIN y.tables = {}
  BY <1>2, <1>3
<1> QED
  BY <1>2, <1>4 DEF Typed

\* Which entries one more block holds.
LEMMA MoreEntries ==
  ASSUME NEW n \in Nat
  PROVE  /\ n * PerBlock \in Nat /\ n * PerBlock \in 0 .. (n + 1) * PerBlock - 1
         /\ n >= 1 => n * PerBlock >= 2
         /\ n * PerBlock \notin 0 .. n * PerBlock - 1
         /\ 0 .. n * PerBlock - 1 \subseteq 0 .. (n + 1) * PerBlock - 1
         /\ (n * PerBlock) \div PerBlock = n /\ (n * PerBlock) % PerBlock = 0
         /\ \A e \in 0 .. (n + 1) * PerBlock - 1 : e \notin 0 .. n * PerBlock - 1 =>
              /\ e \div PerBlock = n /\ e % PerBlock \in 0 .. PerBlock - 1
              /\ e # n * PerBlock => e % PerBlock # 0
<1> DEFINE P == PerBlock
           m == n * P
           q == (n + 1) * P
<1>1. P \in Nat \ {0} /\ P >= 2
  BY ConstantTypes
<1>2. m \in Nat /\ q = m + P
  BY <1>1
<1>3. n >= 1 => m >= 2
  <2>1. n > 1 => 1 * P + P <= n * P
    BY <1>1, Multiples
  <2>2. 1 * P = P
    BY <1>1
  <2>3. n >= 1 => n = 1 \/ n > 1
    OBVIOUS
  <2> QED
    BY <2>1, <2>2, <2>3, <1>1
<1>4. ASSUME NEW b \in Nat, b < P
      PROVE  (m + b) \div P = n /\ (m + b) % P = b
  BY <1>1, <1>4, DivMod
<1> HIDE DEF m, P, q
<1>5. m \div P = n /\ m % P = 0
  <2>1. 0 \in Nat /\ 0 < P /\ m + 0 = m
    BY <1>1, <1>2
  <2> QED
    BY <2>1, <1>4
<1>6. ASSUME NEW e \in 0 .. q - 1, e \notin 0 .. m - 1
      PROVE  e \div P = n /\ e % P \in 0 .. P - 1 /\ (e # m => e % P # 0)
  <2>1. e - m \in Nat /\ e - m < P /\ m + (e - m) = e
    BY <1>1, <1>2, <1>6
  <2>2. e \div P = n /\ e % P = e - m
    BY <2>1, <1>4
  <2> QED
    BY <2>1, <2>2, <1>1, <1>2, <1>6
<1>7. /\ m \in 0 .. q - 1 /\ m \notin 0 .. m - 1
      /\ 0 .. m - 1 \subseteq 0 .. q - 1
  BY <1>1, <1>2
<1> QED
  BY <1>2, <1>3, <1>5, <1>6, <1>7 DEF m, P, q

LEMMA UnusedType == Unused \in DirEntry
  BY RootFacts, ConstantTypes DEF Unused, DirEntry, INO_MAX

LEMMA NewDirBlockType ==
  ASSUME NEW entry \in DirEntry
  PROVE  /\ NewDirBlock(entry) \in DirBlock /\ NewDirBlock(entry)[0] = entry
         /\ \A j \in 0 .. PerBlock - 1 : j # 0 => NewDirBlock(entry)[j] = Unused
<1>1. 0 \in 0 .. PerBlock - 1
  BY ConstantTypes
<1> QED
  BY <1>1, UnusedType DEF NewDirBlock, DirBlock

\* A new block of entries, with room for it.
LEMMA NewTableSteps ==
  ASSUME NEW d, Sound(d), NEW ino \in Inodes, ino \notin d.ibmap, NEW name \in Names,
         NEW c, TookInode(d, c, ino),
         d.itable[ROOT_INO].i_blocks < MaxBlocks,
         Need(d.itable[ROOT_INO].i_blocks, d.itable[ROOT_INO].i_blocks + 1) <= Clear(d)
  PROVE  EntryAdded(d, create_new_dentry_table(c, [ino |-> ino, name |-> name]), ino, name)
<1> DEFINE L == d.ibmap
           entry == [ino |-> ino, name |-> name]
           curr == d.itable[ROOT_INO].i_blocks
           x == Extend(c, ROOT_INO, curr + 1)
           new == Pointer(x, ROOT_INO, curr)
           r == [x.itable[ROOT_INO] EXCEPT !.i_size = @ + BlockSize]
           I == [x.itable EXCEPT ![ROOT_INO] = r]
           E == [b \in DOMAIN x.dirs \cup {new} |->
                  IF b = new THEN NewDirBlock(entry) ELSE x.dirs[b]]
           v == [x EXCEPT !.itable = I]
           y == [v EXCEPT !.dirs = E]
<1>1. /\ Typed(d) /\ Linked(d, L) /\ L \in SUBSET Inodes /\ Counted(d)
      /\ Roles(d, L) /\ Directory(d, L) /\ Sized(d, L)
      /\ ROOT_INO \in L /\ ROOT_INO \in Inodes
  BY RootFacts DEF Sound, Typed, Directory
<1>2. /\ Typed(c) /\ c.ibmap = L \cup {ino}
      /\ c.free_blocks = d.free_blocks /\ c.free_inodes = d.free_inodes
      /\ c.dbmap = d.dbmap /\ c.itable = d.itable
      /\ c.data = d.data /\ c.dirs = d.dirs /\ c.tables = d.tables
  BY DEF TookInode
<1>3. /\ curr \in Nat /\ curr >= 1 /\ MaxBlocks \in Nat /\ BlockSize \in Nat \ {0}
      /\ \A j \in L : j \in Inodes /\ d.itable[j].i_blocks \in Nat
  BY <1>1, InodeFields, ConstantTypes DEF Directory
<1>4. entry \in DirEntry
  BY RootFacts DEF DirEntry
<1>5. create_new_dentry_table(c, entry) = IF x.status # "ok" THEN x ELSE y
  BY <1>2 DEF create_new_dentry_table
<1>6. Linked(c, L)
  BY <1>1, <1>2, LinkedFields
<1>7. Typed(x) /\ Linked(x, L) /\ Extended(c, x, L, ROOT_INO, curr + 1)
  <2>1. /\ curr + 1 \in Nat /\ c.itable[ROOT_INO].i_blocks < curr + 1 /\ curr + 1 <= MaxBlocks
        /\ Need(c.itable[ROOT_INO].i_blocks, curr + 1) <= Clear(c)
    BY <1>2, <1>3 DEF Clear
  <2> QED
    BY <2>1, <1>1, <1>2, <1>6, ExtendSteps
<1> HIDE DEF x
<1>8. create_new_dentry_table(c, entry) = y
  BY <1>5, <1>7 DEF Typed
<1>9. /\ x.ibmap = c.ibmap /\ x.free_inodes = d.free_inodes
      /\ x.data = d.data /\ x.dirs = d.dirs
      /\ x.free_blocks = Clear(x)
      /\ \A j \in Inodes : j # ROOT_INO => x.itable[j] = d.itable[j]
      /\ x.itable[ROOT_INO].i_blocks = curr + 1
      /\ x.itable[ROOT_INO].i_nlink = d.itable[ROOT_INO].i_nlink
      /\ x.itable[ROOT_INO].i_size = d.itable[ROOT_INO].i_size
      /\ \A j \in L : \A k \in Places(c, j) : k \in Places(x, j) /\ At(x, j, k) = At(c, j, k)
      /\ At(x, ROOT_INO, curr) \in x.dbmap /\ At(x, ROOT_INO, curr) \notin c.dbmap
      /\ At(x, ROOT_INO, curr) \notin DOMAIN x.tables
  BY <1>1, <1>2, <1>3, <1>7 DEF Extended, Counted, Clear
<1>10. new = At(x, ROOT_INO, curr)
  BY <1>3, <1>9, PlacesOf
<1>11. \A j : \A k : At(c, j, k) = At(d, j, k)
  BY <1>2, SameAt
<1>12. \A j \in L : \A k \in 0 .. d.itable[j].i_blocks - 1 : At(x, j, k) = At(d, j, k)
  BY <1>2, <1>3, <1>9, <1>11, Indices
<1> HIDE DEF entry, new
<1>13. /\ DOMAIN E = DOMAIN d.dirs \cup {new} /\ E[new] = NewDirBlock(entry)
       /\ \A b \in DOMAIN d.dirs : E[b] = d.dirs[b]
       /\ \A b \in DOMAIN E : E[b] \in DirBlock
  <2>1. new \notin DOMAIN d.dirs
    BY <1>1, <1>2, <1>9, <1>10 DEF Typed
  <2>2. \A b \in DOMAIN d.dirs : d.dirs[b] \in DirBlock
    BY <1>1 DEF Typed
  <2>3. /\ DOMAIN E = DOMAIN d.dirs \cup {new} /\ E[new] = NewDirBlock(entry)
        /\ \A b \in DOMAIN d.dirs : E[b] = d.dirs[b]
    BY <2>1, <1>9
  <2> HIDE DEF E
  <2> QED
    BY <2>2, <2>3, <1>4, NewDirBlockType
<1>14. /\ r \in Inode /\ r.i_blocks = curr + 1 /\ r.i_size = d.itable[ROOT_INO].i_size + BlockSize
       /\ r.i_nlink = d.itable[ROOT_INO].i_nlink
       /\ r.i_direct = x.itable[ROOT_INO].i_direct /\ r.i_indirect = x.itable[ROOT_INO].i_indirect
  <2> DEFINE q == x.itable[ROOT_INO]
  <2>1. q \in Inode /\ q.i_size \in Nat
    BY <1>1, <1>7, InodeFields
  <2>2. q.i_size + BlockSize \in Nat
    BY <2>1, <1>3
  <2> DEFINE z == q.i_size + BlockSize
  <2>3. r = [q EXCEPT !.i_size = z]
    OBVIOUS
  <2>4. z \in Nat /\ z = d.itable[ROOT_INO].i_size + BlockSize
    BY <2>2, <1>9
  <2>5. q.i_blocks = curr + 1 /\ q.i_nlink = d.itable[ROOT_INO].i_nlink
    BY <1>9
  <2> HIDE DEF r, q, z
  <2>6. /\ r \in Inode /\ r.i_blocks = q.i_blocks /\ r.i_size = z /\ r.i_nlink = q.i_nlink
        /\ r.i_direct = q.i_direct /\ r.i_indirect = q.i_indirect
    BY <2>1, <2>3, <2>4 DEF Inode
  <2> QED
    BY <2>4, <2>5, <2>6 DEF q
<1> HIDE DEF r
<1>15. WroteInode(x, v, ROOT_INO, r)
  <2>1. I = [x.itable EXCEPT ![ROOT_INO] = r]
    OBVIOUS
  <2>2. v = [x EXCEPT !.itable = I]
    OBVIOUS
  <2> HIDE DEF v, I
  <2> QED
    BY <2>1, <2>2, <1>1, <1>7, <1>14, InodeWritten
<1>16. y = [v EXCEPT !.dirs = E]
  OBVIOUS
<1> HIDE DEF v, y
<1>17. /\ Typed(v)
       /\ v.free_blocks = x.free_blocks /\ v.free_inodes = x.free_inodes
       /\ v.dbmap = x.dbmap /\ v.ibmap = x.ibmap
       /\ v.data = x.data /\ v.dirs = x.dirs /\ v.tables = x.tables
       /\ v.itable[ROOT_INO] = r
       /\ \A j \in Inodes : j # ROOT_INO => v.itable[j] = x.itable[j]
  BY <1>15 DEF WroteInode
<1> HIDE DEF E
<1>18. /\ Typed(y) /\ y.dirs = E
       /\ y.free_blocks = v.free_blocks /\ y.free_inodes = v.free_inodes
       /\ y.dbmap = v.dbmap /\ y.ibmap = v.ibmap
       /\ y.itable = v.itable /\ y.data = v.data /\ y.tables = v.tables
  <2>1. \A b \in DOMAIN E : b \in v.dbmap /\ b \notin DOMAIN v.data /\ b \notin DOMAIN v.tables
    <3>1. new \in x.dbmap /\ new \notin d.dbmap /\ new \notin DOMAIN x.tables
      BY <1>2, <1>9, <1>10
    <3>2. new \notin DOMAIN d.data
      BY <3>1, <1>1 DEF Typed
    <3>3. \A b \in DOMAIN x.dirs : b \in x.dbmap /\ b \notin DOMAIN x.data /\ b \notin DOMAIN x.tables
      BY <1>7 DEF Typed
    <3> QED
      BY <3>1, <3>2, <3>3, <1>9, <1>13, <1>17
  <2>2. /\ \A b \in DOMAIN E : E[b] \in DirBlock
        /\ DOMAIN E \subseteq v.dbmap
        /\ DOMAIN E \cap DOMAIN v.data = {} /\ DOMAIN E \cap DOMAIN v.tables = {}
    BY <2>1, <1>13
  <2> QED
    BY <2>2, <1>16, <1>17, DirsWritten
<1>19. \A j \in L : /\ y.itable[j].i_blocks = x.itable[j].i_blocks
                    /\ y.itable[j].i_direct = x.itable[j].i_direct
                    /\ y.itable[j].i_indirect = x.itable[j].i_indirect
  <2> SUFFICES ASSUME NEW j \in L
               PROVE  /\ y.itable[j].i_blocks = x.itable[j].i_blocks
                      /\ y.itable[j].i_direct = x.itable[j].i_direct
                      /\ y.itable[j].i_indirect = x.itable[j].i_indirect
    OBVIOUS
  <2>1. CASE j = ROOT_INO
    BY <2>1, <1>9, <1>14, <1>17, <1>18
  <2>2. CASE j # ROOT_INO
    BY <2>2, <1>3, <1>17, <1>18
  <2> QED
    BY <2>1, <2>2
<1>20. Linked(y, L)
  <2>1. y.dbmap = x.dbmap /\ y.tables = x.tables
    BY <1>17, <1>18
  <2> QED
    BY <2>1, <1>7, <1>19, LinkedFields
<1>21. \A j \in L : \A k : At(y, j, k) = At(x, j, k)
  <2>1. y.tables = x.tables
    BY <1>17, <1>18
  <2> QED
    BY <2>1, <1>19, SameAt
<1>22. /\ y.itable[ROOT_INO].i_blocks = curr + 1
       /\ \A k \in 0 .. curr - 1 :
            /\ Pointer(y, ROOT_INO, k) = Pointer(d, ROOT_INO, k)
            /\ Pointer(d, ROOT_INO, k) \in DOMAIN d.dirs
       /\ Pointer(y, ROOT_INO, curr) = new
  <2>1. y.itable[ROOT_INO].i_blocks = curr + 1
    BY <1>14, <1>17, <1>18
  <2>2. \A k \in Nat : At(y, ROOT_INO, k) = Pointer(y, ROOT_INO, k)
                       /\ At(d, ROOT_INO, k) = Pointer(d, ROOT_INO, k)
    BY <2>1, <1>3, PlacesOf
  <2>3. \A k \in 0 .. curr - 1 : k \in Nat /\ At(y, ROOT_INO, k) = At(d, ROOT_INO, k)
                                 /\ At(d, ROOT_INO, k) \in DOMAIN d.dirs
    BY <1>1, <1>3, <1>12, <1>21 DEF Roles
  <2> QED
    BY <2>1, <2>2, <2>3, <1>1, <1>3, <1>10, <1>21
<1>23. Roles(y, L)
  <2> SUFFICES ASSUME NEW j \in L, NEW k \in 0 .. y.itable[j].i_blocks - 1
               PROVE  At(y, j, k) \in (IF j = ROOT_INO THEN DOMAIN y.dirs ELSE DOMAIN y.data)
    BY DEF Roles
  <2>1. CASE j = ROOT_INO /\ k = curr
    BY <2>1, <1>10, <1>13, <1>18, <1>21
  <2>2. CASE ~(j = ROOT_INO /\ k = curr)
    <3>1. k \in 0 .. d.itable[j].i_blocks - 1
      BY <2>2, <1>3, <1>9, <1>19
    <3>2. At(y, j, k) = At(d, j, k)
      BY <3>1, <1>12, <1>21
    <3>3. At(d, j, k) \in (IF j = ROOT_INO THEN DOMAIN d.dirs ELSE DOMAIN d.data)
      BY <3>1, <1>1 DEF Roles
    <3> QED
      BY <3>2, <3>3, <1>9, <1>13, <1>17, <1>18
  <2> QED
    BY <2>1, <2>2
<1>24. Sized(y, L)
  <2> SUFFICES ASSUME NEW j \in L
               PROVE  /\ y.itable[j].i_size <= y.itable[j].i_blocks * BlockSize
                      /\ y.itable[j].i_size > (y.itable[j].i_blocks - 1) * BlockSize
    BY DEF Sized
  <2>1. CASE j # ROOT_INO
    <3>1. y.itable[j] = d.itable[j]
      BY <2>1, <1>3, <1>9, <1>17, <1>18
    <3> QED
      BY <3>1, <1>1 DEF Sized
  <2>2. CASE j = ROOT_INO
    <3> DEFINE z == d.itable[ROOT_INO].i_size
    <3>1. z \in Nat /\ z <= curr * BlockSize /\ z > (curr - 1) * BlockSize
      BY <1>1, InodeFields DEF Sized
    <3>2. y.itable[j].i_size = z + BlockSize /\ y.itable[j].i_blocks = curr + 1
      BY <2>2, <1>14, <1>17, <1>18
    <3> HIDE DEF z, curr
    <3>3. /\ curr * BlockSize \in Int /\ (curr + 1) * BlockSize = curr * BlockSize + BlockSize
          /\ (curr - 1) * BlockSize = curr * BlockSize - BlockSize
      BY <1>3, Multiples
    <3>4. (curr + 1) - 1 = curr
      BY <1>3
    <3>5. z + BlockSize <= (curr + 1) * BlockSize /\ z + BlockSize > curr * BlockSize
      BY <3>1, <3>3, <1>3
    <3> QED
      BY <3>2, <3>4, <3>5
  <2> QED
    BY <2>1, <2>2
<1>25. /\ Entries(d) = 0 .. curr * PerBlock - 1
       /\ Entries(y) = 0 .. (curr + 1) * PerBlock - 1
  BY <1>22 DEF Entries
<1>26. ASSUME NEW e \in Entries(d) PROVE Entry(y, e) = Entry(d, e)
  <2>1. e \div PerBlock \in 0 .. curr - 1
    BY <1>3, <1>25, EntryIndex
  <2>2. y.dirs[Pointer(d, ROOT_INO, e \div PerBlock)] = d.dirs[Pointer(d, ROOT_INO, e \div PerBlock)]
    BY <2>1, <1>13, <1>18, <1>22
  <2> QED
    BY <2>1, <2>2, <1>22 DEF Entry
<1>27. \E f \in Entries(y) :
         /\ f \notin {0, 1}
         /\ f \in Entries(d) => Entry(d, f) = Unused
         /\ Entry(y, f) = entry
         /\ \A e \in Entries(y) : e # f =>
              Entry(y, e) = IF e \in Entries(d) THEN Entry(d, e) ELSE Unused
  <2> DEFINE f == curr * PerBlock
  <2> HIDE DEF curr
  <2>1. /\ f \in Entries(y) /\ f \notin Entries(d) /\ f >= 2 /\ f \in Nat
        /\ f \div PerBlock = curr /\ f % PerBlock = 0
        /\ \A e \in Entries(y) : e \notin Entries(d) =>
             /\ e \div PerBlock = curr /\ e % PerBlock \in 0 .. PerBlock - 1
             /\ e # f => e % PerBlock # 0
    BY <1>3, <1>25, MoreEntries
  <2> HIDE DEF f
  <2>2. Entry(y, f) = entry
    BY <2>1, <1>4, <1>13, <1>18, <1>22, NewDirBlockType DEF Entry
  <2>3. \A e \in Entries(y) : e # f /\ e \notin Entries(d) => Entry(y, e) = Unused
    BY <2>1, <1>4, <1>13, <1>18, <1>22, NewDirBlockType DEF Entry
  <2>4. f \notin {0, 1}
    BY <2>1
  <2> QED
    BY <2>1, <2>2, <2>3, <2>4, <1>26
<1>28. /\ y.ibmap = L \cup {ino} /\ y.free_inodes = d.free_inodes /\ y.free_blocks = Clear(y)
       /\ y.itable[ROOT_INO].i_blocks >= 1
  BY <1>2, <1>3, <1>9, <1>17, <1>18, <1>22 DEF Clear
<1>29. \A j \in Inodes : y.itable[j].i_nlink = d.itable[j].i_nlink
  BY <1>9, <1>14, <1>17, <1>18
<1>30. Entries(d) \subseteq Entries(y)
  BY <1>3, <1>25, MoreEntries
<1>31. OthersUntouched(d, y, L)
  <2> SUFFICES ASSUME NEW j \in L, j # ROOT_INO PROVE Untouched(d, y, j)
    BY DEF OthersUntouched
  <2>1. y.itable[j] = d.itable[j]
    BY <1>3, <1>9, <1>17, <1>18
  <2>2. y.data = d.data
    BY <1>9, <1>17, <1>18
  <2>3. \A k \in 0 .. d.itable[j].i_blocks - 1 : At(y, j, k) = At(d, j, k)
    BY <1>12, <1>21
  <2> QED
    BY <2>1, <2>2, <2>3 DEF Untouched
<1>32. EntryAdded(d, y, ino, name)
  BY <1>18, <1>20, <1>23, <1>24, <1>27, <1>28, <1>29, <1>30, <1>31 DEF EntryAdded, entry
<1> QED
  BY <1>8, <1>32 DEF entry

\* What vsfs_create leaves: one more entry, for an empty file with inode ino.
Added(d, y, ino, name) ==
  /\ y.ibmap = d.ibmap \cup {ino} /\ y.itable[ino].i_size = 0
  /\ OthersUntouched(d, y, d.ibmap) /\ Entries(d) \subseteq Entries(y)
  /\ \E new \in Entries(y) :
       /\ new \notin {0, 1}
       /\ new \in Entries(d) => Entry(d, new) = Unused
       /\ Entry(y, new) = [ino |-> ino, name |-> name]
       /\ \A e \in Entries(y) : e # new =>
            Entry(y, e) = IF e \in Entries(d) THEN Entry(d, e) ELSE Unused

\* The inode of the new file is written.
LEMMA CreatedSteps ==
  ASSUME NEW d, Sound(d), NEW ino \in Inodes, ino \notin d.ibmap, NEW name \in Names,
         ~Exists(d, name), NEW x, EntryAdded(d, x, ino, name),
         NEW y, WroteInode(x, y, ino,
                  [x.itable[ino] EXCEPT !.i_nlink = 1, !.i_blocks = 0, !.i_size = 0]),
         NEW z, z = [y EXCEPT !.free_inodes = @ - 1]
  PROVE  Sound(z) /\ Added(d, z, ino, name)
<1> DEFINE L == d.ibmap
           M == d.ibmap \cup {ino}
           r == [x.itable[ino] EXCEPT !.i_nlink = 1, !.i_blocks = 0, !.i_size = 0]
<1>1. /\ Typed(x) /\ Linked(x, L) /\ Roles(x, L) /\ Sized(x, L)
      /\ x.ibmap = M /\ x.free_inodes = d.free_inodes /\ x.free_blocks = Clear(x)
      /\ x.itable[ROOT_INO].i_blocks >= 1
      /\ \A i \in Inodes : x.itable[i].i_nlink = d.itable[i].i_nlink
      /\ Entries(d) \subseteq Entries(x)
  BY DEF EntryAdded
<1>2. PICK new \in Entries(x) :
         /\ new \notin {0, 1}
         /\ new \in Entries(d) => Entry(d, new) = Unused
         /\ Entry(x, new) = [ino |-> ino, name |-> name]
         /\ \A e \in Entries(x) : e # new =>
              Entry(x, e) = IF e \in Entries(d) THEN Entry(d, e) ELSE Unused
  BY DEF EntryAdded
<1>3. /\ Directory(d, L) /\ Counted(d) /\ ROOT_INO \in L /\ ROOT_INO \in Inodes
      /\ d.itable[ROOT_INO].i_blocks \in Nat /\ d.itable[ROOT_INO].i_blocks >= 1
      /\ \A i \in L : i \in Inodes
  BY RootFacts, InodeFields DEF Sound, Directory, Typed
<1>4. r.i_nlink = 1 /\ r.i_blocks = 0 /\ r.i_size = 0
  <2>1. x.itable[ino] \in Inode
    BY <1>1, InodeFields
  <2> QED
    BY <2>1 DEF Inode
<1>5. WroteInode(x, y, ino, r)
  OBVIOUS
<1> HIDE DEF r
<1>6. /\ Typed(y)
      /\ y.free_blocks = x.free_blocks /\ y.free_inodes = x.free_inodes
      /\ y.dbmap = x.dbmap /\ y.ibmap = x.ibmap
      /\ y.data = x.data /\ y.dirs = x.dirs /\ y.tables = x.tables
      /\ y.itable[ino] = r /\ \A j \in Inodes : j # ino => y.itable[j] = x.itable[j]
  BY <1>5 DEF WroteInode
<1>7. /\ Typed(z)
      /\ z.free_blocks = x.free_blocks /\ z.free_inodes = x.free_inodes - 1
      /\ z.dbmap = x.dbmap /\ z.ibmap = M
      /\ z.data = x.data /\ z.dirs = x.dirs /\ z.tables = x.tables
      /\ z.itable = y.itable
  <2> DEFINE n == y.free_inodes - 1
  <2>1. n \in Int /\ IsImage(y) /\ z = [y EXCEPT !.free_inodes = n]
    BY <1>6 DEF Typed
  <2> HIDE DEF n
  <2>2. /\ IsImage(z) /\ z.status = y.status /\ z.free_inodes = n
        /\ z.free_blocks = y.free_blocks /\ z.dbmap = y.dbmap /\ z.ibmap = y.ibmap
        /\ z.data = y.data /\ z.dirs = y.dirs /\ z.tables = y.tables /\ z.itable = y.itable
    BY <2>1 DEF IsImage
  <2>3. Typed(z)
    BY <2>1, <2>2, <1>6 DEF Typed
  <2> QED
    BY <2>2, <2>3, <1>1, <1>6 DEF n
<1>8. PICK w : w = z
  OBVIOUS
<1>9. /\ Typed(w)
      /\ w.free_blocks = x.free_blocks /\ w.free_inodes = x.free_inodes - 1
      /\ w.dbmap = x.dbmap /\ w.ibmap = M
      /\ w.data = x.data /\ w.dirs = x.dirs /\ w.tables = x.tables
      /\ w.itable[ino] = r /\ \A j \in L : w.itable[j] = x.itable[j]
  <2>1. \A j \in L : j \in Inodes /\ j # ino
    BY <1>3
  <2> QED
    BY <2>1, <1>6, <1>7, <1>8
<1>10. Linked(w, L)
  BY <1>1, <1>9, LinkedFields
<1>11. Linked(w, M)
  <2>1. w.itable[ino].i_blocks = 0
    BY <1>4, <1>9
  <2> QED
    BY <2>1, <1>10, LinkedMore
<1>12. \A j \in L : \A k : At(w, j, k) = At(x, j, k) /\ Pointer(w, j, k) = Pointer(x, j, k)
  <2> SUFFICES ASSUME NEW j \in L
               PROVE  \A k : At(w, j, k) = At(x, j, k) /\ Pointer(w, j, k) = Pointer(x, j, k)
    OBVIOUS
  <2>1. w.tables = x.tables /\ w.itable[j] = x.itable[j]
    BY <1>9
  <2>2. /\ \A k : At(w, j, k) = At(x, j, k)
        /\ \A k : Pointer(w, j, k) = Pointer(x, j, k)
    BY <2>1, SameAt
  <2> QED
    BY <2>2
<1>13. Roles(w, M)
  <2> SUFFICES ASSUME NEW j \in M, NEW k \in 0 .. w.itable[j].i_blocks - 1
               PROVE  At(w, j, k) \in (IF j = ROOT_INO THEN DOMAIN w.dirs ELSE DOMAIN w.data)
    BY DEF Roles
  <2>1. j \in L
    BY <1>4, <1>9
  <2> QED
    BY <2>1, <1>1, <1>9, <1>12 DEF Roles
<1>14. Sized(w, M)
  <2>1. BlockSize \in Nat \ {0}
    BY ConstantTypes
  <2>2. r.i_size <= r.i_blocks * BlockSize /\ r.i_size > (r.i_blocks - 1) * BlockSize
    <3>1. 0 * BlockSize = 0 /\ (0 - 1) * BlockSize = 0 - BlockSize
      BY <2>1
    <3> QED
      BY <3>1, <2>1, <1>4
  <2> QED
    BY <2>2, <1>1, <1>9 DEF Sized
<1>15. Counted(w)
  <2>1. IsFiniteSet(L) /\ Cardinality(L) \in Nat /\ NumInodes \in Nat
    <3>1. NumInodes \in Nat /\ L \in SUBSET (0 .. NumInodes - 1)
      BY <1>3, ConstantTypes DEF Inodes
    <3> QED
      BY <3>1, Bitmap
  <2>2. Cardinality(M) = Cardinality(L) + 1
    BY <2>1, FS_AddElement
  <2>3. w.free_inodes = NumInodes - Cardinality(w.ibmap)
    BY <2>1, <2>2, <1>1, <1>3, <1>9 DEF Counted
  <2>4. w.free_blocks = Clear(w)
    BY <1>1, <1>9 DEF Clear
  <2> QED
    BY <2>3, <2>4 DEF Counted
<1>16. Entries(w) = Entries(x) /\ \A e \in Entries(x) : Entry(w, e) = Entry(x, e)
  <2>1. w.itable[ROOT_INO] = x.itable[ROOT_INO]
    BY <1>3, <1>9
  <2> QED
    BY <2>1, <1>3, <1>9, <1>12 DEF Entries, Entry
<1>17. Directory(w, M)
  <2>1. 0 \in Entries(d) /\ 1 \in Entries(d)
    BY <1>3, FirstEntries
  <2>2. \A e \in Entries(d) : Entry(d, e).name # name
    BY DEF Exists, Named
  <2>3. /\ new \in Entries(w) /\ Entry(w, new) = [ino |-> ino, name |-> name]
        /\ Entries(d) \subseteq Entries(w)
        /\ \A e \in Entries(w) : e # new =>
             Entry(w, e) = IF e \in Entries(d) THEN Entry(d, e) ELSE Unused
    BY <1>1, <1>2, <1>16
  <2>4. /\ w.itable[ROOT_INO].i_blocks >= 1 /\ w.itable[ino].i_nlink = 1
        /\ \A i \in L : w.itable[i].i_nlink = d.itable[i].i_nlink
    BY <1>1, <1>3, <1>4, <1>9
  <2>5. new \notin {0, 1} /\ (new \in Entries(d) => Entry(d, new) = Unused)
    BY <1>2
  <2>6. Directory(d, L) /\ ino \notin L
    BY <1>3
  <2> HIDE DEF L
  <2>7. Directory(w, L \cup {ino})
    BY <2>1, <2>2, <2>3, <2>4, <2>5, <2>6, DirectoryAdds
  <2> QED
    BY <2>7 DEF L
<1>18. Sound(w)
  BY <1>9, <1>11, <1>13, <1>14, <1>15, <1>17 DEF Sound
<1>19. OthersUntouched(d, w, L)
  <2> SUFFICES ASSUME NEW j \in L, j # ROOT_INO PROVE Untouched(d, w, j)
    BY DEF OthersUntouched
  <2>1. Untouched(d, x, j)
    BY DEF EntryAdded, OthersUntouched
  <2>2. w.itable[j] = x.itable[j] /\ w.data = x.data /\ \A k : At(w, j, k) = At(x, j, k)
    BY <1>9, <1>12
  <2> QED
    BY <2>1, <2>2 DEF Untouched
<1>20. Added(d, w, ino, name)
  <2>1. w.ibmap = L \cup {ino} /\ w.itable[ino].i_size = 0
    BY <1>4, <1>9
  <2>2. /\ new \in Entries(w) /\ Entry(w, new) = [ino |-> ino, name |-> name]
        /\ \A e \in Entries(w) : e # new =>
             Entry(w, e) = IF e \in Entries(d) THEN Entry(d, e) ELSE Unused
    BY <1>2, <1>16
  <2>3. Entries(d) \subseteq Entries(w)
    BY <1>1, <1>16
  <2> QED
    BY <2>1, <2>2, <2>3, <1>2, <1>19 DEF Added
<1> QED
  BY <1>8, <1>18, <1>20

\* vsfs_create, where MayCreate holds.
LEMMA CreateSteps ==
  ASSUME NEW d, Sound(d), NEW name \in Names, ~Exists(d, name), MayCreate(d)
  PROVE  /\ Sound(create_one_empty(d, name)) /\ create_one_empty(d, name).ibmap \subseteq Inodes
         /\ \E ino \in Inodes \ d.ibmap : Added(d, create_one_empty(d, name), ino, name)
<1> DEFINE ino == Lowest(1, d.ibmap, NumInodes)[1]
           entry == [ino |-> ino, name |-> name]
           c == TakeInode(d, ino)
           x == set_dir_entry(c, entry)
           q == x.itable[ino]
           r == [q EXCEPT !.i_nlink = 1, !.i_blocks = 0, !.i_size = 0]
           I == [x.itable EXCEPT ![ino] = r]
           y == [x EXCEPT !.itable = I]
           z == [y EXCEPT !.free_inodes = @ - 1]
<1>1. Typed(d) /\ d.ibmap # Inodes /\ NumInodes \in Nat /\ d.ibmap \in SUBSET (0 .. NumInodes - 1)
  BY ConstantTypes DEF Sound, Typed, MayCreate, Inodes
<1>2. ino \in Inodes /\ ino \notin d.ibmap
  <2>1. Cardinality(d.ibmap) \in 0 .. NumInodes /\ Cardinality(d.ibmap) # NumInodes
    BY <1>1, Bitmap DEF Inodes
  <2>2. 1 \in Nat /\ 1 <= NumInodes - Cardinality(d.ibmap)
    BY <2>1, <1>1
  <2>3. \A k \in 1 .. 1 : Lowest(1, d.ibmap, NumInodes)[k] \in (0 .. NumInodes - 1) \ d.ibmap
    BY <2>2, <1>1, LowestClear
  <2> QED
    BY <2>3 DEF Inodes
<1>3. create_one_empty(d, name) = IF x.status # "ok" THEN x ELSE z
  BY <1>1 DEF create_one_empty, TakeInode
<1>4. set_dir_entry(c, entry) =
        IF Exists(c, NoName) THEN SetEntry(c, First(Named(c, NoName)), entry)
        ELSE create_new_dentry_table(c, entry)
  BY DEF set_dir_entry, NoName
<1>5. \/ Exists(d, NoName)
      \/ /\ d.itable[ROOT_INO].i_blocks < MaxBlocks
         /\ Need(d.itable[ROOT_INO].i_blocks, d.itable[ROOT_INO].i_blocks + 1) <= Clear(d)
  BY DEF MayCreate, NoName
<1> HIDE DEF ino
<1>6. TookInode(d, c, ino)
  BY <1>1, <1>2, InodeTaken
<1> HIDE DEF c
<1>7. Exists(c, NoName) <=> Exists(d, NoName)
  BY <1>6 DEF TookInode, Exists, Named, Entries, Entry, Pointer
<1>8. EntryAdded(d, x, ino, name)
  <2>1. CASE Exists(d, NoName)
    <3>1. EntryAdded(d, SetEntry(c, First(Named(c, NoName)), entry), ino, name)
      BY <2>1, <1>2, <1>6, ReuseSteps
    <3> QED
      BY <3>1, <2>1, <1>4, <1>7
  <2>2. CASE ~Exists(d, NoName)
    <3>1. EntryAdded(d, create_new_dentry_table(c, entry), ino, name)
      BY <2>2, <1>2, <1>5, <1>6, NewTableSteps
    <3> QED
      BY <3>1, <2>2, <1>4, <1>7
  <2> QED
    BY <2>1, <2>2
<1> HIDE DEF x
<1>9. Typed(x) /\ q \in Inode
  BY <1>2, <1>8, InodeFields DEF EntryAdded
<1>10. create_one_empty(d, name) = z
  BY <1>3, <1>9 DEF Typed
<1>11. WroteInode(x, y, ino, r)
  <2>1. r \in Inode
    <3> HIDE DEF q
    <3> QED
      BY <1>9 DEF Inode
  <2>2. I = [x.itable EXCEPT ![ino] = r]
    OBVIOUS
  <2>3. y = [x EXCEPT !.itable = I]
    OBVIOUS
  <2> HIDE DEF y, I, r
  <2> QED
    BY <2>1, <2>2, <2>3, <1>2, <1>9, InodeWritten
<1>12. z = [y EXCEPT !.free_inodes = @ - 1]
  OBVIOUS
<1> HIDE DEF y, z
<1>13. Sound(z) /\ Added(d, z, ino, name)
  BY <1>2, <1>8, <1>11, <1>12, CreatedSteps
<1> QED
  BY <1>2, <1>10, <1>13 DEF Sound, Typed

-----------------------------------------------------------------------------
(***************************************************************************)
(* What mkfs writes.                                                       *)
(***************************************************************************)

FormattedInode(i, left) ==
  [i_nlink |-> IF i = ROOT_INO THEN 2 ELSE 0,
   i_blocks |-> IF i = ROOT_INO THEN 1 ELSE 0,
   i_size |-> IF i = ROOT_INO THEN BlockSize ELSE 0,
   i_direct |-> [k \in 0 .. NumDirect - 1 |->
     IF i = ROOT_INO /\ k = 0 THEN DataRegion ELSE left],
   i_indirect |-> left]

DotEntries ==
  [j \in 0 .. PerBlock - 1 |->
     CASE j = 0 -> [ino |-> ROOT_INO, name |-> "."]
       [] j = 1 -> [ino |-> ROOT_INO, name |-> ".."]
       [] OTHER -> Unused]

FormattedTable(left) == [i \in Inodes |-> FormattedInode(i, left)]
FormattedDirs == [b \in {DataRegion} |-> DotEntries]

Formatted(d, left) ==
  d = [free_blocks |-> NumBlocks - DataRegion - 1, free_inodes |-> NumInodes - 1,
       dbmap |-> 0 .. DataRegion, ibmap |-> {ROOT_INO}, itable |-> FormattedTable(left),
       data |-> <<>>, tables |-> <<>>, dirs |-> FormattedDirs, status |-> "ok"]

LEMMA DotEntriesType ==
  /\ DotEntries \in DirBlock
  /\ DotEntries[0] = [ino |-> ROOT_INO, name |-> "."]
  /\ DotEntries[1] = [ino |-> ROOT_INO, name |-> ".."]
  /\ \A j \in 0 .. PerBlock - 1 : j \notin {0, 1} => DotEntries[j] = Unused
<1>1. PerBlock \in Nat /\ PerBlock >= 2
  BY ConstantTypes
<1>2. 0 \in 0 .. PerBlock - 1 /\ 1 \in 0 .. PerBlock - 1
  BY <1>1
<1>3. [ino |-> ROOT_INO, name |-> "."] \in DirEntry /\ [ino |-> ROOT_INO, name |-> ".."] \in DirEntry
  BY RootFacts DEF DirEntry
<1>4. /\ DotEntries[0] = [ino |-> ROOT_INO, name |-> "."]
      /\ DotEntries[1] = [ino |-> ROOT_INO, name |-> ".."]
      /\ \A j \in 0 .. PerBlock - 1 : j \notin {0, 1} => DotEntries[j] = Unused
  BY <1>2 DEF DotEntries
<1>5. \A j \in 0 .. PerBlock - 1 : DotEntries[j] \in DirEntry
  BY <1>3, <1>4, UnusedType
<1>6. DotEntries = [j \in 0 .. PerBlock - 1 |-> DotEntries[j]]
  BY DEF DotEntries
<1> QED
  BY <1>4, <1>5, <1>6 DEF DirBlock

\* The root is the only inode in use, with one block.
LEMMA FormattedFields ==
  ASSUME NEW left \in Leftovers, NEW d, Formatted(d, left)
  PROVE  /\ IsImage(d) /\ d.status = "ok"
         /\ d.free_blocks = NumBlocks - DataRegion - 1 /\ d.free_inodes = NumInodes - 1
         /\ d.dbmap = 0 .. DataRegion /\ d.ibmap = {ROOT_INO}
         /\ d.itable \in [Inodes -> Inode]
         /\ d.itable[ROOT_INO].i_nlink = 2 /\ d.itable[ROOT_INO].i_blocks = 1
         /\ d.itable[ROOT_INO].i_size = BlockSize
         /\ d.itable[ROOT_INO].i_direct[0] = DataRegion
         /\ DOMAIN d.data = {} /\ DOMAIN d.tables = {}
         /\ DOMAIN d.dirs = {DataRegion} /\ d.dirs[DataRegion] = DotEntries
<1>1. left \in Nat /\ DataRegion \in Nat /\ BlockSize \in Nat /\ NumDirect \in Nat \ {0}
  BY ConstantTypes, LayoutTypes
<1>2. 0 \in 0 .. NumDirect - 1
  BY <1>1
<1>3. ASSUME NEW i \in Inodes PROVE FormattedInode(i, left) \in Inode
  BY <1>1 DEF FormattedInode, Inode
<1>4. /\ FormattedTable(left) \in [Inodes -> Inode]
      /\ FormattedTable(left)[ROOT_INO] = FormattedInode(ROOT_INO, left)
  BY <1>3, RootFacts DEF FormattedTable
<1>5. /\ FormattedInode(ROOT_INO, left).i_nlink = 2
      /\ FormattedInode(ROOT_INO, left).i_blocks = 1
      /\ FormattedInode(ROOT_INO, left).i_size = BlockSize
      /\ FormattedInode(ROOT_INO, left).i_direct[0] = DataRegion
  BY <1>2 DEF FormattedInode
<1>6. DOMAIN FormattedDirs = {DataRegion} /\ FormattedDirs[DataRegion] = DotEntries
  BY DEF FormattedDirs
<1>7. /\ d.free_blocks = NumBlocks - DataRegion - 1 /\ d.free_inodes = NumInodes - 1
      /\ d.dbmap = 0 .. DataRegion /\ d.ibmap = {ROOT_INO}
      /\ d.itable = FormattedTable(left) /\ d.data = <<>> /\ d.tables = <<>>
      /\ d.dirs = FormattedDirs /\ d.status = "ok"
  BY DEF Formatted
<1>8. IsImage(d)
  BY <1>7 DEF Formatted, IsImage
<1> QED
  BY <1>4, <1>5, <1>6, <1>7, <1>8

LEMMA FormattedSteps ==
  ASSUME NEW left \in Leftovers, NEW d, Formatted(d, left)
  PROVE  Sound(d)
<1> DEFINE R == DataRegion
<1>1. /\ R \in Nat /\ R < NumBlocks /\ NumBlocks \in Nat \ {0} /\ NumInodes \in Nat \ {0}
      /\ PerBlock \in Nat /\ PerBlock >= 2 /\ BlockSize \in Nat \ {0}
      /\ NumDirect \in Nat \ {0} /\ NumIndirect \in Nat /\ MaxBlocks \in Nat
  BY ConstantTypes, LayoutTypes
<1>2. MaxBlocks >= 1
  BY <1>1 DEF MaxBlocks
<1>3. Typed(d)
  <2>1. 0 .. R \subseteq Blocks /\ {ROOT_INO} \subseteq Inodes /\ {R} \subseteq 0 .. R
    BY <1>1, RootFacts DEF Blocks
  <2>2. \A b \in DOMAIN d.dirs : d.dirs[b] \in DirBlock
    BY FormattedFields, DotEntriesType
  <2> QED
    BY <2>1, <2>2, <1>1, FormattedFields DEF Typed
<1>4. /\ \A k : k \in Places(d, ROOT_INO) <=> k = 0
      /\ At(d, ROOT_INO, 0) = R /\ Pointer(d, ROOT_INO, 0) = R /\ TableFilled(d, ROOT_INO)
  <2>1. d.itable[ROOT_INO].i_blocks = 1 /\ ~ HasTable(d, ROOT_INO)
    BY <1>1, FormattedFields DEF HasTable
  <2>2. Pointer(d, ROOT_INO, 0) = d.itable[ROOT_INO].i_direct[0]
    BY <1>1 DEF Pointer
  <2>3. \A k : k \in Places(d, ROOT_INO) <=> k = 0
    BY <2>1 DEF Places
  <2> QED
    BY <2>1, <2>2, <2>3, FormattedFields DEF At, TableFilled
<1>5. Linked(d, {ROOT_INO})
  <2>1. NeverShared(d, {ROOT_INO})
    BY <1>4 DEF NeverShared
  <2>2. InUse(d, {ROOT_INO})
    BY <1>1, <1>4, FormattedFields DEF InUse
  <2>3. NeverLost(d, {ROOT_INO})
    <3>1. \A b \in 0 .. R : b >= R => b = At(d, ROOT_INO, 0)
      BY <1>1, <1>4
    <3> QED
      BY <3>1, <1>4, FormattedFields DEF NeverLost
  <2>4. \A b \in 0 .. R - 1 : b \in d.dbmap
    BY <1>1, FormattedFields
  <2> QED
    BY <2>1, <2>2, <2>3, <2>4, <1>2, <1>4, FormattedFields DEF Linked
<1>6. Roles(d, {ROOT_INO})
  <2>1. \A k \in 0 .. d.itable[ROOT_INO].i_blocks - 1 : k = 0
    BY FormattedFields
  <2> QED
    BY <2>1, <1>4, FormattedFields DEF Roles
<1>7. ASSUME NEW e \in Entries(d) PROVE e \in 0 .. PerBlock - 1 /\ Entry(d, e) = DotEntries[e]
  <2>1. e \in 0 .. PerBlock - 1
    BY <1>1, FormattedFields DEF Entries
  <2>2. e \div PerBlock = 0 /\ e % PerBlock = e
    <3>1. (0 * PerBlock + e) \div PerBlock = 0 /\ (0 * PerBlock + e) % PerBlock = e
      BY <1>1, <2>1, DivMod
    <3>2. 0 * PerBlock + e = e
      BY <1>1, <2>1
    <3> QED
      BY <3>1, <3>2
  <2> QED
    BY <2>1, <2>2, <1>4, FormattedFields DEF Entry
<1>8. Directory(d, {ROOT_INO})
  <2>1. 0 \in Entries(d) /\ 1 \in Entries(d)
    BY FormattedFields, FirstEntries
  <2>2. \A e \in Entries(d) : ~ NamesFile(d, e)
    BY <1>7, DotEntriesType DEF NamesFile
  <2>3. /\ Entry(d, 0) = [ino |-> ROOT_INO, name |-> "."]
        /\ Entry(d, 1) = [ino |-> ROOT_INO, name |-> ".."]
    BY <2>1, <1>7, DotEntriesType
  <2> QED
    BY <2>2, <2>3, FormattedFields DEF Directory
<1>9. Sized(d, {ROOT_INO})
  <2>1. 1 * BlockSize = BlockSize /\ (1 - 1) * BlockSize = 0
    BY <1>1
  <2> QED
    BY <2>1, <1>1, FormattedFields DEF Sized
<1>10. Counted(d)
  <2>1. Cardinality(0 .. R) = R + 1
    BY <1>1, FS_Interval
  <2>2. Cardinality({ROOT_INO}) = 1
    BY FS_Singleton
  <2>3. /\ d.free_blocks = NumBlocks - R - 1 /\ d.free_inodes = NumInodes - 1
        /\ d.dbmap = 0 .. R /\ d.ibmap = {ROOT_INO}
    BY FormattedFields
  <2>4. Cardinality(d.dbmap) = R + 1 /\ Cardinality(d.ibmap) = 1
    BY <2>1, <2>2, <2>3
  <2>5. d.free_blocks = NumBlocks - Cardinality(d.dbmap) /\ d.free_inodes = NumInodes - Cardinality(d.ibmap)
    BY <2>3, <2>4, <1>1
  <2> QED
    BY <2>5 DEF Counted, Clear
<1>11. d.ibmap = {ROOT_INO}
  BY FormattedFields
<1> QED
  BY <1>3, <1>5, <1>6, <1>8, <1>9, <1>10, <1>11 DEF Sound

LEMMA InitSound == Init => FSInv /\ fs.ibmap = {ROOT_INO} /\ stamped = {ROOT_INO}
<1> SUFFICES ASSUME Init PROVE FSInv /\ fs.ibmap = {ROOT_INO} /\ stamped = {ROOT_INO}
  OBVIOUS
<1>1. PICK left \in Leftovers : Formatted(fs, left)
  BY DEF Init, Formatted, FormattedTable, FormattedInode, FormattedDirs, DotEntries
<1>2. Sound(fs)
  BY <1>1, FormattedSteps
<1>3. fs.ibmap = {ROOT_INO}
  BY <1>1, FormattedFields
<1>4. stamped = {ROOT_INO}
  BY DEF Init
<1> QED
  BY <1>2, <1>3, <1>4, RootFacts DEF FSInv

-----------------------------------------------------------------------------
(***************************************************************************)
(* The invariant holds in every state.                                     *)
(***************************************************************************)

\* vsfs_truncate is called with sizes that div_round_up can round up
\* (vsfs.c:778): those in the last block below 2^32 wrap to no block at all.
SizesFit == \A size \in Sizes : size + BlockSize <= UintRange

LEMMA ExistsFacts ==
  ASSUME NEW name \in Names, Exists(fs, name), Sound(fs)
  PROVE  /\ PathLookup(fs, name) \in fs.ibmap /\ PathLookup(fs, name) # ROOT_INO
         /\ PathLookup(fs, name) \in Inodes
  BY LookupSteps

LEMMA CreateKeeps ==
  ASSUME Careful, FSInv, NEW name \in Names, vsfs_create(name)
  PROVE  FSInv'
<1>1. /\ ~ Exists(fs, name) /\ MayCreate(fs)
      /\ fs' = create_one_empty(fs, name)
      /\ stamped' = {ROOT_INO} \cup (fs'.ibmap \ fs.ibmap)
  BY DEF vsfs_create
<1>2. Sound(create_one_empty(fs, name)) /\ create_one_empty(fs, name).ibmap \subseteq Inodes
  BY <1>1, CreateSteps DEF FSInv
<1>3. Sound(fs)'
  BY <1>1, <1>2
<1>4. stamped' \subseteq Inodes
  BY <1>1, <1>2, RootFacts
<1> QED
  BY <1>3, <1>4 DEF FSInv, Inodes

LEMMA UnlinkKeeps ==
  ASSUME FSInv, NEW name \in Names, vsfs_unlink(name)
  PROVE  FSInv'
<1>1. Sound(Unlinked(fs, name))
  BY UnlinkSteps DEF vsfs_unlink, FSInv
<1>2. Sound(fs)'
  BY <1>1 DEF vsfs_unlink
<1>3. stamped' \subseteq Inodes
  BY RootFacts DEF vsfs_unlink
<1> QED
  BY <1>2, <1>3 DEF FSInv, Inodes

LEMMA TruncateKeeps ==
  ASSUME Careful, SizesFit, FSInv, NEW name \in Names, NEW size \in Sizes,
         vsfs_truncate(name, size)
  PROVE  FSInv'
<1> DEFINE i == PathLookup(fs, name)
<1>1. /\ Exists(fs, name) /\ MayResize(fs, i, size)
      /\ fs' = Truncated(fs, i, size) /\ stamped' = {i}
  BY DEF vsfs_truncate
<1>2. i \in fs.ibmap /\ i # ROOT_INO /\ i \in Inodes
  BY <1>1, ExistsFacts DEF FSInv
<1>3. size \in Nat /\ size + BlockSize <= UintRange
  BY ConstantTypes DEF SizesFit
<1> HIDE DEF i
<1>4. Sound(Truncated(fs, i, size))
  BY <1>1, <1>2, <1>3, TruncateSteps DEF FSInv
<1>5. Sound(fs)'
  BY <1>1, <1>4
<1> QED
  BY <1>1, <1>2, <1>5 DEF FSInv, Inodes

LEMMA WriteKeeps ==
  ASSUME Careful, FSInv, NEW name \in Names, NEW offset \in Offsets,
         NEW n \in 1 .. BlockSize, NEW byte \in Bytes, vsfs_write(name, offset, n, byte)
  PROVE  FSInv'
<1> DEFINE i == PathLookup(fs, name)
<1>1. /\ Exists(fs, name) /\ MayWrite(fs, i, offset + n) /\ offset + n <= MaxBlocks * BlockSize
      /\ (offset % BlockSize) + n <= BlockSize
      /\ fs' = Written(fs, i, offset, n, byte) /\ stamped' = {i}
  BY DEF vsfs_write
<1>2. i \in fs.ibmap /\ i # ROOT_INO /\ i \in Inodes
  BY <1>1, ExistsFacts DEF FSInv
<1>3. offset \in Nat
  BY ConstantTypes
<1> HIDE DEF i
<1>4. Sound(Written(fs, i, offset, n, byte))
  BY <1>1, <1>2, <1>3, WriteSteps DEF FSInv
<1>5. Sound(fs)'
  BY <1>1, <1>4
<1> QED
  BY <1>1, <1>2, <1>5 DEF FSInv, Inodes

LEMMA NextSound ==
  ASSUME Careful, SizesFit, FSInv, [Next]_vars
  PROVE  FSInv'
<1>1. CASE UNCHANGED vars
  <2>1. fs' = fs /\ stamped' = stamped
    BY <1>1 DEF vars
  <2>2. Sound(fs)'
    BY <2>1 DEF FSInv
  <2> QED
    BY <2>1, <2>2 DEF FSInv, Inodes
<1>2. CASE Next
  <2>1. PICK name \in Names :
          \/ vsfs_create(name)
          \/ vsfs_unlink(name)
          \/ \E size \in Sizes : vsfs_truncate(name, size)
          \/ \E offset \in Offsets, n \in 1 .. BlockSize, byte \in Bytes :
               vsfs_write(name, offset, n, byte)
          \/ \E offset \in Offsets : vsfs_read(name, offset)
          \/ Exists(fs, name) /\ vsfs_utimens(PathLookup(fs, name))
          \/ vsfs_utimens(ROOT_INO)
    BY <1>2 DEF Next
  <2>2. CASE vsfs_create(name)
    BY <2>2, CreateKeeps
  <2>3. CASE vsfs_unlink(name)
    BY <2>3, UnlinkKeeps
  <2>4. CASE \E size \in Sizes : vsfs_truncate(name, size)
    BY <2>4, TruncateKeeps
  <2>5. CASE \E offset \in Offsets, n \in 1 .. BlockSize, byte \in Bytes :
               vsfs_write(name, offset, n, byte)
    BY <2>5, WriteKeeps
  <2>6. CASE \/ \E offset \in Offsets : vsfs_read(name, offset)
             \/ Exists(fs, name) /\ vsfs_utimens(PathLookup(fs, name))
             \/ vsfs_utimens(ROOT_INO)
    <3>1. fs' = fs /\ stamped' \subseteq Inodes
      BY <2>6, ExistsFacts, RootFacts DEF vsfs_read, vsfs_utimens, FSInv
    <3>2. Sound(fs)'
      BY <3>1 DEF FSInv
    <3> QED
      BY <3>1, <3>2 DEF FSInv, Inodes
  <2> QED
    BY <2>1, <2>2, <2>3, <2>4, <2>5, <2>6
<1> QED
  BY <1>1, <1>2

-----------------------------------------------------------------------------
(***************************************************************************)
(* What the invariant says in the terms of the properties.                 *)
(***************************************************************************)

LEMMA SoundTypes == FSInv => FSTypeOK
<1> SUFFICES ASSUME FSInv PROVE FSTypeOK
  OBVIOUS
<1>1. Typed(fs) /\ Counted(fs) /\ stamped \subseteq Inodes
  BY DEF FSInv, Sound
<1>2. /\ fs.dbmap \in SUBSET (0 .. NumBlocks - 1) /\ fs.ibmap \in SUBSET (0 .. NumInodes - 1)
      /\ NumBlocks \in Nat /\ NumInodes \in Nat
  BY <1>1, ConstantTypes DEF Typed, Blocks, Inodes
<1>3. Cardinality(fs.dbmap) \in 0 .. NumBlocks /\ Cardinality(fs.ibmap) \in 0 .. NumInodes
  BY <1>2, Bitmap
<1>4. fs.free_blocks \in 0 .. NumBlocks /\ fs.free_inodes \in 0 .. NumInodes
  BY <1>1, <1>2, <1>3 DEF Counted, Clear
<1>5. \A b \in DOMAIN fs.tables : Range(fs.tables[b]) \subseteq Blocks
  BY <1>1 DEF Typed, Range
<1>6. /\ fs.dbmap \subseteq Blocks /\ fs.ibmap \subseteq Inodes
      /\ fs.itable \in [Inodes -> Inode]
      /\ DOMAIN fs.data \cap DOMAIN fs.dirs = {}
      /\ (DOMAIN fs.data \cup DOMAIN fs.dirs) \cap DOMAIN fs.tables = {}
  BY <1>1 DEF Typed
<1>7. \A b \in DOMAIN fs.data : fs.data[b] \in [0 .. BlockSize - 1 -> Bytes \cup {0}]
  BY <1>1, Zenon DEF Typed, ByteBlock
<1>8. \A b \in DOMAIN fs.dirs : fs.dirs[b] \in DirBlock
  BY <1>1 DEF Typed
<1>9. \A b \in DOMAIN fs.dirs : fs.dirs[b] \in
        [0 .. PerBlock - 1 -> [ino : 0 .. INO_MAX, name : Names \cup {"", ".", ".."}]]
  BY <1>8, Zenon DEF DirBlock, DirEntry
<1> QED
  BY <1>1, <1>4, <1>5, <1>6, <1>7, <1>9, Zenon DEF FSTypeOK

\* A reference is an inode in use and a place of it.
LEMMA ReferencesOf ==
  ASSUME FSInv
  PROVE  /\ DOMAIN Target = References
         /\ \A r \in References : /\ r[1] \in fs.ibmap /\ r[2] \in Places(fs, r[1])
                                  /\ r = <<r[1], r[2]>>
                                  /\ Target[r] = At(fs, r[1], r[2])
         /\ \A i \in fs.ibmap : \A k \in Places(fs, i) :
              <<i, k>> \in References /\ Target[<<i, k>>] = At(fs, i, k)
<1>1. \A r : r \in References <=> \E i \in fs.ibmap : r \in {i} \X Places(fs, i)
  BY DEF References
<1>2. \A r \in References : r[1] \in fs.ibmap /\ r[2] \in Places(fs, r[1]) /\ r = <<r[1], r[2]>>
  BY <1>1
<1>3. \A i \in fs.ibmap : \A k \in Places(fs, i) : <<i, k>> \in References
  BY <1>1
<1>4. DOMAIN Target = References /\ \A r \in References : Target[r] = At(fs, r[1], r[2])
  BY DEF Target
<1> QED
  BY <1>2, <1>3, <1>4

LEMMA SoundBlocks == FSInv => BlocksAccounted
<1> SUFFICES ASSUME FSInv PROVE BlocksAccounted
  OBVIOUS
<1>1. Typed(fs) /\ Linked(fs, fs.ibmap) /\ Roles(fs, fs.ibmap)
  BY DEF FSInv, Sound
<1>2. ASSUME NEW r \in References, NEW s \in References, Target[r] = Target[s]
      PROVE  r = s
  <2>1. /\ r[1] \in fs.ibmap /\ r[2] \in Places(fs, r[1]) /\ r = <<r[1], r[2]>>
        /\ s[1] \in fs.ibmap /\ s[2] \in Places(fs, s[1]) /\ s = <<s[1], s[2]>>
        /\ At(fs, r[1], r[2]) = At(fs, s[1], s[2])
    BY <1>2, ReferencesOf
  <2>2. r[1] = s[1] /\ r[2] = s[2]
    BY <2>1, <1>1, SharedOnce DEF Linked
  <2> QED
    BY <2>1, <2>2
<1>3. IsInjective(Target)
  BY <1>2, ReferencesOf DEF IsInjective
<1>4. Range(Target) = {At(fs, r[1], r[2]) : r \in References}
  BY ReferencesOf DEF Range
<1>5. Range(Target) \subseteq fs.dbmap
  <2>1. \A r \in References : At(fs, r[1], r[2]) \in fs.dbmap
    BY <1>1, ReferencesOf DEF Linked, InUse
  <2> QED
    BY <2>1, <1>4
<1>6. \A b \in fs.dbmap : b >= DataRegion => b \in Range(Target)
  <2> SUFFICES ASSUME NEW b \in fs.dbmap, b >= DataRegion PROVE b \in Range(Target)
    OBVIOUS
  <2>1. PICK i \in fs.ibmap : \E k \in Places(fs, i) : b = At(fs, i, k)
    BY <1>1 DEF Linked, NeverLost
  <2>2. PICK k \in Places(fs, i) : b = At(fs, i, k)
    BY <2>1
  <2>3. <<i, k>> \in References /\ Target[<<i, k>>] = b
    BY <2>2, ReferencesOf
  <2> QED
    BY <2>3, ReferencesOf DEF Range
<1>7. fs.dbmap = 0 .. DataRegion - 1 \cup Range(Target)
  <2>1. \A b \in fs.dbmap : b \in Nat
    BY <1>1, ConstantTypes DEF Typed, Blocks
  <2>2. \A b \in fs.dbmap : b \in 0 .. DataRegion - 1 \/ b >= DataRegion
    BY <2>1, LayoutTypes
  <2>3. 0 .. DataRegion - 1 \subseteq fs.dbmap
    BY <1>1 DEF Linked
  <2> QED
    BY <2>2, <2>3, <1>5, <1>6
<1>8. ASSUME NEW r \in References
      PROVE  Target[r] \in IF r[2] = -1 THEN DOMAIN fs.tables
                           ELSE IF r[1] = ROOT_INO THEN DOMAIN fs.dirs ELSE DOMAIN fs.data
  <2> DEFINE i == r[1]
             k == r[2]
  <2>1. i \in fs.ibmap /\ k \in Places(fs, i) /\ Target[r] = At(fs, i, k)
    BY ReferencesOf
  <2>2. i \in Inodes /\ fs.itable[i].i_blocks \in Nat
    BY <2>1, <1>1, InodeFields DEF Typed
  <2> HIDE DEF i, k
  <2>3. CASE k = -1
    <3>1. HasTable(fs, i) /\ At(fs, i, k) = fs.itable[i].i_indirect
      BY <2>1, <2>2, <2>3, PlacesOf
    <3>2. TableFilled(fs, i)
      BY <2>1, <1>1 DEF Linked
    <3>3. At(fs, i, k) \in DOMAIN fs.tables
      BY <3>1, <3>2 DEF TableFilled
    <3> QED
      BY <3>3, <2>1, <2>3 DEF k
  <2>4. CASE k # -1
    <3>1. k \in 0 .. fs.itable[i].i_blocks - 1
      BY <2>1, <2>2, <2>4, PlacesOf
    <3>2. At(fs, i, k) \in (IF i = ROOT_INO THEN DOMAIN fs.dirs ELSE DOMAIN fs.data)
      BY <3>1, <2>1, <1>1 DEF Roles
    <3> QED
      BY <3>2, <2>1, <2>4 DEF i, k
  <2> QED
    BY <2>3, <2>4
<1> QED
  BY <1>3, <1>7, <1>8 DEF BlocksAccounted

\* The entries in use are ".", ".." and those of the files.
UsedEntries == {e \in Entries(fs) : Entry(fs, e).ino # INO_MAX}

LEMMA UsedEntriesOf ==
  ASSUME FSInv
  PROVE  /\ \A e : e \in UsedEntries <=> e \in {0, 1} \/ NamesFile(fs, e)
         /\ UsedEntries \subseteq Entries(fs) /\ 0 \in Entries(fs) /\ 1 \in Entries(fs)
         /\ \A e \in Entries(fs) : e \notin UsedEntries => Entry(fs, e) = Unused
<1>1. /\ Typed(fs) /\ Directory(fs, fs.ibmap) /\ fs.ibmap \subseteq Inodes
      /\ fs.itable[ROOT_INO].i_blocks \in Nat /\ fs.itable[ROOT_INO].i_blocks >= 1
  <2>1. Typed(fs) /\ Directory(fs, fs.ibmap)
    BY DEF FSInv, Sound
  <2> QED
    BY <2>1, RootFacts, InodeFields DEF Typed, Directory
<1>2. 0 \in Entries(fs) /\ 1 \in Entries(fs)
  BY <1>1, FirstEntries
<1>3. Entry(fs, 0).ino = ROOT_INO /\ Entry(fs, 1).ino = ROOT_INO
  BY <1>1 DEF Directory
<1>4. \A e \in Entries(fs) : NamesFile(fs, e) => Entry(fs, e).ino \in Inodes
  BY <1>1 DEF Directory
<1>5. Unused.ino = INO_MAX
  BY DEF Unused
<1>6. \A e \in Entries(fs) : e \in {0, 1} \/ NamesFile(fs, e) \/ Entry(fs, e) = Unused
  BY DEF NamesFile
<1>7. \A e : NamesFile(fs, e) => e \in Entries(fs)
  BY DEF NamesFile
<1>8. \A e \in Entries(fs) : Entry(fs, e).ino # INO_MAX <=> e \in {0, 1} \/ NamesFile(fs, e)
  BY <1>3, <1>4, <1>5, <1>6, RootFacts
<1> QED
  BY <1>2, <1>6, <1>7, <1>8 DEF UsedEntries

LEMMA SoundInodes == FSInv => InodesAccounted
<1> SUFFICES ASSUME FSInv PROVE InodesAccounted
  OBVIOUS
<1>1. Directory(fs, fs.ibmap)
  BY DEF FSInv, Sound
<1>2. /\ Entry(fs, 0).ino = ROOT_INO /\ Entry(fs, 0).name = "."
      /\ Entry(fs, 1).ino = ROOT_INO /\ Entry(fs, 1).name = ".."
      /\ ROOT_INO \in fs.ibmap /\ fs.itable[ROOT_INO].i_nlink = 2
  BY <1>1 DEF Directory
<1>3. \A e \in Entries(fs) : NamesFile(fs, e) =>
        /\ Entry(fs, e).ino \in fs.ibmap /\ Entry(fs, e).ino # ROOT_INO
        /\ Entry(fs, e).name \in Names
  BY <1>1 DEF Directory
<1>4. \A e, f \in Entries(fs) : NamesFile(fs, e) /\ NamesFile(fs, f) =>
        \/ e = f
        \/ Entry(fs, e).name # Entry(fs, f).name /\ Entry(fs, e).ino # Entry(fs, f).ino
  BY <1>1 DEF Directory
<1>5. \A i \in fs.ibmap : i # ROOT_INO =>
        \E e \in Entries(fs) : NamesFile(fs, e) /\ Entry(fs, e).ino = i
  BY <1>1 DEF Directory
<1>6. fs.ibmap = {Entry(fs, e).ino : e \in UsedEntries}
  <2>1. \A e \in UsedEntries : Entry(fs, e).ino \in fs.ibmap
    BY <1>2, <1>3, UsedEntriesOf
  <2>2. \A i \in fs.ibmap : \E e \in UsedEntries : Entry(fs, e).ino = i
    BY <1>2, <1>5, UsedEntriesOf
  <2> QED
    BY <2>1, <2>2
<1>7. ASSUME NEW i \in fs.ibmap
      PROVE  fs.itable[i].i_nlink = Cardinality({e \in UsedEntries : Entry(fs, e).ino = i})
  <2>1. CASE i = ROOT_INO
    <3>1. {e \in UsedEntries : Entry(fs, e).ino = i} = {0} \cup {1}
      BY <2>1, <1>2, <1>3, UsedEntriesOf
    <3>2. IsFiniteSet({0}) /\ Cardinality({0}) = 1
      BY FS_Singleton, Zenon
    <3>3. Cardinality({0} \cup {1}) = Cardinality({0}) + 1
      <4>1. 1 \notin {0}
        OBVIOUS
      <4> QED
        BY <3>2, <4>1, FS_AddElement
    <3> QED
      BY <2>1, <3>1, <3>2, <3>3, <1>2, SMTT(30)
  <2>2. CASE i # ROOT_INO
    <3>1. PICK f \in Entries(fs) : NamesFile(fs, f) /\ Entry(fs, f).ino = i
      BY <2>2, <1>5
    <3>2. {e \in UsedEntries : Entry(fs, e).ino = i} = {f}
      BY <3>1, <2>2, <1>2, <1>4, UsedEntriesOf
    <3>3. Cardinality({f}) = 1
      BY FS_Singleton
    <3>4. fs.itable[i].i_nlink = 1
      BY <2>2, <1>1 DEF Directory
    <3> QED
      BY <3>2, <3>3, <3>4
  <2> QED
    BY <2>1, <2>2
<1>8. \A e \in UsedEntries, f \in UsedEntries : Entry(fs, e).name = Entry(fs, f).name => e = f
  <2>1. "." \notin Names /\ ".." \notin Names /\ "." # ".."
    <3>1. "." \notin Names /\ ".." \notin Names
      BY NameFacts
    <3> QED
      BY <3>1
  <2> QED
    BY <2>1, <1>2, <1>3, <1>4, UsedEntriesOf
<1>9. \A e \in Entries(fs) : e \in UsedEntries <=> Entry(fs, e).name # NoName
  <2>1. Unused.name = NoName
    BY Zenon DEF Unused, NoName
  <2>2. \A e \in Entries(fs) : e \notin UsedEntries => Entry(fs, e).name = NoName
    BY <2>1, UsedEntriesOf
  <2>3. \A e \in UsedEntries : Entry(fs, e).name # NoName
    BY <1>2, <1>3, NoNameFacts, UsedEntriesOf
  <2> QED
    BY <2>2, <2>3
<1> QED
  BY <1>2, <1>6, <1>7, <1>8, <1>9, Zenon DEF InodesAccounted, UsedEntries, NoName

-----------------------------------------------------------------------------
(***************************************************************************)
(* The theorems, for a client that keeps out of the cases Careful names    *)
(* and passes no size that div_round_up cannot round.                      *)
(***************************************************************************)

\* After every call the bitmaps, the inodes, the directory and the contents of
\* the blocks agree: the invariant that the theorems below are read off from.
THEOREM SoundImage == ASSUME Careful, SizesFit PROVE Spec => []FSInv
<1>1. FSInv /\ [Next]_vars => FSInv'
  BY NextSound
<1> QED
  BY <1>1, InitSound, PTL DEF Spec

(***************************************************************************)
(* Every field of the image keeps its type, and a block is data, entries   *)
(* or pointers, never two of them, however blocks are freed and reused.    *)
(***************************************************************************)
THEOREM ImageTypesCorrect == ASSUME Careful, SizesFit PROVE Spec => []FSTypeOK
  BY SoundTypes, SoundImage, PTL

(***************************************************************************)
(* What statfs reports is what the bitmaps say, after any history of       *)
(* calls: every path that sets or clears bits counts them (vsfs.c:196).    *)
(***************************************************************************)
THEOREM CountsAgree == ASSUME Careful, SizesFit PROVE Spec => []FreeCounts
<1>1. FSInv => FreeCounts
  BY DEF FSInv, Sound, Counted, FreeCounts
<1> QED
  BY <1>1, SoundImage, PTL

(***************************************************************************)
(* No block is shared, lost or freed under its file, over direct and       *)
(* indirect blocks, for files and the directory (vsfs.c:523-816).          *)
(***************************************************************************)
THEOREM NoBlockSharedOrLost == ASSUME Careful, SizesFit PROVE Spec => []BlocksAccounted
  BY SoundBlocks, SoundImage, PTL

(***************************************************************************)
(* An inode is allocated exactly when an entry names it, i_nlink counts    *)
(* them, and no name occurs twice, however entries and inodes are reused.  *)
(***************************************************************************)
THEOREM DirectoryNamesInodes == ASSUME Careful, SizesFit PROVE Spec => []InodesAccounted
  BY SoundInodes, SoundImage, PTL

(***************************************************************************)
(* An inode has the blocks its size needs: no byte of a file is without    *)
(* one and none is kept beyond its end (vsfs.c:767-816).                   *)
(***************************************************************************)
THEOREM SizesHaveBlocks == ASSUME Careful, SizesFit PROVE Spec => []BlocksMatchSize
<1>1. FSInv => BlocksMatchSize
  BY DEF FSInv, Sound, Sized, BlocksMatchSize
<1> QED
  BY <1>1, SoundImage, PTL

(***************************************************************************)
(* No call fails an assertion of bitmap_free, uses a bit bitmap_alloc did  *)
(* not find, or writes outside the files (bitmap.c:90-91, vsfs.c:934).     *)
(***************************************************************************)
THEOREM CarefulNeverFaults == ASSUME SizesFit PROVE Spec => []NoFSFault
<1>1. CASE Careful
  <2>1. FSInv => NoFSFault
    BY DEF FSInv, Sound, Typed, NoFSFault
  <2> QED
    BY <2>1, <1>1, SoundImage, PTL
<1>2. CASE ~ Careful
  <2>1. NoFSFault
    BY <1>2 DEF NoFSFault
  <2> QED
    BY <2>1, PTL
<1> QED
  BY <1>1, <1>2

-----------------------------------------------------------------------------
(***************************************************************************)
(* The files as a client sees them.                                        *)
(***************************************************************************)

\* The directory binds a name to an inode.
Binds(d, name, i) ==
  \E e \in Entries(d) : NamesFile(d, e) /\ Entry(d, e).name = name /\ Entry(d, e).ino = i

\* path_lookup finds what the directory binds, and no two names are the same file.
LEMMA Bound ==
  ASSUME NEW d, Sound(d), NEW name \in Names
  PROVE  /\ Exists(d, name) => Binds(d, name, PathLookup(d, name))
         /\ \A i : Binds(d, name, i) =>
              /\ Exists(d, name) /\ i = PathLookup(d, name)
              /\ i \in d.ibmap /\ i # ROOT_INO /\ i \in Inodes
         /\ \A other, i : Binds(d, name, i) /\ Binds(d, other, i) => other = name
<1>1. /\ \A e \in Entries(d) : NamesFile(d, e) =>
           Entry(d, e).ino \in d.ibmap /\ Entry(d, e).ino # ROOT_INO
      /\ \A e, f \in Entries(d) : NamesFile(d, e) /\ NamesFile(d, f) =>
           \/ e = f
           \/ Entry(d, e).name # Entry(d, f).name /\ Entry(d, e).ino # Entry(d, f).ino
      /\ d.ibmap \subseteq Inodes
  BY DEF Sound, Directory, Typed
<1>2. Exists(d, name) => Binds(d, name, PathLookup(d, name))
  BY LookupSteps DEF Binds
<1>3. ASSUME NEW i, Binds(d, name, i)
      PROVE  Exists(d, name) /\ i = PathLookup(d, name) /\ i \in d.ibmap /\ i # ROOT_INO /\ i \in Inodes
  <2>1. PICK e \in Entries(d) : NamesFile(d, e) /\ Entry(d, e).name = name /\ Entry(d, e).ino = i
    BY <1>3 DEF Binds
  <2>2. Exists(d, name)
    BY <2>1 DEF Exists, Named
  <2>3. PICK f \in Entries(d) :
          NamesFile(d, f) /\ Entry(d, f).name = name /\ Entry(d, f).ino = PathLookup(d, name)
    BY <2>2, <1>2 DEF Binds
  <2> QED
    BY <2>1, <2>2, <2>3, <1>1
<1>4. \A other, i : Binds(d, name, i) /\ Binds(d, other, i) => other = name
  BY <1>1 DEF Binds
<1> QED
  BY <1>2, <1>3, <1>4

\* The bindings that a call leaves, adds or removes.
LEMMA SameBindings ==
  ASSUME NEW d, NEW y, SameNames(d, y)
  PROVE  \A name, i : Binds(y, name, i) <=> Binds(d, name, i)
BY DEF SameNames, Binds, NamesFile

LEMMA BindingAdded ==
  ASSUME NEW d, NEW y, NEW ino \in Inodes, NEW name, Added(d, y, ino, name)
  PROVE  \A m, i : Binds(y, m, i) <=> Binds(d, m, i) \/ (m = name /\ i = ino)
<1>1. Entries(d) \subseteq Entries(y)
  BY DEF Added
<1>2. PICK new \in Entries(y) :
         /\ new \notin {0, 1}
         /\ new \in Entries(d) => Entry(d, new) = Unused
         /\ Entry(y, new) = [ino |-> ino, name |-> name]
         /\ \A e \in Entries(y) : e # new =>
              Entry(y, e) = IF e \in Entries(d) THEN Entry(d, e) ELSE Unused
  BY DEF Added
<1>3. Entry(y, new).ino = ino /\ Entry(y, new).name = name /\ Entry(y, new) # Unused
  <2>1. Unused.ino = INO_MAX
    BY DEF Unused
  <2> QED
    BY <2>1, <1>2, RootFacts
<1>4. \A e \in Entries(y) : NamesFile(y, e) <=> e = new \/ (e \in Entries(d) /\ NamesFile(d, e))
  BY <1>2, <1>3 DEF NamesFile
<1>5. \A e \in Entries(d) : NamesFile(d, e) => e \in Entries(y) /\ e # new /\ Entry(y, e) = Entry(d, e)
  BY <1>1, <1>2 DEF NamesFile
<1>6. ASSUME NEW m, NEW i, Binds(y, m, i) PROVE Binds(d, m, i) \/ (m = name /\ i = ino)
  BY <1>3, <1>4, <1>5, <1>6 DEF Binds
<1>7. ASSUME NEW m, NEW i, Binds(d, m, i) PROVE Binds(y, m, i)
  BY <1>4, <1>5, <1>7 DEF Binds
<1>8. Binds(y, name, ino)
  BY <1>3, <1>4 DEF Binds
<1> QED
  BY <1>6, <1>7, <1>8

LEMMA BindingRemoved ==
  ASSUME NEW d, Sound(d), NEW name \in Names, Exists(d, name), NEW y, Removed(d, y, name)
  PROVE  \A m, i : Binds(y, m, i) <=> Binds(d, m, i) /\ m # name
<1> DEFINE e == First(Named(d, name))
<1>1. e \in Entries(d) /\ NamesFile(d, e) /\ Entry(d, e).name = name
  BY LookupSteps
<1>2. Entries(y) = Entries(d) /\ \A f \in Entries(d) : Entry(y, f) = IF f = e THEN Unused ELSE Entry(d, f)
  BY DEF Removed
<1> HIDE DEF e
<1>3. \A f \in Entries(d) : NamesFile(d, f) /\ Entry(d, f).name = name => f = e
  BY <1>1 DEF Sound, Directory
<1>4. \A f \in Entries(d) : NamesFile(y, f) <=> NamesFile(d, f) /\ f # e
  BY <1>2 DEF NamesFile
<1>5. ASSUME NEW m, NEW i, Binds(y, m, i) PROVE Binds(d, m, i) /\ m # name
  BY <1>2, <1>3, <1>4, <1>5 DEF Binds
<1>6. ASSUME NEW m, NEW i, Binds(d, m, i), m # name PROVE Binds(y, m, i)
  BY <1>1, <1>2, <1>4, <1>6 DEF Binds
<1> QED
  BY <1>5, <1>6

\* What a client reads of inode i, and of a name.
Content(d, i) ==
  [p \in 1 .. d.itable[i].i_size |->
     d.data[Pointer(d, i, (p - 1) \div BlockSize)][(p - 1) % BlockSize]]

Missing == [exists |-> FALSE, bytes |-> <<>>]

File(d, name) ==
  IF ~ Exists(d, name) THEN Missing
  ELSE [exists |-> TRUE, bytes |-> Content(d, PathLookup(d, name))]

\* A byte below the size of a file is in one of its blocks.
LEMMA BlockOfByte ==
  ASSUME NEW d, Sound(d), NEW i \in d.ibmap, NEW p \in 1 .. d.itable[i].i_size
  PROVE  LET k == (p - 1) \div BlockSize
         IN /\ k \in 0 .. d.itable[i].i_blocks - 1 /\ At(d, i, k) = Pointer(d, i, k)
            /\ (p - 1) % BlockSize \in 0 .. BlockSize - 1
<1> DEFINE k == (p - 1) \div BlockSize
           o == (p - 1) % BlockSize
           n == d.itable[i].i_blocks
<1>1. /\ n \in Nat /\ d.itable[i].i_size \in Nat /\ d.itable[i].i_size <= n * BlockSize
      /\ BlockSize \in Nat \ {0}
  BY InodeFields, ConstantTypes DEF Sound, Typed, Sized
<1>2. p - 1 \in Nat
  BY <1>1
<1>3. k \in Nat /\ o \in 0 .. BlockSize - 1 /\ p - 1 = k * BlockSize + o
  BY <1>1, <1>2, Multiples
<1> HIDE DEF k, o
<1>4. k < n
  <2> HIDE DEF n
  <2>1. k * BlockSize \in Int /\ n * BlockSize \in Int
    BY <1>1, <1>3
  <2>2. p <= n * BlockSize
    <3>1. p <= d.itable[i].i_size
      BY <1>1
    <3> QED
      BY <3>1, <2>1, <1>1
  <2>3. k * BlockSize < n * BlockSize
    BY <2>1, <2>2, <1>1, <1>3
  <2> QED
    BY <2>3, <1>1, <1>3, Multiples
<1>5. At(d, i, k) = Pointer(d, i, k)
  BY <1>1, <1>3, PlacesOf
<1>6. k \in 0 .. n - 1
  BY <1>1, <1>3, <1>4
<1> QED
  BY <1>3, <1>5, <1>6 DEF k, o

\* What is read is a sequence of bytes.
LEMMA ContentBytes ==
  ASSUME NEW d, Sound(d), NEW i \in d.ibmap, i # ROOT_INO
  PROVE  /\ Content(d, i) \in Seq(Bytes \cup {0}) /\ Len(Content(d, i)) = d.itable[i].i_size
         /\ DOMAIN Content(d, i) = 1 .. d.itable[i].i_size
         /\ \A p \in 1 .. d.itable[i].i_size :
              LET k == (p - 1) \div BlockSize
              IN Content(d, i)[p] = d.data[At(d, i, k)][(p - 1) % BlockSize]
<1> DEFINE size == d.itable[i].i_size
<1>1. size \in Nat
  BY InodeFields DEF Sound, Typed
<1>2. ASSUME NEW p \in 1 .. size
      PROVE  LET k == (p - 1) \div BlockSize
             IN /\ Content(d, i)[p] = d.data[At(d, i, k)][(p - 1) % BlockSize]
                /\ Content(d, i)[p] \in Bytes \cup {0}
  <2> DEFINE k == (p - 1) \div BlockSize
             o == (p - 1) % BlockSize
  <2>1. /\ k \in 0 .. d.itable[i].i_blocks - 1 /\ At(d, i, k) = Pointer(d, i, k)
        /\ o \in 0 .. BlockSize - 1
    BY BlockOfByte
  <2>2. Content(d, i)[p] = d.data[Pointer(d, i, k)][o]
    BY DEF Content
  <2> HIDE DEF k, o
  <2>3. At(d, i, k) \in DOMAIN d.data
    BY <2>1 DEF Sound, Roles
  <2>4. d.data[At(d, i, k)] \in ByteBlock
    BY <2>3 DEF Sound, Typed
  <2>5. d.data[At(d, i, k)][o] \in Bytes \cup {0}
    BY <2>1, <2>4 DEF ByteBlock
  <2> QED
    BY <2>1, <2>2, <2>5 DEF k, o
<1>3. DOMAIN Content(d, i) = 1 .. size
  BY DEF Content
<1>4. Content(d, i) = [p \in 1 .. size |-> Content(d, i)[p]]
  BY DEF Content
<1>5. Content(d, i) \in [1 .. size -> Bytes \cup {0}]
  BY <1>2, <1>4
<1> HIDE DEF size
<1>6. Content(d, i) \in Seq(Bytes \cup {0}) /\ Len(Content(d, i)) = size
  BY <1>1, <1>5
<1> QED
  BY <1>2, <1>3, <1>6 DEF size

\* A file that is left alone reads the same.
LEMMA UntouchedReads ==
  ASSUME NEW d, Sound(d), NEW i \in d.ibmap, i # ROOT_INO,
         NEW y, Sound(y), i \in y.ibmap, Untouched(d, y, i)
  PROVE  Content(y, i) = Content(d, i)
<1>1. y.itable[i].i_size = d.itable[i].i_size /\ d.itable[i].i_size \in Nat
  BY InodeFields DEF Untouched, Sound, Typed
<1>2. ASSUME NEW p \in 1 .. d.itable[i].i_size PROVE Content(y, i)[p] = Content(d, i)[p]
  <2> DEFINE k == (p - 1) \div BlockSize
  <2>1. k \in 0 .. d.itable[i].i_blocks - 1
    BY BlockOfByte
  <2>2. y.data[At(y, i, k)] = d.data[At(d, i, k)]
    BY <2>1 DEF Untouched
  <2>3. /\ Content(y, i)[p] = y.data[At(y, i, k)][(p - 1) % BlockSize]
        /\ Content(d, i)[p] = d.data[At(d, i, k)][(p - 1) % BlockSize]
    BY <1>1, ContentBytes
  <2> QED
    BY <2>2, <2>3
<1>3. /\ Content(d, i) \in Seq(Bytes \cup {0}) /\ Content(y, i) \in Seq(Bytes \cup {0})
      /\ Len(Content(d, i)) = d.itable[i].i_size /\ Len(Content(y, i)) = d.itable[i].i_size
  BY <1>1, ContentBytes
<1> QED
  BY <1>2, <1>3, SeqEqual

\* The last block of a file ends where FileStore says.
LEMMA LastBlockEnds ==
  ASSUME NEW d, Sound(d), NEW i \in d.ibmap
  PROVE  Store!BlockEnd(d.itable[i].i_size) = d.itable[i].i_blocks * BlockSize
<1> DEFINE n == d.itable[i].i_blocks
           size == d.itable[i].i_size
           q == (size + BlockSize - 1) \div BlockSize
           r == (size + BlockSize - 1) % BlockSize
<1>1. /\ n \in Nat /\ size \in Nat /\ BlockSize \in Nat \ {0}
      /\ size <= n * BlockSize /\ size > (n - 1) * BlockSize
  BY InodeFields, ConstantTypes DEF Sound, Typed, Sized
<1> HIDE DEF n, size
<1>2. q \in Nat /\ r \in 0 .. BlockSize - 1 /\ size + BlockSize - 1 = q * BlockSize + r
  <2>1. size + BlockSize - 1 \in Nat
    BY <1>1
  <2> QED
    BY <2>1, <1>1, Multiples
<1> HIDE DEF q, r
<1>3. /\ q * BlockSize \in Int /\ n * BlockSize \in Int
      /\ (n - 1) * BlockSize = n * BlockSize - BlockSize
      /\ (n + 1) * BlockSize = n * BlockSize + BlockSize
      /\ (q + 1) * BlockSize = q * BlockSize + BlockSize
  BY <1>1, <1>2, Multiples
<1>4. n * BlockSize < (q + 1) * BlockSize /\ q * BlockSize < (n + 1) * BlockSize
  BY <1>1, <1>2, <1>3
<1>5. n < q + 1 /\ q < n + 1
  BY <1>1, <1>2, <1>4, Multiples
<1>6. q = n
  BY <1>1, <1>2, <1>5
<1> QED
  BY <1>6 DEF Store!BlockEnd, q, n, size

\* A block that holds what it held, or zeros if it is new, has no changed byte.
LEMMA NotChanged ==
  ASSUME NEW d, Sound(d), NEW i \in d.ibmap, i # ROOT_INO, NEW y, Sound(y), i \in y.ibmap,
         NEW p \in 1 .. y.itable[i].i_size, OldOrZero(d, y, i, (p - 1) \div BlockSize)
  PROVE  p \notin Store!Changed(Content(d, i), Content(y, i))
<1> DEFINE k == (p - 1) \div BlockSize
           o == (p - 1) % BlockSize
           old == Content(d, i)
           new == Content(y, i)
<1>1. /\ d.itable[i].i_size \in Nat /\ y.itable[i].i_size \in Nat /\ BlockSize \in Nat \ {0}
      /\ d.itable[i].i_blocks \in Nat /\ y.itable[i].i_blocks \in Nat /\ p \in Nat /\ p - 1 \in Nat
  BY InodeFields, ConstantTypes DEF Sound, Typed
<1>2. /\ new[p] = y.data[At(y, i, k)][o]
      /\ k \in 0 .. y.itable[i].i_blocks - 1 /\ o \in 0 .. BlockSize - 1
  BY ContentBytes, BlockOfByte
<1>3. p - 1 = k * BlockSize + o /\ k \in Nat
  BY <1>1, Multiples
<1>4. Len(old) = d.itable[i].i_size
  BY ContentBytes
<1>5. CASE p <= Len(old)
  <2>1. p \in 1 .. d.itable[i].i_size
    BY <1>1, <1>4, <1>5
  <2>2. k \in 0 .. d.itable[i].i_blocks - 1 /\ old[p] = d.data[At(d, i, k)][o]
    BY <2>1, ContentBytes, BlockOfByte
  <2>3. k < d.itable[i].i_blocks
    BY <2>2, <1>1
  <2>4. new[p] = old[p]
    BY <2>2, <2>3, <1>2 DEF OldOrZero
  <2>5. Store!BlockEnd(Len(old)) >= d.itable[i].i_size
    BY <1>4, LastBlockEnds DEF Sound, Sized
  <2>6. ~(p > Store!BlockEnd(Len(old)))
    <3>1. Store!BlockEnd(Len(old)) \in Int
      <4>1. d.itable[i].i_blocks * BlockSize \in Int
        BY <1>1, Multiples
      <4> QED
        BY <4>1, <1>4, LastBlockEnds
    <3> QED
      BY <3>1, <2>5, <1>1, <1>4, <1>5
  <2> QED
    BY <2>4, <2>6 DEF Store!Changed
<1>6. CASE ~(p <= Len(old))
  <2>1. CASE ~(p > Store!BlockEnd(Len(old)))
    BY <2>1, <1>6 DEF Store!Changed
  <2>2. CASE p > Store!BlockEnd(Len(old))
    <3> DEFINE n == d.itable[i].i_blocks
    <3>1. p > n * BlockSize /\ n \in Nat
      BY <2>2, <1>1, <1>4, LastBlockEnds
    <3> HIDE DEF k, o, n
    <3>2. /\ n * BlockSize \in Int /\ k * BlockSize \in Int
          /\ (k + 1) * BlockSize = k * BlockSize + BlockSize
      BY <3>1, <1>1, <1>3, Multiples
    <3>3. n * BlockSize < (k + 1) * BlockSize
      BY <3>1, <3>2, <1>1, <1>2, <1>3
    <3>4. n < k + 1
      <4>1. n \in Int /\ k + 1 \in Int
        BY <3>1, <1>3
      <4> QED
        BY <4>1, <3>3, <1>1, Multiples
    <3>5. ~(k < n)
      BY <3>1, <3>4, <1>3
    <3>6. y.data[At(y, i, k)] = ZeroBlock
      BY <3>5 DEF OldOrZero, n, k
    <3>7. new[p] = 0
      BY <3>6, <1>2 DEF ZeroBlock
    <3> QED
      BY <3>7, <1>6 DEF Store!Changed
  <2> QED
    BY <2>1, <2>2
<1> QED
  BY <1>5, <1>6

\* A file by the inode that its name is bound to.
LEMMA FileBound ==
  ASSUME NEW d, Sound(d), NEW name \in Names
  PROVE  /\ \A i : Binds(d, name, i) => File(d, name) = [exists |-> TRUE, bytes |-> Content(d, i)]
         /\ (\A i : ~ Binds(d, name, i)) => File(d, name) = Missing
         /\ Exists(d, name) <=> \E i : Binds(d, name, i)
BY Bound DEF File

\* A name keeps its file.
LEMMA SameFile ==
  ASSUME NEW d, Sound(d), NEW y, Sound(y), NEW name \in Names,
         \A i : Binds(y, name, i) <=> Binds(d, name, i),
         \A i : Binds(d, name, i) => Untouched(d, y, i)
  PROVE  File(y, name) = File(d, name)
<1>1. CASE Exists(d, name)
  <2>1. PICK i : Binds(d, name, i)
    BY <1>1, FileBound
  <2>2. i \in d.ibmap /\ i # ROOT_INO /\ i \in y.ibmap /\ Binds(y, name, i) /\ Untouched(d, y, i)
    BY <2>1, Bound
  <2>3. Content(y, i) = Content(d, i)
    BY <2>2, UntouchedReads
  <2> QED
    BY <2>1, <2>2, <2>3, FileBound
<1>2. CASE ~ Exists(d, name)
  BY <1>2, FileBound
<1> QED
  BY <1>1, <1>2

\* The names stamped with a set of inodes.
Stamps(d, S) ==
  {name \in Names : Exists(d, name) /\ PathLookup(d, name) \in S}
    \cup (IF ROOT_INO \in S THEN {NoName} ELSE {})

LEMMA StampsOf ==
  ASSUME NEW d, Sound(d)
  PROVE  Stamps(d, {}) = {} /\ Stamps(d, {ROOT_INO}) = {NoName}
<1>1. \A name \in Names : Exists(d, name) => PathLookup(d, name) # ROOT_INO
  BY Bound
<1> QED
  BY <1>1 DEF Stamps

LEMMA StampOfFile ==
  ASSUME NEW d, Sound(d), NEW name \in Names, NEW i, Binds(d, name, i), NEW S
  PROVE  /\ S = {i} => Stamps(d, S) = {name}
         /\ S = {ROOT_INO, i} => Stamps(d, S) = {NoName, name}
<1>1. \A m \in Names : Exists(d, m) => PathLookup(d, m) # ROOT_INO
  BY Bound
<1>2. i # ROOT_INO /\ Exists(d, name) /\ PathLookup(d, name) = i
  BY Bound
<1>3. \A m \in Names : Exists(d, m) /\ PathLookup(d, m) = i => m = name
  BY Bound
<1> QED
  BY <1>1, <1>2, <1>3 DEF Stamps

\* The mapping to FileStore, by the operators on images.
LEMMA Seen ==
  /\ FilesSeen = [name \in Names |-> File(fs, name)]
  /\ StampsSeen = Stamps(fs, stamped)
<1>1. FilesSeen = [name \in Names |-> File(fs, name)]
  BY DEF FilesSeen, File, Missing, Content, ByteAt
<1>2. StampsSeen = Stamps(fs, stamped)
  BY Zenon DEF StampsSeen, Stamps, NoName
<1> QED
  BY <1>1, <1>2

LEMMA SeenNext ==
  /\ FilesSeen' = [name \in Names |-> File(fs', name)]
  /\ StampsSeen' = Stamps(fs', stamped')
<1>1. FilesSeen' = [name \in Names |-> File(fs', name)]
  BY DEF FilesSeen, File, Missing, Content, ByteAt
<1>2. StampsSeen' = Stamps(fs', stamped')
  BY Zenon DEF StampsSeen, Stamps, NoName
<1> QED
  BY <1>1, <1>2

\* vsfs_create adds an empty file.
LEMMA CreateSeen ==
  ASSUME NEW d, Sound(d), NEW name \in Names, ~Exists(d, name), NEW y, Sound(y),
         NEW ino \in Inodes \ d.ibmap, Added(d, y, ino, name),
         NEW S, S = {ROOT_INO} \cup (y.ibmap \ d.ibmap)
  PROVE  /\ File(d, name) = Missing /\ File(y, name) = [exists |-> TRUE, bytes |-> <<>>]
         /\ \A m \in Names \ {name} : File(y, m) = File(d, m)
         /\ Stamps(y, S) = {NoName, name}
<1>1. \A m, i : Binds(y, m, i) <=> Binds(d, m, i) \/ (m = name /\ i = ino)
  BY BindingAdded
<1>2. Binds(y, name, ino) /\ ino \in y.ibmap /\ ino # ROOT_INO
  BY <1>1, Bound
<1>3. y.itable[ino].i_size = 0 /\ OthersUntouched(d, y, d.ibmap) /\ y.ibmap = d.ibmap \cup {ino}
  BY DEF Added
<1>4. Content(y, ino) = <<>>
  <2>1. Content(y, ino) \in Seq(Bytes \cup {0}) /\ Len(Content(y, ino)) = 0
    BY <1>2, <1>3, ContentBytes
  <2> QED
    BY <2>1, EmptySeq
<1>5. File(y, name) = [exists |-> TRUE, bytes |-> <<>>] /\ File(d, name) = Missing
  BY <1>2, <1>4, FileBound
<1>6. ASSUME NEW m \in Names \ {name} PROVE File(y, m) = File(d, m)
  <2>1. \A i : Binds(y, m, i) <=> Binds(d, m, i)
    BY <1>1
  <2>2. \A i : Binds(d, m, i) => Untouched(d, y, i)
    BY <1>3, Bound DEF OthersUntouched
  <2> QED
    BY <2>1, <2>2, SameFile
<1>7. S = {ROOT_INO, ino}
  BY <1>3
<1>8. Stamps(y, S) = {NoName, name}
  BY <1>2, <1>7, StampOfFile
<1> QED
  BY <1>5, <1>6, <1>8

\* vsfs_unlink takes one file away.
LEMMA UnlinkSeen ==
  ASSUME NEW d, Sound(d), NEW name \in Names, Exists(d, name), NEW y, Sound(y),
         Removed(d, y, name)
  PROVE  /\ File(d, name).exists /\ File(y, name) = Missing
         /\ \A m \in Names \ {name} : File(y, m) = File(d, m)
         /\ Stamps(y, {ROOT_INO}) = {NoName}
<1>1. \A m, i : Binds(y, m, i) <=> Binds(d, m, i) /\ m # name
  BY BindingRemoved
<1>2. File(y, name) = Missing
  BY <1>1, FileBound
<1>3. File(d, name).exists
  BY DEF File
<1>4. OthersUntouched(d, y, y.ibmap)
  BY DEF Removed
<1>5. ASSUME NEW m \in Names \ {name} PROVE File(y, m) = File(d, m)
  <2>1. \A i : Binds(y, m, i) <=> Binds(d, m, i)
    BY <1>1
  <2>2. ASSUME NEW i, Binds(d, m, i) PROVE Untouched(d, y, i)
    <3>1. i \in y.ibmap /\ i # ROOT_INO
      BY <2>1, <2>2, Bound
    <3> QED
      BY <3>1, <1>4 DEF OthersUntouched
  <2> QED
    BY <2>1, <2>2, SameFile
<1> QED
  BY <1>2, <1>3, <1>5, StampsOf

\* A call that changes the bytes of one file.
LEMMA OneFileSeen ==
  ASSUME NEW d, Sound(d), NEW name \in Names, Exists(d, name),
         NEW i, i = PathLookup(d, name), NEW y, Sound(y),
         y.ibmap = d.ibmap, SameNames(d, y), OthersUntouched(d, y, d.ibmap \ {i}),
         NEW S, S = {i}
  PROVE  /\ i \in d.ibmap /\ i # ROOT_INO
         /\ File(d, name) = [exists |-> TRUE, bytes |-> Content(d, i)]
         /\ File(y, name) = [exists |-> TRUE, bytes |-> Content(y, i)]
         /\ \A m \in Names \ {name} : File(y, m) = File(d, m)
         /\ Stamps(y, S) = {name}
<1>1. \A m, j : Binds(y, m, j) <=> Binds(d, m, j)
  BY SameBindings
<1>2. Binds(d, name, i) /\ Binds(y, name, i) /\ i \in d.ibmap /\ i # ROOT_INO
  BY <1>1, Bound
<1>3. ASSUME NEW m \in Names \ {name} PROVE File(y, m) = File(d, m)
  <2>1. \A j : Binds(d, m, j) => j # i
    BY <1>2, Bound
  <2>2. \A j : Binds(d, m, j) => Untouched(d, y, j)
    BY <2>1, Bound DEF OthersUntouched
  <2> QED
    BY <2>2, <1>1, SameFile
<1>4. /\ File(d, name) = [exists |-> TRUE, bytes |-> Content(d, i)]
      /\ File(y, name) = [exists |-> TRUE, bytes |-> Content(y, i)]
  BY <1>2, FileBound
<1>5. Stamps(y, S) = {name}
  BY <1>2, StampOfFile
<1> QED
  BY <1>2, <1>3, <1>4, <1>5

\* vsfs_truncate keeps the bytes up to the shorter size and adds zeros.
LEMMA ResizeSeen ==
  ASSUME NEW d, Sound(d), NEW i \in d.ibmap, i # ROOT_INO, NEW y, Sound(y),
         y.ibmap = d.ibmap, Retained(d, y, i)
  PROVE  Store!Changed(Content(d, i), Content(y, i)) = {}
<1>1. \A p \in 1 .. y.itable[i].i_size : p \notin Store!Changed(Content(d, i), Content(y, i))
  <2> SUFFICES ASSUME NEW p \in 1 .. y.itable[i].i_size
               PROVE  p \notin Store!Changed(Content(d, i), Content(y, i))
    OBVIOUS
  <2>1. (p - 1) \div BlockSize \in 0 .. y.itable[i].i_blocks - 1
    BY BlockOfByte
  <2>2. OldOrZero(d, y, i, (p - 1) \div BlockSize)
    BY <2>1 DEF Retained
  <2> QED
    BY <2>2, NotChanged
<1>2. Store!Changed(Content(d, i), Content(y, i)) \subseteq 1 .. y.itable[i].i_size
  BY ContentBytes DEF Store!Changed
<1> QED
  BY <1>1, <1>2

\* The n bytes from offset on are in one block.
InOneBlock(offset, n) == (offset % BlockSize) + n <= BlockSize

\* The last of n numbers that are within one block of s numbers.
LEMMA EndOfBlock ==
  ASSUME NEW s \in Nat \ {0}, NEW x \in Nat, NEW n \in 1 .. s
  PROVE  (x % s) + n <= s => (x + n - 1) \div s = x \div s
<1> DEFINE k == x \div s
           o == x % s
           c == k * s
           r == o + n - 1
<1>1. k \in Nat /\ o \in 0 .. s - 1 /\ x = k * s + o
  BY Multiples
<1> HIDE DEF k, o
<1>2. c \in Int /\ x = c + o
  BY <1>1
<1> HIDE DEF c
<1>3. o + n <= s => r \in Nat /\ r < s /\ x + n - 1 = c + r
  <2>1. o \in Nat
    BY <1>1
  <2> QED
    BY <2>1, <1>2
<1> HIDE DEF r
<1>4. o + n <= s => (c + r) \div s = k
  BY <1>1, <1>3, DivMod DEF c
<1> QED
  BY <1>3, <1>4 DEF k, o

\* vsfs_write changes bytes of one block, that a file which grows ends in.
LEMMA WriteSeen ==
  ASSUME NEW d, Sound(d), NEW i \in d.ibmap, i # ROOT_INO, NEW y, Sound(y),
         y.ibmap = d.ibmap, NEW offset \in Nat, NEW n \in 1 .. BlockSize,
         InOneBlock(offset, n), Overwritten(d, y, i, offset, n)
  PROVE  LET old == Content(d, i)
             new == Content(y, i)
         IN /\ Len(new) >= Len(old)
            /\ \A p \in Store!Changed(old, new) : (p - 1) \div BlockSize = offset \div BlockSize
            /\ Len(new) > Len(old) => (Len(new) - 1) \div BlockSize = offset \div BlockSize
<1> DEFINE old == Content(d, i)
           new == Content(y, i)
           k == offset \div BlockSize
<1>1. /\ d.itable[i].i_size \in Nat /\ BlockSize \in Nat \ {0}
      /\ Len(old) = d.itable[i].i_size /\ Len(new) = y.itable[i].i_size
      /\ y.itable[i].i_size = IF offset + n > d.itable[i].i_size THEN offset + n ELSE d.itable[i].i_size
  BY ContentBytes, InodeFields, ConstantTypes DEF Overwritten, Sound, Typed
<1>2. ASSUME NEW p \in Store!Changed(old, new) PROVE (p - 1) \div BlockSize = k
  <2>1. p \in 1 .. y.itable[i].i_size
    BY ContentBytes DEF Store!Changed
  <2>2. (p - 1) \div BlockSize \in 0 .. y.itable[i].i_blocks - 1
    BY <2>1, BlockOfByte
  <2>3. (p - 1) \div BlockSize # k => OldOrZero(d, y, i, (p - 1) \div BlockSize)
    BY <2>2 DEF Overwritten
  <2> QED
    BY <2>1, <2>3, NotChanged
<1>3. (offset + n - 1) \div BlockSize = k
  BY <1>1, EndOfBlock DEF InOneBlock
<1> HIDE DEF old, new, k
<1>4. Len(new) >= Len(old) /\ (Len(new) > Len(old) => Len(new) = offset + n)
  BY <1>1
<1> QED
  BY <1>2, <1>3, <1>4 DEF old, new, k

-----------------------------------------------------------------------------
(***************************************************************************)
(* Every call is a step of FileStore.                                      *)
(***************************************************************************)

\* The other files, in the terms of FileStore.
LEMMA OthersSeen ==
  ASSUME NEW name \in Names, \A m \in Names \ {name} : File(fs', m) = File(fs, m)
  PROVE  Store!SameExcept(name)
BY Seen, SeenNext DEF Store!SameExcept

\* One step of FileStore on one file.
LEMMA OneFileStep ==
  ASSUME NEW name \in Names, Store!SameExcept(name),
         \/ Store!CreateFile(name) \/ Store!RemoveFile(name)
         \/ Store!ResizeFile(name) \/ Store!WriteFile(name)
  PROVE  Store!StoreNext
BY Zenon DEF Store!StoreNext

LEMMA CreateImplements ==
  ASSUME Careful, FSInv, FSInv', NEW name \in Names, vsfs_create(name)
  PROVE  Store!StoreNext
<1>1. /\ Sound(fs) /\ Sound(fs') /\ ~Exists(fs, name) /\ MayCreate(fs)
      /\ fs' = create_one_empty(fs, name)
      /\ stamped' = {ROOT_INO} \cup (fs'.ibmap \ fs.ibmap)
  BY DEF vsfs_create, FSInv
<1>2. PICK ino \in Inodes \ fs.ibmap : Added(fs, create_one_empty(fs, name), ino, name)
  BY <1>1, CreateSteps
<1>3. Added(fs, fs', ino, name)
  BY <1>1, <1>2
<1>4. /\ File(fs, name) = Missing /\ File(fs', name) = [exists |-> TRUE, bytes |-> <<>>]
      /\ \A m \in Names \ {name} : File(fs', m) = File(fs, m)
      /\ Stamps(fs', stamped') = {NoName, name}
  BY <1>1, <1>3, CreateSeen
<1>5. /\ FilesSeen[name] = Missing /\ FilesSeen'[name] = [exists |-> TRUE, bytes |-> <<>>]
      /\ StampsSeen' = {NoName, name}
  BY <1>1, <1>4, Seen, SeenNext
<1>6. Store!CreateFile(name)
  BY <1>5, Zenon DEF Store!CreateFile, Store!NoFile, Missing, NoName
<1> QED
  BY <1>4, <1>6, OthersSeen, OneFileStep

LEMMA UnlinkImplements ==
  ASSUME FSInv, FSInv', NEW name \in Names, vsfs_unlink(name)
  PROVE  Store!StoreNext
<1>1. /\ Sound(fs) /\ Sound(fs') /\ Exists(fs, name)
      /\ fs' = Unlinked(fs, name) /\ stamped' = {ROOT_INO}
  BY DEF vsfs_unlink, FSInv
<1>2. Removed(fs, fs', name)
  BY <1>1, UnlinkSteps
<1>3. /\ File(fs, name).exists /\ File(fs', name) = Missing
      /\ \A m \in Names \ {name} : File(fs', m) = File(fs, m)
      /\ Stamps(fs', {ROOT_INO}) = {NoName}
  BY <1>1, <1>2, UnlinkSeen
<1>4. FilesSeen[name].exists /\ FilesSeen'[name] = Missing /\ StampsSeen' = {NoName}
  BY <1>1, <1>3, Seen, SeenNext
<1>5. Store!RemoveFile(name)
  BY <1>4, Zenon DEF Store!RemoveFile, Store!NoFile, Missing, NoName
<1> QED
  BY <1>3, <1>5, OthersSeen, OneFileStep

LEMMA TruncateImplements ==
  ASSUME Careful, SizesFit, FSInv, FSInv', NEW name \in Names, NEW size \in Sizes,
         vsfs_truncate(name, size)
  PROVE  Store!StoreNext
<1> DEFINE i == PathLookup(fs, name)
<1>1. /\ Sound(fs) /\ Sound(fs') /\ Exists(fs, name) /\ MayResize(fs, i, size)
      /\ fs' = Truncated(fs, i, size) /\ stamped' = {i}
  BY DEF vsfs_truncate, FSInv
<1>2. i \in fs.ibmap /\ i # ROOT_INO /\ i \in Inodes
  BY <1>1, ExistsFacts
<1>3. size \in Nat /\ size + BlockSize <= UintRange
  BY ConstantTypes DEF SizesFit
<1>4. i = PathLookup(fs, name)
  OBVIOUS
<1> HIDE DEF i
<1>5. fs'.ibmap = fs.ibmap /\ Retained(fs, fs', i)
  BY <1>1, <1>2, <1>3, TruncateSteps
<1>6. /\ File(fs, name) = [exists |-> TRUE, bytes |-> Content(fs, i)]
      /\ File(fs', name) = [exists |-> TRUE, bytes |-> Content(fs', i)]
      /\ \A m \in Names \ {name} : File(fs', m) = File(fs, m)
      /\ Stamps(fs', stamped') = {name}
  BY <1>1, <1>4, <1>5, OneFileSeen DEF Retained
<1>7. Store!Changed(Content(fs, i), Content(fs', i)) = {}
  BY <1>1, <1>2, <1>5, ResizeSeen
<1>8. /\ FilesSeen[name].exists /\ FilesSeen'[name].exists /\ StampsSeen' = {name}
      /\ FilesSeen[name].bytes = Content(fs, i) /\ FilesSeen'[name].bytes = Content(fs', i)
  BY <1>1, <1>6, Seen, SeenNext
<1>9. Store!ResizeFile(name)
  BY <1>7, <1>8 DEF Store!ResizeFile
<1> QED
  BY <1>6, <1>9, OthersSeen, OneFileStep

LEMMA WriteImplements ==
  ASSUME Careful, FSInv, FSInv', NEW name \in Names, NEW offset \in Offsets,
         NEW n \in 1 .. BlockSize, NEW byte \in Bytes, vsfs_write(name, offset, n, byte)
  PROVE  Store!StoreNext
<1> DEFINE i == PathLookup(fs, name)
<1>1. /\ Sound(fs) /\ Sound(fs') /\ Exists(fs, name) /\ MayWrite(fs, i, offset + n)
      /\ offset + n <= MaxBlocks * BlockSize /\ InOneBlock(offset, n)
      /\ fs' = Written(fs, i, offset, n, byte) /\ stamped' = {i}
  BY DEF vsfs_write, FSInv, InOneBlock
<1>2. i \in fs.ibmap /\ i # ROOT_INO /\ i \in Inodes
  BY <1>1, ExistsFacts
<1>3. offset \in Nat
  BY ConstantTypes
<1>4. i = PathLookup(fs, name)
  OBVIOUS
<1> HIDE DEF i
<1>5. fs'.ibmap = fs.ibmap /\ Overwritten(fs, fs', i, offset, n)
  BY <1>1, <1>2, <1>3, WriteSteps
<1>6. /\ File(fs, name) = [exists |-> TRUE, bytes |-> Content(fs, i)]
      /\ File(fs', name) = [exists |-> TRUE, bytes |-> Content(fs', i)]
      /\ \A m \in Names \ {name} : File(fs', m) = File(fs, m)
      /\ Stamps(fs', stamped') = {name}
  <2>1. /\ Sound(fs) /\ Sound(fs') /\ Exists(fs, name) /\ stamped' = {i}
        /\ fs'.ibmap = fs.ibmap /\ SameNames(fs, fs')
        /\ OthersUntouched(fs, fs', fs.ibmap \ {i})
    BY <1>1, <1>5 DEF Overwritten
  <2> QED
    BY <2>1, <1>4, OneFileSeen
<1> DEFINE old == Content(fs, i)
           new == Content(fs', i)
           k == offset \div BlockSize
<1>7. /\ Len(new) >= Len(old)
      /\ \A p \in Store!Changed(old, new) : (p - 1) \div BlockSize = k
      /\ Len(new) > Len(old) => (Len(new) - 1) \div BlockSize = k
  BY <1>1, <1>2, <1>3, <1>5, WriteSeen
<1>8. /\ FilesSeen[name].exists /\ FilesSeen'[name].exists /\ StampsSeen' = {name}
      /\ FilesSeen[name].bytes = old /\ FilesSeen'[name].bytes = new
  BY <1>6, Seen, SeenNext
<1> HIDE DEF old, new, k
<1>9. LET last == IF Len(new) > Len(old) THEN {Len(new)} ELSE {}
      IN \A p \in Store!Changed(old, new), q \in Store!Changed(old, new) \cup last :
           (p - 1) \div BlockSize = (q - 1) \div BlockSize
  BY <1>7
<1>10. Store!WriteFile(name)
  BY <1>7, <1>8, <1>9 DEF Store!WriteFile
<1> QED
  BY <1>6, <1>10, OthersSeen, OneFileStep

\* Reading, and setting a time.
LEMMA TimeImplements ==
  ASSUME FSInv, NEW name \in Names,
         \/ \E offset \in Offsets : vsfs_read(name, offset)
         \/ Exists(fs, name) /\ vsfs_utimens(PathLookup(fs, name))
         \/ vsfs_utimens(ROOT_INO)
  PROVE  Store!StoreNext
<1>1. Sound(fs) /\ fs' = fs
  BY DEF FSInv, vsfs_read, vsfs_utimens
<1>2. \/ stamped' = {} \/ stamped' = {ROOT_INO}
      \/ Exists(fs, name) /\ stamped' = {PathLookup(fs, name)}
  BY DEF vsfs_read, vsfs_utimens
<1>3. StampsSeen' = {} \/ StampsSeen' = {NoName} \/ StampsSeen' = {name}
  <2>1. CASE stamped' = {} \/ stamped' = {ROOT_INO}
    BY <2>1, <1>1, SeenNext, StampsOf
  <2>2. CASE Exists(fs, name) /\ stamped' = {PathLookup(fs, name)}
    <3>1. Binds(fs, name, PathLookup(fs, name))
      BY <2>2, <1>1, Bound
    <3>2. Stamps(fs, stamped') = {name}
      BY <3>1, <2>2, <1>1, StampOfFile
    <3> QED
      BY <3>2, <1>1, SeenNext
  <2> QED
    BY <2>1, <2>2, <1>2
<1>4. FilesSeen' = FilesSeen
  BY <1>1, Seen, SeenNext
<1>5. Store!SetTime
  BY <1>3, <1>4, Zenon DEF Store!SetTime, NoName
<1> QED
  BY <1>5, Zenon DEF Store!StoreNext

(***************************************************************************)
(* The file system implements FileStore: every call changes the one file   *)
(* it names, in the way FileStore says, and stamps what it changes; the    *)
(* others read the same, though all share blocks, inodes and directory     *)
(* (vsfs.c:302-951).                                                       *)
(***************************************************************************)
THEOREM ImplementsFileStore == ASSUME Careful, SizesFit PROVE Spec => FilesImplement
<1>1. Init => Store!StoreInit
  <2> SUFFICES ASSUME Init PROVE Store!StoreInit
    OBVIOUS
  <2>1. Sound(fs) /\ fs.ibmap = {ROOT_INO} /\ stamped = {ROOT_INO}
    BY InitSound DEF FSInv
  <2>2. \A name \in Names : FilesSeen[name] = Missing
    <3> SUFFICES ASSUME NEW name \in Names PROVE FilesSeen[name] = Missing
      OBVIOUS
    <3>1. \A i : ~ Binds(fs, name, i)
      BY <2>1, Bound
    <3> QED
      BY <3>1, <2>1, Seen, FileBound
  <2>3. StampsSeen = {NoName}
    BY <2>1, Seen, StampsOf
  <2>4. FilesSeen = [name \in Names |-> Missing]
    BY <2>2, Seen
  <2> QED
    BY <2>3, <2>4, Zenon DEF Store!StoreInit, Store!NoFile, Missing, NoName
<1>2. ASSUME FSInv, FSInv', [Next]_vars
      PROVE  [Store!StoreNext]_<<FilesSeen, StampsSeen>>
  <2>1. CASE UNCHANGED vars
    <3>1. fs' = fs /\ stamped' = stamped
      BY <2>1 DEF vars
    <3> QED
      BY <3>1, Seen, SeenNext
  <2>2. CASE Next
    <3>1. PICK name \in Names :
            \/ vsfs_create(name)
            \/ vsfs_unlink(name)
            \/ \E size \in Sizes : vsfs_truncate(name, size)
            \/ \E offset \in Offsets, n \in 1 .. BlockSize, byte \in Bytes :
                 vsfs_write(name, offset, n, byte)
            \/ \E offset \in Offsets : vsfs_read(name, offset)
            \/ Exists(fs, name) /\ vsfs_utimens(PathLookup(fs, name))
            \/ vsfs_utimens(ROOT_INO)
      BY <2>2 DEF Next
    <3>2. CASE vsfs_create(name)
      BY <3>2, <1>2, CreateImplements
    <3>3. CASE vsfs_unlink(name)
      BY <3>3, <1>2, UnlinkImplements
    <3>4. CASE \E size \in Sizes : vsfs_truncate(name, size)
      BY <3>4, <1>2, TruncateImplements
    <3>5. CASE \E offset \in Offsets, n \in 1 .. BlockSize, byte \in Bytes :
                 vsfs_write(name, offset, n, byte)
      BY <3>5, <1>2, WriteImplements
    <3>6. CASE \/ \E offset \in Offsets : vsfs_read(name, offset)
               \/ Exists(fs, name) /\ vsfs_utimens(PathLookup(fs, name))
               \/ vsfs_utimens(ROOT_INO)
      BY <3>6, <1>2, TimeImplements
    <3> QED
      BY <3>1, <3>2, <3>3, <3>4, <3>5, <3>6
  <2> QED
    BY <1>2, <2>1, <2>2
<1> QED
  BY <1>1, <1>2, SoundImage, PTL DEF Spec, FilesImplement, Store!StoreSpec
=============================================================================
