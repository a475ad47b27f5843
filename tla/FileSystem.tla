------------------------------- MODULE FileSystem -------------------------------
(***************************************************************************)
(* VSFS, the file system of A4-File-System: mkfs.c lays out the image, and *)
(* vsfs.c, with the bitmaps of bitmap.c, serves one FUSE call at a time    *)
(* (options.c mounts it single-threaded).  A call is one step.             *)
(*                                                                         *)
(* fs is the mapped image, all the state there is.  data, dirs and tables  *)
(* are what the blocks hold: bytes of files, directory entries, and block  *)
(* pointers; a block that is freed or was never used is in none of them.   *)
(* status tells how the process ended, if it did: a failed assertion of    *)
(* bitmap_free, or a block or inode number used that bitmap_alloc did not  *)
(* set because it found no clear bit.  stamped holds the inodes whose       *)
(* i_mtime the last call set; modes are left out.                          *)
(***************************************************************************)
EXTENDS Integers, Sequences, FiniteSets, Functions

CONSTANTS Names,           \* of files
          Bytes,           \* that are written, other than 0
          Sizes, Offsets,  \* in bytes, that truncate and write are called with
          NumBlocks,       \* sb_num_blocks
          NumInodes,       \* sb_num_inodes
          InodesPerBlock,  \* inodes in a block of the inode table
          BlockSize,       \* VSFS_BLOCK_SIZE
          NumDirect,       \* VSFS_NUM_DIRECT
          NumIndirect,     \* block pointers in the indirect block
          PerBlock,        \* directory entries in a block
          UintRange,       \* 2^32, the range of the arguments of div_round_up
          Leftovers,       \* pointers that an unformatted inode table may hold
          Careful          \* no call that MayCreate, MayResize or MayWrite names

ASSUME FSAssumption ==
  /\ "" \notin Names /\ "." \notin Names /\ ".." \notin Names
  /\ Bytes \subseteq Int \ {0}
  /\ Sizes \subseteq Nat /\ Offsets \subseteq Nat
  /\ {NumBlocks, NumInodes, InodesPerBlock, BlockSize, NumDirect} \subseteq Nat \ {0}
  /\ NumIndirect \in Nat /\ PerBlock \in Nat \ {0, 1}
  /\ UintRange \in Nat /\ UintRange > (NumDirect + NumIndirect) * BlockSize
  /\ UintRange % BlockSize = 0 /\ UintRange >= NumInodes + InodesPerBlock
  /\ Leftovers \subseteq Nat /\ Leftovers # {}
  /\ Careful \in BOOLEAN

VARIABLES fs, stamped

vars == <<fs, stamped>>

Blocks == 0 .. NumBlocks - 1
Inodes == 0 .. NumInodes - 1
MaxBlocks == NumDirect + NumIndirect    \* 1029 blocks, the largest file
ROOT_INO == 0
INO_MAX == NumInodes                    \* the inode number of an unused entry
BLK_UNASSIGNED == 0

\* Mutant: rounds down.
DivRoundDown(x, y) == (x % UintRange) \div y

DivRoundUp(x, y) == ((x + y - 1) % UintRange) \div y

DataRegion == 3 + DivRoundUp(NumInodes, InodesPerBlock)

ASSUME LayoutAssumption == DataRegion < NumBlocks

Unused == [ino |-> INO_MAX, name |-> ""]
NewDirBlock(entry) == [j \in 0 .. PerBlock - 1 |-> IF j = 0 THEN entry ELSE Unused]
\* Mutant: a new block keeps what some file wrote there.
LeftoverBlock == [j \in 0 .. BlockSize - 1 |-> CHOOSE b \in Bytes : TRUE]

ZeroBlock == [j \in 0 .. BlockSize - 1 |-> 0]

Inode == [i_nlink : Nat, i_blocks : Nat, i_size : Nat,
          i_direct : [0 .. NumDirect - 1 -> Nat], i_indirect : Nat]

\* mkfs, on an image that -z cleared or that keeps pointers of an older one.
Init == stamped = {ROOT_INO} /\ \E left \in Leftovers :
  fs = [free_blocks |-> NumBlocks - DataRegion - 1, free_inodes |-> NumInodes - 1,
        dbmap |-> 0 .. DataRegion, ibmap |-> {ROOT_INO},
        itable |-> [i \in Inodes |->
          [i_nlink |-> IF i = ROOT_INO THEN 2 ELSE 0,
           i_blocks |-> IF i = ROOT_INO THEN 1 ELSE 0,
           i_size |-> IF i = ROOT_INO THEN BlockSize ELSE 0,
           i_direct |-> [k \in 0 .. NumDirect - 1 |->
             IF i = ROOT_INO /\ k = 0 THEN DataRegion ELSE left],
           i_indirect |-> left]],
        data |-> <<>>, tables |-> <<>>,
        dirs |-> [b \in {DataRegion} |-> [j \in 0 .. PerBlock - 1 |->
          CASE j = 0 -> [ino |-> ROOT_INO, name |-> "."]
            [] j = 1 -> [ino |-> ROOT_INO, name |-> ".."]
            [] OTHER -> Unused]],
        status |-> "ok"]

--------------------------------------------------------------------------------
(* Block pointers.  d is an image. *)

HasTable(d, i) == d.itable[i].i_blocks > NumDirect

\* The block with index k of inode i; NumBlocks, which is no block, stands for
\* what is read as a pointer where the code wrote none.
Pointer(d, i, k) ==
  LET inode == d.itable[i]
  IN IF k < NumDirect THEN inode.i_direct[k]
     ELSE IF inode.i_indirect \in DOMAIN d.tables
             /\ k - NumDirect \in DOMAIN d.tables[inode.i_indirect]
     THEN d.tables[inode.i_indirect][k - NumDirect]
     ELSE NumBlocks

\* Mutant: the index is one too large.
LowestPlusOne(n, used, size) ==
  [k \in 1 .. n |-> 1 + CHOOSE b \in 0 .. size - 1 \ used :
                          Cardinality({c \in 0 .. b - 1 : c \notin used}) = k - 1]

\* bitmap_alloc, n times: the lowest clear bits of a bitmap of size bits.
Lowest(n, used, size) ==
  [k \in 1 .. n |-> CHOOSE b \in 0 .. size - 1 \ used :
                      Cardinality({c \in 0 .. b - 1 : c \notin used}) = k - 1]

\* Blocks needed to grow from curr to wanted blocks, with the indirect block.
NewTable(curr, wanted) == curr <= NumDirect /\ wanted > NumDirect
Need(curr, wanted) == wanted - curr + (IF NewTable(curr, wanted) THEN 1 ELSE 0)

Clear(d) == NumBlocks - Cardinality(d.dbmap)

\* Allocate the blocks of inode i up to index wanted - 1: direct ones, then the
\* indirect block if there is none yet, then those it points to.  Entries of the
\* indirect block past i_blocks are never read; a table holds only the others.
Extend(d, i, wanted) ==
  LET inode == d.itable[i]
      curr  == inode.i_blocks
      need  == Need(curr, wanted)
      got   == Lowest(need, d.dbmap, NumBlocks)
      new   == curr .. wanted - 1
      block(k) == got[k - curr + (IF NewTable(curr, wanted) /\ k >= NumDirect THEN 2 ELSE 1)]
      table == IF NewTable(curr, wanted) THEN got[NumDirect - curr + 1] ELSE inode.i_indirect
  IN IF need > Clear(d) THEN [d EXCEPT !.status = "no clear bit"]
     ELSE IF wanted > MaxBlocks THEN [d EXCEPT !.status = "beyond the indirect block"]
     ELSE [d EXCEPT
       !.dbmap = @ \cup Range(got), !.free_blocks = @ - need,
       !.itable[i] = [inode EXCEPT
         !.i_blocks = wanted, !.i_indirect = table,
         !.i_direct = [k \in DOMAIN @ |-> IF k \in new THEN block(k) ELSE @[k]]],
       !.tables = IF wanted <= NumDirect THEN @
                  ELSE [b \in DOMAIN @ \cup {table} |->
                          IF b # table THEN @[b]
                          ELSE [k \in 0 .. wanted - NumDirect - 1 |->
                                  IF k + NumDirect \in new THEN block(k + NumDirect)
                                  ELSE @[b][k]]]]

\* bitmap_free of every block of list, with its assertions.
Free(d, list) ==
  IF ~ IsInjective(list) \/ ~ Range(list) \subseteq d.dbmap
  THEN [d EXCEPT !.status = "bitmap_free asserts"]
  ELSE LET keep(f) == Restrict(f, DOMAIN f \ Range(list))
       IN [d EXCEPT !.dbmap = @ \ Range(list), !.free_blocks = @ + Len(list),
                    !.data = keep(@), !.dirs = keep(@), !.tables = keep(@)]

--------------------------------------------------------------------------------
(* The root directory: its blocks hold entries 0, 1, ... *)

Entries(d) == 0 .. d.itable[ROOT_INO].i_blocks * PerBlock - 1
Entry(d, e) == d.dirs[Pointer(d, ROOT_INO, e \div PerBlock)][e % PerBlock]
Named(d, name) == {e \in Entries(d) : Entry(d, e).name = name}
Exists(d, name) == Named(d, name) # {}
First(S) == CHOOSE e \in S : \A x \in S : e <= x

\* Mutant: sets the name only.
SetEntryName(d, e, entry) ==
  [d EXCEPT !.dirs[Pointer(d, ROOT_INO, e \div PerBlock)][e % PerBlock].name = entry.name]

SetEntry(d, e, entry) ==
  [d EXCEPT !.dirs[Pointer(d, ROOT_INO, e \div PerBlock)][e % PerBlock] = entry]

\* path_lookup; the kernel has made sure that the file exists.
PathLookup(d, name) == Entry(d, First(Named(d, name))).ino

\* create_new_dentry_table: one more block of entries for the directory.
create_new_dentry_table(d, entry) ==
  LET curr == d.itable[ROOT_INO].i_blocks
      x    == Extend(d, ROOT_INO, curr + 1)
      new  == Pointer(x, ROOT_INO, curr)
  IN IF x.status # "ok" THEN x
     ELSE [x EXCEPT !.itable[ROOT_INO].i_size = @ + BlockSize,
                    !.dirs = [b \in DOMAIN @ \cup {new} |->
                                IF b = new THEN NewDirBlock(entry) ELSE @[b]]]

set_dir_entry(d, entry) ==
  IF Exists(d, "") THEN SetEntry(d, First(Named(d, "")), entry)
  ELSE create_new_dentry_table(d, entry)

\* There is an inode, and room in the directory.
MayCreate(d) ==
  LET curr == d.itable[ROOT_INO].i_blocks
  IN /\ d.ibmap # Inodes
     /\ Exists(d, "") \/ (curr < MaxBlocks /\ Need(curr, curr + 1) <= Clear(d))

create_one_empty(d, name) ==
  LET ino == Lowest(1, d.ibmap, NumInodes)[1]
      x   == set_dir_entry([d EXCEPT !.ibmap = @ \cup {ino}], [ino |-> ino, name |-> name])
  IN IF d.ibmap = Inodes THEN [d EXCEPT !.status = "no clear bit"]
     ELSE IF x.status # "ok" THEN x
     ELSE [x EXCEPT !.itable[ino] = [@ EXCEPT !.i_nlink = 1, !.i_blocks = 0, !.i_size = 0],
                    !.free_inodes = @ - 1]

vsfs_create(name) ==
  /\ ~ Exists(fs, name)
  /\ Careful => MayCreate(fs)
  /\ fs' = create_one_empty(fs, name)
  /\ stamped' = {ROOT_INO} \cup (fs'.ibmap \ fs.ibmap)

\* The blocks of inode i from index low on, and its indirect block if table.  The
\* entries below i_blocks are all set, so vsfs_unlink has none to skip.
BlocksFrom(d, i, low, table) ==
  LET n == d.itable[i].i_blocks - low
  IN [k \in 1 .. n + (IF table THEN 1 ELSE 0) |->
        IF k <= n THEN Pointer(d, i, low + k - 1) ELSE d.itable[i].i_indirect]

\* Mutant: the free inode is not counted.
UnlinkedUncounted(d, name) ==
  LET i == PathLookup(d, name)
      x == Free(SetEntry(d, First(Named(d, name)), Unused), BlocksFrom(d, i, 0, HasTable(d, i)))
  IN IF x.status # "ok" THEN x ELSE [x EXCEPT !.ibmap = @ \ {i}, !.itable[i].i_nlink = @ - 1]

\* i_direct is reset; i_indirect and i_blocks keep what they hold.
Unlinked(d, name) ==
  LET i == PathLookup(d, name)
      x == Free(SetEntry(d, First(Named(d, name)), Unused), BlocksFrom(d, i, 0, HasTable(d, i)))
  IN IF x.status # "ok" THEN x
     ELSE [x EXCEPT !.ibmap = @ \ {i}, !.free_inodes = @ + 1,
                    !.itable[i].i_nlink = @ - 1,
                    !.itable[i].i_direct = [k \in DOMAIN @ |->
                      IF k < d.itable[i].i_blocks THEN BLK_UNASSIGNED ELSE @[k]]]

vsfs_unlink(name) ==
  /\ Exists(fs, name)
  /\ fs' = Unlinked(fs, name)
  /\ stamped' = {ROOT_INO}

--------------------------------------------------------------------------------
(* The size of a file. *)

\* truncate_up_dir and truncate_up_indir: new blocks are zeroed.
Grown(d, i, wanted) ==
  LET x   == Extend(d, i, wanted)
      new == {Pointer(x, i, k) : k \in d.itable[i].i_blocks .. wanted - 1}
  IN IF x.status # "ok" THEN x
     ELSE [x EXCEPT !.data = [b \in DOMAIN @ \cup new |->
                                IF b \in new THEN ZeroBlock ELSE @[b]]]

\* Mutant: the indirect block stays allocated.
NeverFreesTable(curr, wanted) == FALSE

\* The cases in which the indirect block is freed: vsfs_truncate calls
\* truncate_down_indir for a file of NumDirect blocks that keeps them all.
FreesTable(curr, wanted) ==
  wanted = NumDirect \/ (wanted < NumDirect /\ curr > NumDirect)

\* Mutant: i_blocks is not decremented.
ShrunkStillCounted(d, i, wanted) ==
  Free(d, BlocksFrom(d, i, wanted, FreesTable(d.itable[i].i_blocks, wanted)))

\* truncate_down_dir and truncate_down_indir.
Shrunk(d, i, wanted) ==
  LET x == Free(d, BlocksFrom(d, i, wanted, FreesTable(d.itable[i].i_blocks, wanted)))
  IN IF x.status # "ok" THEN x ELSE [x EXCEPT !.itable[i].i_blocks = wanted]

\* vsfs_truncate on inode i.  When it returns EFBIG or ENOSPC only i_mtime changes.
Refused(d, i, size) ==
  LET wanted == DivRoundUp(size, BlockSize)
  IN wanted > MaxBlocks \/ d.free_blocks < wanted - d.itable[i].i_blocks

Truncated(d, i, size) ==
  LET wanted == DivRoundUp(size, BlockSize)
      x == IF wanted > d.itable[i].i_blocks THEN Grown(d, i, wanted) ELSE Shrunk(d, i, wanted)
  IN IF Refused(d, i, size) THEN d
     ELSE IF x.status # "ok" THEN x
     ELSE [x EXCEPT !.itable[i].i_size = size]

\* A file of NumDirect blocks does not keep them all, and one that gets its
\* first indirect block finds room for it.
MayResize(d, i, size) ==
  LET curr == d.itable[i].i_blocks
      wanted == DivRoundUp(size, BlockSize)
  IN /\ ~ (curr = NumDirect /\ wanted = NumDirect)
     /\ Refused(d, i, size) \/ Need(curr, wanted) <= Clear(d)

vsfs_truncate(name, size) ==
  /\ Exists(fs, name)
  /\ LET i == PathLookup(fs, name)
     IN /\ Careful => MayResize(fs, i, size)
        /\ fs' = Truncated(fs, i, size)
        /\ stamped' = {i}

\* A call that grows the file is not refused: vsfs_write does not look.
MayWrite(d, i, end) ==
  end > d.itable[i].i_size => MayResize(d, i, end) /\ ~ Refused(d, i, end)

\* n times byte, in one block, from offset on.
Written(d, i, offset, n, byte) ==
  LET x == IF offset + n > d.itable[i].i_size THEN Truncated(d, i, offset + n) ELSE d
      y == IF offset = x.itable[i].i_size THEN [x EXCEPT !.itable[i].i_size = @ + n] ELSE x
      b == Pointer(y, i, offset \div BlockSize)
  IN IF x.status # "ok" THEN x
     ELSE IF b \notin DOMAIN y.data THEN [y EXCEPT !.status = "write outside the files"]
     ELSE [y EXCEPT !.data[b] = [j \in DOMAIN @ |->
             IF j \in (offset % BlockSize) .. (offset % BlockSize) + n - 1 THEN byte ELSE @[j]]]

vsfs_write(name, offset, n, byte) ==
  /\ Exists(fs, name)
  /\ (offset % BlockSize) + n <= BlockSize
  /\ LET i == PathLookup(fs, name)
     IN /\ offset + n <= MaxBlocks * BlockSize
        /\ Careful => MayWrite(fs, i, offset + n)
        /\ fs' = Written(fs, i, offset, n, byte)
        /\ stamped' = {i}

\* Offsets past the end of the file return at once; what is read is ByteAt.
vsfs_read(name, offset) ==
  /\ Exists(fs, name)
  /\ offset <= fs.itable[PathLookup(fs, name)].i_size
  /\ stamped' = {ROOT_INO}
  /\ UNCHANGED fs

\* Sets the time of a file or of the directory, or with UTIME_OMIT nothing.
vsfs_utimens(inode) ==
  /\ stamped' \in {{}, {inode}}
  /\ UNCHANGED fs

Next ==
  /\ fs.status = "ok"
  /\ \E name \in Names :
       \/ vsfs_create(name)
       \/ vsfs_unlink(name)
       \/ \E size \in Sizes : vsfs_truncate(name, size)
       \/ \E offset \in Offsets, n \in 1 .. BlockSize, byte \in Bytes :
            vsfs_write(name, offset, n, byte)
       \/ \E offset \in Offsets : vsfs_read(name, offset)
       \/ Exists(fs, name) /\ vsfs_utimens(PathLookup(fs, name))
       \/ vsfs_utimens(ROOT_INO)

Spec == Init /\ [][Next]_vars

--------------------------------------------------------------------------------
(* Properties *)

\* Every field has its type, and the roles of the blocks exclude each other
\* (vsfs.h:67-114).
FSTypeOK ==
  /\ stamped \subseteq Inodes
  /\ fs.free_blocks \in 0 .. NumBlocks /\ fs.free_inodes \in 0 .. NumInodes
  /\ fs.dbmap \subseteq Blocks /\ fs.ibmap \subseteq Inodes
  /\ fs.itable \in [Inodes -> Inode]
  /\ \A b \in DOMAIN fs.data : fs.data[b] \in [0 .. BlockSize - 1 -> Bytes \cup {0}]
  /\ \A b \in DOMAIN fs.dirs : fs.dirs[b] \in
       [0 .. PerBlock - 1 -> [ino : 0 .. INO_MAX, name : Names \cup {"", ".", ".."}]]
  /\ \A b \in DOMAIN fs.tables : Range(fs.tables[b]) \subseteq Blocks
  /\ DOMAIN fs.data \cap DOMAIN fs.dirs = {}
  /\ (DOMAIN fs.data \cup DOMAIN fs.dirs) \cap DOMAIN fs.tables = {}

\* The places of inode i that hold a block: the indices, and -1 for the indirect
\* block; and the block at a place.
Places(d, i) == 0 .. d.itable[i].i_blocks - 1 \cup (IF HasTable(d, i) THEN {-1} ELSE {})
At(d, i, k) == IF k = -1 THEN d.itable[i].i_indirect ELSE Pointer(d, i, k)

\* Everything the live inodes point to.
References == UNION {{i} \X Places(fs, i) : i \in fs.ibmap}
Target == [r \in References |-> At(fs, r[1], r[2])]

\* The bit of a block is set exactly when it is metadata or one live inode points
\* to it from one place: no block is shared, lost or freed under its file, over
\* direct and indirect blocks of files and directory (vsfs.c:523-816).
BlocksAccounted ==
  fs.status = "ok" =>
    /\ IsInjective(Target)
    /\ fs.dbmap = 0 .. DataRegion - 1 \cup Range(Target)
    /\ \A r \in References : Target[r] \in
         IF r[2] = -1 THEN DOMAIN fs.tables
         ELSE IF r[1] = ROOT_INO THEN DOMAIN fs.dirs ELSE DOMAIN fs.data

\* An inode is allocated exactly when a directory entry names it, i_nlink counts
\* the entries that do, and no name occurs twice, however entries were freed and
\* reused; readdir and path_lookup agree on which are unused (vsfs.c:302, 325).
InodesAccounted ==
  fs.status = "ok" =>
    LET used == {e \in Entries(fs) : Entry(fs, e).ino # INO_MAX}
    IN /\ fs.ibmap = {Entry(fs, e).ino : e \in used}
       /\ \A i \in fs.ibmap :
            fs.itable[i].i_nlink = Cardinality({e \in used : Entry(fs, e).ino = i})
       /\ \A e \in used, f \in used : Entry(fs, e).name = Entry(fs, f).name => e = f
       /\ \A e \in Entries(fs) : e \in used <=> Entry(fs, e).name # ""
       /\ Entry(fs, 0).ino = ROOT_INO

\* What statfs reports is what the bitmaps say, after any history of calls
\* (vsfs.c:196-201).
FreeCounts ==
  fs.status = "ok" =>
    /\ fs.free_blocks = Clear(fs)
    /\ fs.free_inodes = NumInodes - Cardinality(fs.ibmap)

\* The blocks of a live inode are those its size needs: no byte below i_size is
\* without a block, and none is kept beyond it (vsfs.c:767-816, 922-925).
BlocksMatchSize ==
  fs.status = "ok" => \A i \in fs.ibmap :
    /\ fs.itable[i].i_size <= fs.itable[i].i_blocks * BlockSize
    /\ fs.itable[i].i_size > (fs.itable[i].i_blocks - 1) * BlockSize

\* No assertion of bitmap_free fails, nothing is allocated that is not there and
\* nothing is written outside the files (bitmap.c:90-91, vsfs.c:934).
NoFSFault == Careful => fs.status = "ok"

\* vsfs_read: the byte at an offset below i_size.
ByteAt(i, offset) == fs.data[Pointer(fs, i, offset \div BlockSize)][offset % BlockSize]

\* The files, as a client that lists the directory and reads them sees them.
FilesSeen == [name \in Names |->
  LET i == PathLookup(fs, name)
  IN IF ~ Exists(fs, name) THEN [exists |-> FALSE, bytes |-> <<>>]
     ELSE [exists |-> TRUE, bytes |-> [p \in 1 .. fs.itable[i].i_size |-> ByteAt(i, p - 1)]]]

\* What the last call stamped, by name; "" is the directory.
StampsSeen == {name \in Names : Exists(fs, name) /\ PathLookup(fs, name) \in stamped}
              \cup (IF ROOT_INO \in stamped THEN {""} ELSE {})

Store == INSTANCE FileStore WITH FileNames <- Names, Directory <- "",
                                 files <- FilesSeen, stamps <- StampsSeen

\* The file system implements FileStore: a call on one file leaves the contents
\* of all others alone, no byte of the file is lost, new blocks read as zeros, and
\* the file or directory that is changed, and no other, gets a new i_mtime.
FilesImplement == Store!StoreSpec

================================================================================
