------------------------------- MODULE FileStore -------------------------------
(***************************************************************************)
(* What the file system of A4-File-System promises, without blocks and     *)
(* inodes: a flat directory of named files, each a sequence of bytes.      *)
(* A call changes one file and nothing else, and stamps with the time what  *)
(* it changes: the file, or the directory when a name comes or goes.       *)
(***************************************************************************)
EXTENDS Integers, Sequences

CONSTANTS FileNames, Directory, BlockSize

VARIABLES files,        \* for each name, whether the file exists, and its bytes
          stamps        \* the names that the last call stamped

NoFile == [exists |-> FALSE, bytes |-> <<>>]

StoreInit ==
  /\ files = [n \in FileNames |-> NoFile]
  /\ stamps = {Directory}

SameExcept(n) == \A m \in FileNames \ {n} : files'[m] = files[m]

CreateFile(n) ==
  /\ files[n] = NoFile
  /\ files'[n] = [exists |-> TRUE, bytes |-> <<>>]
  /\ stamps' = {Directory, n}

RemoveFile(n) ==
  /\ files[n].exists
  /\ files'[n] = NoFile
  /\ stamps' = {Directory}

\* Where the last block of a file of len bytes ends.
BlockEnd(len) == ((len + BlockSize - 1) \div BlockSize) * BlockSize

\* Where new, which grew or shrank from old, holds something else than a byte
\* that old had there, or zero in a new block.  The rest of the last block of old
\* may hold anything.
Changed(old, new) == {p \in DOMAIN new :
  (p <= Len(old) /\ new[p] # old[p]) \/ (p > BlockEnd(Len(old)) /\ new[p] # 0)}

\* In the next two, \E where LET would do lets TLC evaluate the refinement
\* mapping once.
ResizeFile(n) ==
  /\ files[n].exists /\ files'[n].exists
  /\ stamps' = {n}
  /\ \E old \in {files[n].bytes}, new \in {files'[n].bytes} : Changed(old, new) = {}

\* A write stores bytes in one block; a file that grows ends with them, and none
\* shrinks.
WriteFile(n) ==
  /\ files[n].exists /\ files'[n].exists
  /\ stamps' = {n}
  /\ \E old \in {files[n].bytes}, new \in {files'[n].bytes} :
       LET last == IF Len(new) > Len(old) THEN {Len(new)} ELSE {}
       IN /\ Len(new) >= Len(old)
          /\ \A p \in Changed(old, new), q \in Changed(old, new) \cup last :
               (p - 1) \div BlockSize = (q - 1) \div BlockSize

\* The files stay as they are.  Whoever sets a time stamps one name or none; reading
\* a file stamps the directory.
SetTime ==
  /\ UNCHANGED files
  /\ \E n \in FileNames \cup {Directory} : stamps' \in {{}, {n}}

StoreNext ==
  \/ SetTime
  \/ \E n \in FileNames :
       /\ SameExcept(n)
       /\ CreateFile(n) \/ RemoveFile(n) \/ ResizeFile(n) \/ WriteFile(n)

StoreSpec == StoreInit /\ [][StoreNext]_<<files, stamps>>
================================================================================
