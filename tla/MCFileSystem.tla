------------------------------ MODULE MCFileSystem ------------------------------
(* FileSystem for TLC: names are interchangeable, the code compares them only.
   No call looks at the stamps, and each sets them anew, so states that differ in
   them alone have the same successors. *)
EXTENDS FileSystem, TLC

ImageView == fs

NameSymmetry == Permutations(Names)
================================================================================
