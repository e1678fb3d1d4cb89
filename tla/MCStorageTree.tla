----------------------------- MODULE MCStorageTree -----------------------------
(* StorageTree on small instances.                                         *)
EXTENDS StorageTree, TLC
Symmetry == Permutations(Folder) \cup Permutations(File) \cup Permutations(Name)
================================================================================
