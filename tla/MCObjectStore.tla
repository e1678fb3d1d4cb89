----------------------------- MODULE MCObjectStore -----------------------------
(* ObjectStore on small instances.                                         *)
EXTENDS ObjectStore, TLC
Symmetry == Permutations(Block) \cup Permutations(Handler)
================================================================================
