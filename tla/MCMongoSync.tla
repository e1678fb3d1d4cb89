------------------------------ MODULE MCMongoSync ------------------------------
(* MongoSync on small instances.                                           *)
EXTENDS MongoSync, TLC
Symmetry == Permutations(Key) \cup Permutations(Val)
================================================================================
