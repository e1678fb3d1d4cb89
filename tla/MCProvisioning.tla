--------------------------- MODULE MCProvisioning ---------------------------
(* Provisioning for TLC: both collections are taken from one table; request
   slots, collections and vector indexes are interchangeable. *)
EXTENDS Provisioning, TLC
CONSTANT t1
OneTable == [c \in Collection |-> t1]
Symmetry == Permutations(Handler) \cup Permutations(Collection) \cup Permutations(Vector)
=============================================================================
