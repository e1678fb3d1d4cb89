------------------------------ MODULE MCUploads ------------------------------
(* Small instances of Uploads for TLC.                                     *)
EXTENDS Uploads, TLC

Symmetry == Permutations(Upload) \cup Permutations(Path) \cup Permutations(FileId)
              \cup Permutations(Patch) \cup Permutations(Deleter)
=============================================================================
