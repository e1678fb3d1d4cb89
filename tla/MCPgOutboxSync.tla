--------------------------- MODULE MCPgOutboxSync ---------------------------
(* Small instances of PgOutboxSync for TLC.                                *)
EXTENDS PgOutboxSync, TLC

Symmetry == Permutations(Key) \cup Permutations(Val)
=============================================================================
