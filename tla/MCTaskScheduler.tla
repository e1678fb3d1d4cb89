--------------------------- MODULE MCTaskScheduler ---------------------------
(* Small instances of TaskScheduler for TLC.                               *)
EXTENDS TaskScheduler, TLC

Symmetry == Permutations(Task) \cup Permutations(Expr) \cup Permutations(Run)
              \cup Permutations(Runner) \cup Permutations(Poller)
=============================================================================
