----------------------------- MODULE MCAccounts -----------------------------
(* Accounts for TLC; browsers and request slots are interchangeable. *)
EXTENDS Accounts, TLC
Symmetry == Permutations(Client) \cup Permutations(Request)
=============================================================================
