---------------------------- MODULE MCFileBrowser ----------------------------
(* FileBrowser for TLC: one folder holds files, the other is empty; one upload
   has two chunks. *)
EXTENDS FileBrowser, TLC
CONSTANTS f1, f2, a, b, u1, u2
TwoFiles == (f1 :> {a, b}) @@ (f2 :> {})
OneFile == (f1 :> {a}) @@ (f2 :> {})
Chunks == (u1 :> 2) @@ (u2 :> 1)
=============================================================================
