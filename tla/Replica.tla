-------------------------------- MODULE Replica --------------------------------
(***************************************************************************)
(* What a search index promises: a view that mirrors a source, key by key. *)
(* A key is open while its latest change is still on its way, or while     *)
(* nothing is promised about it at all; every other key shows its source,  *)
(* and its document does not move.                                         *)
(***************************************************************************)
CONSTANTS
  Key,     \* keys of the source
  Cell     \* contents of a row or document, or their absence

VARIABLES
  source,  \* what the keys hold
  view,    \* what the index shows for them
  open     \* the keys the index has still to answer for

vars == <<source, view, open>>

Settled == \A k \in Key \ open : view[k] = source[k]

Init ==
  /\ source \in [Key -> Cell]
  /\ view \in [Key -> Cell]
  /\ open \in SUBSET Key
  /\ Settled

(* A change opens its keys.                                                *)
Change ==
  /\ source' \in [Key -> Cell]
  /\ {k \in Key : source'[k] # source[k]} \subseteq open'
  /\ open \subseteq open' /\ open' \subseteq Key
  /\ UNCHANGED view

(* Documents of open keys are written, and the index answers for as many   *)
(* keys as it likes, provided that they show their source.                 *)
Show ==
  /\ view' \in [Key -> Cell]
  /\ \A k \in Key \ open : view'[k] = view[k]
  /\ open' \in SUBSET Key
  /\ Settled'
  /\ UNCHANGED source

Next == Change \/ Show

Spec == Init /\ [][Next]_vars
================================================================================
