------------------------------ MODULE AdminApi ------------------------------
(***************************************************************************)
(* The calls of admin-ui to the admin API (lib/api.ts), as a page sees     *)
(* them: a handler sends one and goes on when it is answered or fails, the *)
(* answers come in any order, and the answer to a component that is no     *)
(* longer on the screen changes nothing.                                   *)
(*                                                                         *)
(* `wire' holds the calls under way in the order they were made.  An       *)
(* answered call waits for its handler to go on.                           *)
(***************************************************************************)
EXTENDS Naturals, FiniteSets, Sequences, SequencesExt

CONSTANTS
  MaxCalls,   \* a bound: calls under way when the person clicks
  MaxFaults   \* a bound: calls that fail

ASSUME ApiAssumption == {MaxCalls, MaxFaults} \subseteq Nat

VARIABLES wire, faults

NotYet    == <<>>
Error     == <<"error">>
Answer(v) == <<"answer", v>>

(* a call: its route, what it is about, its answer; is the component that
   made it still there, and the form; was it overtaken by a later one *)
Call(op, at) ==
  [op |-> op, at |-> at, answer |-> NotYet, heard |-> TRUE, form |-> TRUE, late |-> FALSE]

Asked(i)      == i \in DOMAIN wire /\ wire[i].answer = NotYet
Came(i, op)   == i \in DOMAIN wire /\ wire[i].op = op /\ wire[i].answer \notin {NotYet, Error}
Failed(i, op) == i \in DOMAIN wire /\ wire[i].op = op /\ wire[i].answer = Error
Value(i)      == wire[i].answer[2]
UnderWay(op, at) == \E i \in DOMAIN wire : wire[i].op = op /\ wire[i].at = at

(* the person clicks while few calls are under way, and not after the last
   failure *)
Quiet == Len(wire) < MaxCalls /\ (faults = 0 \/ faults < MaxFaults)
Send(calls) == wire' = wire \o calls

(* the server answers: nobody may be there to hear it *)
Reply(i, a) ==
  wire' = IF wire[i].heard THEN [wire EXCEPT ![i].answer = a] ELSE RemoveAt(wire, i)

(* a status that is not 2xx, no connection, or an answer that is lost *)
Fail(i) ==
  /\ i \in DOMAIN wire /\ wire[i].answer # Error
  /\ faults < MaxFaults /\ faults' = faults + 1
  /\ Reply(i, Error)

(* The handler of call i goes on, sending `calls'; earlier calls of the
   same kind are overtaken. *)
After(i, calls) ==
  LET same(k) == wire[k].op = wire[i].op /\ wire[k].at[1] = wire[i].at[1] IN
  RemoveAt([k \in DOMAIN wire |-> [wire[k] EXCEPT !.late = @ \/ (k < i /\ same(k))]], i) \o calls

(* The component whose calls (of w) are about `lists' goes away: what it
   asked is not heard, what it ordered is still done.  The calls that
   matter stay in their order. *)
Left(c, lists) == [c EXCEPT !.heard = @ /\ c.at[1] \notin lists]
Stays(c)       == c.heard \/ (c.op # "read" /\ c.answer = NotYet)
Place(s, n)    == CHOOSE k \in s : Cardinality({j \in s : j <= k}) = n

Leave(w, lists) ==
  LET staying == {k \in DOMAIN w : Stays(Left(w[k], lists))}
  IN [n \in 1..Cardinality(staying) |-> Left(w[Place(staying, n)], lists)]

(* The dialog with the form behind the calls `op' (of w) about a list is
   closed. *)
Orphan(w, op, list) ==
  [k \in DOMAIN w |-> [w[k] EXCEPT !.form = @ /\ ~(w[k].op = op /\ w[k].at[1] = list)]]
=============================================================================
