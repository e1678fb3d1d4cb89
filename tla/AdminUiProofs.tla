---------------------------- MODULE AdminUiProofs ----------------------------
(***************************************************************************)
(* Proofs about AdminUi: the value of a new key can be read, the lists     *)
(* and the tree show the person's changes, deleted runs stay away, a       *)
(* result is of its selection, the id column is of its table, for any      *)
(* number of calls under way and any lists, runs, databases and tables.    *)
(*                                                                         *)
(* The calls come first: what a page knows of them when one is answered,   *)
(* fails, goes on, or when a component goes away, stated so that no page   *)
(* has to look at places in a sequence (AfterCalls, LeftCalls,             *)
(* RepliedCalls), and that an answered call is always heard (Sound).  Then *)
(* one invariant per result, about the calls and what is shown: KeysInv,   *)
(* ListsTyped and ListsInv, TasksTyped and RunsInv, PanelsTyped and        *)
(* FindInv, TreeTyped and TreeInv, ColumnInv and DialogsInv.               *)
(***************************************************************************)
EXTENDS AdminUi, SequenceTheorems, FiniteSetTheorems, WellFoundedInduction, TLAPS

(***************************************************************************)
(* The calls under way.                                                    *)
(***************************************************************************)

IsCall(c) ==
  /\ c = [op |-> c.op, at |-> c.at, answer |-> c.answer, heard |-> c.heard, form |-> c.form, late |-> c.late]
  /\ {c.heard, c.form, c.late} \subseteq BOOLEAN
IsWire(w) == w \in Seq({w[k] : k \in DOMAIN w}) /\ \A k \in DOMAIN w : IsCall(w[k])

(* c is what has become of call d.                                         *)
Same(c, d) == c.op = d.op /\ c.at = d.at /\ c.answer = d.answer

LEMMA WireIs ==
  ASSUME NEW w, IsWire(w)
  PROVE  /\ Len(w) \in Nat /\ DOMAIN w = 1 .. Len(w)
         /\ \A k \in 1 .. Len(w) : IsCall(w[k])
BY LenProperties DEF IsWire

LEMMA IsSeqIf ==
  ASSUME NEW S, NEW n \in Nat, NEW w \in [1 .. n -> S]
  PROVE  w \in Seq(S)
BY SeqDef

LEMMA IsWireIf ==
  ASSUME NEW w, NEW n \in Nat, DOMAIN w = 1 .. n, w = [k \in 1 .. n |-> w[k]], \A k \in 1 .. n : IsCall(w[k])
  PROVE  IsWire(w) /\ Len(w) = n
<1>. DEFINE S == {w[k] : k \in DOMAIN w}
<1>1. w \in [1 .. n -> S]  OBVIOUS
<1>2. w \in Seq(S)  BY <1>1, IsSeqIf
<1>3. Len(w) = n  BY <1>1, <1>2, LenProperties
<1>. QED BY <1>2, <1>3 DEF IsWire

LEMMA CallIs ==
  ASSUME NEW o, NEW a
  PROVE  LET c == Call(o, a) IN
         /\ IsCall(c) /\ c.op = o /\ c.at = a /\ c.answer = NotYet /\ c.heard /\ c.form /\ ~c.late
BY DEF Call, IsCall

LEMMA NoCalls == IsWire(<<>>) /\ Len(<<>>) = 0
BY EmptySeq DEF IsWire

LEMMA OneCall ==
  ASSUME NEW c, IsCall(c)
  PROVE  IsWire(<<c>>) /\ Len(<<c>>) = 1 /\ <<c>>[1] = c
BY DEF IsWire

LEMMA Join ==
  ASSUME NEW v, NEW w, IsWire(v), IsWire(w)
  PROVE  /\ IsWire(v \o w) /\ Len(v \o w) = Len(v) + Len(w)
         /\ \A k \in 1 .. Len(v) : (v \o w)[k] = v[k]
         /\ \A k \in 1 .. Len(w) : (v \o w)[Len(v) + k] = w[k]
<1>. DEFINE S == {v[k] : k \in DOMAIN v} \cup {w[k] : k \in DOMAIN w}
            u == v \o w
<1>1. v \in Seq(S) /\ w \in Seq(S)
  <2>1. v \in [1 .. Len(v) -> S] /\ w \in [1 .. Len(w) -> S] /\ Len(v) \in Nat /\ Len(w) \in Nat
    BY LenProperties DEF IsWire
  <2>. QED BY <2>1, IsSeqIf
<1>2. /\ Len(v) \in Nat /\ Len(w) \in Nat /\ \A k \in 1 .. Len(v) : IsCall(v[k])
      /\ \A k \in 1 .. Len(w) : IsCall(w[k])
  BY WireIs
<1>3. /\ u \in Seq(S) /\ Len(u) = Len(v) + Len(w)
      /\ \A i \in 1 .. Len(v) + Len(w) : u[i] = IF i <= Len(v) THEN v[i] ELSE w[i - Len(v)]
  BY <1>1, ConcatProperties
<1>4. \A k \in 1 .. Len(v) : u[k] = v[k]  BY <1>2, <1>3
<1>5. ASSUME NEW k \in 1 .. Len(w)  PROVE u[Len(v) + k] = w[k]
  <2>1. Len(v) + k \in 1 .. Len(v) + Len(w) /\ ~(Len(v) + k <= Len(v)) /\ Len(v) + k - Len(v) = k  BY <1>2
  <2>. QED BY <1>3, <2>1
<1>6. \A i \in 1 .. Len(v) + Len(w) : IsCall(u[i])
  <2>1. \A i \in 1 .. Len(v) + Len(w) : i <= Len(v) \/ i - Len(v) \in 1 .. Len(w)  BY <1>2
  <2>. QED BY <1>2, <1>3, <2>1
<1>7. DOMAIN u = 1 .. Len(v) + Len(w) /\ u = [k \in 1 .. Len(v) + Len(w) |-> u[k]]
  BY <1>3, LenProperties
<1>8. IsWire(u)
  <2>. DEFINE n == Len(v) + Len(w)
  <2>1. n \in Nat /\ DOMAIN u = 1 .. n /\ u = [k \in 1 .. n |-> u[k]] /\ \A k \in 1 .. n : IsCall(u[k])
    BY <1>2, <1>6, <1>7
  <2>. HIDE DEF n, u
  <2>. QED BY <2>1, IsWireIf
<1>. QED BY <1>3, <1>4, <1>5, <1>8

LEMMA Piece ==
  ASSUME NEW S, NEW w \in Seq(S), NEW m \in Nat, m >= 1, NEW n \in Nat, n <= Len(w)
  PROVE  /\ SubSeq(w, m, n) \in Seq(S)
         /\ Len(SubSeq(w, m, n)) = IF m <= n THEN n - m + 1 ELSE 0
         /\ \A k \in 1 .. n - m + 1 : SubSeq(w, m, n)[k] = w[m + k - 1]
<1>1. Len(w) \in Nat /\ w \in [1 .. Len(w) -> S]  BY LenProperties
<1>2. \A i \in m .. n : i \in 1 .. Len(w)  BY <1>1
<1>3. \A i \in m .. n : w[i] \in S  BY <1>1, <1>2
<1>. QED BY <1>3, SubSeqProperties

Skip(i, k) == IF k < i THEN k ELSE k + 1

LEMMA Removed ==
  ASSUME NEW w, IsWire(w), NEW i \in DOMAIN w
  PROVE  LET u == RemoveAt(w, i) IN
         /\ IsWire(u) /\ Len(u) = Len(w) - 1 /\ Len(w) - 1 \in Nat
         /\ \A k \in 1 .. Len(w) - 1 : Skip(i, k) \in DOMAIN w /\ Skip(i, k) # i /\ u[k] = w[Skip(i, k)]
<1>. DEFINE S == {w[k] : k \in DOMAIN w}
            n == Len(w)
            a == SubSeq(w, 1, i - 1)
            b == SubSeq(w, i + 1, n)
            u == RemoveAt(w, i)
<1>1. n \in Nat /\ DOMAIN w = 1 .. n /\ (\A k \in 1 .. n : IsCall(w[k])) /\ w \in Seq(S)  BY WireIs DEF IsWire
<1>2. i \in 1 .. n /\ 1 \in Int /\ i - 1 \in Int /\ i + 1 \in Int /\ n \in Int  BY <1>1
<1>3. 1 \in Nat /\ 1 >= 1 /\ n \in Nat /\ i - 1 \in Nat /\ i - 1 <= Len(w) /\ i + 1 \in Nat /\ i + 1 >= 1 /\ n <= Len(w)  BY <1>1, <1>2
<1>5. /\ a \in Seq(S) /\ Len(a) = (IF 1 <= i - 1 THEN i - 1 - 1 + 1 ELSE 0)
      /\ \A k \in 1 .. i - 1 - 1 + 1 : a[k] = w[1 + k - 1]
  BY ONLY <1>1, <1>3, Piece
<1>6. /\ b \in Seq(S) /\ Len(b) = (IF i + 1 <= n THEN n - (i + 1) + 1 ELSE 0)
      /\ \A k \in 1 .. n - (i + 1) + 1 : b[k] = w[i + 1 + k - 1]
  <2>. DEFINE m == i + 1
  <2>1. m \in Nat /\ m >= 1 /\ n \in Nat /\ n <= Len(w) /\ w \in Seq(S)  BY <1>1, <1>3
  <2>. HIDE DEF m, n, S
  <2>2. /\ SubSeq(w, m, n) \in Seq(S)
        /\ Len(SubSeq(w, m, n)) = IF m <= n THEN n - m + 1 ELSE 0
        /\ \A k \in 1 .. n - m + 1 : SubSeq(w, m, n)[k] = w[m + k - 1]
    BY <2>1, Piece
  <2>. QED BY <2>2 DEF m
<1>7. Len(a) = i - 1 /\ Len(b) = n - i
  <2>1. i - 1 - 1 + 1 = i - 1 /\ (~(1 <= i - 1) => i - 1 = 0) /\ n - (i + 1) + 1 = n - i /\ (~(i + 1 <= n) => n - i = 0)
    BY <1>2
  <2>. QED BY <1>5, <1>6, <2>1
<1>8. u = a \o b  BY DEF RemoveAt
<1>9. /\ u \in Seq(S) /\ Len(u) = n - 1
      /\ \A k \in 1 .. n - 1 : u[k] = IF k <= i - 1 THEN a[k] ELSE b[k - (i - 1)]
  <2>1. (i - 1) + (n - i) = n - 1  BY <1>1, <1>2
  <2>2. Len(a) + Len(b) = n - 1  BY <1>7, <2>1
  <2>3. /\ a \o b \in Seq(S) /\ Len(a \o b) = Len(a) + Len(b)
        /\ \A k \in 1 .. Len(a) + Len(b) : (a \o b)[k] = IF k <= Len(a) THEN a[k] ELSE b[k - Len(a)]
    BY <1>5, <1>6, ConcatProperties
  <2>. QED BY <1>7, <1>8, <2>2, <2>3
<1>10. \A k \in 1 .. n - 1 : Skip(i, k) \in 1 .. n /\ Skip(i, k) # i  BY <1>2 DEF Skip
<1>11. ASSUME NEW k \in 1 .. n - 1  PROVE u[k] = w[Skip(i, k)]
  <2>1. CASE k <= i - 1
    <3>1. k \in 1 .. i - 1 - 1 + 1 /\ 1 + k - 1 = k /\ Skip(i, k) = k  BY <1>2, <2>1 DEF Skip
    <3>. QED BY <1>5, <1>9, <2>1, <3>1
  <2>2. CASE ~(k <= i - 1)
    <3>1. k - (i - 1) \in 1 .. n - (i + 1) + 1 /\ i + 1 + (k - (i - 1)) - 1 = k + 1 /\ Skip(i, k) = k + 1
      BY <1>2, <2>2 DEF Skip
    <3>. QED BY <1>6, <1>9, <2>2, <3>1
  <2>. QED BY <2>1, <2>2
<1>12. n - 1 \in Nat  BY <1>2
<1>13. DOMAIN u = 1 .. n - 1 /\ u = [k \in 1 .. n - 1 |-> u[k]]  BY <1>9, LenProperties
<1>14. IsWire(u)  BY <1>1, <1>10, <1>11, <1>12, <1>13, IsWireIf
<1>. QED BY <1>1, <1>9, <1>10, <1>11, <1>12, <1>14

(* Calls of another answer, heard by nobody, without a form or overtaken.  *)
LEMMA Changed ==
  ASSUME NEW w, IsWire(w), NEW v, v = [k \in DOMAIN w |-> v[k]], \A k \in DOMAIN w : IsCall(v[k])
  PROVE  IsWire(v) /\ Len(v) = Len(w)
<1>1. Len(w) \in Nat /\ DOMAIN w = 1 .. Len(w)  BY WireIs
<1>2. DOMAIN v = 1 .. Len(w)  BY <1>1
<1>. QED BY <1>1, <1>2, IsWireIf

LEMMA Overtaken1 ==
  ASSUME NEW c, IsCall(c), NEW b \in BOOLEAN
  PROVE  LET d == [c EXCEPT !.late = @ \/ b] IN
         /\ IsCall(d) /\ Same(d, c) /\ d.heard = c.heard /\ d.form = c.form /\ d.late = (c.late \/ b)
BY DEF IsCall, Same

LEMMA Left1 ==
  ASSUME NEW c, IsCall(c), NEW lists
  PROVE  LET d == Left(c, lists) IN
         /\ IsCall(d) /\ Same(d, c) /\ d.heard = (c.heard /\ c.at[1] \notin lists)
         /\ d.form = c.form /\ d.late = c.late
BY DEF IsCall, Same, Left

LEMMA Orphan1 ==
  ASSUME NEW c, IsCall(c), NEW b \in BOOLEAN
  PROVE  LET d == [c EXCEPT !.form = @ /\ ~b] IN
         /\ IsCall(d) /\ Same(d, c) /\ d.heard = c.heard /\ d.form = (c.form /\ ~b) /\ d.late = c.late
BY DEF IsCall, Same

LEMMA Answered1 ==
  ASSUME NEW c, IsCall(c), NEW a
  PROVE  LET d == [c EXCEPT !.answer = a] IN
         /\ IsCall(d) /\ d.op = c.op /\ d.at = c.at /\ d.answer = a
         /\ d.heard = c.heard /\ d.form = c.form /\ d.late = c.late
BY DEF IsCall

(* What is left of the calls when one goes on.                             *)
LEMMA AfterIs ==
  ASSUME IsWire(wire), NEW i \in DOMAIN wire, NEW calls, IsWire(calls)
  PROVE  LET u == After(i, calls)
             n == Len(wire) - 1
             Beaten(k) == k < i /\ wire[k].op = wire[i].op /\ wire[k].at[1] = wire[i].at[1]
         IN
         /\ IsWire(u) /\ n \in Nat /\ Len(u) = n + Len(calls)
         /\ \A k \in 1 .. n : LET j == Skip(i, k) IN
              /\ j \in DOMAIN wire /\ j # i /\ Same(u[k], wire[j]) /\ u[k].heard = wire[j].heard
              /\ u[k].form = wire[j].form /\ u[k].late = (wire[j].late \/ Beaten(j))
         /\ \A k \in 1 .. Len(calls) : u[n + k] = calls[k]
<1>. DEFINE Beaten(k) == k < i /\ wire[k].op = wire[i].op /\ wire[k].at[1] = wire[i].at[1]
            v == [k \in DOMAIN wire |-> [wire[k] EXCEPT !.late = @ \/ Beaten(k)]]
            x == RemoveAt(v, i)
            n == Len(wire) - 1
            u == After(i, calls)
<1>1. \A k \in DOMAIN wire : IsCall(wire[k])  BY WireIs
<1>2. \A k \in DOMAIN wire : /\ IsCall(v[k]) /\ Same(v[k], wire[k]) /\ v[k].heard = wire[k].heard
                             /\ v[k].form = wire[k].form /\ v[k].late = (wire[k].late \/ Beaten(k))
  <2>. SUFFICES ASSUME NEW k \in DOMAIN wire
                PROVE  LET d == [wire[k] EXCEPT !.late = @ \/ Beaten(k)] IN
                       /\ IsCall(d) /\ Same(d, wire[k]) /\ d.heard = wire[k].heard
                       /\ d.form = wire[k].form /\ d.late = (wire[k].late \/ Beaten(k))
    OBVIOUS
  <2>1. Beaten(k) \in BOOLEAN /\ IsCall(wire[k])  BY <1>1
  <2>. HIDE DEF Beaten
  <2>. QED BY <2>1, Overtaken1
<1>3. u = x \o calls  BY DEF After
<1>. HIDE DEF Beaten
<1>4. v = [k \in DOMAIN wire |-> v[k]] /\ DOMAIN v = DOMAIN wire  OBVIOUS
<1>. HIDE DEF v
<1>5. IsWire(v) /\ Len(v) = Len(wire)  BY <1>2, <1>4, Changed
<1>6. /\ IsWire(x) /\ Len(x) = n /\ n \in Nat
      /\ \A k \in 1 .. n : Skip(i, k) \in DOMAIN v /\ Skip(i, k) # i /\ x[k] = v[Skip(i, k)]
  <2>1. IsWire(v) /\ i \in DOMAIN v /\ Len(v) - 1 = n  BY <1>4, <1>5
  <2>2. /\ IsWire(x) /\ Len(x) = Len(v) - 1 /\ Len(v) - 1 \in Nat
        /\ \A k \in 1 .. Len(v) - 1 : Skip(i, k) \in DOMAIN v /\ Skip(i, k) # i /\ x[k] = v[Skip(i, k)]
    BY ONLY <2>1, Removed
  <2>. HIDE DEF x, n
  <2>. QED BY <2>1, <2>2
<1>. HIDE DEF x, u, n
<1>7. /\ IsWire(u) /\ Len(u) = n + Len(calls)
      /\ \A k \in 1 .. n : u[k] = x[k]
      /\ \A k \in 1 .. Len(calls) : u[n + k] = calls[k]
  <2>1. /\ IsWire(x \o calls) /\ Len(x \o calls) = Len(x) + Len(calls)
        /\ \A k \in 1 .. Len(x) : (x \o calls)[k] = x[k]
        /\ \A k \in 1 .. Len(calls) : (x \o calls)[Len(x) + k] = calls[k]
    BY <1>6, Join
  <2>2. Len(x) = n  BY <1>6
  <2>. QED BY <1>3, <2>1, <2>2, Zenon
<1>8. \A k \in 1 .. n : /\ Skip(i, k) \in DOMAIN wire /\ Skip(i, k) # i /\ u[k] = v[Skip(i, k)]
  BY <1>4, <1>6, <1>7
<1>9. /\ IsWire(u) /\ n \in Nat /\ Len(u) = n + Len(calls)
      /\ \A k \in 1 .. n : LET j == Skip(i, k) IN
           /\ j \in DOMAIN wire /\ j # i /\ Same(u[k], wire[j]) /\ u[k].heard = wire[j].heard
           /\ u[k].form = wire[j].form /\ u[k].late = (wire[j].late \/ Beaten(j))
      /\ \A k \in 1 .. Len(calls) : u[n + k] = calls[k]
  BY <1>2, <1>6, <1>7, <1>8
<1>. QED BY <1>9 DEF u, n, Beaten

(* The same without the order.                                             *)
LEMMA AfterCalls ==
  ASSUME IsWire(wire), NEW i \in DOMAIN wire, NEW calls, IsWire(calls)
  PROVE  LET u == After(i, calls) IN
         /\ IsWire(u)
         /\ \A k \in DOMAIN u :
              \/ \E j \in DOMAIN wire \ {i} : Same(u[k], wire[j]) /\ u[k].heard = wire[j].heard
              \/ \E j \in DOMAIN calls : u[k] = calls[j]
         /\ \A j \in DOMAIN wire \ {i} : \E k \in DOMAIN u : Same(u[k], wire[j]) /\ u[k].heard = wire[j].heard
         /\ \A j \in DOMAIN calls : \E k \in DOMAIN u : u[k] = calls[j]
<1>. DEFINE u == After(i, calls)
            n == Len(wire) - 1
            m == Len(calls)
<1>1. /\ IsWire(u) /\ n \in Nat /\ Len(u) = n + m
      /\ \A k \in 1 .. n : LET j == Skip(i, k) IN
           /\ j \in DOMAIN wire /\ j # i /\ Same(u[k], wire[j]) /\ u[k].heard = wire[j].heard
      /\ \A k \in 1 .. m : u[n + k] = calls[k]
  <2>1. LET x == After(i, calls)
            h == Len(wire) - 1
            Beaten(k) == k < i /\ wire[k].op = wire[i].op /\ wire[k].at[1] = wire[i].at[1]
        IN
        /\ IsWire(x) /\ h \in Nat /\ Len(x) = h + Len(calls)
        /\ \A k \in 1 .. h : LET j == Skip(i, k) IN
             /\ j \in DOMAIN wire /\ j # i /\ Same(x[k], wire[j]) /\ x[k].heard = wire[j].heard
             /\ x[k].form = wire[j].form /\ x[k].late = (wire[j].late \/ Beaten(j))
        /\ \A k \in 1 .. Len(calls) : x[h + k] = calls[k]
    BY ONLY IsWire(wire), i \in DOMAIN wire, IsWire(calls), AfterIs
  <2>2. ASSUME NEW k \in 1 .. n
        PROVE  LET j == Skip(i, k) IN
               j \in DOMAIN wire /\ j # i /\ Same(u[k], wire[j]) /\ u[k].heard = wire[j].heard
    BY <2>1
  <2>. QED BY <2>1, <2>2
<1>2. /\ Len(wire) \in Nat /\ DOMAIN wire = 1 .. Len(wire) /\ m \in Nat /\ DOMAIN calls = 1 .. m
      /\ DOMAIN u = 1 .. n + m /\ Len(wire) = n + 1
  BY <1>1, WireIs
<1>. HIDE DEF u, n, m
<1>3. ASSUME NEW k \in DOMAIN u
      PROVE  \/ \E j \in DOMAIN wire \ {i} : Same(u[k], wire[j]) /\ u[k].heard = wire[j].heard
             \/ \E j \in DOMAIN calls : u[k] = calls[j]
  <2>1. k \in 1 .. n \/ (k - n \in 1 .. m /\ n + (k - n) = k)  BY <1>1, <1>2
  <2>. QED BY <1>1, <1>2, <2>1
<1>4. ASSUME NEW j \in DOMAIN wire \ {i}
      PROVE  \E k \in DOMAIN u : Same(u[k], wire[j]) /\ u[k].heard = wire[j].heard
  <2>1. \E k \in 1 .. n : Skip(i, k) = j
    <3>1. CASE j < i  BY <1>1, <1>2, <3>1 DEF Skip
    <3>2. CASE ~(j < i)
      <4>1. j - 1 \in 1 .. n /\ ~(j - 1 < i) /\ j - 1 + 1 = j  BY <1>1, <1>2, <3>2
      <4>. QED BY <4>1 DEF Skip
    <3>. QED BY <3>1, <3>2
  <2>2. \A k \in 1 .. n : k \in 1 .. n + m  BY <1>1, <1>2
  <2>. QED BY <1>1, <1>2, <2>1, <2>2
<1>5. ASSUME NEW j \in DOMAIN calls  PROVE \E k \in DOMAIN u : u[k] = calls[j]
  <2>1. n + j \in 1 .. n + m  BY <1>1, <1>2
  <2>. QED BY <1>1, <1>2, <2>1
<1>6. /\ IsWire(u)
      /\ \A k \in DOMAIN u :
           \/ \E j \in DOMAIN wire \ {i} : Same(u[k], wire[j]) /\ u[k].heard = wire[j].heard
           \/ \E j \in DOMAIN calls : u[k] = calls[j]
      /\ \A j \in DOMAIN wire \ {i} : \E k \in DOMAIN u : Same(u[k], wire[j]) /\ u[k].heard = wire[j].heard
      /\ \A j \in DOMAIN calls : \E k \in DOMAIN u : u[k] = calls[j]
  BY <1>1, <1>3, <1>4, <1>5
<1>. QED BY <1>6 DEF u

LEMMA OrphanIs ==
  ASSUME NEW w, IsWire(w), NEW o, NEW list
  PROVE  LET u == Orphan(w, o, list) IN
         /\ IsWire(u) /\ Len(u) = Len(w) /\ DOMAIN u = DOMAIN w
         /\ \A k \in DOMAIN w : Same(u[k], w[k]) /\ u[k].heard = w[k].heard /\ u[k].late = w[k].late
<1>. DEFINE B(k) == w[k].op = o /\ w[k].at[1] = list
            u == Orphan(w, o, list)
<1>1. u = [k \in DOMAIN w |-> [w[k] EXCEPT !.form = @ /\ ~B(k)]]  BY DEF Orphan
<1>2. \A k \in DOMAIN w : IsCall(w[k])  BY WireIs
<1>3. \A k \in DOMAIN w : /\ IsCall(u[k]) /\ Same(u[k], w[k]) /\ u[k].heard = w[k].heard
                          /\ u[k].late = w[k].late
  <2>. SUFFICES ASSUME NEW k \in DOMAIN w
                PROVE  LET d == [w[k] EXCEPT !.form = @ /\ ~B(k)] IN
                       IsCall(d) /\ Same(d, w[k]) /\ d.heard = w[k].heard /\ d.late = w[k].late
    BY <1>1
  <2>. QED BY <1>2, Orphan1
<1>4. u = [k \in DOMAIN w |-> u[k]] /\ DOMAIN u = DOMAIN w  BY <1>1
<1>. HIDE DEF u
<1>5. IsWire(u) /\ Len(u) = Len(w)  BY <1>3, <1>4, Changed
<1>6. /\ IsWire(u) /\ Len(u) = Len(w) /\ DOMAIN u = DOMAIN w
      /\ \A k \in DOMAIN w : Same(u[k], w[k]) /\ u[k].heard = w[k].heard /\ u[k].late = w[k].late
  BY <1>3, <1>4, <1>5
<1>. QED BY <1>6 DEF u

LEMMA LeastOf ==
  ASSUME NEW T, T \subseteq Nat, T # {}
  PROVE  \E n \in T : \A m \in T : n <= m
<1>1. IsWellFoundedOn(OpToRel(<, Nat), Nat)  BY NatLessThanWellFounded, Zenon
<1>2. PICK n \in T : \A m \in T : ~(<<m, n>> \in OpToRel(<, Nat))  BY <1>1, WFMin, Zenon
<1>3. \A m \in T : ~(m < n)  BY <1>2 DEF OpToRel
<1>. QED BY <1>3

(* The numbers of a finite set in their order.                             *)
LEMMA Places ==
  ASSUME NEW L \in Nat, NEW s \in SUBSET (1 .. L)
  PROVE  /\ Cardinality(s) \in Nat
         /\ \A n \in 1 .. Cardinality(s) : Place(s, n) \in s
         /\ \A m, n \in 1 .. Cardinality(s) : m < n => Place(s, m) < Place(s, n)
         /\ \A k \in s : \E n \in 1 .. Cardinality(s) : Place(s, n) = k
<1>. DEFINE S(k) == {j \in s : j <= k}
            c(k) == Cardinality(S(k))
<1>1. IsFiniteSet(s) /\ Cardinality(s) \in Nat
  <2>1. IsFiniteSet(1 .. L)  BY FS_Interval
  <2>2. IsFiniteSet(s)  BY <2>1, FS_Subset
  <2>. QED BY <2>2, FS_CardinalityType
<1>0. \A j \in s : j \in Int /\ 1 <= j /\ j <= L  OBVIOUS
<1>2. \A k \in 0 .. L : IsFiniteSet(S(k)) /\ c(k) \in Nat /\ c(k) <= Cardinality(s)
  <2>1. \A k \in 0 .. L : S(k) \in SUBSET s  OBVIOUS
  <2>. QED BY <1>1, <2>1, FS_Subset, FS_CardinalityType
<1>3. ASSUME NEW j \in 0 .. L, NEW k \in s, j < k  PROVE c(j) < c(k)
  <2>0. k \in Int /\ j \in Int /\ k <= k /\ ~(k <= j) /\ k \in 0 .. L /\ \A m \in s : m <= j => m <= k
    BY <1>0, <1>3
  <2>1. S(j) \in SUBSET S(k) /\ k \in S(k) /\ k \notin S(j) /\ k \in 0 .. L  BY <2>0, Zenon
  <2>2. c(j) <= c(k) /\ (c(j) = c(k) => S(j) = S(k))  BY <1>2, <2>1, FS_Subset
  <2>. QED BY <1>2, <2>1, <2>2
<1>4. c(0) = 0 /\ S(L) = s
  <2>0. \A j \in s : ~(j <= 0) /\ j <= L  BY <1>0
  <2>1. S(0) = {} /\ S(L) = s  BY <2>0, Zenon
  <2>. QED BY <2>1, FS_EmptySet
<1>5. ASSUME NEW k \in 1 .. L  PROVE IF k \in s THEN c(k) = c(k - 1) + 1 ELSE c(k) = c(k - 1)
  <2>1. k - 1 \in 0 .. L /\ \A j \in s : j <= k <=> (j <= k - 1 \/ j = k)  OBVIOUS
  <2>2. CASE k \in s
    <3>0. ~(k <= k - 1)  OBVIOUS
    <3>1. S(k) = S(k - 1) \cup {k} /\ k \notin S(k - 1)  BY <2>1, <2>2, <3>0, Zenon
    <3>. QED BY <1>2, <2>1, <2>2, <3>1, FS_AddElement
  <2>3. CASE k \notin s
    <3>1. S(k) = S(k - 1)  BY <2>1, <2>3
    <3>. QED BY <2>3, <3>1
  <2>. QED BY <2>2, <2>3
<1>6. ASSUME NEW n \in 1 .. Cardinality(s)  PROVE \E k \in s : c(k) = n
  <2>. DEFINE T == {k \in 0 .. L : n <= c(k)}
  <2>1. T \subseteq Nat /\ L \in T  BY <1>4
  <2>. HIDE DEF T
  <2>2. PICK k \in T : \A m \in T : k <= m  BY <2>1, LeastOf
  <2>3. k \in 0 .. L /\ n <= c(k) /\ c(k) \in Nat  BY <1>2 DEF T
  <2>4. k \in 1 .. L  BY <1>4, <2>3
  <2>5. k - 1 \in 0 .. L /\ k - 1 \notin T
    <3>1. k - 1 \in 0 .. L /\ ~(k <= k - 1)  BY <2>4
    <3>. QED BY <2>2, <3>1
  <2>6. c(k - 1) < n /\ c(k - 1) \in Nat
    <3>1. ~(n <= c(k - 1))  BY <2>5, Zenon DEF T
    <3>2. c(k - 1) \in Nat  BY <1>2, <2>5, Zenon
    <3>4. n \in Nat  BY <1>1
    <3>. HIDE DEF c
    <3>. QED BY <3>1, <3>2, <3>4
  <2>7. k \in s  BY <1>5, <2>3, <2>4, <2>6
  <2>8. c(k) = c(k - 1) + 1  BY <1>5, <2>4, <2>7
  <2>9. c(k) = n
    <3>. HIDE DEF c
    <3>1. n \in Nat  BY <1>1
    <3>. QED BY <2>3, <2>6, <2>8, <3>1
  <2>. QED BY <2>7, <2>9
<1>7. \A n \in 1 .. Cardinality(s) : Place(s, n) \in s /\ c(Place(s, n)) = n  BY <1>6 DEF Place
<1>8. \A k \in s : k \in 0 .. L /\ c(k) \in 1 .. Cardinality(s)
  <2>1. ASSUME NEW k \in s  PROVE k \in 0 .. L /\ 0 \in 0 .. L /\ 0 < k  OBVIOUS
  <2>. QED BY <1>2, <1>3, <1>4, <2>1
<1>9. \A j, k \in s : c(j) = c(k) => j = k
  <2>1. \A j, k \in s : j < k \/ k < j \/ j = k  OBVIOUS
  <2>. QED BY <1>2, <1>3, <1>8, <2>1
<1>10. \A k \in s : Place(s, c(k)) = k  BY <1>7, <1>8, <1>9
<1>11. ASSUME NEW m \in 1 .. Cardinality(s), NEW n \in 1 .. Cardinality(s), m < n
       PROVE  Place(s, m) < Place(s, n)
  <2>. DEFINE j == Place(s, m)
              k == Place(s, n)
  <2>1. j \in s /\ k \in s /\ c(j) = m /\ c(k) = n  BY <1>7
  <2>. HIDE DEF j, k
  <2>2. k < j => c(k) < c(j)  BY <1>3, <1>8, <2>1
  <2>3. j < k \/ k < j \/ j = k  BY <2>1
  <2>4. j < k  BY <1>11, <2>1, <2>2, <2>3
  <2>. QED BY <2>4 DEF j, k
<1>. QED BY <1>1, <1>7, <1>8, <1>10, <1>11

LEMMA LeaveIs ==
  ASSUME NEW w, IsWire(w), NEW lists
  PROVE  LET u == Leave(w, lists) IN
         /\ IsWire(u)
         /\ \E g \in [DOMAIN u -> DOMAIN w] :
              /\ \A m, n \in DOMAIN u : m < n => g[m] < g[n]
              /\ \A n \in DOMAIN u : u[n] = Left(w[g[n]], lists) /\ Stays(u[n])
              /\ \A k \in DOMAIN w : Stays(Left(w[k], lists)) => \E n \in DOMAIN u : g[n] = k
<1>. DEFINE u == Leave(w, lists)
            s == {k \in DOMAIN w : Stays(Left(w[k], lists))}
            g == [n \in 1 .. Cardinality(s) |-> Place(s, n)]
<1>1. u = [n \in 1 .. Cardinality(s) |-> Left(w[Place(s, n)], lists)]  BY DEF Leave
<1>2. Len(w) \in Nat /\ DOMAIN w = 1 .. Len(w) /\ \A k \in DOMAIN w : IsCall(w[k])  BY WireIs
<1>3. /\ Cardinality(s) \in Nat /\ \A n \in 1 .. Cardinality(s) : Place(s, n) \in s
      /\ \A m, n \in 1 .. Cardinality(s) : m < n => Place(s, m) < Place(s, n)
      /\ \A k \in s : \E n \in 1 .. Cardinality(s) : Place(s, n) = k
  <2>1. s \in SUBSET (1 .. Len(w))  BY <1>2
  <2>. HIDE DEF s
  <2>. QED BY <1>2, <2>1, Places
<1>4. \A k \in s : k \in DOMAIN w /\ Stays(Left(w[k], lists))  OBVIOUS
<1>5. \A k \in DOMAIN w : Stays(Left(w[k], lists)) => k \in s  OBVIOUS
<1>. HIDE DEF s, u
<1>6. /\ DOMAIN u = 1 .. Cardinality(s) /\ u = [n \in 1 .. Cardinality(s) |-> u[n]]
      /\ \A n \in 1 .. Cardinality(s) : u[n] = Left(w[Place(s, n)], lists)
  BY <1>1
<1>7. \A n \in 1 .. Cardinality(s) : IsCall(u[n])  BY <1>2, <1>3, <1>4, <1>6, Left1
<1>8. IsWire(u)  BY <1>3, <1>6, <1>7, IsWireIf
<1>9. g \in [DOMAIN u -> DOMAIN w] /\ \A n \in DOMAIN u : g[n] = Place(s, n)  BY <1>3, <1>4, <1>6
<1>. HIDE DEF g
<1>10. /\ \A m, n \in DOMAIN u : m < n => g[m] < g[n]
       /\ \A n \in DOMAIN u : u[n] = Left(w[g[n]], lists) /\ Stays(u[n])
       /\ \A k \in DOMAIN w : Stays(Left(w[k], lists)) => \E n \in DOMAIN u : g[n] = k
  BY <1>3, <1>4, <1>5, <1>6, <1>9
<1>11. \E f \in [DOMAIN u -> DOMAIN w] :
         /\ \A m, n \in DOMAIN u : m < n => f[m] < f[n]
         /\ \A n \in DOMAIN u : u[n] = Left(w[f[n]], lists) /\ Stays(u[n])
         /\ \A k \in DOMAIN w : Stays(Left(w[k], lists)) => \E n \in DOMAIN u : f[n] = k
  BY <1>9, <1>10
<1>. QED BY <1>8, <1>11 DEF u

(* A set read as a sequence.                                               *)
LEMMA SetToSeqIs ==
  ASSUME NEW S, IsFiniteSet(S)
  PROVE  LET q == SetToSeq(S) IN
         /\ q \in [1 .. Cardinality(S) -> S] /\ Cardinality(S) \in Nat
         /\ \A x \in S : \E k \in 1 .. Cardinality(S) : q[k] = x
<1>. DEFINE n == Cardinality(S)
            q == SetToSeq(S)
<1>1. n \in Nat /\ ExistsBijection(1 .. n, S)  BY FS_CardinalityType
<1>2. PICK f \in Bijection(1 .. n, S) : TRUE  BY <1>1 DEF ExistsBijection
<1>3. f \in [1 .. n -> S] /\ IsInjective(f)  BY <1>2 DEF Bijection, Injection, IsInjective
<1>4. q \in [1 .. n -> S] /\ IsInjective(q)  BY <1>3 DEF SetToSeq
<1>5. q \in Injection(1 .. n, S)  BY <1>4 DEF Injection, IsInjective
<1>6. IsFiniteSet(1 .. n) /\ Cardinality(1 .. n) = n  BY <1>1, FS_Interval
<1>. HIDE DEF q
<1>7. q \in Surjection(1 .. n, S)  BY <1>5, <1>6, FS_Injection
<1>8. \A x \in S : \E k \in 1 .. n : q[k] = x  BY <1>7 DEF Surjection
<1>. QED BY <1>1, <1>4, <1>8 DEF q

(* The same for the other ways the calls change.                           *)
LEMMA SentCalls ==
  ASSUME NEW w, NEW calls, NEW u, IsWire(w), IsWire(calls), u = w \o calls
  PROVE  /\ IsWire(u)
         /\ \A k \in DOMAIN u : (\E j \in DOMAIN w : u[k] = w[j]) \/ (\E j \in DOMAIN calls : u[k] = calls[j])
         /\ \A j \in DOMAIN w : \E k \in DOMAIN u : u[k] = w[j]
         /\ \A j \in DOMAIN calls : \E k \in DOMAIN u : u[k] = calls[j]
<1>. DEFINE n == Len(w)
            m == Len(calls)
<1>1. /\ IsWire(u) /\ Len(u) = n + m /\ \A k \in 1 .. n : u[k] = w[k]
      /\ \A k \in 1 .. m : u[n + k] = calls[k]
  <2>1. /\ IsWire(w \o calls) /\ Len(w \o calls) = Len(w) + Len(calls)
        /\ \A k \in 1 .. Len(w) : (w \o calls)[k] = w[k]
        /\ \A k \in 1 .. Len(calls) : (w \o calls)[Len(w) + k] = calls[k]
    BY Join
  <2>. QED BY <2>1, Zenon
<1>2. /\ n \in Nat /\ m \in Nat /\ DOMAIN w = 1 .. n /\ DOMAIN calls = 1 .. m /\ DOMAIN u = 1 .. n + m
  BY <1>1, WireIs
<1>. HIDE DEF n, m
<1>3. ASSUME NEW k \in DOMAIN u
      PROVE  (\E j \in DOMAIN w : u[k] = w[j]) \/ (\E j \in DOMAIN calls : u[k] = calls[j])
  <2>1. k \in 1 .. n \/ (k - n \in 1 .. m /\ n + (k - n) = k)  BY <1>2
  <2>. QED BY <1>1, <1>2, <2>1
<1>4. ASSUME NEW j \in DOMAIN w  PROVE \E k \in DOMAIN u : u[k] = w[j]
  <2>1. j \in 1 .. n + m  BY <1>2
  <2>. QED BY <1>1, <1>2, <2>1
<1>5. ASSUME NEW j \in DOMAIN calls  PROVE \E k \in DOMAIN u : u[k] = calls[j]
  <2>1. n + j \in 1 .. n + m  BY <1>2
  <2>. QED BY <1>1, <1>2, <2>1
<1>. QED BY <1>1, <1>3, <1>4, <1>5

LEMMA LeftCalls ==
  ASSUME NEW w, IsWire(w), NEW lists
  PROVE  LET u == Leave(w, lists) IN
         /\ IsWire(u)
         /\ \A k \in DOMAIN u :
              /\ u[k].heard \/ (u[k].op # "read" /\ u[k].answer = NotYet)
              /\ \E j \in DOMAIN w : Same(u[k], w[j]) /\ u[k].heard = (w[j].heard /\ w[j].at[1] \notin lists)
         /\ \A j \in DOMAIN w :
              (w[j].heard /\ w[j].at[1] \notin lists) \/ (w[j].op # "read" /\ w[j].answer = NotYet)
                => \E k \in DOMAIN u : Same(u[k], w[j]) /\ u[k].heard = (w[j].heard /\ w[j].at[1] \notin lists)
<1>. DEFINE u == Leave(w, lists)
<1>1. IsWire(u)  BY LeaveIs
<1>2. PICK g \in [DOMAIN u -> DOMAIN w] :
        /\ \A n \in DOMAIN u : u[n] = Left(w[g[n]], lists) /\ Stays(u[n])
        /\ \A k \in DOMAIN w : Stays(Left(w[k], lists)) => \E n \in DOMAIN u : g[n] = k
  BY LeaveIs
<1>. HIDE DEF u
<1>3. \A j \in DOMAIN w : LET d == Left(w[j], lists) IN
        /\ Same(d, w[j]) /\ d.heard = (w[j].heard /\ w[j].at[1] \notin lists)
  BY WireIs, Left1
<1>4. ASSUME NEW k \in DOMAIN u
      PROVE  /\ u[k].heard \/ (u[k].op # "read" /\ u[k].answer = NotYet)
             /\ \E j \in DOMAIN w : Same(u[k], w[j]) /\ u[k].heard = (w[j].heard /\ w[j].at[1] \notin lists)
  <2>1. g[k] \in DOMAIN w /\ u[k] = Left(w[g[k]], lists) /\ Stays(u[k])  BY <1>2
  <2>. QED BY <1>3, <2>1 DEF Stays
<1>5. ASSUME NEW j \in DOMAIN w,
             (w[j].heard /\ w[j].at[1] \notin lists) \/ (w[j].op # "read" /\ w[j].answer = NotYet)
      PROVE  \E k \in DOMAIN u : Same(u[k], w[j]) /\ u[k].heard = (w[j].heard /\ w[j].at[1] \notin lists)
  <2>1. Stays(Left(w[j], lists))  BY <1>3, <1>5 DEF Stays, Same
  <2>2. PICK n \in DOMAIN u : g[n] = j  BY <1>2, <2>1
  <2>3. u[n] = Left(w[j], lists)  BY <1>2, <2>2
  <2>. QED BY <1>3, <2>3
<1>6. /\ IsWire(u)
      /\ \A k \in DOMAIN u :
           /\ u[k].heard \/ (u[k].op # "read" /\ u[k].answer = NotYet)
           /\ \E j \in DOMAIN w : Same(u[k], w[j]) /\ u[k].heard = (w[j].heard /\ w[j].at[1] \notin lists)
      /\ \A j \in DOMAIN w :
           (w[j].heard /\ w[j].at[1] \notin lists) \/ (w[j].op # "read" /\ w[j].answer = NotYet)
             => \E k \in DOMAIN u : Same(u[k], w[j]) /\ u[k].heard = (w[j].heard /\ w[j].at[1] \notin lists)
  BY <1>1, <1>4, <1>5
<1>. QED BY <1>6 DEF u

(* An answer that is heard takes its place, another goes with its call.    *)
LEMMA ReplyIs ==
  ASSUME IsWire(wire), NEW i \in DOMAIN wire, NEW a, Reply(i, a)
  PROVE  /\ IsWire(wire')
         /\ wire[i].heard =>
              /\ DOMAIN wire' = DOMAIN wire
              /\ \A k \in DOMAIN wire : k # i => wire'[k] = wire[k]
              /\ /\ wire'[i].op = wire[i].op /\ wire'[i].at = wire[i].at /\ wire'[i].answer = a
                 /\ wire'[i].heard /\ wire'[i].form = wire[i].form /\ wire'[i].late = wire[i].late
         /\ ~wire[i].heard =>
              /\ Len(wire') = Len(wire) - 1 /\ Len(wire) - 1 \in Nat
              /\ \A k \in 1 .. Len(wire) - 1 :
                   Skip(i, k) \in DOMAIN wire /\ Skip(i, k) # i /\ wire'[k] = wire[Skip(i, k)]
<1>1. IsCall(wire[i]) /\ wire[i].heard \in BOOLEAN  BY WireIs DEF IsCall
<1>2. CASE wire[i].heard
  <2>1. wire' = [wire EXCEPT ![i].answer = a]  BY <1>2 DEF Reply
  <2>2. /\ wire' = [k \in DOMAIN wire |-> wire'[k]] /\ DOMAIN wire' = DOMAIN wire
        /\ \A k \in DOMAIN wire : k # i => wire'[k] = wire[k]
        /\ wire'[i] = [wire[i] EXCEPT !.answer = a]
    <3>1. wire = [k \in DOMAIN wire |-> wire[k]]  BY WireIs, LenProperties DEF IsWire
    <3>. QED BY <2>1, <3>1
  <2>3. /\ IsCall(wire'[i]) /\ wire'[i].op = wire[i].op /\ wire'[i].at = wire[i].at /\ wire'[i].answer = a
        /\ wire'[i].heard = wire[i].heard /\ wire'[i].form = wire[i].form /\ wire'[i].late = wire[i].late
    BY <1>1, <2>2, Answered1
  <2>4. \A k \in DOMAIN wire : IsCall(wire'[k])  BY <2>2, <2>3, WireIs
  <2>5. IsWire(wire')  BY <2>2, <2>4, Changed
  <2>. QED BY <1>2, <2>2, <2>3, <2>5
<1>3. CASE ~wire[i].heard
  <2>1. wire' = RemoveAt(wire, i)  BY <1>3 DEF Reply
  <2>2. LET u == RemoveAt(wire, i) IN
        /\ IsWire(u) /\ Len(u) = Len(wire) - 1 /\ Len(wire) - 1 \in Nat
        /\ \A k \in 1 .. Len(wire) - 1 : Skip(i, k) \in DOMAIN wire /\ Skip(i, k) # i /\ u[k] = wire[Skip(i, k)]
    BY Removed
  <2>. QED BY <1>3, <2>1, <2>2
<1>. QED BY <1>1, <1>2, <1>3

LEMMA RepliedCalls ==
  ASSUME IsWire(wire), NEW i \in DOMAIN wire, NEW a, Reply(i, a)
  PROVE  /\ IsWire(wire')
         /\ \A k \in DOMAIN wire' :
              \/ \E j \in DOMAIN wire \ {i} : wire'[k] = wire[j]
              \/ /\ wire[i].heard /\ wire'[k].op = wire[i].op /\ wire'[k].at = wire[i].at
                 /\ wire'[k].answer = a /\ wire'[k].heard
         /\ \A j \in DOMAIN wire \ {i} : \E k \in DOMAIN wire' : wire'[k] = wire[j]
         /\ wire[i].heard => \E k \in DOMAIN wire' : /\ wire'[k].op = wire[i].op /\ wire'[k].at = wire[i].at
                                                     /\ wire'[k].answer = a /\ wire'[k].heard
<1>1. wire[i].heard \in BOOLEAN  BY WireIs DEF IsCall
<1>2. CASE wire[i].heard  BY <1>2, ReplyIs
<1>3. CASE ~wire[i].heard
  <2>1. /\ IsWire(wire') /\ Len(wire') = Len(wire) - 1 /\ Len(wire) - 1 \in Nat
        /\ \A k \in 1 .. Len(wire) - 1 :
             Skip(i, k) \in DOMAIN wire /\ Skip(i, k) # i /\ wire'[k] = wire[Skip(i, k)]
    BY <1>3, ReplyIs
  <2>2. DOMAIN wire' = 1 .. Len(wire) - 1 /\ Len(wire) \in Nat /\ DOMAIN wire = 1 .. Len(wire)
    BY <2>1, WireIs
  <2>3. ASSUME NEW j \in DOMAIN wire \ {i}  PROVE \E k \in DOMAIN wire' : wire'[k] = wire[j]
    <3>1. CASE j < i
      <4>1. j \in 1 .. Len(wire) - 1 /\ Skip(i, j) = j  BY <2>2, <3>1 DEF Skip
      <4>. QED BY <2>1, <2>2, <4>1
    <3>2. CASE ~(j < i)
      <4>1. j - 1 \in 1 .. Len(wire) - 1 /\ Skip(i, j - 1) = j  BY <2>2, <3>2 DEF Skip
      <4>. QED BY <2>1, <2>2, <4>1
    <3>. QED BY <3>1, <3>2
  <2>4. \A k \in DOMAIN wire' : \E j \in DOMAIN wire \ {i} : wire'[k] = wire[j]  BY <2>1, <2>2
  <2>. QED BY <1>3, <2>1, <2>3, <2>4
<1>. QED BY <1>1, <1>2, <1>3

-----------------------------------------------------------------------------
(* Every call that is answered is one that is heard.                       *)
Sound(w) == IsWire(w) /\ \A k \in DOMAIN w : w[k].answer # NotYet => w[k].heard

LEMMA SoundCall ==
  ASSUME NEW o, NEW a
  PROVE  Sound(<<>>) /\ Sound(<<Call(o, a)>>)
<1>1. Sound(<<>>)
  <2>1. DOMAIN <<>> = {}  BY NoCalls, WireIs
  <2>. QED BY <2>1, NoCalls DEF Sound
<1>. DEFINE c == Call(o, a)
<1>2. IsCall(c) /\ c.answer = NotYet  BY CallIs
<1>. HIDE DEF c
<1>3. IsWire(<<c>>) /\ Len(<<c>>) = 1 /\ <<c>>[1] = c /\ DOMAIN <<c>> = 1 .. 1  BY <1>2, OneCall, WireIs
<1>4. Sound(<<c>>)  BY <1>2, <1>3 DEF Sound
<1>. QED BY <1>1, <1>4 DEF c

LEMMA SoundJoin ==
  ASSUME NEW w, NEW calls, NEW u, Sound(w), Sound(calls), u = w \o calls
  PROVE  Sound(u)
<1>1. IsWire(w) /\ IsWire(calls)  BY DEF Sound
<1>2. IsWire(u)  BY <1>1, SentCalls
<1>3. \A k \in DOMAIN u : (\E j \in DOMAIN w : u[k] = w[j]) \/ (\E j \in DOMAIN calls : u[k] = calls[j])
  BY <1>1, SentCalls
<1>. QED BY <1>2, <1>3 DEF Sound

LEMMA SoundAfter ==
  ASSUME Sound(wire), NEW i \in DOMAIN wire, NEW calls, Sound(calls)
  PROVE  Sound(After(i, calls))
<1>. DEFINE u == After(i, calls)
<1>1. /\ IsWire(u)
      /\ \A k \in DOMAIN u :
           \/ \E j \in DOMAIN wire \ {i} : Same(u[k], wire[j]) /\ u[k].heard = wire[j].heard
           \/ \E j \in DOMAIN calls : u[k] = calls[j]
  BY AfterCalls DEF Sound
<1>. HIDE DEF u
<1>2. Sound(u)  BY <1>1 DEF Sound, Same
<1>. QED BY <1>2 DEF u

LEMMA SoundLeave ==
  ASSUME NEW w, IsWire(w), NEW lists
  PROVE  Sound(Leave(w, lists))
<1>. DEFINE u == Leave(w, lists)
<1>1. IsWire(u) /\ \A k \in DOMAIN u : u[k].heard \/ (u[k].op # "read" /\ u[k].answer = NotYet)
  BY LeftCalls
<1>. HIDE DEF u
<1>2. Sound(u)  BY <1>1 DEF Sound
<1>. QED BY <1>2 DEF u

LEMMA SoundOrphan ==
  ASSUME NEW w, Sound(w), NEW o, NEW list
  PROVE  Sound(Orphan(w, o, list))
<1>. DEFINE u == Orphan(w, o, list)
<1>1. /\ IsWire(u) /\ DOMAIN u = DOMAIN w
      /\ \A k \in DOMAIN w : Same(u[k], w[k]) /\ u[k].heard = w[k].heard
  BY OrphanIs DEF Sound
<1>. HIDE DEF u
<1>2. Sound(u)  BY <1>1 DEF Sound, Same
<1>. QED BY <1>2 DEF u

LEMMA SoundReply ==
  ASSUME Sound(wire), NEW i \in DOMAIN wire, NEW a, Reply(i, a)
  PROVE  Sound(wire')
<1>1. /\ IsWire(wire')
      /\ \A k \in DOMAIN wire' : \/ \E j \in DOMAIN wire \ {i} : wire'[k] = wire[j]
                                 \/ wire'[k].heard
  BY RepliedCalls DEF Sound
<1>. QED BY <1>1 DEF Sound

(* Calls asked one by one.                                                 *)
LEMMA AskedAll ==
  ASSUME NEW S, IsFiniteSet(S), \A c \in S : \E o, a : c = Call(o, a)
  PROVE  LET q == SetToSeq(S) IN
         /\ Sound(q) /\ \A k \in DOMAIN q : q[k] \in S
         /\ \A c \in S : \E k \in DOMAIN q : q[k] = c
<1>. DEFINE q == SetToSeq(S)
            n == Cardinality(S)
<1>1. /\ q \in [1 .. n -> S] /\ n \in Nat
      /\ \A x \in S : \E k \in 1 .. n : q[k] = x
  BY SetToSeqIs
<1>. HIDE DEF q, n
<1>2. DOMAIN q = 1 .. n /\ q = [k \in 1 .. n |-> q[k]] /\ \A k \in 1 .. n : q[k] \in S  BY <1>1
<1>3. \A c \in S : IsCall(c) /\ c.answer = NotYet  BY CallIs
<1>4. IsWire(q)  BY <1>1, <1>2, <1>3, IsWireIf
<1>5. Sound(q) /\ (\A k \in DOMAIN q : q[k] \in S) /\ \A c \in S : \E k \in DOMAIN q : q[k] = c
  BY <1>1, <1>2, <1>3, <1>4 DEF Sound
<1>. QED BY <1>5 DEF q

(***************************************************************************)
(* The calls of every page stay sound.                                     *)
(***************************************************************************)

LEMMA ImageFinite ==
  ASSUME NEW T, IsFiniteSet(T), NEW f, f = [x \in T |-> f[x]]
  PROVE  IsFiniteSet({f[x] : x \in T})
<1>. DEFINE R == {f[x] : x \in T}
<1>1. f \in Surjection(T, R)  BY DEF Surjection
<1>. HIDE DEF R
<1>2. IsFiniteSet(R)  BY <1>1, FS_Surjection
<1>. QED BY <1>2 DEF R

(* The reads of some of the lists.                                         *)
LEMMA ReadAllIs ==
  ASSUME NEW ls, IsFiniteSet(ls)
  PROVE  /\ Sound(ReadAll(ls))
         /\ \A k \in DOMAIN ReadAll(ls) : \E l \in ls \cap focus : ReadAll(ls)[k] = ReadList(l)
         /\ \A l \in ls \cap focus : \E k \in DOMAIN ReadAll(ls) : ReadAll(ls)[k] = ReadList(l)
<1>. DEFINE T == ls \cap focus
            S == {ReadList(l) : l \in T}
<1>1. IsFiniteSet(T)
  <2>1. T \subseteq ls  OBVIOUS
  <2>. HIDE DEF T
  <2>. QED BY <2>1, FS_Subset
<1>2. IsFiniteSet(S)
  <2>. DEFINE f == [l \in T |-> ReadList(l)]
  <2>1. S = {f[l] : l \in T} /\ f = [l \in T |-> f[l]]  OBVIOUS
  <2>. HIDE DEF T, S, f
  <2>. QED BY <1>1, <2>1, ImageFinite
<1>3. ReadAll(ls) = SetToSeq(S)  BY DEF ReadAll
<1>4. \A c \in S : \E o, a : c = Call(o, a)  BY DEF ReadList
<1>5. \A c \in S : \E l \in T : c = ReadList(l)  OBVIOUS
<1>6. \A l \in T : ReadList(l) \in S  OBVIOUS
<1>. HIDE DEF T, S
<1>7. LET q == SetToSeq(S) IN
      /\ Sound(q) /\ \A k \in DOMAIN q : q[k] \in S
      /\ \A c \in S : \E k \in DOMAIN q : q[k] = c
  BY <1>2, <1>4, AskedAll
<1>8. /\ Sound(ReadAll(ls))
      /\ \A k \in DOMAIN ReadAll(ls) : \E l \in T : ReadAll(ls)[k] = ReadList(l)
      /\ \A l \in T : \E k \in DOMAIN ReadAll(ls) : ReadAll(ls)[k] = ReadList(l)
  BY <1>3, <1>5, <1>6, <1>7
<1>. QED BY <1>8 DEF T

LEMMA FewLists ==
  /\ IsFiniteSet({"projects"}) /\ IsFiniteSet(Detail \ {"indexes"})
  /\ \A s : IsFiniteSet({"indexes"} \cap s)
<1>1. \A e : IsFiniteSet({e})  BY FS_Singleton
<1>2. IsFiniteSet(Lists)
  <2>1. Lists = ((((({"projects"} \cup {"keys"}) \cup {"collections"}) \cup {"databases"}) \cup {"indexes"}) \cup {"s3"})
    BY DEF Lists
  <2>. QED BY <1>1, <2>1, FS_Union
<1>3. IsFiniteSet(Detail \ {"indexes"})
  <2>1. Detail \ {"indexes"} \subseteq Lists  BY DEF Detail
  <2>. QED BY <1>2, <2>1, FS_Subset
<1>4. ASSUME NEW s  PROVE IsFiniteSet({"indexes"} \cap s)
  <2>1. {"indexes"} \cap s \subseteq {"indexes"}  OBVIOUS
  <2>. QED BY <1>1, <2>1, FS_Subset
<1>. QED BY <1>1, <1>3, <1>4

LEMMA SoundAnswered ==
  ASSUME Sound(wire), NEW i \in DOMAIN wire, \E a : Reply(i, a)
  PROVE  Sound(wire')
BY SoundReply

LEMMA SoundFailed ==
  ASSUME Sound(wire), NEW i, Fail(i)
  PROVE  Sound(wire')
BY SoundReply DEF Fail

LEMMA SoundSent ==
  ASSUME Sound(wire), NEW calls, Sound(calls), Send(calls)
  PROVE  Sound(wire')
BY SoundJoin DEF Send

LEMMA SoundSentOne ==
  ASSUME Sound(wire), NEW o, NEW a, Send(<<Call(o, a)>>)
  PROVE  Sound(wire')
BY SoundSent, SoundCall

LEMMA SoundOver ==
  ASSUME Sound(wire), NEW i \in DOMAIN wire, NEW o, NEW a
  PROVE  Sound(After(i, <<>>)) /\ Sound(After(i, <<Call(o, a)>>))
BY SoundAfter, SoundCall

LEMMA ProjectsSound ==
  ASSUME Sound(wire), ProjectsNext
  PROVE  Sound(wire')
<1>. USE DEF ReadList
<1>1. ASSUME NEW i \in DOMAIN wire, ProjectsServe(i)  PROVE Sound(wire')
  <2>1. ServeRead(i) => \E a : Reply(i, a)  BY DEF ServeRead
  <2>2. ServeAdd(i) => \E a : Reply(i, a)  BY DEF ServeAdd, Refuse
  <2>3. ServeDrop(i) => \E a : Reply(i, a)  BY DEF ServeDrop, Refuse
  <2>4. ServeSet(i) => \E a : Reply(i, a)  BY DEF ServeSet, Refuse
  <2>. QED BY <1>1, <2>1, <2>2, <2>3, <2>4, SoundAnswered DEF ProjectsServe
<1>2. ASSUME NEW i \in DOMAIN wire, CallFails(i)  PROVE Sound(wire')
  BY <1>2, SoundFailed DEF CallFails
<1>3. ASSUME NEW i \in DOMAIN wire, ProjectsGoOn(i)  PROVE Sound(wire')
  <2>0. /\ Sound(After(i, <<>>))
        /\ \A o, a : Sound(After(i, <<Call(o, a)>>))
    BY SoundOver
  <2>1. CASE Listed(i)  BY <2>0, <2>1 DEF Listed
  <2>2. CASE DatabasesListed(i)
    <3>. DEFINE idx == {"indexes"} \cap focus
                w == After(i, <<>>)
    <3>1. Sound(Leave(w, {"indexes"}))  BY <2>0, SoundLeave DEF Sound
    <3>2. Sound(After(i, ReadAll(idx)))  BY FewLists, ReadAllIs, SoundAfter
    <3>3. \/ wire' = Leave(w, {"indexes"}) \/ wire' = After(i, ReadAll(idx)) \/ wire' = w
      BY <2>2 DEF DatabasesListed
    <3>. QED BY <2>0, <3>1, <3>2, <3>3
  <2>3. CASE ListFails(i)  BY <2>0, <2>3 DEF ListFails
  <2>4. CASE RowCreated(i)
    <3>. DEFINE w == After(i, <<>>)
    <3>1. Sound(w)  BY <2>0
    <3>2. PICK l : wire' = w \o <<Call("read", <<l>>)>>  BY <2>4 DEF RowCreated
    <3>. HIDE DEF w
    <3>3. Sound(<<Call("read", <<l>>)>>)  BY SoundCall
    <3>. QED BY <3>1, <3>2, <3>3, SoundJoin
  <2>5. CASE KeyCreated(i)  BY <2>0, <2>5 DEF KeyCreated
  <2>6. CASE IndexCreated(i)  BY <2>0, <2>6 DEF IndexCreated
  <2>7. CASE Provisioned(i)  BY <2>0, <2>7 DEF Provisioned
  <2>8. ASSUME NEW l, NEW o, NEW a, Gone(i, l, Call(o, a))  PROVE Sound(wire')
    BY <2>0, <2>8 DEF Gone
  <2>9. CASE \/ ProjectDeleted(i) \/ KeyRevoked(i) \/ CollectionDeleted(i) \/ Deprovisioned(i) \/ IndexDropped(i)
    BY <2>8, <2>9 DEF ProjectDeleted, KeyRevoked, CollectionDeleted, Deprovisioned, IndexDropped
  <2>10. CASE CollectionSet(i)  BY <2>0, <2>10 DEF CollectionSet
  <2>11. CASE ChangeFails(i)  BY <2>0, <2>11 DEF ChangeFails
  <2>. QED BY <1>3, <2>1, <2>2, <2>3, <2>4, <2>5, <2>6, <2>7, <2>9, <2>10, <2>11 DEF ProjectsGoOn
<1>4. CASE ProjectsClick
  <2>1. CASE OpenProject
    <3>1. Send(ReadAll(Detail \ {"indexes"}))  BY <2>1 DEF OpenProject
    <3>. QED BY <3>1, FewLists, ReadAllIs, SoundSent
  <2>2. CASE BackToList
    <3>1. wire' = Leave(wire, Detail) \o ReadAll({"projects"})  BY <2>2 DEF BackToList
    <3>2. Sound(Leave(wire, Detail)) /\ Sound(ReadAll({"projects"}))
      BY FewLists, ReadAllIs, SoundLeave DEF Sound
    <3>. QED BY <3>1, <3>2, SoundJoin
  <2>3. CASE RefreshS3Credentials  BY <2>3, SoundSentOne DEF RefreshS3Credentials
  <2>4. ASSUME NEW l \in Lists, RefreshList(l) \/ OpenForm(l) \/ CloseForm(l) \/ SubmitForm(l) \/ CancelPick(l)
        PROVE  Sound(wire')
    <3>1. CASE RefreshList(l)  BY <3>1, SoundSentOne DEF RefreshList
    <3>2. CASE OpenForm(l)  BY <3>2 DEF OpenForm
    <3>3. CASE CloseForm(l)  BY <3>3, SoundOrphan DEF CloseForm
    <3>4. CASE SubmitForm(l)  BY <3>4, SoundSentOne DEF SubmitForm
    <3>5. CASE CancelPick(l)  BY <3>5 DEF CancelPick
    <3>. QED BY <2>4, <3>1, <3>2, <3>3, <3>4, <3>5
  <2>5. ASSUME NEW x \in Item, Provision(x) \/ ToggleSync(x) \/ Resync(x)  PROVE Sound(wire')
    <3>1. CASE Provision(x)  BY <3>1, SoundSentOne DEF Provision
    <3>2. CASE ToggleSync(x)  BY <3>2, SoundSentOne DEF ToggleSync
    <3>3. CASE Resync(x)  BY <3>3, SoundSentOne DEF Resync
    <3>. QED BY <2>5, <3>1, <3>2, <3>3
  <2>6. ASSUME NEW x \in Item,
               PickProject(x) \/ PickKey(x) \/ PickCollection(x) \/ PickDatabase(x) \/ PickIndex(x)
        PROVE  Sound(wire')
    BY <2>6 DEF PickProject, PickKey, PickCollection, PickDatabase, PickIndex, Pick
  <2>7. ASSUME NEW l, Confirm(l)  PROVE Sound(wire')  BY <2>7, SoundSentOne DEF Confirm
  <2>8. CASE \/ ConfirmDeleteProject \/ ConfirmRevoke \/ ConfirmDeleteCollection \/ ConfirmDeprovision
             \/ ConfirmDropIndex
    BY <2>7, <2>8 DEF ConfirmDeleteProject, ConfirmRevoke, ConfirmDeleteCollection, ConfirmDeprovision,
       ConfirmDropIndex
  <2>. QED BY <1>4, <2>1, <2>2, <2>3, <2>4, <2>5, <2>6, <2>8 DEF ProjectsClick
<1>. QED BY <1>1, <1>2, <1>3, <1>4 DEF ProjectsNext

LEMMA DialogsSound ==
  ASSUME Sound(wire), DialogsNext
  PROVE  Sound(wire')
<1>1. ASSUME NEW S, NEW s, NEW c  PROVE Sound(Reads(s, c))
  <2>. DEFINE K == {j \in 1 .. 4 : Reread(j, s, c)}
              T == {ReadOptions(k, c) : k \in K}
  <2>1. IsFiniteSet(K)
    <3>1. IsFiniteSet(1 .. 4)
      <4>1. 1 \in Int /\ 4 \in Int  OBVIOUS
      <4>. QED BY <4>1, FS_Interval, Zenon
    <3>2. K \subseteq 1 .. 4  OBVIOUS
    <3>. HIDE DEF K
    <3>. QED BY <3>1, <3>2, FS_Subset
  <2>2. IsFiniteSet(T)
    <3>. DEFINE f == [k \in K |-> ReadOptions(k, c)]
    <3>1. T = {f[k] : k \in K} /\ f = [k \in K |-> f[k]]  OBVIOUS
    <3>. HIDE DEF K, T, f
    <3>. QED BY <2>1, <3>1, ImageFinite
  <2>3. \A d \in T : \E o, a : d = Call(o, a)  BY DEF ReadOptions
  <2>4. Reads(s, c) = SetToSeq(T)  BY DEF Reads
  <2>. HIDE DEF T
  <2>. QED BY <2>2, <2>3, <2>4, AskedAll
<1>2. ASSUME NEW i \in DOMAIN wire, DialogsStep(i)  PROVE Sound(wire')
  <2>1. ServeOptions(i) => \E a : Reply(i, a)  BY DEF ServeOptions
  <2>2. ServeDiscover(i) => \E a : Reply(i, a)  BY DEF ServeDiscover
  <2>3. ServeCreate(i) => \E a : Reply(i, a)  BY DEF ServeCreate
  <2>4. ServeToken(i) => \E a : Reply(i, a)  BY DEF ServeToken
  <2>5. CASE ServeOptions(i) \/ ServeDiscover(i) \/ ServeCreate(i) \/ ServeToken(i)
    BY <2>1, <2>2, <2>3, <2>4, <2>5, SoundAnswered
  <2>6. CASE OptionsCome(i)
    <3>1. PICK c : wire' = After(i, Reads(source, c))  BY <2>6 DEF OptionsCome
    <3>. QED BY <1>1, <3>1, SoundAfter
  <2>7. CASE Discovered(i)  BY <2>7, SoundOver DEF Discovered
  <2>8. CASE CollectionCreated(i)
    <3>. DEFINE v == After(i, <<>>)
                u == Leave(v, {"options", "fields"})
    <3>1. Sound(v)  BY SoundOver
    <3>2. Sound(u)  BY <3>1, SoundLeave DEF Sound
    <3>3. wire' = v \/ wire' = Orphan(u, "create", "collection")  BY <2>8 DEF CollectionCreated
    <3>. HIDE DEF u, v
    <3>. QED BY <3>1, <3>2, <3>3, SoundOrphan
  <2>9. CASE TokenComes(i)  BY <2>9, SoundOver DEF TokenComes
  <2>10. CASE DialogCallFails(i)  BY <2>10, SoundOver DEF DialogCallFails
  <2>. QED BY <1>2, <2>5, <2>6, <2>7, <2>8, <2>9, <2>10 DEF DialogsStep
<1>3. CASE DialogsClick
  <2>1. ASSUME NEW d, OpenDialog(d)  PROVE Sound(wire')  BY <2>1 DEF OpenDialog
  <2>2. CASE CloseDialog
    <3>. DEFINE u == Leave(wire, {"options", "fields", "token"})
    <3>1. Sound(u)  BY SoundLeave DEF Sound
    <3>2. wire' = Orphan(u, "create", "collection")  BY <2>2 DEF CloseDialog
    <3>. HIDE DEF u
    <3>. QED BY <3>1, <3>2, SoundOrphan
  <2>3. ASSUME NEW s, ChooseSource(s)  PROVE Sound(wire')
    BY <1>1, <2>3, SoundSent DEF ChooseSource
  <2>4. ASSUME NEW k, NEW x, Choose(k, x)  PROVE Sound(wire')
    <3>1. \E c : Send(Reads(source, c))  BY <2>4 DEF Choose
    <3>. QED BY <1>1, <3>1, SoundSent
  <2>5. CASE Discover  BY <2>5, SoundSentOne DEF Discover
  <2>6. CASE SubmitCollection  BY <2>6, SoundSentOne DEF SubmitCollection
  <2>7. CASE GenerateToken  BY <2>7, SoundSentOne DEF GenerateToken
  <2>8. CASE TickRules \/ AddRule \/ \E n \in DOMAIN rules : RemoveRule(n) \/ \E c \in Coll : UpdateRule(n, c)
    <3>1. wire' = wire  BY <2>8 DEF TickRules, AddRule, RemoveRule, UpdateRule
    <3>. QED BY <3>1
  <2>. QED BY <1>3, <2>1, <2>2, <2>3, <2>4, <2>5, <2>6, <2>7, <2>8 DEF DialogsClick
<1>4. ASSUME NEW i \in DOMAIN wire, Fail(i)  PROVE Sound(wire')  BY <1>4, SoundFailed
<1>. QED BY <1>2, <1>3, <1>4 DEF DialogsNext

LEMMA Closed1 ==
  ASSUME NEW c, IsCall(c), NEW b \in BOOLEAN
  PROVE  LET d == [c EXCEPT !.form = b] IN
         /\ IsCall(d) /\ Same(d, c) /\ d.heard = c.heard /\ d.form = b /\ d.late = c.late
BY DEF IsCall, Same

LEMMA PanelRead ==
  ASSUME NEW sel
  PROVE  Sound(ReadPanel(sel))
<1>1. \E o, a : ReadPanel(sel) = <<>> \/ ReadPanel(sel) = <<Call(o, a)>>  BY DEF ReadPanel
<1>. QED BY <1>1, SoundCall

LEMMA PanelsSound ==
  ASSUME Sound(wire), PanelsNext
  PROVE  Sound(wire')
<1>. USE DEF ReadDbs, ReadKids
<1>1. ASSUME NEW i \in DOMAIN wire, PanelsServe(i)  PROVE Sound(wire')
  <2>. USE DEF Serve, RefuseIt
  <2>1. ServeDbs(i) => \E a : Reply(i, a)  BY DEF ServeDbs
  <2>2. ServeKids(i) => \E a : Reply(i, a)  BY DEF ServeKids
  <2>3. ServePanel(i) => \E a : Reply(i, a)  BY DEF ServePanel
  <2>4. MongoCreates(i) => \E a : Reply(i, a)  BY DEF MongoCreates
  <2>5. MongoDrops(i) => \E a : Reply(i, a)  BY DEF MongoDrops
  <2>6. PgCreates(i) => \E a : Reply(i, a)  BY DEF PgCreates
  <2>7. PgDrops(i) => \E a : Reply(i, a)  BY DEF PgDrops
  <2>. QED BY <1>1, <2>1, <2>2, <2>3, <2>4, <2>5, <2>6, <2>7, SoundAnswered DEF PanelsServe
<1>2. ASSUME NEW i \in DOMAIN wire, PanelCallFails(i)  PROVE Sound(wire')
  BY <1>2, SoundFailed DEF PanelCallFails
<1>3. ASSUME NEW w, Sound(w), LoadDatabases(w)  PROVE Sound(wire')
  <2>. DEFINE v == [k \in DOMAIN w |-> [w[k] EXCEPT !.form = FALSE]]
              u == Leave(v, Inside)
              q == <<Call("read", <<"dbs">>)>>
  <2>1. IsWire(w) /\ \A k \in DOMAIN w : IsCall(w[k])  BY <1>3, WireIs DEF Sound
  <2>2. \A k \in DOMAIN w : IsCall(v[k])
    <3>1. ASSUME NEW k \in DOMAIN w  PROVE IsCall([w[k] EXCEPT !.form = FALSE])
      <4>1. IsCall(w[k])  BY <2>1
      <4>. QED BY <4>1, Closed1
    <3>. QED BY <3>1
  <2>3. v = [k \in DOMAIN w |-> v[k]]  OBVIOUS
  <2>4. wire' = u \o q  BY <1>3 DEF LoadDatabases, Unmounted
  <2>. HIDE DEF v
  <2>5. IsWire(v)  BY <2>1, <2>2, <2>3, Changed
  <2>6. Sound(u) /\ Sound(q)  BY <2>5, SoundLeave, SoundCall
  <2>. HIDE DEF u, q
  <2>. QED BY <2>4, <2>6, SoundJoin
<1>4. ASSUME NEW w, Sound(w), NEW lists, NEW sel, wire' = Leave(w, lists) \o ReadPanel(sel)  PROVE Sound(wire')
  <2>1. Sound(Leave(w, lists)) /\ Sound(ReadPanel(sel))  BY <1>4, PanelRead, SoundLeave DEF Sound
  <2>. QED BY <1>4, <2>1, SoundJoin
<1>5. ASSUME NEW sel, NEW w, Sound(w), Turn(sel, w)  PROVE Sound(wire')
  <2>1. wire' = w \/ \E lists : wire' = Leave(w, lists) \o ReadPanel(sel)  BY <1>5 DEF Turn
  <2>. QED BY <1>4, <1>5, <2>1
<1>6. ASSUME NEW i \in DOMAIN wire, PanelsGoOn(i)  PROVE Sound(wire')
  <2>0. /\ Sound(After(i, <<>>))
        /\ \A o, a : Sound(After(i, <<Call(o, a)>>))
    BY SoundOver
  <2>1. CASE DbsCome(i)
    <3>1. Sound(Remounted)  BY PanelRead, SoundCall DEF Remounted
    <3>2. wire' = After(i, Remounted)  BY <2>1 DEF DbsCome
    <3>. QED BY <3>1, <3>2, SoundAfter
  <2>2. CASE KidsCome(i)  BY <2>0, <2>2 DEF KidsCome
  <2>3. CASE PanelComes(i)  BY <2>0, <2>3 DEF PanelComes
  <2>4. CASE Found(i)  BY <2>0, <2>4 DEF Found
  <2>5. CASE IndexGone(i)
    <3>. DEFINE w == After(i, <<>>)
    <3>1. Sound(w)  BY <2>0
    <3>2. PICK sel : wire' = Leave(w, {"find"}) \o ReadPanel(sel)  BY <2>5 DEF IndexGone
    <3>. HIDE DEF w
    <3>. QED BY <1>4, <3>1, <3>2
  <2>6. CASE DbCreated(i)
    <3>1. LoadDatabases(After(i, <<>>))  BY <2>6 DEF DbCreated
    <3>. QED BY <1>3, <2>0, <3>1
  <2>7. CASE KidCreated(i)  BY <2>0, <2>7 DEF KidCreated
  <2>8. CASE IndexMade(i)  BY <2>0, <2>8 DEF IndexMade
  <2>9. CASE DbDropped(i)
    <3>1. LoadDatabases(After(i, <<>>))  BY <2>9 DEF DbDropped
    <3>. QED BY <1>3, <2>0, <3>1
  <2>10. CASE KidDropped(i)
    <3>1. PICK d : LoadDatabases(After(i, <<Call("read", <<d>>)>>))  BY <2>10 DEF KidDropped
    <3>. QED BY <1>3, <2>0, <3>1
  <2>11. CASE OrderFails(i)  BY <2>0, <2>11 DEF OrderFails
  <2>. QED BY <1>6, <2>1, <2>2, <2>3, <2>4, <2>5, <2>6, <2>7, <2>8, <2>9, <2>10, <2>11
          DEF PanelsGoOn, MongoTree, PgTree, MongoPanel, PgPanel, MongoDropped, PgDropped
<1>7. CASE PanelsClick
  <2>1. ASSUME NEW d \in Db, SelectDb(d)  PROVE Sound(wire')
    <3>1. \/ Turn(<<d>>, wire) \/ Turn(<<d>>, Append(wire, Call("read", <<d>>)))  BY <2>1 DEF SelectDb
    <3>2. Sound(Append(wire, Call("read", <<d>>)))
      <4>1. wire \in Seq({wire[k] : k \in DOMAIN wire})  BY DEF Sound, IsWire
      <4>. DEFINE c == Call("read", <<d>>)
      <4>2. Sound(<<c>>)  BY SoundCall
      <4>. HIDE DEF c
      <4>3. Append(wire, c) = wire \o <<c>>
        <5>. DEFINE S == {wire[k] : k \in DOMAIN wire} \cup {c}
        <5>1. wire \in Seq(S)  BY <4>1, LenProperties, IsSeqIf
        <5>2. c \in S  OBVIOUS
        <5>. HIDE DEF S
        <5>. QED BY <5>1, <5>2, AppendIsConcat
      <4>4. Sound(wire \o <<c>>)  BY <4>2, SoundJoin
      <4>. QED BY <4>3, <4>4 DEF c
    <3>. QED BY <1>5, <3>1, <3>2
  <2>2. ASSUME NEW d \in Db, NEW k \in Kid, SelectKid(d, k)  PROVE Sound(wire')
    BY <1>5, <2>2 DEF SelectKid
  <2>3. CASE MongoSelect \/ PgSelect  BY <2>1, <2>2, <2>3 DEF MongoSelect, PgSelect
  <2>4. CASE MongoFind \/ MongoPage \/ PgRun
    <3>1. \E n : Find(n)  BY <2>4 DEF MongoFind, MongoPage, PgRun
    <3>. QED BY <3>1, SoundSentOne DEF Find
  <2>5. CASE DropIndex  BY <2>5, SoundSentOne DEF DropIndex
  <2>6. ASSUME NEW box, Ask(box)  PROVE Sound(wire')  BY <2>6 DEF Ask
  <2>7. CASE AskDb \/ AskIndex \/ CloseBox \/ \E d \in Db : AskKid(d)
    BY <2>6, <2>7 DEF AskDb, AskIndex, CloseBox, AskKid
  <2>8. CASE CancelDrop \/ \E at : AskDrop(at)
    <3>1. wire' = wire  BY <2>8 DEF CancelDrop, AskDrop
    <3>. QED BY <3>1
  <2>9. CASE ConfirmDrop  BY <2>9, SoundSentOne DEF ConfirmDrop
  <2>10. ASSUME NEW kind, NEW at, Create(kind, at)  PROVE Sound(wire')
    BY <2>10, SoundSentOne DEF Create
  <2>11. CASE MongoDialogs \/ PgDialogs
    BY <2>10, <2>11 DEF MongoDialogs, PgDialogs, CreateDb, CreateKid, CreateIndex
  <2>. QED BY <1>7, <2>3, <2>4, <2>5, <2>7, <2>8, <2>9, <2>11 DEF PanelsClick
<1>. QED BY <1>1, <1>2, <1>6, <1>7 DEF PanelsNext

LEMMA TasksSound ==
  ASSUME Sound(wire), TasksNext
  PROVE  Sound(wire')
<1>0. Sound(ReadTasks) /\ Sound(ReadRuns)  BY SoundCall DEF ReadTasks, ReadRuns
<1>1. ASSUME NEW i \in DOMAIN wire, TasksServe(i)  PROVE Sound(wire')
  <2>. USE DEF Missing
  <2>1. ServeListTasks(i) => \E a : Reply(i, a)  BY DEF ServeListTasks
  <2>2. ServeListRuns(i) => \E a : Reply(i, a)  BY DEF ServeListRuns
  <2>3. ServeCreateTask(i) => \E a : Reply(i, a)  BY DEF ServeCreateTask
  <2>4. ServeUpdateTask(i) => \E a : Reply(i, a)  BY DEF ServeUpdateTask
  <2>5. ServeDeleteTask(i) => \E a : Reply(i, a)  BY DEF ServeDeleteTask
  <2>6. ServeRunNow(i) => \E a : Reply(i, a)  BY DEF ServeRunNow
  <2>7. ServeDeleteRuns(i) => \E a : Reply(i, a)  BY DEF ServeDeleteRuns
  <2>. QED BY <1>1, <2>1, <2>2, <2>3, <2>4, <2>5, <2>6, <2>7, SoundAnswered DEF TasksServe
<1>2. ASSUME NEW i \in DOMAIN wire, TaskCallFails(i)  PROVE Sound(wire')
  BY <1>2, SoundFailed DEF TaskCallFails
<1>3. ASSUME NEW w, Sound(w), Anew(w)  PROVE Sound(wire')
  <2>. DEFINE u == Leave(w, {"runs"})
  <2>1. Sound(u)  BY <1>3, SoundLeave DEF Sound
  <2>2. wire' = u \o ReadRuns  BY <1>3 DEF Anew
  <2>. HIDE DEF u
  <2>. QED BY <1>0, <2>1, <2>2, SoundJoin
<1>4. ASSUME NEW i \in DOMAIN wire, TasksGoOn(i)  PROVE Sound(wire')
  <2>0. Sound(After(i, <<>>)) /\ Sound(After(i, ReadTasks))  BY <1>0, SoundOver, SoundAfter
  <2>1. CASE TasksCome(i)  BY <2>0, <2>1 DEF TasksCome
  <2>2. CASE TaskCreated(i)  BY <2>0, <2>2 DEF TaskCreated
  <2>3. CASE TaskSet(i)  BY <2>0, <2>3 DEF TaskSet
  <2>4. CASE TaskDeleted(i)  BY <2>0, <2>4 DEF TaskDeleted
  <2>5. CASE RunStarted(i)
    <3>1. wire' = After(i, ReadTasks) \/ Anew(After(i, ReadTasks))  BY <2>5 DEF RunStarted
    <3>. QED BY <1>3, <2>0, <3>1
  <2>6. CASE RunsCome(i)  BY <2>0, <2>6 DEF RunsCome
  <2>7. CASE RunDeleted(i)  BY <2>0, <2>7 DEF RunDeleted
  <2>8. CASE LogsCleared(i)  BY <2>0, <2>8 DEF LogsCleared
  <2>9. CASE TaskOrderFails(i)  BY <2>0, <2>9 DEF TaskOrderFails
  <2>. QED BY <1>4, <2>1, <2>2, <2>3, <2>4, <2>5, <2>6, <2>7, <2>8, <2>9 DEF TasksGoOn
<1>5. CASE TasksClick
  <2>1. CASE RefreshTasks  BY <1>0, <2>1, SoundSent DEF RefreshTasks
  <2>2. CASE OpenTaskForm \/ CancelDelete \/ \E t \in Task : PickTask(t)
    <3>1. wire' = wire  BY <2>2 DEF OpenTaskForm, CancelDelete, PickTask
    <3>. QED BY <3>1
  <2>3. CASE CloseTaskForm  BY <2>3, SoundOrphan DEF CloseTaskForm
  <2>4. CASE SubmitTask  BY <2>4, SoundSentOne DEF SubmitTask
  <2>5. CASE ConfirmDelete  BY <2>5, SoundSentOne DEF ConfirmDelete
  <2>6. CASE Expand  BY <1>3, <2>6 DEF Expand
  <2>7. CASE Collapse  BY <2>7, SoundLeave DEF Collapse, Sound
  <2>8. CASE RunNow  BY <2>8, SoundSentOne DEF RunNow
  <2>9. CASE ClearLogs  BY <2>9, SoundSentOne DEF ClearLogs
  <2>10. ASSUME NEW t, ToggleTask(t)  PROVE Sound(wire')  BY <2>10, SoundSentOne DEF ToggleTask
  <2>11. ASSUME NEW r, DeleteRun(r)  PROVE Sound(wire')  BY <2>11, SoundSentOne DEF DeleteRun
  <2>. QED BY <1>5, <2>1, <2>2, <2>3, <2>4, <2>5, <2>6, <2>7, <2>8, <2>9, <2>10, <2>11 DEF TasksClick
<1>6. CASE Poll  BY <1>6, SoundSentOne DEF Poll
<1>7. CASE RunBegins \/ RunSkipped \/ \E r \in Run : RunEnds(r)
  <2>1. wire' = wire  BY <1>7 DEF RunBegins, RunSkipped, RunEnds
  <2>. QED BY <2>1
<1>. QED BY <1>1, <1>2, <1>4, <1>5, <1>6, <1>7 DEF TasksNext

LEMMA WireSound == AdminSpec => []Sound(wire)
<1>1. AdminInit => Sound(wire)
  <2>. SUFFICES ASSUME AdminInit PROVE Sound(wire)  OBVIOUS
  <2>1. Sound(ReadAll({"projects"}))  BY FewLists, ReadAllIs
  <2>2. Sound(<<ReadDbs>>) /\ Sound(ReadTasks) /\ Sound(<<>>)  BY SoundCall DEF ReadDbs, ReadTasks
  <2>. QED BY <2>1, <2>2 DEF AdminInit
<1>2. Sound(wire) /\ [AdminNext]_all => Sound(wire)'
  <2>. SUFFICES ASSUME Sound(wire), [AdminNext]_all PROVE Sound(wire')  OBVIOUS
  <2>1. CASE ProjectsNext  BY <2>1, ProjectsSound
  <2>2. CASE DialogsNext  BY <2>2, DialogsSound
  <2>3. CASE PanelsNext  BY <2>3, PanelsSound
  <2>4. CASE TasksNext  BY <2>4, TasksSound
  <2>5. CASE UNCHANGED all
    <3>1. wire' = wire  BY <2>5 DEF all
    <3>. QED BY <3>1
  <2>. QED BY <2>1, <2>2, <2>3, <2>4, <2>5 DEF AdminNext, OnProjects, OnDialogs, OnDatabases, OnTasksPage
<1>. QED BY <1>1, <1>2, PTL DEF AdminSpec

(***************************************************************************)
(* The value of a new key.                                                 *)
(***************************************************************************)
KeyComing(w, x) ==
  \E k \in DOMAIN w : /\ w[k].op = "add" /\ w[k].at[1] = "keys"
                      /\ w[k].answer \notin {NotYet, Error} /\ w[k].answer[2] = x

IsComing(i, x) == Came(i, "add") /\ wire[i].at[1] = "keys" /\ Value(i) = x

LEMMA KeyAfter ==
  ASSUME Sound(wire), NEW i \in DOMAIN wire, NEW calls, Sound(calls), NEW x,
         KeyComing(wire, x), ~IsComing(i, x)
  PROVE  KeyComing(After(i, calls), x)
<1>. DEFINE u == After(i, calls)
<1>1. IsWire(wire) /\ IsWire(calls)  BY DEF Sound
<1>2. \A j \in DOMAIN wire \ {i} : \E k \in DOMAIN u : Same(u[k], wire[j]) /\ u[k].heard = wire[j].heard
  BY <1>1, AfterCalls
<1>3. PICK j \in DOMAIN wire : /\ wire[j].op = "add" /\ wire[j].at[1] = "keys"
                               /\ wire[j].answer \notin {NotYet, Error} /\ wire[j].answer[2] = x
  BY DEF KeyComing
<1>4. j # i  BY <1>3 DEF IsComing, Came, Value
<1>. HIDE DEF u
<1>5. PICK k \in DOMAIN u : Same(u[k], wire[j])  BY <1>2, <1>4
<1>6. KeyComing(u, x)  BY <1>3, <1>5 DEF KeyComing, Same
<1>. QED BY <1>6 DEF u

LEMMA KeyJoin ==
  ASSUME NEW w, NEW calls, NEW u, Sound(w), Sound(calls), u = w \o calls, NEW x, KeyComing(w, x)
  PROVE  KeyComing(u, x)
<1>1. IsWire(w) /\ IsWire(calls)  BY DEF Sound
<1>2. \A j \in DOMAIN w : \E k \in DOMAIN u : u[k] = w[j]  BY <1>1, SentCalls
<1>. QED BY <1>2 DEF KeyComing

LEMMA KeyLeave ==
  ASSUME NEW w, Sound(w), NEW lists, "keys" \notin lists, NEW x, KeyComing(w, x)
  PROVE  KeyComing(Leave(w, lists), x)
<1>. DEFINE u == Leave(w, lists)
<1>1. \A j \in DOMAIN w :
        (w[j].heard /\ w[j].at[1] \notin lists) \/ (w[j].op # "read" /\ w[j].answer = NotYet)
          => \E k \in DOMAIN u : Same(u[k], w[j]) /\ u[k].heard = (w[j].heard /\ w[j].at[1] \notin lists)
  <2>1. IsWire(w)  BY DEF Sound
  <2>. QED BY <2>1, LeftCalls
<1>. HIDE DEF u
<1>2. KeyComing(u, x)  BY <1>1 DEF KeyComing, Same, Sound
<1>. QED BY <1>2 DEF u

LEMMA KeyOrphan ==
  ASSUME NEW w, Sound(w), NEW o, NEW list, NEW x, KeyComing(w, x)
  PROVE  KeyComing(Orphan(w, o, list), x)
<1>. DEFINE u == Orphan(w, o, list)
<1>1. DOMAIN u = DOMAIN w /\ \A k \in DOMAIN w : Same(u[k], w[k])
  <2>1. IsWire(w)  BY DEF Sound
  <2>. QED BY <2>1, OrphanIs
<1>. HIDE DEF u
<1>2. KeyComing(u, x)  BY <1>1 DEF KeyComing, Same
<1>. QED BY <1>2 DEF u

LEMMA KeyReply ==
  ASSUME Sound(wire), NEW i \in DOMAIN wire, NEW a, Reply(i, a), NEW x,
         KeyComing(wire, x), ~IsComing(i, x)
  PROVE  KeyComing(wire', x)
<1>1. \A j \in DOMAIN wire \ {i} : \E k \in DOMAIN wire' : wire'[k] = wire[j]
  BY RepliedCalls DEF Sound
<1>2. PICK j \in DOMAIN wire : /\ wire[j].op = "add" /\ wire[j].at[1] = "keys"
                               /\ wire[j].answer \notin {NotYet, Error} /\ wire[j].answer[2] = x
  BY DEF KeyComing
<1>3. j # i  BY <1>2 DEF IsComing, Came, Value
<1>. QED BY <1>1, <1>2, <1>3 DEF KeyComing

Readable(x) == x \in seen \cup excused \/ newKey = x \/ KeyComing(wire, x)

KeysInv ==
  /\ rows = [l \in Lists |-> rows[l]] /\ rows["keys"] \in [Item -> Status]
  /\ \A x \in Item : rows["keys"][x] = "on" => Readable(x)
  /\ "keys" \in open => newKey \in seen \cup {NoItem}

LEMMA KeysServed ==
  ASSUME Sound(wire), KeysInv, NEW i \in DOMAIN wire, ProjectsServe(i) \/ CallFails(i)
  PROVE  KeysInv'
<1>. USE DEF KeysInv
<1>0. "keys" \in Lists  BY DEF Lists
<1>1. ASSUME NEW a, Asked(i), Reply(i, a), NEW x, KeyComing(wire, x)  PROVE KeyComing(wire', x)
  BY <1>1, KeyReply DEF Asked, IsComing, Came
<1>2. CASE ServeRead(i)
  <2>1. /\ UNCHANGED <<rows, newKey, seen, excused, open>> /\ Asked(i) /\ \E a : Reply(i, a)
    BY <1>2 DEF ServeRead, page, history
  <2>. QED BY <1>1, <2>1 DEF Readable
<1>3. CASE ServeAdd(i)
  <2>1. UNCHANGED <<newKey, seen, open>> /\ Asked(i)  BY <1>3 DEF ServeAdd, page
  <2>2. CASE Refuse(i)
    <3>1. UNCHANGED <<rows, excused>> /\ \E a : Reply(i, a)  BY <2>2 DEF Refuse
    <3>. QED BY <1>1, <2>1, <3>1 DEF Readable
  <2>3. CASE ~Refuse(i)
    <3>. DEFINE l == wire[i].at[1]
    <3>1. PICK x \in Item :
            /\ rows' = [k \in Lists |->
                 CASE k = l -> [rows[l] EXCEPT ![x] = "on"]
                   [] k = "projects" /\ l = "collections" -> [rows[k] EXCEPT ![Home] = "keyed"]
                   [] OTHER -> rows[k]]
            /\ Reply(i, Answer(x))
            /\ excused' = IF l = "keys" /\ ~wire[i].heard THEN excused \cup {x} ELSE excused
      BY <1>3, <2>3 DEF ServeAdd
    <3>2. rows' = [k \in Lists |-> rows'[k]]  BY <3>1
    <3>3. rows'["keys"] = IF l = "keys" THEN [rows["keys"] EXCEPT ![x] = "on"] ELSE rows["keys"]
      BY <1>0, <3>1
    <3>4. rows'["keys"] \in [Item -> Status]  BY <3>3 DEF Status
    <3>5. ASSUME NEW y \in Item, rows'["keys"][y] = "on"  PROVE Readable(y)'
      <4>1. CASE rows["keys"][y] = "on"  BY <1>1, <2>1, <3>1, <4>1 DEF Readable
      <4>2. CASE rows["keys"][y] # "on"
        <5>1. y = x /\ l = "keys"  BY <3>3, <3>5, <4>2
        <5>2. CASE wire[i].heard
          <6>1. \E k \in DOMAIN wire' : /\ wire'[k].op = wire[i].op /\ wire'[k].at = wire[i].at
                                        /\ wire'[k].answer = Answer(x)
            BY <3>1, <5>2, RepliedCalls DEF Sound
          <6>2. wire[i].op = "add"  BY <1>3 DEF ServeAdd
          <6>3. Answer(x) \notin {NotYet, Error} /\ Answer(x)[2] = x  BY DEF Answer, NotYet, Error
          <6>4. KeyComing(wire', x)  BY <5>1, <6>1, <6>2, <6>3 DEF KeyComing
          <6>. QED BY <5>1, <6>4 DEF Readable
        <5>3. CASE ~wire[i].heard  BY <3>1, <5>1, <5>3 DEF Readable
        <5>. QED BY <5>2, <5>3
      <4>. QED BY <4>1, <4>2
    <3>. QED BY <2>1, <3>2, <3>4, <3>5
  <2>. QED BY <2>2, <2>3
<1>4. CASE ServeDrop(i)
  <2>1. UNCHANGED <<newKey, seen, open>> /\ Asked(i) /\ \E a : Reply(i, a)
    BY <1>4 DEF ServeDrop, page, Refuse
  <2>2. UNCHANGED excused  BY <1>4 DEF ServeDrop, Refuse
  <2>. DEFINE l == wire[i].at[1]
              x == wire[i].at[2]
              e == CASE l = "projects" /\ x = Home -> Detail \ {"s3"}
                     [] l = "databases" /\ x = Mongo -> {"indexes"}
                     [] OTHER -> {}
              r == [k \in Lists |-> IF k \in e THEN Empty
                      ELSE IF k = l THEN [rows[l] EXCEPT ![x] = IF l = "keys" THEN "gone" ELSE "none"]
                      ELSE rows[k]]
              Fine(s) == /\ s = [k \in Lists |-> s[k]] /\ s["keys"] \in [Item -> Status]
                         /\ \A y \in Item : s["keys"][y] = "on" => rows["keys"][y] = "on"
  <2>3. rows' = rows \/ rows' = r  BY <1>4 DEF ServeDrop, Refuse
  <2>. HIDE DEF e, l, x
  <2>4. Fine(r)
    <3>1. r["keys"] = Empty \/ r["keys"] = [rows["keys"] EXCEPT ![x] = "gone"] \/ r["keys"] = rows["keys"]
      BY <1>0
    <3>2. r = [k \in Lists |-> r[k]]  OBVIOUS
    <3>. HIDE DEF r
    <3>. QED BY <3>1, <3>2 DEF Empty, Status
  <2>. HIDE DEF r
  <2>5. Fine(rows')  BY <2>3, <2>4
  <2>. QED BY <1>1, <2>1, <2>2, <2>5 DEF Readable
<1>5. CASE ServeSet(i)
  <2>1. UNCHANGED <<newKey, seen, open, excused>> /\ Asked(i) /\ \E a : Reply(i, a)
    BY <1>5 DEF ServeSet, page, Refuse
  <2>2. rows' = rows \/ \E x, s : rows' = [rows EXCEPT !["collections"][x] = s]
    BY <1>5 DEF ServeSet, Refuse
  <2>3. rows' = [k \in Lists |-> rows'[k]] /\ rows'["keys"] = rows["keys"]  BY <1>0, <2>2
  <2>. QED BY <1>1, <2>1, <2>3 DEF Readable
<1>6. CASE CallFails(i)
  <2>1. UNCHANGED <<rows, newKey, seen, open>> /\ Reply(i, Error)  BY <1>6 DEF CallFails, Fail, page
  <2>2. \A x : IsComing(i, x) => x \in excused'  BY <1>6 DEF CallFails, IsComing
  <2>3. excused \subseteq excused'  BY <1>6 DEF CallFails
  <2>4. \A x : KeyComing(wire, x) => KeyComing(wire', x) \/ x \in excused'  BY <2>1, <2>2, KeyReply
  <2>. QED BY <2>1, <2>3, <2>4 DEF Readable
<1>. QED BY <1>2, <1>3, <1>4, <1>5, <1>6 DEF ProjectsServe

LEMMA KeysGoOn ==
  ASSUME Sound(wire), KeysInv, NEW i \in DOMAIN wire, ProjectsGoOn(i)
  PROVE  KeysInv'
<1>. USE DEF KeysInv
<1>0. Sound(<<>>) /\ \A o, a : Sound(<<Call(o, a)>>)  BY SoundCall
<1>1. ASSUME NEW calls, Sound(calls), wire' = After(i, calls), ~(Came(i, "add") /\ wire[i].at[1] = "keys"),
             UNCHANGED <<rows, newKey, seen, excused>>, open' \subseteq open
      PROVE  KeysInv'
  <2>1. \A x : KeyComing(wire, x) => KeyComing(wire', x)  BY <1>1, KeyAfter DEF IsComing
  <2>. QED BY <1>1, <2>1 DEF Readable
<1>2. CASE Listed(i)  BY <1>0, <1>1, <1>2 DEF Listed, Came
<1>3. CASE DatabasesListed(i)
  <2>. DEFINE idx == {"indexes"} \cap focus
              w == After(i, <<>>)
  <2>0. /\ ~Came(i, "add") /\ UNCHANGED <<rows, newKey, seen, excused>> /\ open' \subseteq open
    BY <1>3 DEF DatabasesListed, Came
  <2>1. \/ wire' = Leave(w, {"indexes"}) \/ wire' = After(i, ReadAll(idx)) \/ wire' = w
    BY <1>3 DEF DatabasesListed
  <2>2. CASE wire' = After(i, ReadAll(idx)) \/ wire' = w
    <3>1. Sound(ReadAll(idx))  BY FewLists, ReadAllIs
    <3>. QED BY <1>0, <1>1, <2>0, <2>2, <3>1
  <2>3. CASE wire' = Leave(w, {"indexes"})
    <3>1. Sound(w) /\ \A x : KeyComing(wire, x) => KeyComing(w, x)
      BY <1>0, <2>0, KeyAfter, SoundAfter DEF IsComing
    <3>. HIDE DEF w
    <3>2. \A x : KeyComing(wire, x) => KeyComing(wire', x)  BY <2>3, <3>1, KeyLeave
    <3>. QED BY <2>0, <3>2 DEF Readable
  <2>. QED BY <2>1, <2>2, <2>3
<1>4. CASE ListFails(i)  BY <1>0, <1>1, <1>4 DEF ListFails, Failed, Came
<1>5. CASE RowCreated(i)
  <2>. DEFINE w == After(i, <<>>)
  <2>0. UNCHANGED <<rows, newKey, seen, excused>> /\ open' \subseteq open /\ wire[i].at[1] # "keys"
    BY <1>5 DEF RowCreated, history
  <2>1. Sound(w) /\ \A x : KeyComing(wire, x) => KeyComing(w, x)
    BY <1>0, <2>0, KeyAfter, SoundAfter DEF IsComing
  <2>2. \E l : wire' = w \o <<Call("read", <<l>>)>>  BY <1>5 DEF RowCreated, ReadList
  <2>. HIDE DEF w
  <2>3. \A x : KeyComing(wire, x) => KeyComing(wire', x)
    <3>1. PICK c : wire' = w \o c /\ Sound(c)  BY <1>0, <2>2
    <3>. QED BY <2>1, <3>1, KeyJoin
  <2>. QED BY <2>0, <2>3 DEF Readable
<1>6. CASE KeyCreated(i)
  <2>1. /\ newKey' = Value(i) /\ UNCHANGED <<rows, open>>
        /\ seen' = (IF "keys" \in open THEN seen \cup {Value(i)} ELSE seen)
        /\ excused' = (IF "keys" \in open THEN excused ELSE excused \cup ({newKey} \ {NoItem}))
    BY <1>6 DEF KeyCreated
  <2>2. \A x : KeyComing(wire, x) => KeyComing(wire', x) \/ newKey' = x
    <3>1. wire' = After(i, <<ReadList("keys")>>)  BY <1>6 DEF KeyCreated
    <3>. QED BY <1>0, <2>1, <3>1, KeyAfter DEF IsComing, ReadList
  <2>3. \A x \in Item : x # NoItem  BY ProjectsAssumption
  <2>. QED BY <2>1, <2>2, <2>3 DEF Readable
<1>7. CASE IndexCreated(i)  BY <1>0, <1>1, <1>7 DEF IndexCreated, history
<1>8. CASE Provisioned(i)  BY <1>0, <1>1, <1>8 DEF Provisioned, pvars, page, history, ReadList
<1>9. ASSUME NEW l, NEW o, NEW a, Gone(i, l, Call(o, a))  PROVE KeysInv'
  BY <1>0, <1>1, <1>9 DEF Gone, history, Came
<1>10. CASE \/ ProjectDeleted(i) \/ KeyRevoked(i) \/ CollectionDeleted(i) \/ Deprovisioned(i) \/ IndexDropped(i)
  BY <1>9, <1>10 DEF ProjectDeleted, KeyRevoked, CollectionDeleted, Deprovisioned, IndexDropped, ReadList
<1>11. CASE CollectionSet(i)  BY <1>0, <1>1, <1>11 DEF CollectionSet, pvars, page, history, ReadList, Came
<1>12. CASE ChangeFails(i)  BY <1>0, <1>1, <1>12 DEF ChangeFails, pvars, page, history, Came, Failed
<1>. QED BY <1>2, <1>3, <1>4, <1>5, <1>6, <1>7, <1>8, <1>10, <1>11, <1>12 DEF ProjectsGoOn

LEMMA KeysClicked ==
  ASSUME Sound(wire), KeysInv, ProjectsClick
  PROVE  KeysInv'
<1>. USE DEF KeysInv
<1>0. Sound(<<>>) /\ \A o, a : Sound(<<Call(o, a)>>)  BY SoundCall
<1>1. ASSUME NEW calls, Sound(calls), Send(calls) \/ UNCHANGED wire, UNCHANGED <<rows, newKey, seen, excused, open>>
      PROVE  KeysInv'
  <2>1. \A x : KeyComing(wire, x) => KeyComing(wire', x)  BY <1>1, KeyJoin DEF Send
  <2>. QED BY <1>1, <2>1 DEF Readable
<1>2. CASE OpenProject
  <2>1. Sound(ReadAll(Detail \ {"indexes"}))  BY FewLists, ReadAllIs
  <2>. QED BY <1>1, <1>2, <2>1 DEF OpenProject
<1>3. CASE BackToList
  <2>1. /\ newKey' = NoItem /\ UNCHANGED <<rows, open, seen>>
        /\ excused' = excused \cup ({newKey} \ {NoItem})
             \cup {Value(j) : j \in {k \in DOMAIN wire : Came(k, "add") /\ wire[k].at[1] = "keys"}}
    BY <1>3 DEF BackToList
  <2>2. \A x : KeyComing(wire, x) => x \in excused'  BY <2>1 DEF KeyComing, Came, Value
  <2>3. \A x \in Item : x # NoItem  BY ProjectsAssumption
  <2>4. excused \subseteq excused' /\ \A x \in Item : newKey = x => x \in excused'  BY <2>1, <2>3
  <2>. QED BY <2>1, <2>2, <2>4 DEF Readable
<1>4. CASE RefreshS3Credentials  BY <1>0, <1>1, <1>4 DEF RefreshS3Credentials, ReadList, history
<1>5. ASSUME NEW l \in Lists, RefreshList(l)  PROVE KeysInv'
  BY <1>0, <1>1, <1>5 DEF RefreshList, ReadList, pvars, page, history
<1>6. ASSUME NEW l \in Lists, OpenForm(l)  PROVE KeysInv'
  <2>1. /\ UNCHANGED <<rows, newKey, excused, wire>> /\ open' = open \cup {l}
        /\ seen' = IF l = "keys" THEN seen \cup ({newKey} \ {NoItem}) ELSE seen
    BY <1>6 DEF OpenForm
  <2>. QED BY <2>1 DEF Readable
<1>7. ASSUME NEW l \in Lists, CloseForm(l)  PROVE KeysInv'
  <2>1. /\ UNCHANGED <<rows, seen, excused>> /\ open' = open \ {l} /\ l \in open
        /\ wire' = wire \/ wire' = Orphan(wire, "add", l)
        /\ IF l = "keys" THEN newKey' = NoItem ELSE newKey' = newKey
    BY <1>7 DEF CloseForm
  <2>2. \A x : KeyComing(wire, x) => KeyComing(wire', x)  BY <2>1, KeyOrphan
  <2>3. \A x \in Item : x # NoItem  BY ProjectsAssumption
  <2>. QED BY <2>1, <2>2, <2>3 DEF Readable
<1>8. ASSUME NEW l \in Lists, SubmitForm(l)  PROVE KeysInv'
  BY <1>0, <1>1, <1>8 DEF SubmitForm, pvars, page, history
<1>9. ASSUME NEW l, CancelPick(l)  PROVE KeysInv'
  BY <1>0, <1>1, <1>9 DEF CancelPick, history
<1>10. ASSUME NEW x \in Item, Provision(x) \/ ToggleSync(x) \/ Resync(x)  PROVE KeysInv'
  <2>1. /\ UNCHANGED <<rows, newKey, seen, excused, open>> /\ \E o, a : Send(<<Call(o, a)>>)
    BY <1>10 DEF Provision, ToggleSync, Resync, pvars, page, history
  <2>. QED BY <1>0, <1>1, <2>1
<1>11. ASSUME NEW x \in Item,
              PickProject(x) \/ PickKey(x) \/ PickCollection(x) \/ PickDatabase(x) \/ PickIndex(x)
       PROVE  KeysInv'
  <2>1. UNCHANGED <<rows, newKey, seen, excused, open, wire>>
    BY <1>11 DEF PickProject, PickKey, PickCollection, PickDatabase, PickIndex, Pick, history
  <2>. QED BY <1>0, <1>1, <2>1
<1>12. ASSUME NEW l, Confirm(l)  PROVE KeysInv'
  BY <1>0, <1>1, <1>12 DEF Confirm, history
<1>13. CASE \/ ConfirmDeleteProject \/ ConfirmRevoke \/ ConfirmDeleteCollection \/ ConfirmDeprovision
            \/ ConfirmDropIndex
  BY <1>12, <1>13 DEF ConfirmDeleteProject, ConfirmRevoke, ConfirmDeleteCollection, ConfirmDeprovision,
     ConfirmDropIndex
<1>. QED BY <1>2, <1>3, <1>4, <1>5, <1>6, <1>7, <1>8, <1>9, <1>10, <1>11, <1>13 DEF ProjectsClick

(* The value of a new API key is on the screen, was there, or waits for    *)
(* the dialog; only the view, the answer or a second key takes it away     *)
(* (KeyCreated and CloseForm of projects.tsx), for any keys, calls and     *)
(* failures.                                                               *)
THEOREM KeysAreShown == AdminSpec => []NewKeyShown
<1>. DEFINE NoKeys == \A x \in Item : rows["keys"][x] # "on"
            Inv == IF mounted = "projects" THEN KeysInv ELSE NoKeys
<1>1. AdminInit => Inv
  <2>. SUFFICES ASSUME AdminInit PROVE Inv  OBVIOUS
  <2>1. /\ open = {}
        /\ rows = [l \in Lists |-> [x \in Item |->
             IF (l = "projects" /\ x = Home) \/ (l = "s3" /\ x = Home) THEN "on" ELSE "none"]]
    BY DEF AdminInit, ProjectsStart
  <2>2. rows = [l \in Lists |-> rows[l]] /\ rows["keys"] = [x \in Item |-> "none"]  BY <2>1 DEF Lists
  <2>. QED BY <2>1, <2>2 DEF KeysInv, Status
<1>2. Inv /\ Sound(wire) /\ [AdminNext]_all => Inv'
  <2>. SUFFICES ASSUME Inv, Sound(wire), [AdminNext]_all PROVE Inv'  OBVIOUS
  <2>1. CASE OnProjects(ProjectsNext)
    <3>1. mounted = "projects" /\ mounted' = mounted /\ ProjectsNext  BY <2>1 DEF OnProjects
    <3>2. KeysInv'  BY <3>1, KeysServed, KeysGoOn, KeysClicked DEF ProjectsNext
    <3>. QED BY <3>1, <3>2
  <2>2. CASE OnDialogs(DialogsNext) \/ OnDatabases(PanelsNext) \/ OnTasksPage(TasksNext)
    <3>1. mounted # "projects" /\ mounted' = mounted /\ rows' = rows
      BY <2>2 DEF OnDialogs, OnDatabases, OnTasksPage, pvars
    <3>. QED BY <3>1
  <2>3. CASE UNCHANGED all
    <3>1. UNCHANGED <<mounted, rows, newKey, open, seen, excused, wire>>
      BY <2>3 DEF all, pvars, page, history
    <3>. QED BY <3>1 DEF KeysInv, Readable
  <2>. QED BY <2>1, <2>2, <2>3 DEF AdminNext
<1>3. Inv => NewKeyShown
  <2>1. ASSUME KeysInv  PROVE NewKeyShown
    <3>1. \A x : KeyComing(wire, x) =>
            \E i \in DOMAIN wire : Came(i, "add") /\ wire[i].at[1] = "keys" /\ Value(i) = x
      BY DEF KeyComing, Came, Value
    <3>. QED BY <2>1, <3>1 DEF KeysInv, Readable, NewKeyShown
  <2>. QED BY <2>1 DEF NewKeyShown
<1>. QED BY <1>1, <1>2, <1>3, WireSound, PTL DEF AdminSpec

(***************************************************************************)
(* The lists show the changes the person made.                             *)
(***************************************************************************)
IsRead(c, l) == c.op = "read" /\ c.at[1] = l
IsDone(c, l) == c.op # "read" /\ c.at[1] = l /\ c.answer \notin {NotYet, Error}

(* A read of list l that was answered before the list became v.            *)
Stale(c, l, v) == IsRead(c, l) /\ ~c.late /\ c.answer \notin {NotYet, Error, Answer(v)}

Fetched(c, l) == IsRead(c, l) /\ c.answer \notin {NotYet, Error} /\ ~c.late

(* List l, which should be v, is shown as s: a change was answered and its *)
(* handler will read the list; or it is being read, and no later read is   *)
(* stale; or it is right, and no read is stale.                            *)
Current(w, l, v, s) ==
  \/ \E k \in DOMAIN w : IsDone(w[k], l)
  \/ \E k \in DOMAIN w : IsRead(w[k], l) /\ \A j \in DOMAIN w : j >= k => ~Stale(w[j], l, v)
  \/ s = v /\ \A j \in DOMAIN w : ~Stale(w[j], l, v)

(* What must be shown: the lists on the page that were told of everything. *)
Owed(l) ==
  /\ l \in focus \ behind /\ OnPage(l)
  /\ l = "indexes" => rows["databases"][Mongo] = "on"

(* The calls of the page are about the lists f: the reads are heard, and   *)
(* only collections are set.                                               *)
ListCall(c, f) == /\ c.at[1] \in f /\ (c.op = "read" => c.heard)
                  /\ (c.op = "set" => c.at[1] = "collections")
ListCalls(w, f) == \A k \in DOMAIN w : ListCall(w[k], f)
Asks(q, f) == Sound(q) /\ ListCalls(q, f) /\ \A k \in DOMAIN q : q[k].answer = NotYet

Grid(f) == f = [l \in Lists |-> [x \in Item |-> f[l][x]]]

ListsTyped ==
  /\ focus \subseteq Lists /\ Grid(rows) /\ shown = [l \in Lists |-> shown[l]] /\ target = [l \in Lists |-> target[l]]
  /\ open \subseteq focus /\ \A l \in Lists : target[l] # NoItem => l \in focus
  /\ ListCalls(wire, focus)
  /\ "databases" \in loading \/ "databases" \notin focus => shown["databases"] = Empty

ListsInv == ListsTyped /\ \A l \in Lists : Owed(l) => Current(wire, l, Cut(rows[l]), shown[l])

(* The reads of the list and the answered changes of it are still there,   *)
(* in their order, and nothing that is stale is new.                       *)
LEMMA CurrentKept ==
  ASSUME NEW u, NEW w, IsWire(u), IsWire(w), NEW l, NEW v, NEW s, Current(w, l, v, s), NEW g,
         \A k \in DOMAIN u : g[k] \in Nat,
         \A m, n \in DOMAIN u : m < n => g[m] < g[n],
         \A k \in DOMAIN u : Stale(u[k], l, v) => g[k] \in DOMAIN w /\ Stale(w[g[k]], l, v),
         \A j \in DOMAIN w : IsRead(w[j], l) => \E k \in DOMAIN u : g[k] = j /\ IsRead(u[k], l),
         \A j \in DOMAIN w : IsDone(w[j], l) => \E k \in DOMAIN u : IsDone(u[k], l)
  PROVE  Current(u, l, v, s)
<1>0. DOMAIN u \subseteq Nat /\ DOMAIN w \subseteq Nat  BY WireIs
<1>1. CASE \E k \in DOMAIN w : IsDone(w[k], l)  BY <1>1 DEF Current
<1>2. ASSUME NEW j \in DOMAIN w, IsRead(w[j], l), \A n \in DOMAIN w : n >= j => ~Stale(w[n], l, v)
      PROVE  Current(u, l, v, s)
  <2>1. PICK k \in DOMAIN u : g[k] = j /\ IsRead(u[k], l)  BY <1>2
  <2>2. ASSUME NEW n \in DOMAIN u, n >= k, Stale(u[n], l, v)  PROVE FALSE
    <3>1. n = k \/ k < n  BY <1>0, <2>2
    <3>2. g[n] = g[k] \/ g[k] < g[n]  BY <3>1
    <3>3. g[n] >= j  BY <1>0, <2>1, <3>2
    <3>. QED BY <1>2, <2>2, <3>3
  <2>. QED BY <2>1, <2>2 DEF Current
<1>3. CASE s = v /\ \A j \in DOMAIN w : ~Stale(w[j], l, v)  BY <1>3 DEF Current
<1>. QED BY <1>1, <1>2, <1>3 DEF Current

(* The last read of the list is not answered, nor is what comes after it.  *)
LEMMA CurrentAsked ==
  ASSUME NEW u, NEW l, NEW v, NEW s, NEW k \in DOMAIN u, IsRead(u[k], l),
         \A j \in DOMAIN u : j >= k => u[j].answer = NotYet
  PROVE  Current(u, l, v, s)
BY DEF Current, Stale

LEMMA CurrentSent ==
  ASSUME NEW w, Sound(w), NEW f, NEW calls, Asks(calls, f), NEW u, u = w \o calls
  PROVE  /\ \A l, v, s : Current(w, l, v, s) => Current(u, l, v, s)
         /\ \A l, v, s : (\E k \in DOMAIN calls : IsRead(calls[k], l)) => Current(u, l, v, s)
<1>1. IsWire(w) /\ IsWire(calls) /\ \A k \in DOMAIN calls : calls[k].answer = NotYet  BY DEF Sound, Asks
<1>. DEFINE n == Len(w)
            m == Len(calls)
<1>2. n \in Nat /\ m \in Nat /\ DOMAIN w = 1 .. n /\ DOMAIN calls = 1 .. m  BY <1>1, WireIs
<1>3. /\ IsWire(u) /\ DOMAIN u = 1 .. n + m
      /\ \A k \in 1 .. n : u[k] = w[k]
      /\ \A k \in 1 .. m : u[n + k] = calls[k]
  <2>1. /\ IsWire(u) /\ Len(u) = n + m
        /\ \A k \in 1 .. n : u[k] = w[k]
        /\ \A k \in 1 .. m : u[n + k] = calls[k]
    BY <1>1, Join
  <2>. QED BY <2>1, WireIs
<1>. HIDE DEF n, m
<1>4. \A k \in 1 .. n + m : k > n => u[k].answer = NotYet
  <2>. SUFFICES ASSUME NEW k \in 1 .. n + m, k > n PROVE u[k].answer = NotYet  OBVIOUS
  <2>1. k - n \in 1 .. m /\ n + (k - n) = k  BY <1>2
  <2>2. u[n + (k - n)] = calls[k - n]  BY <1>3, <2>1
  <2>3. calls[k - n].answer = NotYet  BY <1>1, <1>2, <2>1
  <2>. QED BY <2>1, <2>2, <2>3
<1>5. ASSUME NEW l, NEW v, NEW s, Current(w, l, v, s)  PROVE Current(u, l, v, s)
  <2>. DEFINE g == [k \in 1 .. n + m |-> k]
  <2>0. \A k \in DOMAIN u : g[k] = k /\ k \in Nat  BY <1>2, <1>3
  <2>. HIDE DEF g
  <2>1. (\A k \in DOMAIN u : g[k] \in Nat) /\ \A j, k \in DOMAIN u : j < k => g[j] < g[k]  BY <2>0
  <2>2. \A k \in DOMAIN u : Stale(u[k], l, v) => g[k] \in DOMAIN w /\ Stale(w[g[k]], l, v)
    <3>1. \A k \in 1 .. n + m : k > n \/ k \in 1 .. n  BY <1>2
    <3>. QED BY <1>2, <1>3, <1>4, <2>0, <3>1 DEF Stale
  <2>3. \A k \in DOMAIN w : k \in DOMAIN u /\ u[k] = w[k] /\ g[k] = k  BY <1>2, <1>3, <2>0
  <2>4. \A j \in DOMAIN w : IsRead(w[j], l) => \E k \in DOMAIN u : g[k] = j /\ IsRead(u[k], l)  BY <2>3
  <2>5. \A j \in DOMAIN w : IsDone(w[j], l) => \E k \in DOMAIN u : IsDone(u[k], l)  BY <2>3
  <2>6. IsWire(u)  BY <1>3
  <2>. QED BY ONLY <1>1, <1>5, <2>1, <2>2, <2>4, <2>5, <2>6, CurrentKept
<1>6. ASSUME NEW l, NEW v, NEW s, NEW k \in DOMAIN calls, IsRead(calls[k], l)  PROVE Current(u, l, v, s)
  <2>1. n + k \in DOMAIN u /\ IsRead(u[n + k], l) /\ \A j \in DOMAIN u : j >= n + k => j > n
    BY <1>2, <1>3, <1>6
  <2>. QED BY <1>3, <1>4, <2>1, CurrentAsked
<1>. QED BY <1>5, <1>6

(* The calls when one goes on: it took nothing of list l with it, or the   *)
(* list is read again, or it was a read of the list.                       *)
LEMMA CurrentAfter ==
  ASSUME Sound(wire), NEW i \in DOMAIN wire, NEW f, NEW calls, Asks(calls, f)
  PROVE  LET u == After(i, calls) IN
         /\ \A l, v, s : ~IsRead(wire[i], l) /\ ~IsDone(wire[i], l) /\ Current(wire, l, v, s)
                           => Current(u, l, v, s)
         /\ \A l, v, s : (\E k \in DOMAIN calls : IsRead(calls[k], l)) => Current(u, l, v, s)
         /\ \A l, v, s : Fetched(wire[i], l) /\ Current(wire, l, v, s) => Current(u, l, v, wire[i].answer[2])
<1>1. IsWire(wire) /\ IsWire(calls) /\ \A k \in DOMAIN calls : calls[k].answer = NotYet  BY DEF Sound, Asks
<1>. DEFINE u == After(i, calls)
            n == Len(wire) - 1
            m == Len(calls)
            Beaten(k) == k < i /\ wire[k].op = wire[i].op /\ wire[k].at[1] = wire[i].at[1]
<1>2. n \in Nat /\ m \in Nat /\ DOMAIN wire = 1 .. n + 1 /\ DOMAIN calls = 1 .. m /\ DOMAIN u = 1 .. n + m
  <2>1. n \in Nat /\ IsWire(u) /\ Len(u) = n + m  BY <1>1, AfterIs
  <2>2. DOMAIN u = 1 .. n + m  BY <2>1, WireIs
  <2>. QED BY <1>1, <2>1, <2>2, WireIs
<1>3. /\ IsWire(u)
      /\ \A k \in 1 .. n : /\ Skip(i, k) \in DOMAIN wire /\ Skip(i, k) # i /\ Same(u[k], wire[Skip(i, k)])
                           /\ u[k].late = (wire[Skip(i, k)].late \/ Beaten(Skip(i, k)))
      /\ \A k \in 1 .. m : u[n + k] = calls[k]
  <2>1. LET x == After(i, calls) IN
        /\ IsWire(x) /\ n \in Nat /\ Len(x) = n + m
        /\ \A k \in 1 .. n : LET j == Skip(i, k) IN
             /\ j \in DOMAIN wire /\ j # i /\ Same(x[k], wire[j]) /\ x[k].heard = wire[j].heard
             /\ x[k].form = wire[j].form /\ x[k].late = (wire[j].late \/ Beaten(j))
        /\ \A k \in 1 .. m : x[n + k] = calls[k]
    BY <1>1, AfterIs
  <2>. HIDE DEF n, m, Beaten, u
  <2>. QED BY <2>1 DEF u
<1>. HIDE DEF u
<1>. HIDE DEF n, m
<1>4. \A k \in 1 .. n + m : k > n => u[k].answer = NotYet
  <2>. SUFFICES ASSUME NEW k \in 1 .. n + m, k > n PROVE u[k].answer = NotYet  OBVIOUS
  <2>1. k - n \in 1 .. m /\ n + (k - n) = k  BY <1>2
  <2>. QED BY <1>1, <1>2, <1>3, <2>1
<1>. DEFINE g == [k \in 1 .. n + m |-> Skip(i, k)]
<1>5. /\ \A k \in DOMAIN u : g[k] = Skip(i, k) /\ g[k] \in Nat
      /\ \A j, k \in DOMAIN u : j < k => g[j] < g[k]
  <2>1. \A k \in DOMAIN u : g[k] = Skip(i, k) /\ k \in Nat  BY <1>2
  <2>2. i \in Nat  BY <1>2
  <2>. QED BY <2>1, <2>2 DEF Skip
<1>6. \A j \in DOMAIN wire : j # i => \E k \in 1 .. n : k \in DOMAIN u /\ g[k] = j /\ Same(u[k], wire[j])
  <2>. SUFFICES ASSUME NEW j \in DOMAIN wire, j # i
                PROVE  \E k \in 1 .. n : k \in DOMAIN u /\ g[k] = j /\ Same(u[k], wire[j])
    OBVIOUS
  <2>. DEFINE k == IF j < i THEN j ELSE j - 1
  <2>1. k \in 1 .. n /\ k \in DOMAIN u /\ Skip(i, k) = j  BY <1>2 DEF Skip
  <2>. HIDE DEF k
  <2>. QED BY <1>3, <1>5, <2>1
<1>7. ASSUME NEW l, NEW v, NEW k \in DOMAIN u, Stale(u[k], l, v)
      PROVE  g[k] \in DOMAIN wire /\ g[k] # i /\ Stale(wire[g[k]], l, v) /\ ~Beaten(g[k])
  <2>1. k \in 1 .. n  BY <1>2, <1>4, <1>7 DEF Stale
  <2>. QED BY <1>3, <1>5, <1>7, <2>1 DEF Stale, IsRead, Same
<1>. HIDE DEF g
<1>8. ASSUME NEW l, NEW v, NEW s, ~IsRead(wire[i], l), ~IsDone(wire[i], l), Current(wire, l, v, s)
      PROVE  Current(u, l, v, s)
  <2>1. \A j \in DOMAIN wire : IsRead(wire[j], l) => \E k \in DOMAIN u : g[k] = j /\ IsRead(u[k], l)
    BY <1>6, <1>8 DEF IsRead, Same
  <2>2. \A j \in DOMAIN wire : IsDone(wire[j], l) => \E k \in DOMAIN u : IsDone(u[k], l)
    BY <1>6, <1>8 DEF IsDone, Same
  <2>. QED BY <1>1, <1>3, <1>5, <1>7, <1>8, <2>1, <2>2, CurrentKept
<1>9. ASSUME NEW l, NEW v, NEW s, NEW k \in DOMAIN calls, IsRead(calls[k], l)  PROVE Current(u, l, v, s)
  <2>1. n + k \in DOMAIN u /\ IsRead(u[n + k], l) /\ \A j \in DOMAIN u : j >= n + k => j > n
    BY <1>2, <1>3, <1>9
  <2>. QED BY <1>2, <1>4, <2>1, CurrentAsked
<1>10. ASSUME NEW l, NEW v, NEW s, Fetched(wire[i], l), Current(wire, l, v, s)
       PROVE  Current(u, l, v, wire[i].answer[2])
  <2>0. IsRead(wire[i], l) /\ wire[i].answer \notin {NotYet, Error} /\ ~wire[i].late  BY <1>10 DEF Fetched
  <2>. DEFINE z == wire[i].answer[2]
  <2>1. CASE \E j \in DOMAIN wire : IsDone(wire[j], l)
    <3>1. PICK j \in DOMAIN wire : IsDone(wire[j], l)  BY <2>1
    <3>2. j # i  BY <2>0, <3>1 DEF IsDone, IsRead
    <3>. QED BY <1>6, <3>1, <3>2 DEF Current, IsDone, Same
  <2>2. ASSUME NEW j \in DOMAIN wire, j # i, IsRead(wire[j], l),
               \A p \in DOMAIN wire : p >= j => ~Stale(wire[p], l, v)
        PROVE  Current(u, l, v, z)
    <3>1. PICK k \in DOMAIN u : g[k] = j /\ Same(u[k], wire[j])  BY <1>6, <2>2
    <3>2. ASSUME NEW p \in DOMAIN u, p >= k, Stale(u[p], l, v)  PROVE FALSE
      <4>1. g[p] >= g[k]
        <5>1. p \in Nat /\ k \in Nat  BY <1>2
        <5>2. p = k \/ k < p  BY <3>2, <5>1
        <5>. QED BY <1>5, <5>2
      <4>. QED BY <1>7, <2>2, <3>1, <3>2, <4>1
    <3>. QED BY <2>2, <3>1, <3>2 DEF Current, IsRead, Same
  <2>3. ASSUME \A p \in DOMAIN wire : p >= i => ~Stale(wire[p], l, v)
        PROVE  Current(u, l, v, z)
    <3>1. i >= i /\ ~Stale(wire[i], l, v)  BY <1>2, <2>3
    <3>2. z = v  BY <2>0, <3>1 DEF Stale, Answer
    <3>3. ASSUME NEW p \in DOMAIN u, Stale(u[p], l, v)  PROVE FALSE
      <4>1. g[p] \in DOMAIN wire /\ g[p] # i /\ Stale(wire[g[p]], l, v) /\ ~Beaten(g[p])  BY <1>7, <3>3
      <4>2. g[p] < i  BY <1>2, <2>3, <4>1
      <4>. QED BY <2>0, <4>1, <4>2 DEF Stale, IsRead
    <3>. QED BY <3>2, <3>3 DEF Current
  <2>4. CASE s = v /\ \A p \in DOMAIN wire : ~Stale(wire[p], l, v)  BY <2>3, <2>4
  <2>5. \/ \E j \in DOMAIN wire : IsDone(wire[j], l)
        \/ \E j \in DOMAIN wire : IsRead(wire[j], l) /\ \A p \in DOMAIN wire : p >= j => ~Stale(wire[p], l, v)
        \/ s = v /\ \A p \in DOMAIN wire : ~Stale(wire[p], l, v)
    BY <1>10 DEF Current
  <2>6. Current(u, l, v, z)
    <3>1. CASE \E j \in DOMAIN wire : IsRead(wire[j], l) /\ \A p \in DOMAIN wire : p >= j => ~Stale(wire[p], l, v)
      <4>1. PICK j \in DOMAIN wire : IsRead(wire[j], l) /\ \A p \in DOMAIN wire : p >= j => ~Stale(wire[p], l, v)
        BY <3>1
      <4>2. CASE j = i  BY <2>3, <4>1, <4>2
      <4>3. CASE j # i  BY <2>2, <4>1, <4>3
      <4>. QED BY <4>2, <4>3
    <3>. QED BY <2>1, <2>4, <2>5, <3>1
  <2>. QED BY <2>6 DEF z
<1>11. \A l, v, s : (\E k \in DOMAIN calls : IsRead(calls[k], l)) => Current(u, l, v, s)  BY <1>9
<1>12. \A l, v, s : ~IsRead(wire[i], l) /\ ~IsDone(wire[i], l) /\ Current(wire, l, v, s) => Current(u, l, v, s)
  BY <1>8
<1>. QED BY <1>10, <1>11, <1>12 DEF u

(* A call is answered: a read with the list as it is, or not at all.       *)
LEMMA CurrentReplied ==
  ASSUME Sound(wire), NEW i \in DOMAIN wire, NEW a, Reply(i, a), NEW l, NEW v, NEW s, Current(wire, l, v, s),
         ~IsDone(wire[i], l), IsRead(wire[i], l) => wire[i].heard /\ a \in {NotYet, Error, Answer(v)}
  PROVE  Current(wire', l, v, s)
<1>1. IsWire(wire)  BY DEF Sound
<1>2. CASE wire[i].heard
  <2>1. /\ IsWire(wire') /\ DOMAIN wire' = DOMAIN wire
        /\ \A k \in DOMAIN wire : k # i => wire'[k] = wire[k]
        /\ wire'[i].op = wire[i].op /\ wire'[i].at = wire[i].at /\ wire'[i].answer = a
    BY <1>1, <1>2, ReplyIs
  <2>. DEFINE g == [k \in DOMAIN wire |-> k]
  <2>2. \A k \in DOMAIN wire' : g[k] = k /\ k \in Nat  BY <1>1, <2>1, WireIs
  <2>. HIDE DEF g
  <2>3. \A k \in DOMAIN wire' : g[k] \in Nat  BY <2>2
  <2>4. \A j, k \in DOMAIN wire' : j < k => g[j] < g[k]  BY <2>2
  <2>5. \A k \in DOMAIN wire' : Stale(wire'[k], l, v) => g[k] \in DOMAIN wire /\ Stale(wire[g[k]], l, v)
    <3>1. ~Stale(wire'[i], l, v)  BY <2>1 DEF Stale, IsRead
    <3>. QED BY <2>1, <2>2, <3>1
  <2>6. \A j \in DOMAIN wire : IsRead(wire[j], l) => \E k \in DOMAIN wire' : g[k] = j /\ IsRead(wire'[k], l)
    BY <2>1, <2>2 DEF IsRead
  <2>7. \A j \in DOMAIN wire : IsDone(wire[j], l) => \E k \in DOMAIN wire' : IsDone(wire'[k], l)
    BY <2>1
  <2>8. IsWire(wire')  BY <2>1
  <2>. QED BY <1>1, <2>3, <2>4, <2>5, <2>6, <2>7, <2>8, CurrentKept
<1>3. CASE ~wire[i].heard
  <2>. DEFINE n == Len(wire) - 1
              g == [k \in 1 .. n |-> Skip(i, k)]
  <2>1. /\ IsWire(wire') /\ Len(wire') = n /\ n \in Nat
        /\ \A k \in 1 .. n : Skip(i, k) \in DOMAIN wire /\ Skip(i, k) # i /\ wire'[k] = wire[Skip(i, k)]
    BY <1>1, <1>3, ReplyIs
  <2>2. DOMAIN wire' = 1 .. n /\ DOMAIN wire = 1 .. n + 1 /\ i \in 1 .. n + 1  BY <1>1, <2>1, WireIs
  <2>. HIDE DEF n
  <2>3. \A k \in DOMAIN wire' : /\ g[k] = Skip(i, k) /\ g[k] \in Nat /\ g[k] \in DOMAIN wire
                                /\ wire'[k] = wire[g[k]]
    BY <2>1, <2>2
  <2>4. \A j, k \in DOMAIN wire' : j < k => g[j] < g[k]
    <3>1. \A k \in DOMAIN wire' : g[k] = Skip(i, k) /\ k \in Nat  BY <2>1, <2>2
    <3>2. i \in Nat  BY <2>1, <2>2
    <3>. QED BY <3>1, <3>2 DEF Skip
  <2>5. \A j \in DOMAIN wire : j # i => \E k \in DOMAIN wire' : g[k] = j /\ wire'[k] = wire[j]
    <3>. SUFFICES ASSUME NEW j \in DOMAIN wire, j # i
                  PROVE  \E k \in DOMAIN wire' : g[k] = j /\ wire'[k] = wire[j]
      OBVIOUS
    <3>. DEFINE k == IF j < i THEN j ELSE j - 1
    <3>1. k \in 1 .. n /\ Skip(i, k) = j  BY <2>1, <2>2 DEF Skip
    <3>. HIDE DEF k, g
    <3>. QED BY <2>2, <2>3, <3>1
  <2>. HIDE DEF g
  <2>6. ~IsRead(wire[i], l)  BY <1>3
  <2>7. \A k \in DOMAIN wire' : g[k] \in Nat  BY <2>3
  <2>8. \A k \in DOMAIN wire' : Stale(wire'[k], l, v) => g[k] \in DOMAIN wire /\ Stale(wire[g[k]], l, v)  BY <2>3
  <2>9. \A j \in DOMAIN wire : IsRead(wire[j], l) => \E k \in DOMAIN wire' : g[k] = j /\ IsRead(wire'[k], l)
    BY <2>5, <2>6
  <2>10. \A j \in DOMAIN wire : IsDone(wire[j], l) => \E k \in DOMAIN wire' : IsDone(wire'[k], l)  BY <2>5
  <2>11. IsWire(wire')  BY <2>1
  <2>. QED BY <1>1, <2>4, <2>7, <2>8, <2>9, <2>10, <2>11, CurrentKept
<1>. QED BY <1>2, <1>3

(* A change is answered to a component that will read the list.            *)
LEMMA CurrentDone ==
  ASSUME Sound(wire), NEW i \in DOMAIN wire, NEW x, Reply(i, Answer(x)), NEW l, NEW v, NEW s,
         wire[i].heard, wire[i].op # "read", wire[i].at[1] = l
  PROVE  Current(wire', l, v, s)
<1>1. \E k \in DOMAIN wire' : /\ wire'[k].op = wire[i].op /\ wire'[k].at = wire[i].at
                              /\ wire'[k].answer = Answer(x)
  BY RepliedCalls DEF Sound
<1>2. Answer(x) \notin {NotYet, Error}  BY DEF Answer, NotYet, Error
<1>. QED BY <1>1, <1>2 DEF Current, IsDone

(* A component goes away that has nothing to do with list l.               *)
LEMMA CurrentLeft ==
  ASSUME NEW w, Sound(w), NEW f, ListCalls(w, f), NEW lists, NEW l, l \notin lists, NEW v, NEW s, Current(w, l, v, s)
  PROVE  Current(Leave(w, lists), l, v, s)
<1>. DEFINE u == Leave(w, lists)
<1>1. IsWire(w)  BY DEF Sound
<1>2. /\ IsWire(u)
      /\ \E g \in [DOMAIN u -> DOMAIN w] :
           /\ \A m, n \in DOMAIN u : m < n => g[m] < g[n]
           /\ \A n \in DOMAIN u : u[n] = Left(w[g[n]], lists) /\ Stays(u[n])
           /\ \A k \in DOMAIN w : Stays(Left(w[k], lists)) => \E n \in DOMAIN u : g[n] = k
  BY <1>1, LeaveIs
<1>. HIDE DEF u
<1>3. PICK g \in [DOMAIN u -> DOMAIN w] :
           /\ \A m, n \in DOMAIN u : m < n => g[m] < g[n]
           /\ \A n \in DOMAIN u : u[n] = Left(w[g[n]], lists)
           /\ \A k \in DOMAIN w : Stays(Left(w[k], lists)) => \E n \in DOMAIN u : g[n] = k
  BY <1>2
<1>4. \A k \in DOMAIN w : LET d == Left(w[k], lists) IN
        Same(d, w[k]) /\ d.heard = (w[k].heard /\ w[k].at[1] \notin lists) /\ d.late = w[k].late
  BY <1>1, WireIs, Left1
<1>5. \A k \in DOMAIN u : g[k] \in DOMAIN w /\ Same(u[k], w[g[k]]) /\ u[k].late = w[g[k]].late  BY <1>3, <1>4
<1>6. \A k \in DOMAIN u : g[k] \in Nat
  <2>1. DOMAIN w \subseteq Nat  BY <1>1, WireIs
  <2>. QED BY <1>5, <2>1
<1>7. \A m, n \in DOMAIN u : m < n => g[m] < g[n]  BY <1>3
<1>8. \A k \in DOMAIN u : Stale(u[k], l, v) => g[k] \in DOMAIN w /\ Stale(w[g[k]], l, v)
  BY <1>5 DEF Stale, IsRead, Same
<1>9. \A j \in DOMAIN w : IsRead(w[j], l) \/ IsDone(w[j], l) => Stays(Left(w[j], lists))
  <2>. SUFFICES ASSUME NEW j \in DOMAIN w, IsRead(w[j], l) \/ IsDone(w[j], l) PROVE Left(w[j], lists).heard
    BY DEF Stays
  <2>1. w[j].heard /\ w[j].at[1] = l  BY DEF IsRead, IsDone, Sound, ListCalls, ListCall
  <2>. QED BY <1>4, <2>1
<1>10. \A j \in DOMAIN w : IsRead(w[j], l) => \E k \in DOMAIN u : g[k] = j /\ IsRead(u[k], l)
  BY <1>3, <1>5, <1>9 DEF IsRead, Same
<1>11. \A j \in DOMAIN w : IsDone(w[j], l) => \E k \in DOMAIN u : IsDone(u[k], l)
  BY <1>3, <1>5, <1>9 DEF IsDone, Same
<1>12. IsWire(u)  BY <1>2
<1>13. Current(u, l, v, s)  BY <1>1, <1>6, <1>7, <1>8, <1>10, <1>11, <1>12, CurrentKept
<1>. QED BY <1>13 DEF u

LEMMA CurrentOrphan ==
  ASSUME NEW w, Sound(w), NEW o, NEW list, NEW l, NEW v, NEW s, Current(w, l, v, s)
  PROVE  Current(Orphan(w, o, list), l, v, s)
<1>. DEFINE u == Orphan(w, o, list)
<1>1. DOMAIN u = DOMAIN w /\ \A k \in DOMAIN w : Same(u[k], w[k]) /\ u[k].late = w[k].late
  <2>1. IsWire(w)  BY DEF Sound
  <2>. QED BY <2>1, OrphanIs
<1>. HIDE DEF u
<1>2. \A k \in DOMAIN w : /\ IsDone(u[k], l) = IsDone(w[k], l) /\ IsRead(u[k], l) = IsRead(w[k], l)
                          /\ Stale(u[k], l, v) = Stale(w[k], l, v)
  BY <1>1 DEF IsDone, IsRead, Stale, Same
<1>3. Current(u, l, v, s)  BY <1>1, <1>2 DEF Current
<1>. QED BY <1>3 DEF u

-----------------------------------------------------------------------------
LEMMA ListsAsked ==
  /\ \A f : Asks(<<>>, f)
  /\ \A o, a, f : ListCall(Call(o, a), f) => Asks(<<Call(o, a)>>, f)
  /\ \A ls : IsFiniteSet(ls) => Asks(ReadAll(ls), focus)
<1>1. ASSUME NEW f  PROVE Asks(<<>>, f)
  <2>1. DOMAIN <<>> = {}  BY NoCalls, WireIs
  <2>. QED BY <2>1, SoundCall DEF Asks, ListCalls
<1>2. ASSUME NEW o, NEW a, NEW f, ListCall(Call(o, a), f)  PROVE Asks(<<Call(o, a)>>, f)
  <2>. DEFINE c == Call(o, a)
  <2>1. IsCall(c) /\ c.answer = NotYet /\ ListCall(c, f) /\ Sound(<<c>>)  BY <1>2, CallIs, SoundCall
  <2>. HIDE DEF c
  <2>2. DOMAIN <<c>> = {1} /\ <<c>>[1] = c  OBVIOUS
  <2>3. Asks(<<c>>, f)  BY <2>1, <2>2 DEF Asks, ListCalls
  <2>. QED BY <2>3 DEF c
<1>3. ASSUME NEW ls, IsFiniteSet(ls)  PROVE Asks(ReadAll(ls), focus)
  <2>. DEFINE q == ReadAll(ls)
  <2>1. Sound(q) /\ \A k \in DOMAIN q : \E l \in focus : q[k] = ReadList(l)  BY <1>3, ReadAllIs
  <2>2. \A l \in focus : ListCall(ReadList(l), focus) /\ ReadList(l).answer = NotYet  BY CallIs DEF ReadList, ListCall
  <2>. HIDE DEF q
  <2>3. Asks(q, focus)  BY <2>1, <2>2 DEF Asks, ListCalls
  <2>. QED BY <2>3 DEF q
<1>. QED BY <1>1, <1>2, <1>3

LEMMA ListsAfter ==
  ASSUME Sound(wire), NEW f, ListCalls(wire, f), NEW i \in DOMAIN wire, NEW calls, Asks(calls, f)
  PROVE  Sound(After(i, calls)) /\ ListCalls(After(i, calls), f)
<1>. DEFINE u == After(i, calls)
<1>1. \A k \in DOMAIN u :
        \/ \E j \in DOMAIN wire \ {i} : Same(u[k], wire[j]) /\ u[k].heard = wire[j].heard
        \/ \E j \in DOMAIN calls : u[k] = calls[j]
  BY AfterCalls DEF Sound, Asks
<1>2. Sound(u)  BY SoundAfter DEF Asks
<1>. HIDE DEF u
<1>3. ListCalls(u, f)  BY <1>1 DEF ListCalls, ListCall, Same, Asks
<1>. QED BY <1>2, <1>3 DEF u

LEMMA ListsSent ==
  ASSUME NEW w, Sound(w), NEW f, ListCalls(w, f), NEW calls, Asks(calls, f), NEW u, u = w \o calls
  PROVE  Sound(u) /\ ListCalls(u, f)
<1>1. \A k \in DOMAIN u : (\E j \in DOMAIN w : u[k] = w[j]) \/ (\E j \in DOMAIN calls : u[k] = calls[j])
  BY SentCalls DEF Sound, Asks
<1>. QED BY <1>1, SoundJoin DEF ListCalls, Asks

LEMMA ListsLeft ==
  ASSUME NEW w, Sound(w), NEW f, ListCalls(w, f), NEW lists
  PROVE  Sound(Leave(w, lists)) /\ ListCalls(Leave(w, lists), f)
<1>. DEFINE u == Leave(w, lists)
<1>1. IsWire(w)  BY DEF Sound
<1>2. \A k \in DOMAIN u :
        /\ u[k].heard \/ (u[k].op # "read" /\ u[k].answer = NotYet)
        /\ \E j \in DOMAIN w : Same(u[k], w[j]) /\ u[k].heard = (w[j].heard /\ w[j].at[1] \notin lists)
  BY <1>1, LeftCalls
<1>3. Sound(u)  BY <1>1, SoundLeave
<1>. HIDE DEF u
<1>4. ListCalls(u, f)  BY <1>2 DEF ListCalls, ListCall, Same
<1>. QED BY <1>3, <1>4 DEF u

LEMMA ListsOrphan ==
  ASSUME NEW w, Sound(w), NEW f, ListCalls(w, f), NEW o, NEW list
  PROVE  Sound(Orphan(w, o, list)) /\ ListCalls(Orphan(w, o, list), f)
<1>. DEFINE u == Orphan(w, o, list)
<1>1. DOMAIN u = DOMAIN w /\ \A k \in DOMAIN w : Same(u[k], w[k]) /\ u[k].heard = w[k].heard
  BY OrphanIs DEF Sound
<1>2. Sound(u)  BY SoundOrphan
<1>. HIDE DEF u
<1>3. ListCalls(u, f)  BY <1>1 DEF ListCalls, ListCall, Same
<1>. QED BY <1>2, <1>3 DEF u

LEMMA ListsReplied ==
  ASSUME Sound(wire), NEW f, ListCalls(wire, f), NEW i \in DOMAIN wire, NEW a, Reply(i, a)
  PROVE  ListCalls(wire', f)
<1>1. \A k \in DOMAIN wire' :
        \/ \E j \in DOMAIN wire \ {i} : wire'[k] = wire[j]
        \/ wire[i].heard /\ wire'[k].op = wire[i].op /\ wire'[k].at = wire[i].at /\ wire'[k].heard
  BY RepliedCalls DEF Sound
<1>. QED BY <1>1 DEF ListCalls, ListCall


(***************************************************************************)
(* The lists, step by step.                                                *)
(***************************************************************************)
LEMMA PageSame ==
  ASSUME UNCHANGED <<view, shown, loading>>
  PROVE  \A l : OnPage(l)' = OnPage(l)
BY DEF OnPage, Section

LEMMA ListsServed ==
  ASSUME Sound(wire), ListsInv, NEW i \in DOMAIN wire, ProjectsServe(i) \/ CallFails(i)
  PROVE  ListsInv'
<1>0. /\ ListsTyped /\ ListCall(wire[i], focus) /\ UNCHANGED <<focus, view, shown, loading, target, open>>
  BY DEF ListsInv, ListsTyped, ListCalls, ProjectsServe, ServeRead, ServeAdd, ServeDrop, ServeSet, CallFails, page
<1>. DEFINE l0 == wire[i].at[1]
<1>1. ASSUME NEW a, Reply(i, a), Grid(rows')  PROVE ListsTyped'
  <2>1. ListCalls(wire', focus')  BY <1>0, <1>1, ListsReplied DEF ListsTyped
  <2>. QED BY <1>0, <1>1, <2>1 DEF ListsTyped
<1>2. \A l : OnPage(l)' = OnPage(l)  BY <1>0, PageSame
<1>3. ASSUME NEW a, Reply(i, a), ~IsDone(wire[i], l0), NEW l \in Lists, Owed(l),
             wire[i].op = "read" /\ l = l0 => a \in {NotYet, Error, Answer(Cut(rows[l]))}
      PROVE  Current(wire', l, Cut(rows[l]), shown[l])
  <2>1. ~IsDone(wire[i], l)  BY <1>3 DEF IsDone
  <2>2. IsRead(wire[i], l) => wire[i].heard /\ a \in {NotYet, Error, Answer(Cut(rows[l]))}
    BY <1>0, <1>3 DEF IsRead, ListCall
  <2>. QED BY <1>3, <2>1, <2>2, CurrentReplied DEF ListsInv
<1>4. ASSUME NEW x, Reply(i, Answer(x)), wire[i].op # "read", wire[i].heard, NEW v, NEW s
      PROVE  Current(wire', l0, v, s)
  BY <1>4, CurrentDone
<1>5. Asked(i) => ~IsDone(wire[i], l0)  BY DEF Asked, IsDone
<1>6. ASSUME NEW a, Reply(i, a), Asked(i), UNCHANGED <<rows, behind>>,
             wire[i].op = "read" => a = Error \/ a = Answer(Cut(rows[l0]))
      PROVE  ListsInv'
  <2>1. ListsTyped'  BY <1>0, <1>1, <1>6 DEF ListsTyped
  <2>2. ASSUME NEW l \in Lists, Owed(l)'  PROVE Current(wire', l, Cut(rows[l]), shown[l])
    <3>1. Owed(l)  BY <1>0, <1>2, <1>6, <2>2 DEF Owed
    <3>. QED BY <1>3, <1>5, <1>6, <3>1
  <2>. QED BY <1>0, <1>6, <2>1, <2>2 DEF ListsInv, Cut
<1>7. CASE ServeRead(i)
  <2>1. /\ Asked(i) /\ UNCHANGED <<rows, behind>>
        /\ Reply(i, Error) \/ Reply(i, Answer(Cut(rows[l0])))
    BY <1>7 DEF ServeRead, history
  <2>. QED BY <1>6, <2>1
<1>8. ASSUME Refuse(i), Asked(i), wire[i].op # "read"  PROVE ListsInv'
  BY <1>6, <1>8 DEF Refuse
<1>. HIDE DEF l0
<1>9. ASSUME NEW x, Reply(i, Answer(x)), Asked(i), wire[i].op # "read", Grid(rows'),
             behind \subseteq behind', ~wire[i].heard => l0 \in behind',
             \A l \in Lists : l # l0 /\ Owed(l)' => rows'[l] = rows[l] /\ Owed(l)
      PROVE  ListsInv'
  <2>1. ListsTyped'  BY <1>1, <1>9
  <2>2. ASSUME NEW l \in Lists, Owed(l)'  PROVE Current(wire', l, Cut(rows'[l]), shown[l])
    <3>1. CASE l = l0
      <4>1. wire[i].heard  BY <1>9, <2>2, <3>1 DEF Owed
      <4>. QED BY <1>4, <1>9, <3>1, <4>1
    <3>2. CASE l # l0
      <4>1. rows'[l] = rows[l] /\ Owed(l)  BY <1>9, <2>2, <3>2
      <4>2. Current(wire', l, Cut(rows[l]), shown[l])  BY <1>3, <1>5, <1>9, <4>1
      <4>. QED BY <4>1, <4>2
    <3>. QED BY <3>1, <3>2
  <2>. QED BY <1>0, <2>1, <2>2 DEF ListsInv, Cut
<1>10. CASE ServeAdd(i)
  <2>1. Asked(i) /\ wire[i].op = "add"  BY <1>10 DEF ServeAdd
  <2>2. CASE ~Refuse(i)
    <3>1. PICK x \in Item :
            /\ rows' = [k \in Lists |->
                 CASE k = l0 -> [rows[l0] EXCEPT ![x] = "on"]
                   [] k = "projects" /\ l0 = "collections" -> [rows[k] EXCEPT ![Home] = "keyed"]
                   [] OTHER -> rows[k]]
            /\ Reply(i, Answer(x))
            /\ behind' = behind \cup (IF wire[i].heard THEN {} ELSE {l0})
                              \cup (IF l0 = "databases" /\ OnPage("indexes") THEN {"indexes"} ELSE {})
                              \cup (IF l0 = "collections" /\ OnPage("projects") THEN {"projects"} ELSE {})
      BY <1>10, <2>2 DEF ServeAdd, l0
    <3>2. Grid(rows')
      <4>1. Grid(rows)  BY <1>0 DEF ListsTyped
      <4>. QED BY <3>1, <4>1 DEF Grid
    <3>3. ASSUME NEW l \in Lists, l # l0, Owed(l)'  PROVE rows'[l] = rows[l] /\ Owed(l)
      <4>1. l \in focus \ behind /\ OnPage(l)  BY <1>0, <1>2, <3>1, <3>3 DEF Owed
      <4>2. ~(l = "projects" /\ l0 = "collections") /\ ~(l = "indexes" /\ l0 = "databases")
        BY <3>1, <3>3, <4>1 DEF Owed
      <4>3. rows'[l] = rows[l]  BY <3>1, <3>3, <4>2
      <4>4. l = "indexes" => rows'["databases"] = rows["databases"]  BY <3>1, <4>2 DEF Lists
      <4>. QED BY <3>3, <4>1, <4>3, <4>4 DEF Owed
    <3>. QED BY <1>9, <2>1, <3>1, <3>2, <3>3
  <2>. QED BY <1>8, <2>1, <2>2
<1>11. CASE ServeDrop(i)
  <2>1. Asked(i) /\ wire[i].op = "drop"  BY <1>11 DEF ServeDrop
  <2>2. CASE ~Refuse(i)
    <3>. DEFINE x == wire[i].at[2]
                e == CASE l0 = "projects" /\ x = Home -> Detail \ {"s3"}
                       [] l0 = "databases" /\ x = Mongo -> {"indexes"}
                       [] OTHER -> {}
    <3>1. /\ rows' = [k \in Lists |-> IF k \in e THEN Empty
                        ELSE IF k = l0 THEN [rows[l0] EXCEPT ![x] = IF l0 = "keys" THEN "gone" ELSE "none"]
                        ELSE rows[k]]
          /\ Reply(i, Answer(x))
          /\ behind' = behind \cup (IF wire[i].heard THEN {} ELSE {l0})
                              \cup (IF l0 = "projects" THEN {k \in e : OnPage(k)} ELSE {})
      BY <1>11, <2>2 DEF ServeDrop, l0
    <3>. HIDE DEF x
    <3>2. Grid(rows')
      <4>1. Grid(rows)  BY <1>0 DEF ListsTyped
      <4>. HIDE DEF e
      <4>. QED BY <3>1, <4>1 DEF Grid, Empty
    <3>3. ASSUME NEW l \in Lists, l # l0, Owed(l)'  PROVE rows'[l] = rows[l] /\ Owed(l)
      <4>1. l \in focus \ behind /\ OnPage(l)  BY <1>0, <1>2, <3>1, <3>3 DEF Owed
      <4>2. "databases" \in Lists /\ Mongo \in Item /\ rows["databases"] = [y \in Item |-> rows["databases"][y]]
        BY <1>0, ProjectsAssumption DEF Lists, ListsTyped, Grid
      <4>3. l = "indexes" /\ l0 = "databases" => x # Mongo
        <5>. SUFFICES ASSUME l = "indexes", l0 = "databases", x = Mongo PROVE FALSE  OBVIOUS
        <5>1. "databases" \notin e  OBVIOUS
        <5>. HIDE DEF e
        <5>2. rows'["databases"][Mongo] = "none"  BY <3>1, <4>2, <5>1
        <5>. QED BY <3>3, <5>2 DEF Owed
      <4>4. l \notin e  BY <3>1, <3>3, <4>1, <4>3 DEF Owed
      <4>5. l = "indexes" => "databases" \notin e  BY <4>4 DEF Detail, Lists
      <4>. HIDE DEF e
      <4>6. rows'[l] = rows[l]  BY <3>1, <3>3, <4>4
      <4>7. l = "indexes" => rows'["databases"][Mongo] = rows["databases"][Mongo]
        BY <3>1, <4>2, <4>3, <4>5
      <4>. QED BY <3>3, <4>1, <4>6, <4>7 DEF Owed
    <3>. QED BY <1>9, <2>1, <3>1, <3>2, <3>3
  <2>. QED BY <1>8, <2>1, <2>2
<1>12. CASE ServeSet(i)
  <2>1. Asked(i) /\ wire[i].op = "set" /\ l0 = "collections"
    BY <1>0, <1>12 DEF ServeSet, ListCall, l0
  <2>2. CASE ~Refuse(i)
    <3>1. PICK x, s : /\ rows' = rows \/ rows' = [rows EXCEPT !["collections"][x] = s]
                      /\ Reply(i, Answer(x))
      BY <1>12, <2>2 DEF ServeSet
    <3>2. behind' = IF wire[i].heard THEN behind ELSE behind \cup {l0}
      BY <1>12, <2>2 DEF ServeSet, Missed, l0
    <3>3. Grid(rows') /\ \A l \in Lists : l # "collections" => rows'[l] = rows[l]
      <4>1. Grid(rows)  BY <1>0 DEF ListsTyped
      <4>. QED BY <3>1, <4>1 DEF Grid
    <3>4. ASSUME NEW l \in Lists, l # l0, Owed(l)'  PROVE rows'[l] = rows[l] /\ Owed(l)
      <4>1. rows'[l] = rows[l] /\ rows'["databases"] = rows["databases"]  BY <2>1, <3>3, <3>4 DEF Lists
      <4>. QED BY <1>0, <1>2, <3>2, <3>4, <4>1 DEF Owed
    <3>. QED BY <1>9, <2>1, <3>1, <3>2, <3>3, <3>4
  <2>. QED BY <1>8, <2>1, <2>2
<1>13. CASE CallFails(i)
  <2>1. /\ Reply(i, Error) /\ UNCHANGED rows
        /\ behind' = IF wire[i].answer # NotYet THEN behind \cup {l0} ELSE behind
    BY <1>13 DEF CallFails, Fail, l0
  <2>2. ListsTyped'  BY <1>0, <1>1, <2>1 DEF ListsTyped
  <2>3. ASSUME NEW l \in Lists, Owed(l)'  PROVE Current(wire', l, Cut(rows[l]), shown[l])
    <3>1. Owed(l)  BY <1>0, <1>2, <2>1, <2>3 DEF Owed
    <3>2. ~IsDone(wire[i], l)  BY <2>1, <2>3 DEF Owed, IsDone, l0
    <3>3. IsRead(wire[i], l) => wire[i].heard  BY <1>0 DEF IsRead, ListCall
    <3>. QED BY <2>1, <3>1, <3>2, <3>3, CurrentReplied DEF ListsInv
  <2>. QED BY <1>0, <2>1, <2>2, <2>3 DEF ListsInv, Cut
<1>. QED BY <1>7, <1>10, <1>11, <1>12, <1>13 DEF ProjectsServe


LEMMA ListsWentOn ==
  ASSUME Sound(wire), ListsInv, NEW i \in DOMAIN wire, ProjectsGoOn(i)
  PROVE  ListsInv'
<1>. DEFINE l0 == wire[i].at[1]
<1>0. ListsTyped /\ ListCall(wire[i], focus) /\ l0 \in focus
  BY DEF ListsInv, ListsTyped, ListCalls, ListCall
<1>1. Asks(<<>>, focus) /\ \A o, a : o # "set" /\ a[1] \in focus => Asks(<<Call(o, a)>>, focus)
  <2>1. \A o, a : o # "set" /\ a[1] \in focus => ListCall(Call(o, a), focus)  BY CallIs DEF ListCall
  <2>. QED BY <2>1, ListsAsked
<1>. DEFINE w == After(i, <<>>)
<1>2. Sound(w) /\ ListCalls(w, focus)  BY <1>0, <1>1, ListsAfter DEF ListsTyped
<1>3. /\ \A l, v, s : ~IsRead(wire[i], l) /\ ~IsDone(wire[i], l) /\ Current(wire, l, v, s) => Current(w, l, v, s)
      /\ \A l, v, s : Fetched(wire[i], l) /\ Current(wire, l, v, s) => Current(w, l, v, wire[i].answer[2])
  BY <1>1, CurrentAfter
<1>4. \A l : l # l0 => ~IsRead(wire[i], l) /\ ~IsDone(wire[i], l)  BY DEF IsRead, IsDone
<1>. HIDE DEF w, l0
<1>5. ASSUME wire' = w, UNCHANGED <<focus, rows, view>>,
             shown' = [l \in Lists |-> shown'[l]], \A l \in Lists : l # l0 => shown'[l] = shown[l],
             \A l \in Lists : OnPage(l)' => OnPage(l),
             target' = [l \in Lists |-> target'[l]], \A l \in Lists : target'[l] \in {target[l], NoItem},
             open' \subseteq open, behind \subseteq behind',
             "databases" \in loading' => "databases" \in loading,
             l0 = "databases" /\ l0 \in loading' => shown'[l0] = Empty,
             l0 \notin behind' => Fetched(wire[i], l0) /\ shown'[l0] = wire[i].answer[2]
      PROVE  ListsInv'
  <2>1. ListsTyped'
    <3>1. "databases" \in loading' \/ "databases" \notin focus => shown'["databases"] = Empty
      BY <1>0, <1>5 DEF ListsTyped, Lists
    <3>. QED BY <1>0, <1>2, <1>5, <3>1 DEF ListsTyped
  <2>2. ASSUME NEW l \in Lists, Owed(l)'  PROVE Current(wire', l, Cut(rows[l]), shown'[l])
    <3>1. Owed(l)  BY <1>5, <2>2 DEF Owed
    <3>2. Current(wire, l, Cut(rows[l]), shown[l])  BY <3>1 DEF ListsInv
    <3>3. CASE l = l0
      <4>1. l0 \notin behind'  BY <2>2, <3>3 DEF Owed
      <4>. QED BY <1>3, <1>5, <3>2, <3>3, <4>1
    <3>4. CASE l # l0  BY <1>3, <1>4, <1>5, <3>2, <3>4
    <3>. QED BY <3>3, <3>4
  <2>. QED BY <1>5, <2>1, <2>2 DEF ListsInv, Cut
<1>6. CASE Listed(i)
  <2>1. /\ wire[i].op = "read" /\ wire[i].answer \notin {NotYet, Error} /\ l0 # "databases"
        /\ shown' = [shown EXCEPT ![l0] = wire[i].answer[2]] /\ loading' = loading \ {l0}
        /\ behind' = (IF wire[i].late THEN behind \cup {l0} ELSE behind)
        /\ wire' = w /\ UNCHANGED <<focus, rows, view, open, target>>
    BY <1>6 DEF Listed, Came, Value, w, l0
  <2>2. \A l \in Lists : OnPage(l)' => OnPage(l)  BY <1>0, <2>1 DEF OnPage, Section, ListsTyped, Lists
  <2>3. shown' = [l \in Lists |-> shown'[l]] /\ \A l \in Lists : l # l0 => shown'[l] = shown[l]
    BY <1>0, <2>1 DEF ListsTyped
  <2>4. shown'[l0] = wire[i].answer[2]  BY <1>0, <2>1 DEF ListsTyped
  <2>5. l0 \notin behind' => Fetched(wire[i], l0)  BY <2>1 DEF Fetched, IsRead, l0
  <2>. QED BY <1>0, <1>5, <2>1, <2>2, <2>3, <2>4, <2>5 DEF ListsTyped
<1>7. CASE ListFails(i)
  <2>1. /\ wire[i].op = "read"
        /\ shown' = (IF l0 = "s3" THEN [shown EXCEPT ![l0] = Empty] ELSE shown) /\ loading' = loading \ {l0}
        /\ behind' = behind \cup {l0}
        /\ wire' = w /\ UNCHANGED <<focus, rows, view, open, target>>
    BY <1>7 DEF ListFails, Failed, w, l0
  <2>2. \A l \in Lists : OnPage(l)' => OnPage(l)
    <3>1. Empty[Mongo] # "on"  BY ProjectsAssumption DEF Empty
    <3>. QED BY <1>0, <2>1, <3>1 DEF OnPage, Section, ListsTyped, Lists
  <2>3. shown' = [l \in Lists |-> shown'[l]] /\ \A l \in Lists : l # l0 => shown'[l] = shown[l]
    BY <1>0, <2>1 DEF ListsTyped
  <2>. QED BY <1>0, <1>5, <2>1, <2>2, <2>3 DEF ListsTyped
<1>8. CASE DatabasesListed(i)
  <2>. DEFINE was == Section(shown["databases"], loading)
              is  == Section(wire[i].answer[2], {})
              idx == {"indexes"} \cap focus
  <2>1. /\ wire[i].op = "read" /\ wire[i].answer \notin {NotYet, Error} /\ l0 = "databases"
        /\ shown' = [shown EXCEPT !["databases"] = wire[i].answer[2],
                                  !["indexes"] = IF was /\ is THEN @ ELSE Empty]
        /\ loading' = (loading \ {"databases"}) \cup (IF is /\ ~was THEN idx ELSE {})
        /\ open' \in {open, open \ {"indexes"}} /\ target' \in {target, [target EXCEPT !["indexes"] = NoItem]}
        /\ UNCHANGED <<focus, rows, view>>
    BY <1>8 DEF DatabasesListed, Came, Value, l0
  <2>2. wire' = IF was /\ ~is THEN Leave(w, {"indexes"})
                ELSE After(i, IF was THEN <<>> ELSE IF is THEN ReadAll(idx) ELSE <<>>)
    BY <1>8 DEF DatabasesListed, Value, w
  <2>3. /\ \A l : l # "indexes" /\ l \notin behind' => l \notin behind
        /\ was => behind \subseteq behind'
        /\ "databases" \notin behind' => ~wire[i].late
    BY <1>8 DEF DatabasesListed
  <2>. HIDE DEF was, is
  <2>4. shown' = [l \in Lists |-> shown'[l]] /\ target' = [l \in Lists |-> target'[l]]
    BY <1>0, <2>1 DEF ListsTyped
  <2>5. /\ shown'["databases"] = wire[i].answer[2]
        /\ was /\ is => shown'["indexes"] = shown["indexes"]
        /\ \A l \in Lists : l \notin {"databases", "indexes"} => shown'[l] = shown[l]
    BY <1>0, <2>1 DEF ListsTyped, Lists
  <2>6. \A l \in Lists : target'[l] \in {target[l], NoItem}  BY <1>0, <2>1 DEF ListsTyped
  <2>7. /\ IsRead(wire[i], "databases") /\ "databases" \in focus /\ "databases" \notin loading'
        /\ "databases" \notin behind' => Fetched(wire[i], "databases")
    <3>1. IsRead(wire[i], "databases")  BY <2>1 DEF IsRead, l0
    <3>2. "databases" \notin loading'  BY <2>1
    <3>3. "databases" \notin behind' => Fetched(wire[i], "databases")  BY <2>1, <2>3, <3>1 DEF Fetched
    <3>. QED BY <1>0, <2>1, <3>1, <3>2, <3>3
  <2>. DEFINE calls == IF was THEN <<>> ELSE IF is THEN ReadAll(idx) ELSE <<>>
  <2>8. Asks(calls, focus)
    <3>1. Asks(ReadAll(idx), focus)  BY FewLists, ListsAsked
    <3>. QED BY <1>1, <3>1
  <2>9. /\ Sound(After(i, calls)) /\ ListCalls(After(i, calls), focus)
        /\ \A l, v, s : ~IsRead(wire[i], l) /\ ~IsDone(wire[i], l) /\ Current(wire, l, v, s)
                          => Current(After(i, calls), l, v, s)
        /\ \A l, v, s : (\E k \in DOMAIN calls : IsRead(calls[k], l)) => Current(After(i, calls), l, v, s)
        /\ \A l, v, s : Fetched(wire[i], l) /\ Current(wire, l, v, s)
                          => Current(After(i, calls), l, v, wire[i].answer[2])
    BY <1>0, <2>8, ListsAfter, CurrentAfter DEF ListsTyped
  <2>10. ListsTyped'
    <3>1. ListCalls(wire', focus)
      <4>1. CASE was /\ ~is  BY <1>2, <2>2, <4>1, ListsLeft
      <4>2. CASE ~(was /\ ~is)  BY <2>2, <2>9, <4>2
      <4>. QED BY <4>1, <4>2
    <3>. QED BY <1>0, <2>1, <2>4, <2>6, <2>7, <3>1 DEF ListsTyped
  <2>11. ASSUME NEW l, l # "indexes", NEW v, NEW s, Current(w, l, v, s), Current(After(i, calls), l, v, s)
         PROVE  Current(wire', l, v, s)
    <3>1. CASE was /\ ~is
      <4>1. l \notin {"indexes"}  BY <2>11
      <4>2. Current(Leave(w, {"indexes"}), l, v, s)  BY <1>2, <2>11, <4>1, CurrentLeft
      <4>. QED BY <2>2, <3>1, <4>2
    <3>2. CASE ~(was /\ ~is)  BY <2>2, <2>11, <3>2
    <3>. QED BY <3>1, <3>2
  <2>. HIDE DEF calls
  <2>12. ASSUME NEW l \in Lists, Owed(l)'  PROVE Current(wire', l, Cut(rows[l]), shown'[l])
    <3>1. CASE l = "databases"
      <4>1. Owed(l)  BY <2>1, <2>3, <2>12, <3>1 DEF Owed, OnPage
      <4>2. Current(wire, l, Cut(rows[l]), shown[l])  BY <4>1 DEF ListsInv
      <4>3. Fetched(wire[i], l)  BY <2>7, <2>12, <3>1 DEF Owed
      <4>4. Current(w, l, Cut(rows[l]), shown'[l]) /\ Current(After(i, calls), l, Cut(rows[l]), shown'[l])
        BY <1>3, <2>5, <2>9, <3>1, <4>2, <4>3
      <4>. QED BY <2>11, <3>1, <4>4
    <3>2. CASE l \notin {"databases", "indexes"}
      <4>1. Owed(l)  BY <2>1, <2>3, <2>12, <3>2 DEF Owed, OnPage
      <4>2. Current(wire, l, Cut(rows[l]), shown'[l])  BY <2>5, <3>2, <4>1 DEF ListsInv
      <4>3. Current(w, l, Cut(rows[l]), shown'[l]) /\ Current(After(i, calls), l, Cut(rows[l]), shown'[l])
        BY <1>3, <1>4, <2>1, <2>9, <3>2, <4>2
      <4>. QED BY <2>11, <3>2, <4>3
    <3>3. CASE l = "indexes"
      <4>1. is
        <5>1. Section(shown'["databases"], loading')  BY <2>12, <3>3 DEF Owed, OnPage
        <5>. QED BY <2>5, <5>1 DEF Section, is
      <4>2. CASE was
        <5>1. OnPage(l)  BY <2>1, <2>12, <3>3, <4>2 DEF Owed, OnPage, was
        <5>2. Owed(l)  BY <2>1, <2>3, <2>12, <4>2, <5>1 DEF Owed
        <5>3. Current(wire, l, Cut(rows[l]), shown'[l])  BY <2>5, <3>3, <4>1, <4>2, <5>2 DEF ListsInv
        <5>4. Current(After(i, calls), l, Cut(rows[l]), shown'[l])  BY <1>4, <2>1, <2>9, <3>3, <5>3
        <5>. QED BY <2>2, <4>1, <5>4 DEF calls
      <4>3. CASE ~was
        <5>1. calls = ReadAll(idx) /\ l \in idx \cap focus
          BY <2>1, <2>12, <3>3, <4>1, <4>3 DEF calls, Owed
        <5>2. \E k \in DOMAIN ReadAll(idx) : ReadAll(idx)[k] = ReadList(l)
          <6>. HIDE DEF idx
          <6>1. IsFiniteSet(idx)  BY FewLists DEF idx
          <6>. QED BY <5>1, <6>1, ReadAllIs
        <5>3. IsRead(ReadList(l), l)  BY CallIs DEF IsRead, ReadList
        <5>4. Current(After(i, calls), l, Cut(rows[l]), shown'[l])  BY <2>9, <5>1, <5>2, <5>3
        <5>. QED BY <2>2, <4>1, <4>3, <5>4 DEF calls
      <4>. QED BY <4>2, <4>3
    <3>. QED BY <3>1, <3>2, <3>3
  <2>. QED BY <2>1, <2>10, <2>12 DEF ListsInv, Cut
<1>9. ASSUME NEW u, wire' = u, Sound(u), ListCalls(u, focus),
             \A l, v, s : l # l0 /\ Current(wire, l, v, s) => Current(u, l, v, s),
             \A v, s : Current(u, l0, v, s),
             UNCHANGED <<focus, rows, view, shown, loading, behind>>, open' \subseteq open,
             target' = [l \in Lists |-> target'[l]], \A l \in Lists : target'[l] \in {target[l], NoItem}
      PROVE  ListsInv'
  <2>1. ListsTyped'  BY <1>0, <1>9 DEF ListsTyped
  <2>2. ASSUME NEW l \in Lists, Owed(l)'  PROVE Current(wire', l, Cut(rows[l]), shown[l])
    <3>1. Owed(l)  BY <1>9, <2>2, PageSame DEF Owed
    <3>. QED BY <1>9, <3>1 DEF ListsInv
  <2>. QED BY <1>9, <2>1, <2>2 DEF ListsInv, Cut
<1>10. ASSUME NEW a, a[1] = l0, wire' = After(i, <<Call("read", a)>>),
              UNCHANGED <<focus, rows, view, shown, loading, behind>>, open' \subseteq open,
              target' = [l \in Lists |-> target'[l]], \A l \in Lists : target'[l] \in {target[l], NoItem}
       PROVE  ListsInv'
  <2>. DEFINE q == <<Call("read", a)>>
              u == After(i, q)
  <2>1. Asks(q, focus)  BY <1>0, <1>1, <1>10
  <2>2. 1 \in DOMAIN q /\ IsRead(q[1], l0)  BY <1>10, CallIs DEF IsRead
  <2>. HIDE DEF q
  <2>3. /\ Sound(u) /\ ListCalls(u, focus)
        /\ \A l, v, s : l # l0 /\ Current(wire, l, v, s) => Current(u, l, v, s)
        /\ \A v, s : Current(u, l0, v, s)
    BY <1>0, <1>4, <2>1, <2>2, ListsAfter, CurrentAfter DEF ListsTyped
  <2>4. wire' = u  BY <1>10 DEF q
  <2>. HIDE DEF u
  <2>. QED BY <1>9, <1>10, <2>3, <2>4
<1>11. CASE RowCreated(i)
  <2>. DEFINE q == <<Call("read", <<l0>>)>>
  <2>1. /\ wire' = w \o q /\ open' = open \ {l0} /\ UNCHANGED <<focus, rows, view, shown, loading, behind, target>>
    BY <1>11 DEF RowCreated, history, ReadList, w, l0
  <2>2. Asks(q, focus)  BY <1>0, <1>1
  <2>3. 1 \in DOMAIN q /\ IsRead(q[1], l0)  BY CallIs DEF IsRead
  <2>. HIDE DEF q
  <2>4. /\ Sound(wire') /\ ListCalls(wire', focus)
        /\ \A l, v, s : Current(w, l, v, s) => Current(wire', l, v, s)
        /\ \A v, s : Current(wire', l0, v, s)
    BY <1>2, <2>1, <2>2, <2>3, ListsSent, CurrentSent
  <2>. QED BY <1>0, <1>3, <1>4, <1>9, <2>1, <2>4 DEF ListsTyped
<1>12. CASE KeyCreated(i)
  BY <1>0, <1>10, <1>12 DEF KeyCreated, ReadList, l0, ListsTyped
<1>13. CASE IndexCreated(i)
  <2>1. /\ wire' = After(i, <<Call("read", <<"indexes", "add">>)>>) /\ <<"indexes", "add">>[1] = l0
        /\ UNCHANGED <<focus, rows, view, shown, loading, behind, target>> /\ open' \subseteq open
    BY <1>13 DEF IndexCreated, history, l0
  <2>. QED BY <1>0, <1>10, <2>1 DEF ListsTyped
<1>14. CASE Provisioned(i)
  BY <1>0, <1>10, <1>14 DEF Provisioned, ReadList, l0, ListsTyped, pvars, page, history
<1>15. ASSUME NEW l \in Lists, NEW a, a[1] = l, Gone(i, l, Call("read", a))  PROVE ListsInv'
  <2>1. /\ wire' = After(i, <<Call("read", a)>>) /\ a[1] = l0
        /\ target' = [target EXCEPT ![l] = NoItem]
        /\ UNCHANGED <<focus, rows, view, shown, loading, behind, open>>
    BY <1>15 DEF Gone, history, l0
  <2>2. target' = [k \in Lists |-> target'[k]] /\ \A k \in Lists : target'[k] \in {target[k], NoItem}
    BY <1>0, <2>1 DEF ListsTyped
  <2>. QED BY <1>10, <2>1, <2>2
<1>16. CASE \/ ProjectDeleted(i) \/ KeyRevoked(i) \/ CollectionDeleted(i) \/ Deprovisioned(i) \/ IndexDropped(i)
  <2>1. \E l \in Lists : \E a : a[1] = l /\ Gone(i, l, Call("read", a))
    <3>1. CASE IndexDropped(i)
      <4>1. <<"indexes", "drop">>[1] = "indexes" /\ "indexes" \in Lists  BY DEF Lists
      <4>. QED BY <3>1, <4>1 DEF IndexDropped
    <3>2. ASSUME NEW l \in Lists, Gone(i, l, ReadList(l))
          PROVE  \E k \in Lists : \E a : a[1] = k /\ Gone(i, k, Call("read", a))
      <4>1. <<l>>[1] = l  OBVIOUS
      <4>. QED BY <3>2, <4>1 DEF ReadList
    <3>. QED BY <1>16, <3>1, <3>2 DEF ProjectDeleted, KeyRevoked, CollectionDeleted, Deprovisioned, Lists
  <2>. QED BY <1>15, <2>1
<1>17. CASE CollectionSet(i)
  <2>1. l0 = "collections"  BY <1>0, <1>17 DEF CollectionSet, Came, ListCall, l0
  <2>. QED BY <1>0, <1>10, <1>17, <2>1 DEF CollectionSet, ReadList, ListsTyped, pvars, page, history
<1>18. CASE ChangeFails(i)
  <2>1. wire' = w /\ UNCHANGED <<focus, rows, view, shown, loading, behind, open, target>>
    BY <1>18 DEF ChangeFails, pvars, page, history, w
  <2>2. \A l : ~IsRead(wire[i], l) /\ ~IsDone(wire[i], l)  BY <1>18 DEF ChangeFails, Failed, IsRead, IsDone
  <2>3. \A l, v, s : Current(wire, l, v, s) => Current(wire', l, v, s)  BY <1>3, <2>1, <2>2
  <2>4. ListsTyped'  BY <1>0, <1>2, <2>1 DEF ListsTyped
  <2>5. ASSUME NEW l \in Lists, Owed(l)'  PROVE Current(wire', l, Cut(rows[l]), shown[l])
    <3>1. Owed(l)  BY <2>1, <2>5, PageSame DEF Owed
    <3>. QED BY <2>3, <3>1 DEF ListsInv
  <2>. QED BY <2>1, <2>4, <2>5 DEF ListsInv, Cut
<1>. QED BY <1>6, <1>7, <1>8, <1>11, <1>12, <1>13, <1>14, <1>16, <1>17, <1>18 DEF ProjectsGoOn


LEMMA ListsClicked ==
  ASSUME Sound(wire), ListsInv, ProjectsClick
  PROVE  ListsInv'
<1>0. ListsTyped  BY DEF ListsInv
<1>1. \A o, a : o # "set" /\ a[1] \in focus => Asks(<<Call(o, a)>>, focus)
  <2>1. \A o, a : o # "set" /\ a[1] \in focus => ListCall(Call(o, a), focus)  BY CallIs DEF ListCall
  <2>. QED BY <2>1, ListsAsked
<1>2. ASSUME NEW u, wire' = u, ListCalls(u, focus),
             \A l, v, s : Current(wire, l, v, s) => Current(u, l, v, s),
             UNCHANGED <<focus, rows, view, shown, behind>>, "databases" \in loading' <=> "databases" \in loading,
             open' \subseteq focus, target' = [l \in Lists |-> target'[l]],
             \A l \in Lists : target'[l] # NoItem => l \in focus
      PROVE  ListsInv'
  <2>1. ListsTyped'  BY <1>0, <1>2 DEF ListsTyped
  <2>2. ASSUME NEW l \in Lists, Owed(l)'  PROVE Current(wire', l, Cut(rows[l]), shown[l])
    <3>1. Owed(l)  BY <1>2, <2>2 DEF Owed, OnPage, Section
    <3>. QED BY <1>2, <3>1 DEF ListsInv
  <2>. QED BY <1>2, <2>1, <2>2 DEF ListsInv, Cut
<1>3. ASSUME NEW calls, Asks(calls, focus), Send(calls),
             UNCHANGED <<focus, rows, view, shown, behind, open>>,
             "databases" \in loading' <=> "databases" \in loading,
             target' = [l \in Lists |-> target'[l]], \A l \in Lists : target'[l] # NoItem => l \in focus
      PROVE  ListsInv'
  <2>1. ListCalls(wire', focus) /\ \A l, v, s : Current(wire, l, v, s) => Current(wire', l, v, s)
    BY <1>0, <1>3, ListsSent, CurrentSent DEF ListsTyped, Send
  <2>. QED BY <1>0, <1>2, <1>3, <2>1 DEF ListsTyped
<1>4. ASSUME UNCHANGED <<focus, rows, view, shown, behind, loading, wire>>, open' \subseteq focus,
             target' = [l \in Lists |-> target'[l]], \A l \in Lists : target'[l] # NoItem => l \in focus
      PROVE  ListsInv'
  BY <1>0, <1>2, <1>4 DEF ListsTyped
<1>5. CASE OpenProject
  <2>. DEFINE ls == Detail \ {"indexes"}
              q == ReadAll(ls)
  <2>1. /\ view' = "detail" /\ loading' = loading \cup (ls \cap focus)
        /\ shown' = [l \in Lists |-> IF l = "projects" THEN shown[l] ELSE Empty]
        /\ wire' = wire \o q /\ UNCHANGED <<focus, rows, open, target>>
    BY <1>5 DEF OpenProject, Send
  <2>2. IsFiniteSet(ls)  BY FewLists
  <2>3. Asks(q, focus) /\ \A l \in ls \cap focus : \E k \in DOMAIN q : q[k] = ReadList(l)
    BY <2>2, ListsAsked, ReadAllIs
  <2>. HIDE DEF q
  <2>4. /\ ListCalls(wire', focus)
        /\ \A l, v, s : (\E k \in DOMAIN q : IsRead(q[k], l)) => Current(wire', l, v, s)
    BY <1>0, <2>1, <2>3, ListsSent, CurrentSent DEF ListsTyped
  <2>5. \A l : IsRead(ReadList(l), l)  BY CallIs DEF IsRead, ReadList
  <2>6. \A l \in ls \cap focus : \A v, s : Current(wire', l, v, s)  BY <2>3, <2>4, <2>5
  <2>7. shown' = [l \in Lists |-> shown'[l]] /\ shown'["databases"] = Empty  BY <2>1 DEF Lists
  <2>8. ListsTyped'  BY <1>0, <2>1, <2>4, <2>7 DEF ListsTyped
  <2>9. ASSUME NEW l \in Lists, Owed(l)'  PROVE l \in ls \cap focus
    <3>1. l \in focus /\ l # "projects"  BY <2>1, <2>9 DEF Owed, OnPage
    <3>2. l # "indexes"
      <4>1. Empty[Mongo] # "on"  BY ProjectsAssumption DEF Empty
      <4>. QED BY <2>7, <2>9, <4>1 DEF Owed, OnPage, Section
    <3>. QED BY <3>1, <3>2 DEF Detail
  <2>. QED BY <2>6, <2>8, <2>9 DEF ListsInv
<1>6. CASE BackToList
  <2>. DEFINE q == ReadAll({"projects"})
              w == Leave(wire, Detail)
  <2>1. /\ view' = "list" /\ loading' = loading \ Detail
        /\ shown' = [l \in Lists |-> IF l = "projects" THEN shown[l] ELSE Empty]
        /\ wire' = w \o q /\ UNCHANGED <<focus, rows, open, target>>
    BY <1>6 DEF BackToList
  <2>2. Asks(q, focus) /\ ("projects" \in focus => \E k \in DOMAIN q : q[k] = ReadList("projects"))
    BY FewLists, ListsAsked, ReadAllIs
  <2>3. Sound(w) /\ ListCalls(w, focus)  BY <1>0, ListsLeft DEF ListsTyped
  <2>. HIDE DEF q, w
  <2>4. /\ ListCalls(wire', focus)
        /\ \A l, v, s : (\E k \in DOMAIN q : IsRead(q[k], l)) => Current(wire', l, v, s)
    BY <2>1, <2>2, <2>3, ListsSent, CurrentSent
  <2>5. \A l : IsRead(ReadList(l), l)  BY CallIs DEF IsRead, ReadList
  <2>6. "projects" \in focus => \A v, s : Current(wire', "projects", v, s)  BY <2>2, <2>4, <2>5
  <2>7. shown' = [l \in Lists |-> shown'[l]] /\ shown'["databases"] = Empty  BY <2>1 DEF Lists
  <2>8. ListsTyped'  BY <1>0, <2>1, <2>4, <2>7 DEF ListsTyped
  <2>9. \A l \in Lists : Owed(l)' => l = "projects" /\ l \in focus  BY <2>1 DEF Owed, OnPage
  <2>. QED BY <2>6, <2>8, <2>9 DEF ListsInv
<1>7. CASE RefreshS3Credentials
  <2>1. /\ Send(<<Call("read", <<"s3">>)>>) /\ "s3" \in focus /\ loading' = loading \cup {"s3"}
        /\ UNCHANGED <<focus, rows, view, shown, behind, open, target>>
    BY <1>7 DEF RefreshS3Credentials, Click, ReadList, history
  <2>2. Asks(<<Call("read", <<"s3">>)>>, focus)  BY <1>1, <2>1
  <2>. QED BY <1>0, <1>3, <2>1, <2>2 DEF ListsTyped
<1>8. ASSUME NEW o, NEW a, a[1] \in focus, o # "set", Send(<<Call(o, a)>>),
             UNCHANGED <<focus, rows, view, shown, behind, open, loading>>,
             target' = [l \in Lists |-> target'[l]], \A l \in Lists : target'[l] # NoItem => l \in focus
      PROVE  ListsInv'
  BY <1>1, <1>3, <1>8
<1>9. ASSUME NEW l \in Lists, RefreshList(l)  PROVE ListsInv'
  BY <1>0, <1>8, <1>9 DEF RefreshList, Click, ReadList, pvars, page, history, ListsTyped
<1>10. ASSUME NEW l \in Lists, OpenForm(l)  PROVE ListsInv'
  BY <1>0, <1>4, <1>10 DEF OpenForm, Click, ListsTyped
<1>11. ASSUME NEW l \in Lists, CloseForm(l)  PROVE ListsInv'
  <2>1. /\ UNCHANGED <<focus, rows, view, shown, behind, loading, target>> /\ open' \subseteq open
        /\ wire' = wire \/ wire' = Orphan(wire, "add", l)
    BY <1>11 DEF CloseForm
  <2>2. CASE wire' = wire  BY <1>0, <1>4, <2>1, <2>2 DEF ListsTyped
  <2>3. CASE wire' = Orphan(wire, "add", l)
    <3>1. ListCalls(wire', focus) /\ \A k, v, s : Current(wire, k, v, s) => Current(wire', k, v, s)
      BY <1>0, <2>3, ListsOrphan, CurrentOrphan DEF ListsTyped
    <3>. QED BY <1>0, <1>2, <2>1, <3>1 DEF ListsTyped
  <2>. QED BY <2>1, <2>2, <2>3
<1>12. ASSUME NEW l \in Lists, SubmitForm(l)  PROVE ListsInv'
  BY <1>0, <1>8, <1>12 DEF SubmitForm, pvars, page, history, ListsTyped
<1>13. ASSUME NEW l \in Lists, CancelPick(l)  PROVE ListsInv'
  BY <1>0, <1>4, <1>13 DEF CancelPick, history, ListsTyped
<1>14. ASSUME NEW x \in Item, Provision(x) \/ ToggleSync(x) \/ Resync(x)  PROVE ListsInv'
  <2>1. CASE Provision(x)
    BY <1>0, <1>8, <2>1 DEF Provision, Click, pvars, page, history, ListsTyped
  <2>2. CASE ToggleSync(x) \/ Resync(x)
    <3>1. /\ \E s : Send(<<Call("set", <<"collections", x, s>>)>>)
          /\ "collections" \in focus /\ UNCHANGED <<focus, rows, view, shown, behind, open, loading, target>>
      BY <2>2 DEF ToggleSync, Resync, Click, pvars, page, history
    <3>2. \A s : Asks(<<Call("set", <<"collections", x, s>>)>>, focus)
      <4>1. \A s : ListCall(Call("set", <<"collections", x, s>>), focus)  BY <3>1, CallIs DEF ListCall
      <4>. QED BY <4>1, ListsAsked
    <3>. QED BY <1>0, <1>3, <3>1, <3>2 DEF ListsTyped
  <2>. QED BY <1>14, <2>1, <2>2
<1>15. ASSUME NEW l \in Lists, NEW x, Pick(l, x)  PROVE ListsInv'
  BY <1>0, <1>4, <1>15 DEF Pick, Click, history, ListsTyped
<1>16. ASSUME NEW x \in Item,
              PickProject(x) \/ PickKey(x) \/ PickCollection(x) \/ PickDatabase(x) \/ PickIndex(x)
       PROVE  ListsInv'
  BY <1>15, <1>16 DEF PickProject, PickKey, PickCollection, PickDatabase, PickIndex, Lists
<1>17. ASSUME NEW l \in Lists, Confirm(l)  PROVE ListsInv'
  <2>1. /\ l \in focus /\ Send(<<Call("drop", <<l, target[l]>>)>>) /\ target' = [target EXCEPT ![l] = NoItem]
        /\ UNCHANGED <<focus, rows, view, shown, behind, open, loading>>
    BY <1>0, <1>17 DEF Confirm, history, ListsTyped
  <2>2. <<l, target[l]>>[1] \in focus  BY <2>1
  <2>3. target' = [k \in Lists |-> target'[k]] /\ \A k \in Lists : target'[k] # NoItem => k \in focus
    BY <1>0, <2>1 DEF ListsTyped
  <2>. QED BY <1>8, <2>1, <2>2, <2>3
<1>18. CASE \/ ConfirmDeleteProject \/ ConfirmRevoke \/ ConfirmDeleteCollection \/ ConfirmDeprovision
            \/ ConfirmDropIndex
  BY <1>17, <1>18 DEF ConfirmDeleteProject, ConfirmRevoke, ConfirmDeleteCollection, ConfirmDeprovision,
     ConfirmDropIndex, Lists
<1>. QED BY <1>5, <1>6, <1>7, <1>9, <1>10, <1>11, <1>12, <1>13, <1>14, <1>16, <1>18 DEF ProjectsClick

(* A change the person made is shown: once nothing of a list is under way, *)
(* the list is the server's, unless it could not be told (the handlers of  *)
(* projects.tsx that read a list again after each change), for any lists   *)
(* at a time, rows, calls and failures.                                    *)
THEOREM ChangesAreListed == AdminSpec => []OwnChangesListed
<1>. DEFINE Inv == IF mounted = "projects" THEN ListsInv ELSE view = "list" /\ focus = {"s3"}
<1>1. AdminInit => Inv
  <2>. SUFFICES ASSUME AdminInit PROVE Inv  OBVIOUS
  <2>1. /\ focus \subseteq Lists /\ view = "list" /\ open = {} /\ target = [l \in Lists |-> NoItem]
        /\ rows = [l \in Lists |-> [x \in Item |->
             IF (l = "projects" /\ x = Home) \/ (l = "s3" /\ x = Home) THEN "on" ELSE "none"]]
        /\ shown = [l \in Lists |-> IF l = "projects" /\ l \notin focus THEN rows[l] ELSE Empty]
    BY ProjectsAssumption DEF AdminInit, ProjectsStart
  <2>2. CASE mounted = "projects"
    <3>1. wire = ReadAll({"projects"})  BY <2>2 DEF AdminInit
    <3>2. Asks(wire, focus) /\ ("projects" \in focus => \E k \in DOMAIN wire : wire[k] = ReadList("projects"))
      BY <3>1, FewLists, ListsAsked, ReadAllIs
    <3>3. IsRead(ReadList("projects"), "projects")  BY CallIs DEF IsRead, ReadList
    <3>4. "projects" \in focus => \A v, s : Current(wire, "projects", v, s)
      BY <3>2, <3>3, CurrentAsked DEF Asks
    <3>5. ListsTyped  BY <2>1, <3>2 DEF ListsTyped, Grid, Asks, Lists
    <3>6. \A l \in Lists : Owed(l) => l = "projects" /\ l \in focus  BY <2>1 DEF Owed, OnPage
    <3>. QED BY <2>2, <3>4, <3>5, <3>6 DEF ListsInv
  <2>3. CASE mounted # "projects"  BY <2>1, <2>3 DEF AdminInit
  <2>. QED BY <2>2, <2>3
<1>2. Inv /\ Sound(wire) /\ [AdminNext]_all => Inv'
  <2>. SUFFICES ASSUME Inv, Sound(wire), [AdminNext]_all PROVE Inv'  OBVIOUS
  <2>1. CASE OnProjects(ProjectsNext)
    <3>1. mounted = "projects" /\ mounted' = mounted /\ ProjectsNext  BY <2>1 DEF OnProjects
    <3>2. ListsInv'  BY <3>1, ListsServed, ListsWentOn, ListsClicked DEF ProjectsNext
    <3>. QED BY <3>1, <3>2
  <2>2. CASE OnDialogs(DialogsNext) \/ OnDatabases(PanelsNext) \/ OnTasksPage(TasksNext)
    <3>1. mounted # "projects" /\ mounted' = mounted /\ UNCHANGED <<view, focus>>
      BY <2>2 DEF OnDialogs, OnDatabases, OnTasksPage, pvars, page
    <3>. QED BY <3>1
  <2>3. CASE UNCHANGED all
    <3>1. UNCHANGED <<mounted, focus, rows, view, shown, loading, behind, open, target, wire>>
      BY <2>3 DEF all, pvars, page, history
    <3>2. ListsTyped' <=> ListsTyped  BY <3>1 DEF ListsTyped
    <3>3. \A l \in Lists : (Owed(l) => Current(wire, l, Cut(rows[l]), shown[l]))'
                            <=> (Owed(l) => Current(wire, l, Cut(rows[l]), shown[l]))
      BY <3>1 DEF Owed, OnPage, Section, Cut
    <3>. QED BY <3>1, <3>2, <3>3 DEF ListsInv
  <2>. QED BY <2>1, <2>2, <2>3 DEF AdminNext
<1>3. Inv => OwnChangesListed
  <2>1. CASE mounted # "projects" /\ Inv  BY <2>1 DEF OwnChangesListed, OnPage
  <2>2. ASSUME ListsInv  PROVE OwnChangesListed
    <3>1. \A l \in Lists : Owed(l) /\ ~Busy(l) => shown[l] = Cut(rows[l])
      BY <2>2 DEF ListsInv, Current, IsDone, IsRead, Busy
    <3>. SUFFICES ASSUME NEW l \in focus, OnPage(l), l \notin loading \cup behind, ~Busy(l),
                         l = "indexes" => ~Busy("databases") /\ "databases" \notin behind
                  PROVE  shown[l] = Cut(rows[l])
      BY DEF OwnChangesListed
    <3>2. l \in Lists  BY <2>2 DEF ListsInv, ListsTyped
    <3>3. l = "indexes" => rows["databases"][Mongo] = "on"
      <4>. SUFFICES ASSUME l = "indexes" PROVE rows["databases"][Mongo] = "on"  OBVIOUS
      <4>1. view = "detail" /\ shown["databases"][Mongo] = "on"  BY DEF OnPage, Section
      <4>2. Mongo \in Item  BY ProjectsAssumption
      <4>3. "databases" \in focus  BY <2>2, <4>1, <4>2 DEF ListsInv, ListsTyped, Empty
      <4>4. "databases" \in Lists /\ Owed("databases")  BY <4>1, <4>3 DEF Owed, OnPage, Lists
      <4>5. shown["databases"] = Cut(rows["databases"])  BY <3>1, <4>4
      <4>. QED BY <4>1, <4>2, <4>5 DEF Cut
    <3>. QED BY <3>1, <3>2, <3>3 DEF Owed
  <2>. QED BY <2>1, <2>2
<1>. QED BY <1>1, <1>2, <1>3, WireSound, PTL DEF AdminSpec

(***************************************************************************)
(* Where the calls of v come from: they are calls of w, or new ones.       *)
(***************************************************************************)
Of(q) == {q[k] : k \in DOMAIN q}
Stem(v, w, C) ==
  \A k \in DOMAIN v : \/ \E j \in DOMAIN w : Same(v[k], w[j]) /\ (v[k].heard => w[j].heard)
                      \/ \E c \in C : Same(v[k], c)

LEMMA OfOne == Of(<<>>) = {} /\ \A c : Of(<<c>>) = {c}
<1>1. DOMAIN <<>> = {}  OBVIOUS
<1>2. ASSUME NEW c  PROVE Of(<<c>>) = {c}
  <2>1. DOMAIN <<c>> = {1} /\ <<c>>[1] = c  OBVIOUS
  <2>. QED BY <2>1 DEF Of
<1>. QED BY <1>1, <1>2 DEF Of

LEMMA StemSelf ==
  ASSUME NEW w, NEW C
  PROVE  Stem(w, w, C)
BY DEF Stem, Same

LEMMA StemAfter ==
  ASSUME Sound(wire), NEW i \in DOMAIN wire, NEW calls, Sound(calls)
  PROVE  Stem(After(i, calls), wire, Of(calls))
<1>. DEFINE u == After(i, calls)
<1>1. \A k \in DOMAIN u :
        \/ \E j \in DOMAIN wire \ {i} : Same(u[k], wire[j]) /\ u[k].heard = wire[j].heard
        \/ \E j \in DOMAIN calls : u[k] = calls[j]
  BY AfterCalls DEF Sound
<1>. HIDE DEF u
<1>2. Stem(u, wire, Of(calls))  BY <1>1 DEF Stem, Of, Same
<1>. QED BY <1>2 DEF u

LEMMA StemJoin ==
  ASSUME NEW w, NEW calls, NEW u, Sound(w), Sound(calls), u = w \o calls, NEW v, NEW C, Stem(w, v, C)
  PROVE  Stem(u, v, C \cup Of(calls))
<1>1. IsWire(w) /\ IsWire(calls)  BY DEF Sound
<1>2. \A k \in DOMAIN u : (\E j \in DOMAIN w : u[k] = w[j]) \/ (\E j \in DOMAIN calls : u[k] = calls[j])
  BY <1>1, SentCalls
<1>. SUFFICES ASSUME NEW k \in DOMAIN u
              PROVE  \/ \E j \in DOMAIN v : Same(u[k], v[j]) /\ (u[k].heard => v[j].heard)
                     \/ \E c \in C \cup Of(calls) : Same(u[k], c)
  BY DEF Stem
<1>3. CASE \E j \in DOMAIN w : u[k] = w[j]  BY <1>3 DEF Stem
<1>4. CASE \E j \in DOMAIN calls : u[k] = calls[j]  BY <1>4 DEF Of, Same
<1>. QED BY <1>2, <1>3, <1>4

LEMMA StemSent ==
  ASSUME Sound(wire), NEW calls, Sound(calls), Send(calls)
  PROVE  Stem(wire', wire, Of(calls))
<1>1. Stem(wire, wire, {})  BY StemSelf
<1>2. Stem(wire', wire, {} \cup Of(calls))  BY <1>1, StemJoin DEF Send
<1>3. {} \cup Of(calls) = Of(calls)  OBVIOUS
<1>. QED BY <1>2, <1>3

(* What has become of calls that are no new ones.                          *)
LEMMA StemOn ==
  ASSUME NEW u, NEW w, NEW v, NEW C, Stem(w, v, C),
         \A k \in DOMAIN u : \E j \in DOMAIN w : Same(u[k], w[j]) /\ (u[k].heard => w[j].heard)
  PROVE  Stem(u, v, C)
BY DEF Stem, Same

LEMMA StemLeave ==
  ASSUME NEW w, Sound(w), NEW lists, NEW v, NEW C, Stem(w, v, C)
  PROVE  Stem(Leave(w, lists), v, C)
<1>. DEFINE u == Leave(w, lists)
<1>1. \A k \in DOMAIN u : \E j \in DOMAIN w : Same(u[k], w[j]) /\ u[k].heard = (w[j].heard /\ w[j].at[1] \notin lists)
  BY LeftCalls DEF Sound
<1>. HIDE DEF u
<1>2. Stem(u, v, C)  BY <1>1, StemOn
<1>. QED BY <1>2 DEF u

LEMMA StemOrphan ==
  ASSUME NEW w, Sound(w), NEW o, NEW list, NEW v, NEW C, Stem(w, v, C)
  PROVE  Stem(Orphan(w, o, list), v, C)
<1>. DEFINE u == Orphan(w, o, list)
<1>1. DOMAIN u = DOMAIN w /\ \A k \in DOMAIN w : Same(u[k], w[k]) /\ u[k].heard = w[k].heard
  BY OrphanIs DEF Sound
<1>. HIDE DEF u
<1>2. Stem(u, v, C)  BY <1>1, StemOn
<1>. QED BY <1>2 DEF u

(* An answer is a call's only change.                                      *)
LEMMA StemReply ==
  ASSUME Sound(wire), NEW i \in DOMAIN wire, NEW a, Reply(i, a),
         NEW d, d.op = wire[i].op, d.at = wire[i].at, d.answer = a
  PROVE  Stem(wire', wire, {d})
<1>1. \A k \in DOMAIN wire' :
        \/ \E j \in DOMAIN wire \ {i} : wire'[k] = wire[j]
        \/ wire'[k].op = wire[i].op /\ wire'[k].at = wire[i].at /\ wire'[k].answer = a
  BY RepliedCalls DEF Sound
<1>. SUFFICES ASSUME NEW k \in DOMAIN wire'
              PROVE  \/ \E j \in DOMAIN wire : Same(wire'[k], wire[j]) /\ (wire'[k].heard => wire[j].heard)
                     \/ \E c \in {d} : Same(wire'[k], c)
  BY DEF Stem
<1>2. CASE \E j \in DOMAIN wire : wire'[k] = wire[j]  BY <1>2 DEF Same
<1>3. CASE wire'[k].op = wire[i].op /\ wire'[k].at = wire[i].at /\ wire'[k].answer = a  BY <1>3 DEF Same
<1>. QED BY <1>1, <1>2, <1>3

(* What the answer to call i makes of it.                                  *)
LEMMA AnAnswer ==
  ASSUME Sound(wire), NEW i \in DOMAIN wire, NEW a
  PROVE  \E d : d.op = wire[i].op /\ d.at = wire[i].at /\ d.answer = a
<1>. DEFINE d == [wire[i] EXCEPT !.answer = a]
<1>1. IsCall(wire[i])  BY WireIs DEF Sound
<1>2. d.op = wire[i].op /\ d.at = wire[i].at /\ d.answer = a  BY <1>1, Answered1
<1>. HIDE DEF d
<1>. QED BY <1>2

(***************************************************************************)
(* The page of the tasks.                                                  *)
(***************************************************************************)
Gives(c, S) == c.answer \in {NotYet, Error} \/ \E v \in S : c.answer = Answer(v)

TaskCall(c) ==
  \/ c.op = "read" /\ c.at = <<"tasks">> /\ Gives(c, [Task -> {"none", "on", "off"}])
  \/ /\ c.op = "read" /\ (c.at = <<"runs", "first">> \/ c.at = <<"runs", "poll">>)
     /\ Gives(c, [Run -> {"none", "running", "done"}])
  \/ c.op = "add" /\ c.at = <<"tasks">> /\ Gives(c, Task)
  \/ c.op = "set" /\ (\E t \in Task, s \in {"on", "off"} : c.at = <<"tasks", t, s>>) /\ Gives(c, Task)
  \/ c.op = "drop" /\ (\E t \in Task : c.at = <<"tasks", t>>) /\ Gives(c, Task)
  \/ c.op = "run" /\ c.at = <<"tasks">> /\ Gives(c, Task)
  \/ c.op = "drop" /\ \E r \in Run : c.at = <<"runs", r>> /\ Gives(c, {{r}})
  \/ c.op = "drop" /\ c.at = <<"runs">> /\ Gives(c, SUBSET Run)

TaskCalls(w) == \A k \in DOMAIN w : TaskCall(w[k])

LEMMA AnswerIs ==
  /\ \A v : Answer(v) \notin {NotYet, Error} /\ Answer(v)[2] = v
  /\ NotYet # Error
BY DEF Answer, NotYet, Error

LEMMA TaskDrops ==
  ASSUME NEW c, TaskCall(c), c.op = "drop"
  PROVE  \/ c.at[1] = "tasks" /\ \E t \in Task : c.at = <<"tasks", t>> /\ Gives(c, Task)
         \/ c.at[1] = "runs" /\ \E r \in Run : c.at = <<"runs", r>> /\ Gives(c, {{r}})
         \/ c.at[1] = "runs" /\ c.at = <<"runs">> /\ Gives(c, SUBSET Run)
<1>1. \/ \E t \in Task : c.at = <<"tasks", t>> /\ Gives(c, Task)
      \/ \E r \in Run : c.at = <<"runs", r>> /\ Gives(c, {{r}})
      \/ c.at = <<"runs">> /\ Gives(c, SUBSET Run)
  BY DEF TaskCall
<1>2. /\ \A t : <<"tasks", t>>[1] = "tasks" /\ <<"runs", t>>[1] = "runs"
      /\ <<"runs">>[1] = "runs"
  OBVIOUS
<1>. QED BY <1>1, <1>2, Zenon

LEMMA TaskSame ==
  ASSUME NEW c, NEW d, TaskCall(c), Same(d, c)
  PROVE  TaskCall(d)
BY DEF TaskCall, Same, Gives

LEMMA TaskStem ==
  ASSUME NEW v, NEW w, NEW C, Stem(v, w, C), TaskCalls(w), \A c \in C : TaskCall(c)
  PROVE  TaskCalls(v)
BY TaskSame DEF TaskCalls, Stem

LEMMA TaskReplied ==
  ASSUME Sound(wire), TaskCalls(wire), NEW i \in DOMAIN wire, NEW a, Reply(i, a),
         NEW d, d.op = wire[i].op, d.at = wire[i].at, d.answer = a, TaskCall(d)
  PROVE  TaskCalls(wire')
<1>1. \A k \in DOMAIN wire' :
        \/ \E j \in DOMAIN wire \ {i} : wire'[k] = wire[j]
        \/ wire'[k].op = wire[i].op /\ wire'[k].at = wire[i].at /\ wire'[k].answer = a
  BY RepliedCalls DEF Sound
<1>2. \A k \in DOMAIN wire' : TaskCall(wire'[k])
  <2>. SUFFICES ASSUME NEW k \in DOMAIN wire' PROVE TaskCall(wire'[k])  OBVIOUS
  <2>1. CASE \E j \in DOMAIN wire : wire'[k] = wire[j]  BY <2>1 DEF TaskCalls
  <2>2. CASE wire'[k].op = wire[i].op /\ wire'[k].at = wire[i].at /\ wire'[k].answer = a
    BY <2>2, TaskSame DEF Same
  <2>. QED BY <1>1, <2>1, <2>2
<1>. QED BY <1>2 DEF TaskCalls

LEMMA TaskRefused ==
  ASSUME Sound(wire), TaskCalls(wire), NEW i \in DOMAIN wire, Reply(i, Error)
  PROVE  TaskCalls(wire')
<1>. DEFINE d == [wire[i] EXCEPT !.answer = Error]
<1>1. IsCall(wire[i])  BY WireIs DEF Sound
<1>2. d.op = wire[i].op /\ d.at = wire[i].at /\ d.answer = Error  BY <1>1, Answered1
<1>. HIDE DEF d
<1>3. TaskCall(wire[i])  BY DEF TaskCalls
<1>4. TaskCall(d)  BY <1>2, <1>3 DEF TaskCall, Gives
<1>. QED BY <1>2, <1>4, TaskReplied

LEMMA TaskAnswered ==
  ASSUME Sound(wire), TaskCalls(wire), NEW i \in DOMAIN wire, NEW v, Reply(i, Answer(v)),
         \E c : c.op = wire[i].op /\ c.at = wire[i].at /\ c.answer = Answer(v) /\ TaskCall(c)
  PROVE  TaskCalls(wire')
BY TaskReplied

TasksTyped == TasksTypeOK /\ TaskCalls(wire)

LEMMA TasksServed ==
  ASSUME Sound(wire), TasksTyped, NEW i \in DOMAIN wire, TasksServe(i) \/ TaskCallFails(i)
  PROVE  TasksTyped'
<1>. USE DEF TasksTyped
<1>0. TaskCall(wire[i]) /\ IsCall(wire[i])  BY WireIs DEF TaskCalls, Sound
<1>1. ASSUME NEW v, Reply(i, Answer(v)),
             \A c : c.op = wire[i].op /\ c.at = wire[i].at /\ c.answer = Answer(v) => TaskCall(c)
      PROVE  TaskCalls(wire')
  <2>. DEFINE d == [wire[i] EXCEPT !.answer = Answer(v)]
  <2>1. d.op = wire[i].op /\ d.at = wire[i].at /\ d.answer = Answer(v)  BY <1>0, Answered1
  <2>. HIDE DEF d
  <2>. QED BY <1>1, <2>1, TaskAnswered
<1>2. ASSUME Reply(i, Error)  PROVE TaskCalls(wire')  BY <1>2, TaskRefused
<1>3. CASE ServeListTasks(i)
  <2>1. wire[i].op = "read" /\ wire[i].at[1] = "tasks" /\ Reply(i, Answer(tasks)) /\ UNCHANGED tvars
    BY <1>3 DEF ServeListTasks
  <2>2. tasks \in [Task -> {"none", "on", "off"}]  BY DEF TasksTypeOK
  <2>3. \A c : c.op = wire[i].op /\ c.at = wire[i].at /\ c.answer = Answer(tasks) => TaskCall(c)
    BY <1>0, <2>1, <2>2 DEF TaskCall, Gives
  <2>4. TaskCalls(wire')  BY <1>1, <2>1, <2>3
  <2>. QED BY <2>1, <2>4 DEF TasksTypeOK, tvars, jobs, table, log
<1>4. CASE ServeListRuns(i)
  <2>1. wire[i].op = "read" /\ wire[i].at[1] = "runs" /\ Reply(i, Answer(Present(runs))) /\ UNCHANGED tvars
    BY <1>4 DEF ServeListRuns
  <2>2. Present(runs) \in [Run -> {"none", "running", "done"}]  BY DEF TasksTypeOK, Present
  <2>3. \A c : c.op = wire[i].op /\ c.at = wire[i].at /\ c.answer = Answer(Present(runs)) => TaskCall(c)
    BY <1>0, <2>1, <2>2 DEF TaskCall, Gives
  <2>4. TaskCalls(wire')  BY <1>1, <2>1, <2>3
  <2>. QED BY <2>1, <2>4 DEF TasksTypeOK, tvars, jobs, table, log
<1>5. CASE ServeCreateTask(i)
  <2>1. PICK t \in Task : tasks' = [tasks EXCEPT ![t] = "on"] /\ Reply(i, Answer(t))
    BY <1>5 DEF ServeCreateTask
  <2>2. wire[i].op = "add"  BY <1>5 DEF ServeCreateTask
  <2>3. TaskCalls(wire')
    <3>1. \A c : c.op = wire[i].op /\ c.at = wire[i].at /\ c.answer = Answer(t) => TaskCall(c)
      BY <1>0, <2>2 DEF TaskCall, Gives
    <3>. QED BY <1>1, <2>1, <3>1
  <2>4. UNCHANGED <<chore, runs, asked, table, log, untold, crossed>>  BY <1>5 DEF ServeCreateTask
  <2>. QED BY <2>1, <2>3, <2>4 DEF TasksTypeOK, table, log
<1>6. ASSUME wire[i].op = "set" \/ wire[i].op = "drop", wire[i].at[1] = "tasks" \/ wire[i].op = "set"
      PROVE  wire[i].at[2] \in Task /\ (wire[i].op = "set" => wire[i].at[3] \in {"on", "off"})
  <2>1. CASE wire[i].op = "set"
    <3>1. PICK t \in Task, s \in {"on", "off"} : wire[i].at = <<"tasks", t, s>>  BY <1>0, <2>1 DEF TaskCall
    <3>. QED BY <3>1
  <2>2. CASE wire[i].op = "drop" /\ wire[i].at[1] = "tasks"
    <3>1. PICK t \in Task : wire[i].at = <<"tasks", t>>  BY <1>0, <2>2, TaskDrops
    <3>. QED BY <2>2, <3>1
  <2>. QED BY <1>6, <2>1, <2>2
<1>7. CASE ServeUpdateTask(i)
  <2>. DEFINE t == wire[i].at[2]
  <2>1. UNCHANGED <<chore, table, log, untold, crossed>> /\ wire[i].op = "set"  BY <1>7 DEF ServeUpdateTask
  <2>2. CASE Missing(i, t)  BY <1>2, <2>1, <2>2 DEF Missing, TasksTypeOK, jobs, table, log
  <2>3. CASE ~Missing(i, t)
    <3>1. tasks' = [tasks EXCEPT ![t] = wire[i].at[3]] /\ Reply(i, Answer(t)) /\ UNCHANGED <<runs, asked>>
      BY <1>7, <2>3 DEF ServeUpdateTask
    <3>2. t \in Task /\ wire[i].at[3] \in {"on", "off"}  BY <1>6, <2>1
    <3>3. \A c : c.op = wire[i].op /\ c.at = wire[i].at /\ c.answer = Answer(t) => TaskCall(c)
      BY <1>0, <2>1, <3>2 DEF TaskCall, Gives
    <3>4. TaskCalls(wire')  BY <1>1, <3>1, <3>3
    <3>. QED BY <2>1, <3>1, <3>2, <3>4 DEF TasksTypeOK, table, log
  <2>. QED BY <2>2, <2>3
<1>8. CASE ServeDeleteTask(i)
  <2>. DEFINE t == wire[i].at[2]
  <2>1. UNCHANGED <<chore, table, log, untold, crossed>> /\ wire[i].op = "drop" /\ wire[i].at[1] = "tasks"
    BY <1>8 DEF ServeDeleteTask
  <2>2. CASE Missing(i, t)  BY <1>2, <2>1, <2>2 DEF Missing, TasksTypeOK, jobs, table, log
  <2>3. CASE ~Missing(i, t)
    <3>1. tasks' = [tasks EXCEPT ![t] = "none"] /\ Reply(i, Answer(t)) /\ UNCHANGED <<runs, asked>>
      BY <1>8, <2>3 DEF ServeDeleteTask
    <3>2. t \in Task  BY <1>6, <2>1
    <3>3. \A c : c.op = wire[i].op /\ c.at = wire[i].at /\ c.answer = Answer(t) => TaskCall(c)
      <4>1. \E u \in Task : wire[i].at = <<"tasks", u>>  BY <1>0, <2>1, TaskDrops
      <4>. HIDE DEF t
      <4>. QED BY <2>1, <3>2, <4>1 DEF TaskCall, Gives
    <3>4. TaskCalls(wire')  BY <1>1, <3>1, <3>3
    <3>. QED BY <2>1, <3>1, <3>2, <3>4 DEF TasksTypeOK, table, log
  <2>. QED BY <2>2, <2>3
<1>9. CASE ServeRunNow(i)
  <2>1. wire[i].op = "run" /\ Reply(i, Answer(Own)) /\ asked' = asked + 1
        /\ UNCHANGED <<chore, tasks, runs, table, log, untold, crossed>>
    BY <1>9 DEF ServeRunNow
  <2>2. \A c : c.op = wire[i].op /\ c.at = wire[i].at /\ c.answer = Answer(Own) => TaskCall(c)
    BY <1>0, <2>1, TasksAssumption DEF TaskCall, Gives
  <2>3. TaskCalls(wire')  BY <1>1, <2>1, <2>2
  <2>. QED BY <2>1, <2>3 DEF TasksTypeOK, table, log
<1>10. CASE ServeDeleteRuns(i)
  <2>. DEFINE one == Len(wire[i].at) = 2
              these == IF one THEN {wire[i].at[2]} ELSE {r \in Run : runs[r] # "none"}
  <2>1. /\ wire[i].op = "drop" /\ wire[i].at[1] = "runs"
        /\ UNCHANGED <<chore, tasks, asked, table, log, untold, crossed>>
    BY <1>10 DEF ServeDeleteRuns
  <2>2. CASE Reply(i, Error) /\ UNCHANGED runs  BY <1>2, <2>1, <2>2 DEF TasksTypeOK, table, log
  <2>3. CASE ~(Reply(i, Error) /\ UNCHANGED runs)
    <3>1. runs' = [r \in Run |-> IF r \in these THEN "gone" ELSE runs[r]] /\ Reply(i, Answer(these))
      BY <1>10, <2>3 DEF ServeDeleteRuns
    <3>2. \A c : c.op = wire[i].op /\ c.at = wire[i].at /\ c.answer = Answer(these) => TaskCall(c)
      <4>1. (\E r \in Run : wire[i].at = <<"runs", r>>) \/ wire[i].at = <<"runs">>  BY <1>0, <2>1, TaskDrops
      <4>2. CASE \E r \in Run : wire[i].at = <<"runs", r>>
        <5>1. PICK r \in Run : wire[i].at = <<"runs", r>>  BY <4>2
        <5>2. these = {r}  BY <5>1
        <5>. HIDE DEF these
        <5>. QED BY <2>1, <5>1, <5>2 DEF TaskCall, Gives
      <4>3. CASE wire[i].at = <<"runs">>
        <5>1. these \in SUBSET Run  BY <4>3
        <5>. HIDE DEF these
        <5>. QED BY <2>1, <4>3, <5>1 DEF TaskCall, Gives
      <4>. QED BY <4>1, <4>2, <4>3
    <3>3. TaskCalls(wire')  BY <1>1, <3>1, <3>2
    <3>4. runs' \in [Run -> {"none", "running", "done", "gone"}]  BY <3>1 DEF TasksTypeOK
    <3>. QED BY <2>1, <3>3, <3>4 DEF TasksTypeOK, table, log
  <2>. QED BY <2>2, <2>3
<1>11. CASE TaskCallFails(i)
  <2>1. Reply(i, Error) /\ UNCHANGED <<chore, jobs, table, log, crossed>> /\ untold' \in BOOLEAN
    BY <1>11 DEF TaskCallFails, Fail, TasksTypeOK
  <2>. QED BY <1>2, <2>1 DEF TasksTypeOK, jobs, table, log
<1>. QED BY <1>3, <1>4, <1>5, <1>7, <1>8, <1>9, <1>10, <1>11 DEF TasksServe

LEMMA TaskAsks ==
  /\ Sound(<<>>) /\ TaskCalls(<<>>)
  /\ Sound(ReadTasks) /\ \A c \in Of(ReadTasks) : TaskCall(c)
  /\ Sound(ReadRuns) /\ \A c \in Of(ReadRuns) : TaskCall(c)
  /\ TaskCall(Call("read", <<"runs", "poll">>)) /\ TaskCall(Call("add", <<"tasks">>))
  /\ TaskCall(Call("run", <<"tasks">>)) /\ TaskCall(Call("drop", <<"runs">>))
  /\ \A t \in Task : TaskCall(Call("drop", <<"tasks", t>>))
  /\ \A t \in Task, s \in {"on", "off"} : TaskCall(Call("set", <<"tasks", t, s>>))
  /\ \A r \in Run : TaskCall(Call("drop", <<"runs", r>>))
<1>1. Sound(<<>>) /\ Sound(ReadTasks) /\ Sound(ReadRuns)  BY SoundCall DEF ReadTasks, ReadRuns
<1>2. \A o, a : Call(o, a).op = o /\ Call(o, a).at = a /\ Gives(Call(o, a), {})  BY CallIs DEF Gives
<1>3. \A c, S : Gives(c, {}) => Gives(c, S)  BY DEF Gives
<1>4. TaskCall(Call("read", <<"tasks">>)) /\ TaskCall(Call("read", <<"runs", "first">>))
  BY <1>2, <1>3 DEF TaskCall
<1>5. (\A c \in Of(ReadTasks) : TaskCall(c)) /\ \A c \in Of(ReadRuns) : TaskCall(c)
  BY <1>4, OfOne DEF ReadTasks, ReadRuns
<1>6. /\ TaskCall(Call("read", <<"runs", "poll">>)) /\ TaskCall(Call("add", <<"tasks">>))
      /\ TaskCall(Call("run", <<"tasks">>)) /\ TaskCall(Call("drop", <<"runs">>))
  BY <1>2, <1>3 DEF TaskCall
<1>7. ASSUME NEW t \in Task  PROVE TaskCall(Call("drop", <<"tasks", t>>))  BY <1>2, <1>3 DEF TaskCall
<1>8. ASSUME NEW t \in Task, NEW s \in {"on", "off"}  PROVE TaskCall(Call("set", <<"tasks", t, s>>))
  BY <1>2, <1>3 DEF TaskCall
<1>9. ASSUME NEW r \in Run  PROVE TaskCall(Call("drop", <<"runs", r>>))  BY <1>2, <1>3 DEF TaskCall
<1>10. TaskCalls(<<>>)
  <2>1. DOMAIN <<>> = {}  OBVIOUS
  <2>. QED BY <2>1 DEF TaskCalls
<1>. QED BY <1>1, <1>5, <1>6, <1>7, <1>8, <1>9, <1>10

LEMMA TaskOver ==
  ASSUME Sound(wire), TaskCalls(wire), NEW i \in DOMAIN wire
  PROVE  /\ Sound(After(i, <<>>)) /\ TaskCalls(After(i, <<>>))
         /\ Sound(After(i, ReadTasks)) /\ TaskCalls(After(i, ReadTasks))
<1>1. Sound(After(i, <<>>)) /\ Sound(After(i, ReadTasks))  BY TaskAsks, SoundAfter
<1>2. Stem(After(i, <<>>), wire, Of(<<>>)) /\ Stem(After(i, ReadTasks), wire, Of(ReadTasks))
  BY TaskAsks, StemAfter
<1>3. \A c \in Of(<<>>) : TaskCall(c)  BY OfOne
<1>4. TaskCalls(After(i, <<>>))  BY <1>2, <1>3, TaskStem
<1>5. TaskCalls(After(i, ReadTasks))  BY <1>2, TaskAsks, TaskStem
<1>. QED BY <1>1, <1>4, <1>5

LEMMA TaskLeft ==
  ASSUME NEW w, Sound(w), TaskCalls(w), NEW lists
  PROVE  Sound(Leave(w, lists)) /\ TaskCalls(Leave(w, lists))
<1>1. Sound(Leave(w, lists))  BY SoundLeave DEF Sound
<1>2. Stem(w, w, {})  BY StemSelf
<1>3. Stem(Leave(w, lists), w, {})  BY <1>2, StemLeave
<1>4. TaskCalls(Leave(w, lists))  BY <1>3, TaskStem
<1>. QED BY <1>1, <1>4

LEMMA TaskSent ==
  ASSUME Sound(wire), TaskCalls(wire), NEW c, Send(<<c>>), Sound(<<c>>), TaskCall(c)
  PROVE  TaskCalls(wire')
<1>1. Stem(wire', wire, Of(<<c>>))  BY StemSent
<1>2. Of(<<c>>) = {c}  BY OfOne
<1>3. \A d \in Of(<<c>>) : TaskCall(d)  BY <1>2
<1>. QED BY <1>1, <1>3, TaskStem

LEMMA TaskAnew ==
  ASSUME NEW w, Sound(w), TaskCalls(w), Anew(w)
  PROVE  TaskCalls(wire')
<1>. DEFINE u == Leave(w, {"runs"})
<1>1. Sound(u) /\ TaskCalls(u)  BY TaskLeft
<1>2. wire' = u \o ReadRuns  BY DEF Anew
<1>. HIDE DEF u
<1>3. Stem(u, u, {})  BY StemSelf
<1>4. Stem(wire', u, {} \cup Of(ReadRuns))  BY <1>1, <1>2, <1>3, TaskAsks, StemJoin
<1>5. \A c \in {} \cup Of(ReadRuns) : TaskCall(c)  BY TaskAsks
<1>. QED BY <1>1, <1>4, <1>5, TaskStem

LEMMA TasksWentOn ==
  ASSUME Sound(wire), TasksTyped, NEW i \in DOMAIN wire, TasksGoOn(i)
  PROVE  TasksTyped'
<1>. USE DEF TasksTyped
<1>0. TaskCall(wire[i])  BY DEF TaskCalls
<1>1. /\ Sound(After(i, <<>>)) /\ TaskCalls(After(i, <<>>))
      /\ Sound(After(i, ReadTasks)) /\ TaskCalls(After(i, ReadTasks))
  BY TaskOver
<1>2. CASE TasksCome(i)
  <2>1. /\ UNCHANGED <<chore, jobs, creating, toDelete, log, crossed>> /\ wire' = After(i, <<>>)
        /\ tasksLoading' = FALSE /\ wire[i].at[1] = "tasks"
        /\ \/ Came(i, "read") /\ tasksShown' = Value(i) /\ untold' = (untold \/ wire[i].late)
           \/ tasksShown' = tasksShown /\ untold' = TRUE
    BY <1>2 DEF TasksCome
  <2>2. Came(i, "read") => Value(i) \in [Task -> {"none", "on", "off"}]
    BY <1>0, <2>1, AnswerIs DEF TaskCall, Gives, Came, Value
  <2>3. wire[i].late \in BOOLEAN  BY WireIs DEF IsCall, Sound
  <2>. QED BY <1>1, <2>1, <2>2, <2>3 DEF TasksTypeOK, jobs, log
<1>3. CASE TaskCreated(i)  BY <1>1, <1>3 DEF TaskCreated, TasksTypeOK, jobs, log
<1>4. CASE TaskSet(i)  BY <1>1, <1>4 DEF TaskSet, TasksTypeOK, tvars, jobs, table, log
<1>5. CASE TaskDeleted(i)  BY <1>1, <1>5 DEF TaskDeleted, TasksTypeOK, jobs, log
<1>6. ASSUME NEW w, Sound(w), TaskCalls(w), Anew(w), UNCHANGED <<chore, jobs, table, untold>>  PROVE TasksTyped'
  <2>1. TaskCalls(wire')  BY <1>6, TaskAnew
  <2>2. /\ runLog' = "loading" /\ runsShown' = NoRuns /\ deletingRun' = {} /\ clearing' = FALSE
        /\ crossed' \in BOOLEAN
    BY <1>6 DEF Anew, Deletion
  <2>. QED BY <1>6, <2>1, <2>2 DEF TasksTypeOK, jobs, table, NoRuns
<1>7. CASE RunStarted(i)
  <2>1. UNCHANGED <<chore, jobs, table, untold>>  BY <1>7 DEF RunStarted
  <2>2. \/ wire' = After(i, ReadTasks) /\ UNCHANGED <<log, crossed>>
        \/ Anew(After(i, ReadTasks))
    BY <1>7 DEF RunStarted
  <2>3. CASE wire' = After(i, ReadTasks) /\ UNCHANGED <<log, crossed>>
    BY <1>1, <2>1, <2>3 DEF TasksTypeOK, jobs, table, log
  <2>. QED BY <1>1, <1>6, <2>1, <2>2, <2>3
<1>8. CASE RunsCome(i)
  <2>1. /\ UNCHANGED <<chore, jobs, table, deletingRun, clearing, untold, crossed>> /\ wire' = After(i, <<>>)
        /\ wire[i].at[1] = "runs" /\ (runLog' = "shown" \/ runLog' = runLog)
        /\ \/ Came(i, "read") /\ runsShown' = Value(i)
           \/ runsShown' = runsShown
    BY <1>8 DEF RunsCome
  <2>2. Came(i, "read") => Value(i) \in [Run -> {"none", "running", "done"}]
    BY <1>0, <2>1, AnswerIs DEF TaskCall, Gives, Came, Value
  <2>. QED BY <1>1, <2>1, <2>2 DEF TasksTypeOK, jobs, table
<1>9. CASE RunDeleted(i)
  <2>1. /\ UNCHANGED <<chore, jobs, table, runLog, clearing, untold, crossed>> /\ wire' = After(i, <<>>)
        /\ deletingRun' = {} /\ \E r : runsShown' = [runsShown EXCEPT ![r] = "none"]
    BY <1>9 DEF RunDeleted
  <2>. QED BY <1>1, <2>1 DEF TasksTypeOK, jobs, table
<1>10. CASE LogsCleared(i)
  BY <1>1, <1>10 DEF LogsCleared, TasksTypeOK, jobs, table, NoRuns
<1>11. CASE TaskOrderFails(i)
  <2>1. /\ UNCHANGED <<chore, jobs, table, runLog, runsShown, untold>> /\ wire' = After(i, <<>>)
        /\ deletingRun' = {} \/ deletingRun' = deletingRun
        /\ clearing' = FALSE \/ clearing' = clearing
        /\ crossed' = (crossed \/ (wire[i].op = "drop" /\ wire[i].at[1] = "runs"))
    BY <1>11 DEF TaskOrderFails
  <2>. QED BY <1>1, <2>1 DEF TasksTypeOK, jobs, table
<1>. QED BY <1>2, <1>3, <1>4, <1>5, <1>7, <1>8, <1>9, <1>10, <1>11 DEF TasksGoOn

LEMMA TasksClicked ==
  ASSUME Sound(wire), TasksTyped,
         TasksClick \/ Poll \/ RunBegins \/ RunSkipped \/ \E r \in Run : RunEnds(r)
  PROVE  TasksTyped'
<1>. USE DEF TasksTyped
<1>0. \A o, a : Sound(<<Call(o, a)>>)  BY SoundCall
<1>1. ASSUME NEW o, NEW a, Send(<<Call(o, a)>>), TaskCall(Call(o, a))  PROVE TaskCalls(wire')
  BY <1>0, <1>1, TaskSent
<1>2. CASE RefreshTasks
  <2>1. Send(ReadTasks) /\ UNCHANGED tvars  BY <1>2 DEF RefreshTasks
  <2>2. TaskCalls(wire')
    <3>1. Stem(wire', wire, Of(ReadTasks))  BY <2>1, TaskAsks, StemSent
    <3>. QED BY <3>1, TaskAsks, TaskStem
  <2>. QED BY <2>1, <2>2 DEF TasksTypeOK, tvars, jobs, table, log
<1>3. CASE OpenTaskForm  BY <1>3 DEF OpenTaskForm, TasksTypeOK, jobs, log
<1>4. CASE CloseTaskForm
  <2>1. TaskCalls(wire')
    <3>1. wire' = Orphan(wire, "add", "tasks")  BY <1>4 DEF CloseTaskForm
    <3>2. Stem(wire, wire, {})  BY StemSelf
    <3>3. Stem(wire', wire, {})  BY <3>1, <3>2, StemOrphan
    <3>. QED BY <3>3, TaskStem
  <2>. QED BY <1>4, <2>1 DEF CloseTaskForm, TasksTypeOK, jobs, log
<1>5. CASE SubmitTask  BY <1>1, <1>5, TaskAsks DEF SubmitTask, TasksTypeOK, tvars, jobs, table, log
<1>6. CASE CancelDelete  BY <1>6 DEF CancelDelete, TasksTypeOK, jobs, log
<1>7. CASE ConfirmDelete
  <2>1. PICK t \in toDelete : Send(<<Call("drop", <<"tasks", t>>)>>)  BY <1>7 DEF ConfirmDelete
  <2>2. t \in Task  BY <2>1 DEF TasksTypeOK
  <2>3. TaskCalls(wire')  BY <1>1, <2>1, <2>2, TaskAsks
  <2>. QED BY <1>7, <2>3 DEF ConfirmDelete, TasksTypeOK, jobs, log
<1>8. CASE Expand
  <2>1. Anew(wire) /\ UNCHANGED <<chore, jobs, table, untold>>  BY <1>8 DEF Expand
  <2>2. TaskCalls(wire')  BY <2>1, TaskAnew
  <2>3. /\ runLog' = "loading" /\ runsShown' = NoRuns /\ deletingRun' = {} /\ clearing' = FALSE
        /\ crossed' \in BOOLEAN
    BY <2>1 DEF Anew, Deletion
  <2>. QED BY <2>1, <2>2, <2>3 DEF TasksTypeOK, jobs, table, NoRuns
<1>9. CASE Collapse
  <2>1. TaskCalls(wire')  BY <1>9, TaskLeft DEF Collapse
  <2>. QED BY <1>9, <2>1 DEF Collapse, TasksTypeOK, jobs, table, NoRuns
<1>10. CASE RunNow  BY <1>1, <1>10, TaskAsks DEF RunNow, TasksTypeOK, tvars, jobs, table, log
<1>11. CASE ClearLogs
  <2>1. TaskCalls(wire')  BY <1>1, <1>11, TaskAsks DEF ClearLogs
  <2>2. Reading \in BOOLEAN  BY DEF Reading
  <2>. QED BY <1>11, <2>1, <2>2 DEF ClearLogs, TasksTypeOK, jobs, table
<1>12. ASSUME NEW t \in Task, ToggleTask(t)  PROVE TasksTyped'
  <2>1. UNCHANGED tvars /\ \E s \in {"on", "off"} : Send(<<Call("set", <<"tasks", t, s>>)>>)
    BY <1>12 DEF ToggleTask
  <2>2. TaskCalls(wire')  BY <1>1, <2>1, TaskAsks
  <2>. QED BY <2>1, <2>2 DEF TasksTypeOK, tvars, jobs, table, log
<1>13. ASSUME NEW t \in Task, PickTask(t)  PROVE TasksTyped'
  BY <1>13 DEF PickTask, TasksTypeOK, jobs, log
<1>14. ASSUME NEW r \in Run, DeleteRun(r)  PROVE TasksTyped'
  <2>1. TaskCalls(wire')  BY <1>1, <1>14, TaskAsks DEF DeleteRun
  <2>2. Reading \in BOOLEAN  BY DEF Reading
  <2>. QED BY <1>14, <2>1, <2>2 DEF DeleteRun, TasksTypeOK, jobs, table
<1>15. CASE Poll
  <2>1. TaskCalls(wire')  BY <1>1, <1>15, TaskAsks DEF Poll
  <2>2. Deletion(wire) \in BOOLEAN  BY DEF Deletion
  <2>. QED BY <1>15, <2>1, <2>2 DEF Poll, TasksTypeOK, jobs, table, log
<1>16. CASE RunBegins
  <2>1. PICK r \in Run : runs' = [runs EXCEPT ![r] = "running"]  BY <1>16 DEF RunBegins
  <2>2. asked' \in Nat  BY <1>16 DEF RunBegins, TasksTypeOK
  <2>. QED BY <1>16, <2>1, <2>2 DEF RunBegins, TasksTypeOK, table, log
<1>17. CASE RunSkipped  BY <1>17 DEF RunSkipped, TasksTypeOK, table, log
<1>18. ASSUME NEW r \in Run, RunEnds(r)  PROVE TasksTyped'
  BY <1>18 DEF RunEnds, TasksTypeOK, table, log
<1>. QED BY <1>2, <1>3, <1>4, <1>5, <1>6, <1>7, <1>8, <1>9, <1>10, <1>11, <1>12, <1>13, <1>14, <1>15,
            <1>16, <1>17, <1>18 DEF TasksClick

(***************************************************************************)
(* The history of the runs.                                                *)
(***************************************************************************)
RunRead(c) == c.op = "read" /\ c.at[1] = "runs"
RunDrop(c) == c.op = "drop" /\ c.at[1] = "runs"
Told(c)    == c.answer \notin {NotYet, Error}

(* A deletion of run r was answered and its handler has not gone on.       *)
Telling(w, r) == \E k \in DOMAIN w : RunDrop(w[k]) /\ Told(w[k]) /\ r \in w[k].answer[2]

RunsInv ==
  /\ \A k \in DOMAIN wire : RunRead(wire[k]) => wire[k].heard
  /\ runLog = "closed" =>
       runsShown = NoRuns /\ \A k \in DOMAIN wire : wire[k].at[1] = "runs" => ~wire[k].heard
  /\ ~crossed =>
       /\ \A j, k \in DOMAIN wire : ~(RunRead(wire[j]) /\ RunDrop(wire[k]))
       /\ \A k \in DOMAIN wire : RunRead(wire[k]) /\ Told(wire[k]) =>
            \A r \in Run : runs[r] = "gone" => wire[k].answer[2][r] = "none"
       /\ runLog # "closed" => \A k \in DOMAIN wire : RunDrop(wire[k]) => wire[k].heard
       /\ ~untold => \A r \in Run : runs[r] = "gone" /\ runsShown[r] # "none" => Telling(wire, r)

(* The calls of v about runs are calls of w, which may have failed.        *)
Carried(v, w) ==
  \A k \in DOMAIN v : v[k].at[1] = "runs" =>
    \E j \in DOMAIN w : /\ v[k].op = w[j].op /\ v[k].at = w[j].at /\ v[k].heard = w[j].heard
                        /\ v[k].answer = w[j].answer \/ v[k].answer = Error

LEMMA RunsCarried ==
  ASSUME RunsInv, Carried(wire', wire), runLog' = runLog, crossed \in BOOLEAN, untold \in BOOLEAN,
         crossed => crossed', untold => untold',
         \A r \in Run : runs'[r] = "gone" <=> runs[r] = "gone",
         runLog = "closed" => runsShown' = NoRuns,
         ~crossed' /\ ~untold' =>
           \A r \in Run : runs[r] = "gone" /\ runsShown'[r] # "none" => Telling(wire', r)
  PROVE  RunsInv'
<1>1. ASSUME NEW k \in DOMAIN wire', wire'[k].at[1] = "runs"
      PROVE  \E j \in DOMAIN wire : /\ wire'[k].op = wire[j].op /\ wire'[k].at = wire[j].at
                                    /\ wire'[k].heard = wire[j].heard
                                    /\ Told(wire'[k]) => wire'[k].answer = wire[j].answer
  BY <1>1 DEF Carried, Told
<1>2. \A k \in DOMAIN wire' : RunRead(wire'[k]) => wire'[k].heard  BY <1>1 DEF RunsInv, RunRead
<1>3. runLog' = "closed" =>
        runsShown' = NoRuns /\ \A k \in DOMAIN wire' : wire'[k].at[1] = "runs" => ~wire'[k].heard
  BY <1>1 DEF RunsInv
<1>4. ASSUME ~crossed'
      PROVE  /\ \A j, k \in DOMAIN wire' : ~(RunRead(wire'[j]) /\ RunDrop(wire'[k]))
             /\ \A k \in DOMAIN wire' : RunRead(wire'[k]) /\ Told(wire'[k]) =>
                  \A r \in Run : runs'[r] = "gone" => wire'[k].answer[2][r] = "none"
             /\ runLog' # "closed" => \A k \in DOMAIN wire' : RunDrop(wire'[k]) => wire'[k].heard
  <2>1. \A j, k \in DOMAIN wire' : ~(RunRead(wire'[j]) /\ RunDrop(wire'[k]))
    BY <1>1, <1>4 DEF RunsInv, RunRead, RunDrop
  <2>2. \A k \in DOMAIN wire' : RunRead(wire'[k]) /\ Told(wire'[k]) =>
          \A r \in Run : runs'[r] = "gone" => wire'[k].answer[2][r] = "none"
    <3>1. SUFFICES ASSUME NEW k \in DOMAIN wire', RunRead(wire'[k]), Told(wire'[k]), NEW r \in Run, runs[r] = "gone"
                   PROVE  wire'[k].answer[2][r] = "none"
      OBVIOUS
    <3>2. PICK j \in DOMAIN wire : RunRead(wire[j]) /\ wire'[k].answer = wire[j].answer
      BY <1>1, <3>1 DEF RunRead
    <3>. QED BY <1>4, <3>1, <3>2 DEF RunsInv, Told
  <2>3. runLog' # "closed" => \A k \in DOMAIN wire' : RunDrop(wire'[k]) => wire'[k].heard
    BY <1>1, <1>4 DEF RunsInv, RunDrop
  <2>. QED BY <2>1, <2>2, <2>3
<1>5. ~crossed' /\ ~untold' =>
        \A r \in Run : runs'[r] = "gone" /\ runsShown'[r] # "none" => Telling(wire', r)
  OBVIOUS
<1>6. (NoRuns)' = NoRuns  BY DEF NoRuns
<1>. QED BY <1>2, <1>3, <1>4, <1>5, <1>6 DEF RunsInv

LEMMA RunsAfter ==
  ASSUME Sound(wire), NEW i \in DOMAIN wire, NEW calls, Sound(calls), \A j \in DOMAIN calls : calls[j].at[1] # "runs"
  PROVE  /\ Carried(After(i, calls), wire)
         /\ \A r : Telling(wire, r) /\ ~(RunDrop(wire[i]) /\ Told(wire[i]) /\ r \in wire[i].answer[2])
                     => Telling(After(i, calls), r)
<1>. DEFINE u == After(i, calls)
<1>1. /\ \A k \in DOMAIN u :
           \/ \E j \in DOMAIN wire \ {i} : Same(u[k], wire[j]) /\ u[k].heard = wire[j].heard
           \/ \E j \in DOMAIN calls : u[k] = calls[j]
      /\ \A j \in DOMAIN wire \ {i} : \E k \in DOMAIN u : Same(u[k], wire[j])
  BY AfterCalls DEF Sound
<1>. HIDE DEF u
<1>2. Carried(u, wire)  BY <1>1 DEF Carried, Same
<1>3. ASSUME NEW r, Telling(wire, r), ~(RunDrop(wire[i]) /\ Told(wire[i]) /\ r \in wire[i].answer[2])
      PROVE  Telling(u, r)
  <2>1. PICK j \in DOMAIN wire : RunDrop(wire[j]) /\ Told(wire[j]) /\ r \in wire[j].answer[2]
    BY <1>3 DEF Telling
  <2>2. j # i  BY <1>3, <2>1
  <2>3. PICK k \in DOMAIN u : Same(u[k], wire[j])  BY <1>1, <2>2
  <2>4. RunDrop(u[k]) /\ Told(u[k]) /\ r \in u[k].answer[2]  BY <2>1, <2>3 DEF Same, RunDrop, Told
  <2>. QED BY <2>4 DEF Telling
<1>. QED BY <1>2, <1>3 DEF u

LEMMA RunsSent ==
  ASSUME NEW w, NEW calls, NEW u, Sound(w), Sound(calls), u = w \o calls
  PROVE  /\ (\A j \in DOMAIN calls : calls[j].at[1] # "runs") => Carried(u, w)
         /\ \A r : Telling(w, r) => Telling(u, r)
<1>1. IsWire(w) /\ IsWire(calls)  BY DEF Sound
<1>2. \A k \in DOMAIN u : (\E j \in DOMAIN w : u[k] = w[j]) \/ (\E j \in DOMAIN calls : u[k] = calls[j])
  BY <1>1, SentCalls
<1>3. \A j \in DOMAIN w : \E k \in DOMAIN u : u[k] = w[j]  BY <1>1, SentCalls
<1>4. (\A j \in DOMAIN calls : calls[j].at[1] # "runs") => Carried(u, w)  BY <1>2 DEF Carried
<1>5. \A r : Telling(w, r) => Telling(u, r)  BY <1>3 DEF Telling
<1>. QED BY <1>4, <1>5

LEMMA RunsReplied ==
  ASSUME Sound(wire), NEW i \in DOMAIN wire, NEW a, Reply(i, a)
  PROVE  /\ wire[i].at[1] # "runs" \/ a = Error => Carried(wire', wire)
         /\ \A r : Telling(wire, r) /\ ~(RunDrop(wire[i]) /\ Told(wire[i]) /\ r \in wire[i].answer[2])
                     => Telling(wire', r)
         /\ \A r : RunDrop(wire[i]) /\ wire[i].heard /\ a \notin {NotYet, Error} /\ r \in a[2] => Telling(wire', r)
<1>1. /\ \A k \in DOMAIN wire' :
           \/ \E j \in DOMAIN wire \ {i} : wire'[k] = wire[j]
           \/ /\ wire[i].heard /\ wire'[k].op = wire[i].op /\ wire'[k].at = wire[i].at
              /\ wire'[k].answer = a /\ wire'[k].heard
      /\ \A j \in DOMAIN wire \ {i} : \E k \in DOMAIN wire' : wire'[k] = wire[j]
      /\ wire[i].heard => \E k \in DOMAIN wire' : /\ wire'[k].op = wire[i].op /\ wire'[k].at = wire[i].at
                                                  /\ wire'[k].answer = a /\ wire'[k].heard
  BY RepliedCalls DEF Sound
<1>2. wire[i].at[1] # "runs" \/ a = Error => Carried(wire', wire)
  BY <1>1 DEF Carried
<1>3. ASSUME NEW r, Telling(wire, r), ~(RunDrop(wire[i]) /\ Told(wire[i]) /\ r \in wire[i].answer[2])
      PROVE  Telling(wire', r)
  <2>1. PICK j \in DOMAIN wire : RunDrop(wire[j]) /\ Told(wire[j]) /\ r \in wire[j].answer[2]
    BY <1>3 DEF Telling
  <2>2. j # i  BY <1>3, <2>1
  <2>. QED BY <1>1, <2>1, <2>2 DEF Telling
<1>4. ASSUME NEW r, RunDrop(wire[i]), wire[i].heard, a \notin {NotYet, Error}, r \in a[2]
      PROVE  Telling(wire', r)
  BY <1>1, <1>4 DEF Telling, RunDrop, Told
<1>. QED BY <1>2, <1>3, <1>4

(* The answer to a deletion of one run names it.                           *)
LEMMA OneRun ==
  ASSUME NEW c, TaskCall(c), RunDrop(c), Told(c), Len(c.at) = 2
  PROVE  c.answer[2] = {c.at[2]}
<1>1. \/ \E r \in Run : c.at = <<"runs", r>> /\ Gives(c, {{r}})
      \/ c.at = <<"runs">> \/ c.at[1] = "tasks"
  BY TaskDrops DEF RunDrop
<1>2. c.at = <<"runs">> => Len(c.at) = 1  OBVIOUS
<1>3. c.at # <<"runs">> /\ c.at[1] = "runs"  BY <1>2 DEF RunDrop
<1>4. PICK r \in Run : c.at = <<"runs", r>> /\ Gives(c, {{r}})  BY ONLY <1>1, <1>3
<1>5. c.at[2] = r  BY <1>4
<1>. QED BY <1>4, <1>5, AnswerIs DEF Gives, Told

(* The answers of the services.                                            *)
LEMMA RunsServed ==
  ASSUME Sound(wire), TasksTyped, RunsInv, NEW i \in DOMAIN wire, TasksServe(i) \/ TaskCallFails(i)
  PROVE  RunsInv'
<1>. USE DEF TasksTyped
<1>0. TaskCall(wire[i]) /\ crossed \in BOOLEAN /\ untold \in BOOLEAN  BY DEF TaskCalls, TasksTypeOK
<1>1. ASSUME NEW a, Reply(i, a), wire[i].at[1] = "tasks", UNCHANGED <<runs, log, crossed>>, untold => untold'
      PROVE  RunsInv'
  <2>1. Carried(wire', wire) /\ \A r : Telling(wire, r) => Telling(wire', r)
    BY <1>1, RunsReplied DEF RunDrop
  <2>. QED BY <1>0, <1>1, <2>1, RunsCarried DEF log, RunsInv
<1>2. \A o \in {"add", "set", "run"} : wire[i].op = o => wire[i].at[1] = "tasks"  BY <1>0 DEF TaskCall
<1>3. CASE ServeListTasks(i)  BY <1>1, <1>3 DEF ServeListTasks, tvars, jobs
<1>4. CASE ServeListRuns(i)
  <2>. DEFINE v == Present(runs)
  <2>1. RunRead(wire[i]) /\ Reply(i, Answer(v)) /\ UNCHANGED <<runs, runLog, runsShown, crossed, untold>>
    BY <1>4 DEF ServeListRuns, RunRead, tvars, jobs, log
  <2>2. \A r \in Run : runs[r] = "gone" => v[r] = "none"  BY DEF Present
  <2>. HIDE DEF v
  <2>3. \A k \in DOMAIN wire' :
          \/ \E j \in DOMAIN wire \ {i} : wire'[k] = wire[j]
          \/ /\ wire'[k].op = wire[i].op /\ wire'[k].at = wire[i].at
             /\ wire'[k].answer = Answer(v) /\ wire'[k].heard
    BY <2>1, RepliedCalls DEF Sound
  <2>4. ~RunDrop(wire[i])  BY <2>1 DEF RunRead, RunDrop
  <2>5. \A r : Telling(wire, r) => Telling(wire', r)  BY <2>1, <2>4, RunsReplied
  <2>6. wire[i].heard  BY <2>1 DEF RunsInv
  <2>7. /\ \A k \in DOMAIN wire' : RunRead(wire'[k]) => wire'[k].heard
        /\ \A k \in DOMAIN wire' : RunDrop(wire'[k]) => \E j \in DOMAIN wire : wire'[k] = wire[j]
        /\ \A k \in DOMAIN wire' : RunRead(wire'[k]) => \E j \in DOMAIN wire : RunRead(wire[j])
    BY <2>1, <2>3 DEF RunsInv, RunRead, RunDrop
  <2>8. runLog = "closed" => \A k \in DOMAIN wire' : wire'[k].at[1] = "runs" => ~wire'[k].heard
    <3>1. runLog # "closed"  BY <2>1, <2>6 DEF RunsInv, RunRead
    <3>. QED BY <3>1
  <2>9. ASSUME ~crossed
        PROVE  /\ \A j, k \in DOMAIN wire' : ~(RunRead(wire'[j]) /\ RunDrop(wire'[k]))
               /\ \A k \in DOMAIN wire' : RunRead(wire'[k]) /\ Told(wire'[k]) =>
                    \A r \in Run : runs[r] = "gone" => wire'[k].answer[2][r] = "none"
               /\ runLog # "closed" => \A k \in DOMAIN wire' : RunDrop(wire'[k]) => wire'[k].heard
    <3>1. \A j, k \in DOMAIN wire' : ~(RunRead(wire'[j]) /\ RunDrop(wire'[k]))  BY <2>7, <2>9 DEF RunsInv
    <3>2. ASSUME NEW k \in DOMAIN wire', RunRead(wire'[k]), Told(wire'[k]), NEW r \in Run, runs[r] = "gone"
          PROVE  wire'[k].answer[2][r] = "none"
      <4>1. CASE \E j \in DOMAIN wire : wire'[k] = wire[j]  BY <2>9, <3>2, <4>1 DEF RunsInv
      <4>2. CASE wire'[k].answer = Answer(v)  BY <2>2, <3>2, <4>2, AnswerIs
      <4>. QED BY <2>3, <4>1, <4>2
    <3>3. runLog # "closed" => \A k \in DOMAIN wire' : RunDrop(wire'[k]) => wire'[k].heard
      BY <2>7, <2>9 DEF RunsInv
    <3>. QED BY <3>1, <3>2, <3>3
  <2>10. (NoRuns)' = NoRuns  BY DEF NoRuns
  <2>11. runLog = "closed" => runsShown = NoRuns  BY DEF RunsInv
  <2>12. ~crossed /\ ~untold => \A r \in Run : runs[r] = "gone" /\ runsShown[r] # "none" => Telling(wire', r)
    BY <2>5 DEF RunsInv
  <2>. QED BY <2>1, <2>7, <2>8, <2>9, <2>10, <2>11, <2>12 DEF RunsInv
<1>5. CASE ServeCreateTask(i)
  <2>1. UNCHANGED <<runs, log, crossed, untold>> /\ \E a : Reply(i, a)  BY <1>5 DEF ServeCreateTask
  <2>. QED BY <1>1, <1>2, <1>5, <2>1 DEF ServeCreateTask
<1>6. CASE ServeUpdateTask(i)
  <2>1. UNCHANGED <<runs, log, crossed, untold>> /\ \E a : Reply(i, a)
    BY <1>6 DEF ServeUpdateTask, Missing, jobs
  <2>. QED BY <1>1, <1>2, <1>6, <2>1 DEF ServeUpdateTask
<1>7. CASE ServeDeleteTask(i)
  <2>1. UNCHANGED <<runs, log, crossed, untold>> /\ \E a : Reply(i, a)
    BY <1>7 DEF ServeDeleteTask, Missing, jobs
  <2>. QED BY <1>1, <1>7, <2>1 DEF ServeDeleteTask
<1>8. CASE ServeRunNow(i)
  <2>1. UNCHANGED <<runs, log, crossed, untold>> /\ \E a : Reply(i, a)  BY <1>8 DEF ServeRunNow
  <2>. QED BY <1>1, <1>2, <1>8, <2>1 DEF ServeRunNow
<1>9. CASE ServeDeleteRuns(i)
  <2>. DEFINE one == Len(wire[i].at) = 2
              these == IF one THEN {wire[i].at[2]} ELSE {r \in Run : runs[r] # "none"}
  <2>1. RunDrop(wire[i]) /\ UNCHANGED <<log, crossed, untold>> /\ wire[i].answer = NotYet
    BY <1>9 DEF ServeDeleteRuns, RunDrop, Asked
  <2>2. \E a : /\ Reply(i, a)
               /\ \/ a = Error /\ runs' = runs
                  \/ a = Answer(these) /\ runs' = [r \in Run |-> IF r \in these THEN "gone" ELSE runs[r]]
    BY <1>9 DEF ServeDeleteRuns
  <2>. HIDE DEF these, one
  <2>3. PICK a : /\ Reply(i, a)
                 /\ \/ a = Error /\ runs' = runs
                    \/ a = Answer(these) /\ runs' = [r \in Run |-> IF r \in these THEN "gone" ELSE runs[r]]
    BY <2>2
  <2>4. \A k \in DOMAIN wire' :
          \/ \E j \in DOMAIN wire \ {i} : wire'[k] = wire[j]
          \/ wire[i].heard /\ wire'[k].op = wire[i].op /\ wire'[k].at = wire[i].at /\ wire'[k].heard
    BY <2>3, RepliedCalls DEF Sound
  <2>5. ~RunRead(wire[i])  BY <2>1 DEF RunRead, RunDrop
  <2>6. /\ \A k \in DOMAIN wire' : RunRead(wire'[k]) => \E j \in DOMAIN wire : wire'[k] = wire[j]
        /\ \A k \in DOMAIN wire' : RunDrop(wire'[k]) => \E j \in DOMAIN wire :
             RunDrop(wire[j]) /\ (wire[j].heard => wire'[k].heard)
    <3>1. \A k \in DOMAIN wire' : RunRead(wire'[k]) => \E j \in DOMAIN wire : wire'[k] = wire[j]
      BY <2>4, <2>5 DEF RunRead
    <3>2. \A k \in DOMAIN wire' : RunDrop(wire'[k]) => \E j \in DOMAIN wire :
             RunDrop(wire[j]) /\ (wire[j].heard => wire'[k].heard)
      BY <2>1, <2>4
    <3>. QED BY <3>1, <3>2
  <2>7. ASSUME runLog = "closed", NEW k \in DOMAIN wire', wire'[k].at[1] = "runs"  PROVE ~wire'[k].heard
    <3>1. ~wire[i].heard  BY <2>1, <2>7 DEF RunsInv, RunDrop
    <3>2. \E j \in DOMAIN wire : wire'[k] = wire[j]  BY <2>4, <3>1
    <3>. QED BY <2>7, <3>2 DEF RunsInv
  <2>8. ~crossed => \A k \in DOMAIN wire' : ~RunRead(wire'[k])
    BY <2>1, <2>6 DEF RunsInv
  <2>9. ASSUME ~crossed, ~untold, NEW r \in Run, runs'[r] = "gone", runsShown[r] # "none"
        PROVE  Telling(wire', r)
    <3>1. CASE runs[r] = "gone"
      <4>1. Telling(wire, r)  BY <2>9, <3>1 DEF RunsInv
      <4>2. ~Told(wire[i])  BY <2>1 DEF Told
      <4>. QED BY <2>3, <4>1, <4>2, RunsReplied
    <3>2. CASE runs[r] # "gone"
      <4>1. a = Answer(these) /\ r \in these  BY <2>3, <2>9, <3>2
      <4>2. runLog # "closed"  BY <2>9 DEF RunsInv, NoRuns
      <4>3. wire[i].heard  BY <2>1, <2>9, <4>2 DEF RunsInv
      <4>. QED BY <2>1, <2>3, <4>1, <4>3, AnswerIs, RunsReplied
    <3>. QED BY <3>1, <3>2
  <2>10. (NoRuns)' = NoRuns  BY DEF NoRuns
  <2>11. runLog' = runLog /\ runsShown' = runsShown /\ crossed' = crossed /\ untold' = untold
    BY <2>1 DEF log
  <2>12. \A k \in DOMAIN wire' : RunRead(wire'[k]) => wire'[k].heard  BY <2>6 DEF RunsInv
  <2>13. ~crossed /\ runLog # "closed" => \A k \in DOMAIN wire' : RunDrop(wire'[k]) => wire'[k].heard
    BY <2>6 DEF RunsInv
  <2>14. runLog = "closed" => runsShown = NoRuns  BY DEF RunsInv
  <2>. QED BY <2>7, <2>8, <2>9, <2>10, <2>11, <2>12, <2>13, <2>14 DEF RunsInv
<1>10. CASE TaskCallFails(i)
  <2>1. Reply(i, Error) /\ UNCHANGED <<runs, log, crossed>> /\ (untold => untold')
        /\ (wire[i].op = "drop" /\ wire[i].answer # NotYet => untold')
    BY <1>10 DEF TaskCallFails, Fail, jobs
  <2>2. Carried(wire', wire)  BY <2>1, RunsReplied
  <2>3. ASSUME ~untold', NEW r, Telling(wire, r)  PROVE Telling(wire', r)
    <3>1. ~(RunDrop(wire[i]) /\ Told(wire[i]))  BY <2>1, <2>3 DEF RunDrop, Told
    <3>. QED BY <2>1, <2>3, <3>1, RunsReplied
  <2>. QED BY <1>0, <2>1, <2>2, <2>3, RunsCarried DEF log, RunsInv
<1>. QED BY <1>3, <1>4, <1>5, <1>6, <1>7, <1>8, <1>9, <1>10 DEF TasksServe

(* It is there anew: what was asked or ordered before is heard no more.    *)
LEMMA RunsAnew ==
  ASSUME NEW w, Sound(w), Anew(w), runs' = runs
  PROVE  RunsInv'
<1>. DEFINE u == Leave(w, {"runs"})
            c == Call("read", <<"runs", "first">>)
<1>1. /\ wire' = u \o <<c>> /\ runLog' = "loading" /\ runsShown' = NoRuns /\ crossed' = Deletion(w)
  BY DEF Anew, ReadRuns
<1>2. /\ \A k \in DOMAIN u :
           /\ u[k].heard \/ (u[k].op # "read" /\ u[k].answer = NotYet)
           /\ \E j \in DOMAIN w : Same(u[k], w[j]) /\ u[k].heard = (w[j].heard /\ w[j].at[1] \notin {"runs"})
      /\ IsWire(u)
  BY LeftCalls DEF Sound
<1>3. /\ c.op = "read" /\ c.at[1] = "runs" /\ c.answer = NotYet /\ c.heard = TRUE
  BY CallIs DEF Call
<1>4. Sound(<<c>>) /\ IsWire(<<c>>) /\ DOMAIN <<c>> = {1} /\ <<c>>[1] = c  BY SoundCall DEF Sound
<1>. HIDE DEF u, c
<1>5. \A k \in DOMAIN wire' : (\E j \in DOMAIN u : wire'[k] = u[j]) \/ wire'[k] = c
  <2>1. \A k \in DOMAIN wire' : (\E j \in DOMAIN u : wire'[k] = u[j]) \/ (\E j \in DOMAIN <<c>> : wire'[k] = <<c>>[j])
    BY <1>1, <1>2, <1>4, SentCalls
  <2>. QED BY <1>4, <2>1
<1>6. \A k \in DOMAIN u : u[k].at[1] = "runs" => u[k].op # "read" /\ ~u[k].heard  BY <1>2 DEF Same
<1>7. \A k \in DOMAIN wire' : RunRead(wire'[k]) => wire'[k] = c  BY <1>5, <1>6 DEF RunRead
<1>8. ~crossed' => \A k \in DOMAIN wire' : ~RunDrop(wire'[k])
  <2>. SUFFICES ASSUME ~crossed', NEW k \in DOMAIN wire', RunDrop(wire'[k])  PROVE FALSE  OBVIOUS
  <2>1. wire'[k] # c  BY <1>3 DEF RunDrop
  <2>2. PICK j \in DOMAIN u : wire'[k] = u[j]  BY <1>5, <2>1
  <2>3. \E n \in DOMAIN w : w[n].op = "drop"  BY <1>2, <2>2 DEF RunDrop, Same
  <2>. QED BY <1>1, <2>3 DEF Deletion
<1>9. \A r \in Run : runsShown'[r] = "none"  BY <1>1 DEF NoRuns
<1>10. \A k \in DOMAIN wire' : RunRead(wire'[k]) => wire'[k].heard /\ ~Told(wire'[k])
  BY <1>3, <1>7 DEF Told
<1>. QED BY <1>1, <1>8, <1>9, <1>10 DEF RunsInv

LEMMA RunsWentOn ==
  ASSUME Sound(wire), TasksTyped, RunsInv, NEW i \in DOMAIN wire, TasksGoOn(i)
  PROVE  RunsInv'
<1>. USE DEF TasksTyped
<1>0. TaskCall(wire[i]) /\ crossed \in BOOLEAN /\ untold \in BOOLEAN  BY DEF TaskCalls, TasksTypeOK
<1>1. /\ Sound(<<>>) /\ \A j \in DOMAIN <<>> : <<>>[j].at[1] # "runs"
      /\ Sound(ReadTasks) /\ \A j \in DOMAIN ReadTasks : ReadTasks[j].at[1] # "runs"
  <2>1. Call("read", <<"tasks">>).at = <<"tasks">>  BY CallIs
  <2>2. \A j \in DOMAIN ReadTasks : ReadTasks[j] = Call("read", <<"tasks">>)  BY DEF ReadTasks
  <2>3. DOMAIN <<>> = {}  OBVIOUS
  <2>. QED BY <2>1, <2>2, <2>3, TaskAsks
<1>2. ASSUME NEW calls \in {<<>>, ReadTasks}
      PROVE  /\ Carried(After(i, calls), wire)
             /\ \A r : Telling(wire, r) /\ ~(RunDrop(wire[i]) /\ Told(wire[i]) /\ r \in wire[i].answer[2])
                         => Telling(After(i, calls), r)
  BY <1>1, RunsAfter
<1>3. ASSUME NEW calls \in {<<>>, ReadTasks}, wire' = After(i, calls), ~(RunDrop(wire[i]) /\ Told(wire[i])),
             UNCHANGED <<runs, runLog, runsShown, crossed>>, untold => untold'
      PROVE  RunsInv'
  <2>1. Carried(wire', wire) /\ \A r : Telling(wire, r) => Telling(wire', r)  BY <1>2, <1>3
  <2>. QED BY <1>0, <1>3, <2>1, RunsCarried DEF RunsInv
<1>4. CASE TasksCome(i)
  <2>1. /\ wire' = After(i, <<>>) /\ wire[i].at[1] = "tasks" /\ (untold => untold')
        /\ UNCHANGED <<runs, runLog, runsShown, crossed>>
    BY <1>4 DEF TasksCome, jobs, log
  <2>. QED BY <1>3, <1>4, <2>1 DEF RunDrop
<1>5. CASE TaskCreated(i)
  <2>1. wire' = After(i, ReadTasks) /\ wire[i].op = "add" /\ UNCHANGED <<runs, runLog, runsShown, crossed, untold>>
    BY <1>5 DEF TaskCreated, Came, jobs, log
  <2>. QED BY <1>3, <2>1 DEF RunDrop
<1>6. CASE TaskSet(i)
  <2>1. wire' = After(i, ReadTasks) /\ wire[i].op = "set" /\ UNCHANGED <<runs, runLog, runsShown, crossed, untold>>
    BY <1>6 DEF TaskSet, Came, tvars, jobs, log
  <2>. QED BY <1>3, <2>1 DEF RunDrop
<1>7. CASE TaskDeleted(i)
  <2>1. /\ wire' = After(i, ReadTasks) /\ wire[i].at[1] = "tasks"
        /\ UNCHANGED <<runs, runLog, runsShown, crossed, untold>>
    BY <1>7 DEF TaskDeleted, jobs, log
  <2>. QED BY <1>3, <2>1 DEF RunDrop
<1>8. CASE RunStarted(i)
  <2>1. wire[i].op = "run" /\ UNCHANGED <<runs, untold>>  BY <1>8 DEF RunStarted, Came, jobs
  <2>2. \/ wire' = After(i, ReadTasks) /\ UNCHANGED <<runLog, runsShown, crossed>>
        \/ Anew(After(i, ReadTasks))
    BY <1>8 DEF RunStarted, log
  <2>3. Sound(After(i, ReadTasks))  BY <1>1, SoundAfter
  <2>. QED BY <1>3, <2>1, <2>2, <2>3, RunsAnew DEF RunDrop
<1>9. CASE RunsCome(i)
  <2>1. /\ RunRead(wire[i]) /\ wire' = After(i, <<>>) /\ UNCHANGED <<runs, untold, crossed>>
        /\ runLog' = IF wire[i].at[2] = "first" THEN "shown" ELSE runLog
        /\ \/ Told(wire[i]) /\ runsShown' = wire[i].answer[2]
           \/ runsShown' = runsShown
    BY <1>9 DEF RunsCome, Came, Failed, Value, RunRead, Told, jobs
  <2>2. runLog # "closed"  BY <2>1 DEF RunsInv, RunRead
  <2>3. ~RunDrop(wire[i])  BY <2>1 DEF RunRead, RunDrop
  <2>4. Carried(wire', wire) /\ \A r : Telling(wire, r) => Telling(wire', r)  BY <1>2, <2>1, <2>3
  <2>5. runLog' # "closed"  BY <2>1, <2>2
  <2>6. ASSUME NEW k \in DOMAIN wire', wire'[k].at[1] = "runs"
        PROVE  \E j \in DOMAIN wire : /\ wire'[k].op = wire[j].op /\ wire'[k].at = wire[j].at
                                      /\ wire'[k].heard = wire[j].heard
                                      /\ Told(wire'[k]) => wire'[k].answer = wire[j].answer
    BY <2>4, <2>6 DEF Carried, Told
  <2>7. \A k \in DOMAIN wire' : RunRead(wire'[k]) => wire'[k].heard  BY <2>6 DEF RunsInv, RunRead
  <2>8. ASSUME ~crossed
        PROVE  /\ \A j, k \in DOMAIN wire' : ~(RunRead(wire'[j]) /\ RunDrop(wire'[k]))
               /\ \A k \in DOMAIN wire' : RunRead(wire'[k]) /\ Told(wire'[k]) =>
                    \A r \in Run : runs[r] = "gone" => wire'[k].answer[2][r] = "none"
               /\ \A k \in DOMAIN wire' : RunDrop(wire'[k]) => wire'[k].heard
    <3>1. \A j, k \in DOMAIN wire' : ~(RunRead(wire'[j]) /\ RunDrop(wire'[k]))
      BY <2>6, <2>8 DEF RunsInv, RunRead, RunDrop
    <3>2. ASSUME NEW k \in DOMAIN wire', RunRead(wire'[k]), Told(wire'[k]), NEW r \in Run, runs[r] = "gone"
          PROVE  wire'[k].answer[2][r] = "none"
      <4>1. PICK j \in DOMAIN wire : RunRead(wire[j]) /\ wire'[k].answer = wire[j].answer
        BY <2>6, <3>2 DEF RunRead
      <4>. QED BY <2>8, <3>2, <4>1 DEF RunsInv, Told
    <3>3. \A k \in DOMAIN wire' : RunDrop(wire'[k]) => wire'[k].heard
      BY <2>2, <2>6, <2>8 DEF RunsInv, RunDrop
    <3>. QED BY <3>1, <3>2, <3>3
  <2>9. ASSUME ~crossed, ~untold, NEW r \in Run, runs[r] = "gone", runsShown'[r] # "none"
        PROVE  Telling(wire', r)
    <3>1. runsShown' = runsShown  BY <2>1, <2>9 DEF RunsInv
    <3>. QED BY <2>4, <2>9, <3>1 DEF RunsInv
  <2>. QED BY <2>1, <2>5, <2>7, <2>8, <2>9 DEF RunsInv
<1>10. CASE RunDeleted(i)
  <2>. DEFINE q == wire[i].at[2]
  <2>1. /\ RunDrop(wire[i]) /\ Told(wire[i]) /\ Len(wire[i].at) = 2 /\ wire' = After(i, <<>>)
        /\ runsShown' = [runsShown EXCEPT ![q] = "none"] /\ UNCHANGED <<runs, runLog, crossed, untold>>
    BY <1>10 DEF RunDeleted, Came, RunDrop, Told, jobs
  <2>2. wire[i].answer[2] = {q}  BY <1>0, <2>1, OneRun
  <2>3. Carried(wire', wire) /\ \A r : Telling(wire, r) /\ r # q => Telling(wire', r)  BY <1>2, <2>1, <2>2
  <2>4. runsShown \in [Run -> {"none", "running", "done"}]  BY DEF TasksTypeOK
  <2>. HIDE DEF q
  <2>5. ASSUME NEW r \in Run, runsShown'[r] # "none"  PROVE r # q /\ runsShown[r] # "none"
    BY <2>1, <2>4, <2>5
  <2>6. ~crossed /\ ~untold => \A r \in Run : runs[r] = "gone" /\ runsShown'[r] # "none" => Telling(wire', r)
    BY <2>3, <2>5 DEF RunsInv
  <2>7. runLog = "closed" => runsShown' = NoRuns
    <3>1. SUFFICES ASSUME runLog = "closed"  PROVE runsShown' = NoRuns  OBVIOUS
    <3>2. runsShown = NoRuns  BY <3>1 DEF RunsInv
    <3>. QED BY <2>1, <3>2 DEF NoRuns
  <2>. QED BY <1>0, <2>1, <2>3, <2>6, <2>7, RunsCarried
<1>11. CASE LogsCleared(i)
  <2>1. /\ wire' = After(i, <<>>) /\ runsShown' = NoRuns /\ UNCHANGED <<runs, runLog, crossed, untold>>
    BY <1>11 DEF LogsCleared, jobs
  <2>2. Carried(wire', wire)  BY <1>2, <2>1
  <2>3. \A r \in Run : runsShown'[r] = "none"  BY <2>1 DEF NoRuns
  <2>. QED BY <1>0, <2>1, <2>2, <2>3, RunsCarried
<1>12. CASE TaskOrderFails(i)
  <2>1. /\ wire' = After(i, <<>>) /\ UNCHANGED <<runs, runLog, runsShown, untold>> /\ wire[i].answer = Error
        /\ crossed => crossed'
    BY <1>12 DEF TaskOrderFails, Failed, jobs
  <2>2. Carried(wire', wire) /\ \A r : Telling(wire, r) => Telling(wire', r)  BY <1>2, <2>1 DEF Told
  <2>. QED BY <1>0, <2>1, <2>2, RunsCarried DEF RunsInv
<1>. QED BY <1>4, <1>5, <1>6, <1>7, <1>8, <1>9, <1>10, <1>11, <1>12 DEF TasksGoOn

(* The person's clicks, the timer and the runs themselves.                 *)
LEMMA RunsClicked ==
  ASSUME Sound(wire), TasksTyped, RunsInv,
         TasksClick \/ Poll \/ RunBegins \/ RunSkipped \/ \E r \in Run : RunEnds(r)
  PROVE  RunsInv'
<1>. USE DEF TasksTyped
<1>0. crossed \in BOOLEAN /\ untold \in BOOLEAN  BY DEF TasksTypeOK
<1>1. ASSUME Carried(wire', wire), \A r : Telling(wire, r) => Telling(wire', r),
             UNCHANGED <<runLog, runsShown, crossed, untold>>, \A r \in Run : runs'[r] = "gone" <=> runs[r] = "gone"
      PROVE  RunsInv'
  BY <1>0, <1>1, RunsCarried DEF RunsInv
<1>2. ASSUME NEW c, Sound(<<c>>), Send(<<c>>), c.at[1] = "tasks", UNCHANGED <<runLog, runsShown, crossed, untold, runs>>
      PROVE  RunsInv'
  <2>1. \A j \in DOMAIN <<c>> : <<c>>[j].at[1] # "runs"  BY <1>2
  <2>2. wire' = wire \o <<c>>  BY <1>2 DEF Send
  <2>3. Carried(wire', wire) /\ \A r : Telling(wire, r) => Telling(wire', r)  BY <1>2, <2>1, <2>2, RunsSent
  <2>. QED BY <1>1, <1>2, <2>3
<1>3. \A o, a : Sound(<<Call(o, a)>>) /\ Call(o, a).at = a /\ Call(o, a).op = o
                /\ Call(o, a).answer = NotYet /\ Call(o, a).heard = TRUE
  BY SoundCall DEF Call
<1>4. ASSUME NEW o, NEW a, a[1] = "tasks", Send(<<Call(o, a)>>), UNCHANGED <<runLog, runsShown, crossed, untold, runs>>
      PROVE  RunsInv'
  BY <1>2, <1>3, <1>4
<1>5. ASSUME UNCHANGED <<wire, runLog, runsShown, crossed, untold>>, \A r \in Run : runs'[r] = "gone" <=> runs[r] = "gone"
      PROVE  RunsInv'
  <2>1. Carried(wire', wire)  BY <1>5 DEF Carried
  <2>2. \A r : Telling(wire, r) => Telling(wire', r)  BY <1>5
  <2>. QED BY <1>1, <1>5, <2>1, <2>2
<1>6. CASE RefreshTasks
  <2>1. /\ Send(<<Call("read", <<"tasks">>)>>) /\ UNCHANGED <<runLog, runsShown, crossed, untold, runs>>
    BY <1>6 DEF RefreshTasks, ReadTasks, tvars, jobs, log
  <2>2. <<"tasks">>[1] = "tasks"  OBVIOUS
  <2>. QED BY <1>4, <2>1, <2>2
<1>7. CASE OpenTaskForm \/ CancelDelete \/ \E t \in Task : PickTask(t)
  BY <1>5, <1>7 DEF OpenTaskForm, CancelDelete, PickTask, jobs, log
<1>8. CASE CloseTaskForm
  <2>. DEFINE u == Orphan(wire, "add", "tasks")
  <2>1. wire' = u /\ UNCHANGED <<runLog, runsShown, crossed, untold, runs>>
    BY <1>8 DEF CloseTaskForm, jobs, log
  <2>2. DOMAIN u = DOMAIN wire /\ \A k \in DOMAIN wire : Same(u[k], wire[k]) /\ u[k].heard = wire[k].heard
    BY OrphanIs DEF Sound
  <2>. HIDE DEF u
  <2>3. Carried(u, wire)  BY <2>2 DEF Carried, Same
  <2>4. \A r : Telling(wire, r) => Telling(u, r)  BY <2>2 DEF Telling, Same, RunDrop, Told
  <2>. QED BY <1>1, <2>1, <2>3, <2>4
<1>9. CASE SubmitTask
  <2>1. /\ Send(<<Call("add", <<"tasks">>)>>) /\ UNCHANGED <<runLog, runsShown, crossed, untold, runs>>
    BY <1>9 DEF SubmitTask, tvars, jobs, log
  <2>2. <<"tasks">>[1] = "tasks"  OBVIOUS
  <2>. QED BY <1>4, <2>1, <2>2
<1>10. CASE ConfirmDelete
  <2>1. PICK t \in toDelete : Send(<<Call("drop", <<"tasks", t>>)>>)  BY <1>10 DEF ConfirmDelete
  <2>2. UNCHANGED <<runLog, runsShown, crossed, untold, runs>>  BY <1>10 DEF ConfirmDelete, jobs, log
  <2>3. <<"tasks", t>>[1] = "tasks"  OBVIOUS
  <2>. QED BY <1>4, <2>1, <2>2, <2>3
<1>11. CASE Expand
  <2>1. Anew(wire) /\ runs' = runs  BY <1>11 DEF Expand, jobs
  <2>. QED BY <2>1, RunsAnew
<1>12. CASE Collapse
  <2>. DEFINE u == Leave(wire, {"runs"})
  <2>1. wire' = u /\ runLog' = "closed" /\ runsShown' = NoRuns /\ runs' = runs  BY <1>12 DEF Collapse, jobs
  <2>2. \A k \in DOMAIN u :
          /\ u[k].heard \/ (u[k].op # "read" /\ u[k].answer = NotYet)
          /\ \E j \in DOMAIN wire : Same(u[k], wire[j]) /\ u[k].heard = (wire[j].heard /\ wire[j].at[1] \notin {"runs"})
    BY LeftCalls DEF Sound
  <2>. HIDE DEF u
  <2>3. \A k \in DOMAIN u : u[k].at[1] = "runs" => u[k].op # "read" /\ ~u[k].heard  BY <2>2 DEF Same
  <2>4. \A k \in DOMAIN wire' : ~RunRead(wire'[k])  BY <2>1, <2>3 DEF RunRead
  <2>5. \A r \in Run : runsShown'[r] = "none"  BY <2>1 DEF NoRuns
  <2>. QED BY <2>1, <2>3, <2>4, <2>5 DEF RunsInv, NoRuns
<1>13. CASE RunNow
  <2>1. /\ Send(<<Call("run", <<"tasks">>)>>) /\ UNCHANGED <<runLog, runsShown, crossed, untold, runs>>
    BY <1>13 DEF RunNow, tvars, jobs, log
  <2>2. <<"tasks">>[1] = "tasks"  OBVIOUS
  <2>. QED BY <1>4, <2>1, <2>2
<1>14. ASSUME NEW t \in Task, ToggleTask(t)  PROVE RunsInv'
  <2>1. PICK s : Send(<<Call("set", <<"tasks", t, s>>)>>)  BY <1>14 DEF ToggleTask
  <2>2. UNCHANGED <<runLog, runsShown, crossed, untold, runs>>  BY <1>14 DEF ToggleTask, tvars, jobs, log
  <2>3. <<"tasks", t, s>>[1] = "tasks"  OBVIOUS
  <2>. QED BY <1>4, <2>1, <2>2, <2>3
<1>15. ASSUME NEW a, a[1] = "runs", Send(<<Call("drop", a)>>), runLog # "closed", crossed' = (crossed \/ Reading),
              UNCHANGED <<runLog, runsShown, untold, runs>>
       PROVE  RunsInv'
  <2>. DEFINE c == Call("drop", a)
  <2>1. Sound(<<c>>) /\ c.at[1] = "runs" /\ c.op = "drop" /\ c.heard = TRUE  BY <1>3, <1>15
  <2>2. wire' = wire \o <<c>>  BY <1>15 DEF Send
  <2>. HIDE DEF c
  <2>3. \A k \in DOMAIN wire' : (\E j \in DOMAIN wire : wire'[k] = wire[j]) \/ wire'[k] = c
    <3>1. IsWire(wire) /\ IsWire(<<c>>) /\ DOMAIN <<c>> = {1} /\ <<c>>[1] = c  BY <2>1 DEF Sound
    <3>2. \A k \in DOMAIN wire' : (\E j \in DOMAIN wire : wire'[k] = wire[j]) \/ (\E j \in DOMAIN <<c>> : wire'[k] = <<c>>[j])
      BY <2>2, <3>1, SentCalls
    <3>. QED BY <3>1, <3>2
  <2>4. \A r : Telling(wire, r) => Telling(wire', r)  BY <2>1, <2>2, RunsSent
  <2>5. ~RunRead(c)  BY <2>1 DEF RunRead
  <2>6. \A k \in DOMAIN wire' : RunRead(wire'[k]) => \E j \in DOMAIN wire : wire'[k] = wire[j]  BY <2>3, <2>5
  <2>7. \A k \in DOMAIN wire' : RunRead(wire'[k]) => wire'[k].heard  BY <2>6 DEF RunsInv
  <2>8. ~crossed' => \A k \in DOMAIN wire' : ~RunRead(wire'[k])
    <3>. SUFFICES ASSUME ~crossed', NEW k \in DOMAIN wire', RunRead(wire'[k])  PROVE FALSE  OBVIOUS
    <3>1. PICK j \in DOMAIN wire : RunRead(wire[j])  BY <2>6
    <3>2. wire[j].heard  BY <3>1 DEF RunsInv
    <3>. QED BY <1>15, <3>1, <3>2 DEF Reading, RunRead
  <2>9. ~crossed' => ~crossed  BY <1>15
  <2>10. ~crossed => \A k \in DOMAIN wire' : RunDrop(wire'[k]) => wire'[k].heard
    BY <1>15, <2>1, <2>3 DEF RunsInv
  <2>11. ~crossed' /\ ~untold' =>
           \A r \in Run : runs'[r] = "gone" /\ runsShown'[r] # "none" => Telling(wire', r)
    BY <1>15, <2>4, <2>9 DEF RunsInv
  <2>. QED BY <1>15, <2>7, <2>8, <2>9, <2>10, <2>11 DEF RunsInv
<1>16. CASE ClearLogs
  <2>1. /\ Send(<<Call("drop", <<"runs">>)>>) /\ runLog # "closed" /\ crossed' = (crossed \/ Reading)
        /\ UNCHANGED <<runLog, runsShown, untold, runs>>
    BY <1>16 DEF ClearLogs, jobs
  <2>2. <<"runs">>[1] = "runs"  OBVIOUS
  <2>. QED BY <1>15, <2>1, <2>2
<1>17. ASSUME NEW r \in Run, DeleteRun(r)  PROVE RunsInv'
  <2>1. /\ Send(<<Call("drop", <<"runs", r>>)>>) /\ runLog # "closed" /\ crossed' = (crossed \/ Reading)
        /\ UNCHANGED <<runLog, runsShown, untold, runs>>
    BY <1>17 DEF DeleteRun, jobs
  <2>2. <<"runs", r>>[1] = "runs"  OBVIOUS
  <2>. QED BY <1>15, <2>1, <2>2
<1>18. CASE Poll
  <2>. DEFINE c == Call("read", <<"runs", "poll">>)
  <2>1. /\ wire' = wire \o <<c>> /\ crossed' = (crossed \/ Deletion(wire))
        /\ UNCHANGED <<runLog, runsShown, untold, runs>> /\ \E r \in Run : runsShown[r] = "running"
    BY <1>18 DEF Poll, Send, jobs, log
  <2>2. Sound(<<c>>) /\ c.at = <<"runs", "poll">> /\ c.op = "read" /\ c.heard = TRUE /\ c.answer = NotYet
    BY <1>3
  <2>3. c.at[1] = "runs"  BY <2>2
  <2>. HIDE DEF c
  <2>4. \A k \in DOMAIN wire' : (\E j \in DOMAIN wire : wire'[k] = wire[j]) \/ wire'[k] = c
    <3>1. IsWire(wire) /\ IsWire(<<c>>) /\ DOMAIN <<c>> = {1} /\ <<c>>[1] = c  BY <2>2 DEF Sound
    <3>2. \A k \in DOMAIN wire' : (\E j \in DOMAIN wire : wire'[k] = wire[j]) \/ (\E j \in DOMAIN <<c>> : wire'[k] = <<c>>[j])
      BY <2>1, <3>1, SentCalls
    <3>. QED BY <3>1, <3>2
  <2>5. \A r : Telling(wire, r) => Telling(wire', r)  BY <2>1, <2>2, RunsSent
  <2>6. runLog # "closed"  BY <2>1 DEF RunsInv, NoRuns
  <2>7. \A k \in DOMAIN wire' : RunRead(wire'[k]) => wire'[k].heard  BY <2>2, <2>4 DEF RunsInv
  <2>8. ASSUME ~crossed'
        PROVE  /\ \A j, k \in DOMAIN wire' : ~(RunRead(wire'[j]) /\ RunDrop(wire'[k]))
               /\ \A k \in DOMAIN wire' : RunRead(wire'[k]) /\ Told(wire'[k]) =>
                    \A r \in Run : runs[r] = "gone" => wire'[k].answer[2][r] = "none"
               /\ \A k \in DOMAIN wire' : RunDrop(wire'[k]) => wire'[k].heard
    <3>1. ~crossed /\ \A j \in DOMAIN wire : ~RunDrop(wire[j])  BY <2>1, <2>8 DEF Deletion, RunDrop
    <3>2. \A k \in DOMAIN wire' : ~RunDrop(wire'[k])  BY <2>2, <2>4, <3>1 DEF RunDrop
    <3>3. ~Told(c)  BY <2>2 DEF Told
    <3>4. \A k \in DOMAIN wire' : RunRead(wire'[k]) /\ Told(wire'[k]) =>
            \A r \in Run : runs[r] = "gone" => wire'[k].answer[2][r] = "none"
      BY <2>4, <3>1, <3>3 DEF RunsInv
    <3>. QED BY <3>2, <3>4
  <2>9. ~crossed' /\ ~untold' =>
           \A r \in Run : runs'[r] = "gone" /\ runsShown'[r] # "none" => Telling(wire', r)
    BY <2>1, <2>5 DEF RunsInv
  <2>. QED BY <2>1, <2>6, <2>7, <2>8, <2>9 DEF RunsInv
<1>19. runs \in [Run -> {"none", "running", "done", "gone"}]  BY DEF TasksTypeOK
<1>20. CASE RunBegins
  <2>1. PICK r \in Run : runs[r] = "none" /\ runs' = [runs EXCEPT ![r] = "running"]  BY <1>20 DEF RunBegins
  <2>2. UNCHANGED <<wire, runLog, runsShown, crossed, untold>>  BY <1>20 DEF RunBegins, log
  <2>3. \A q \in Run : runs'[q] = "gone" <=> runs[q] = "gone"  BY <1>19, <2>1
  <2>. QED BY <1>5, <2>2, <2>3
<1>21. CASE RunSkipped  BY <1>5, <1>21 DEF RunSkipped, log
<1>22. ASSUME NEW r \in Run, RunEnds(r)  PROVE RunsInv'
  <2>1. runs[r] = "running" /\ runs' = [runs EXCEPT ![r] = "done"] /\ UNCHANGED <<wire, runLog, runsShown, crossed, untold>>
    BY <1>22 DEF RunEnds, log
  <2>2. \A q \in Run : runs'[q] = "gone" <=> runs[q] = "gone"  BY <1>19, <2>1
  <2>. QED BY <1>5, <2>1, <2>2
<1>. QED BY <1>6, <1>7, <1>8, <1>9, <1>10, <1>11, <1>12, <1>13, <1>14, <1>16, <1>17, <1>18, <1>20,
            <1>21, <1>22 DEF TasksClick

TasksPageInv ==
  IF mounted = "tasks" THEN TasksTyped /\ RunsInv ELSE TasksTypeOK /\ runs = NoRuns

LEMMA TasksPageKept == AdminSpec => []TasksPageInv
<1>1. AdminInit => TasksPageInv
  <2>. SUFFICES ASSUME AdminInit PROVE TasksPageInv  OBVIOUS
  <2>1. TasksStart /\ wire = CASE mounted = "projects"  -> ReadAll({"projects"})
                               [] mounted = "databases" -> <<ReadDbs>>
                               [] mounted = "tasks"     -> ReadTasks
                               [] OTHER                 -> <<>>
    BY DEF AdminInit
  <2>2. TasksTypeOK /\ runs = NoRuns /\ runsShown = NoRuns
    <3>1. Own \in Task  BY TasksAssumption
    <3>2. tasks \in [Task -> {"none", "on", "off"}] /\ tasksShown \in [Task -> {"none", "on", "off"}]
      BY <2>1 DEF TasksStart
    <3>3. runs = NoRuns /\ runsShown = NoRuns  BY <2>1 DEF TasksStart
    <3>4. /\ chore \in Chores /\ asked = 0 /\ toDelete = {} /\ deletingRun = {} /\ runLog = "closed"
          /\ tasksLoading \in BOOLEAN /\ creating = FALSE /\ clearing = FALSE /\ untold = FALSE /\ crossed = FALSE
      BY <2>1 DEF TasksStart
    <3>5. {tasksLoading, creating, clearing, untold, crossed} \subseteq BOOLEAN  BY <3>4
    <3>6. NoRuns \in [Run -> {"none", "running", "done", "gone"}] /\ NoRuns \in [Run -> {"none", "running", "done"}]
      BY DEF NoRuns
    <3>. QED BY <3>2, <3>3, <3>4, <3>5, <3>6 DEF TasksTypeOK
  <2>3. ASSUME mounted = "tasks"  PROVE TasksTyped /\ RunsInv
    <3>1. wire = ReadTasks  BY <2>1, <2>3
    <3>2. TaskCalls(wire)
      <4>1. \A c \in Of(ReadTasks) : TaskCall(c)  BY TaskAsks
      <4>. QED BY <3>1, <4>1 DEF TaskCalls, Of
    <3>3. \A k \in DOMAIN wire : wire[k].at[1] # "runs"
      <4>1. Call("read", <<"tasks">>).at = <<"tasks">>  BY CallIs
      <4>2. \A j \in DOMAIN ReadTasks : ReadTasks[j] = Call("read", <<"tasks">>)  BY DEF ReadTasks
      <4>. QED BY <3>1, <4>1, <4>2
    <3>4. \A r \in Run : runs[r] # "gone"  BY <2>2 DEF NoRuns
    <3>. QED BY <2>2, <3>2, <3>3, <3>4 DEF TasksTyped, RunsInv, RunRead, RunDrop
  <2>. QED BY <2>2, <2>3 DEF TasksPageInv
<1>2. TasksPageInv /\ Sound(wire) /\ [AdminNext]_all => TasksPageInv'
  <2>. SUFFICES ASSUME TasksPageInv, Sound(wire), [AdminNext]_all PROVE TasksPageInv'  OBVIOUS
  <2>1. CASE OnTasksPage(TasksNext)
    <3>1. mounted = "tasks" /\ mounted' = mounted /\ TasksNext  BY <2>1 DEF OnTasksPage
    <3>2. TasksTyped /\ RunsInv  BY <3>1 DEF TasksPageInv
    <3>3. TasksTyped'  BY <3>1, <3>2, TasksServed, TasksWentOn, TasksClicked DEF TasksNext
    <3>4. RunsInv'  BY <3>1, <3>2, RunsServed, RunsWentOn, RunsClicked DEF TasksNext
    <3>. QED BY <3>1, <3>3, <3>4 DEF TasksPageInv
  <2>2. CASE OnProjects(ProjectsNext) \/ OnDialogs(DialogsNext) \/ OnDatabases(PanelsNext)
    <3>1. mounted # "tasks" /\ mounted' = mounted /\ UNCHANGED tvars
      BY <2>2 DEF OnProjects, OnDialogs, OnDatabases
    <3>2. TasksTypeOK' /\ runs' = runs  BY <3>1 DEF TasksPageInv, TasksTypeOK, tvars, jobs, table, log
    <3>. QED BY <3>1, <3>2 DEF TasksPageInv, NoRuns
  <2>3. CASE UNCHANGED all
    <3>1. UNCHANGED <<mounted, wire>> /\ UNCHANGED tvars  BY <2>3 DEF all
    <3>2. (TasksTypeOK' <=> TasksTypeOK) /\ runs' = runs /\ (TasksTyped' <=> TasksTyped) /\ (RunsInv' <=> RunsInv)
      BY <3>1 DEF TasksTyped, TasksTypeOK, RunsInv, NoRuns, tvars, jobs, table, log
    <3>. QED BY <3>1, <3>2 DEF TasksPageInv, NoRuns
  <2>. QED BY <2>1, <2>2, <2>3 DEF AdminNext
<1>. QED BY <1>1, <1>2, WireSound, PTL DEF AdminSpec

(* Runs that were deleted are not shown in a history at rest, unless a     *)
(* read of the history and a deletion were under way together or a         *)
(* deletion failed after it was done (handleDeleteRun and handleClearLogs  *)
(* of tasks.tsx), for any runs and calls.                                  *)
THEOREM RunsStayAway == AdminSpec => []DeletedRunsAway
<1>1. TasksPageInv => DeletedRunsAway
  <2>. SUFFICES ASSUME TasksPageInv, wire = <<>>, ~crossed, ~untold, NEW r \in Run, runs[r] = "gone"
                PROVE  runsShown[r] = "none"
    BY DEF DeletedRunsAway
  <2>1. CASE mounted = "tasks"
    <3>1. runsShown[r] # "none" => Telling(wire, r)  BY <2>1 DEF TasksPageInv, RunsInv
    <3>2. DOMAIN wire = {}  OBVIOUS
    <3>. QED BY <3>1, <3>2 DEF Telling
  <2>2. CASE mounted # "tasks"  BY <2>2 DEF TasksPageInv, NoRuns
  <2>. QED BY <2>1, <2>2
<1>. QED BY <1>1, TasksPageKept, PTL

(***************************************************************************)
(* The page of the databases.                                              *)
(***************************************************************************)
Sels == {<<d>> : d \in Db} \cup {<<d, k>> : d \in Db, k \in Kid}

PanelCall(c) ==
  \/ c.op = "read" /\ c.at = <<"dbs">> /\ Gives(c, SUBSET Db)
  \/ c.op = "read" /\ (\E d \in Db : c.at = <<d>>) /\ Gives(c, SUBSET Kid)
  \/ c.op = "read" /\ \E l \in {"overview", "detail", "find"}, s \in Sels : c.at = <<l, s>> /\ Gives(c, {s})
  \/ c.op = "add" /\ (\E d \in Db : c.at = <<"db", d>>) /\ Gives(c, {TRUE})
  \/ c.op = "add" /\ (\E l \in {"kid", "index"}, d \in Db, k \in Kid : c.at = <<l, d, k>>) /\ Gives(c, {TRUE})
  \/ c.op = "drop" /\ (\E d \in Db, b \in BOOLEAN : c.at = <<"db", d, b>>) /\ Gives(c, {TRUE})
  \/ c.op = "drop" /\ (\E d \in Db, k \in Kid, b \in BOOLEAN : c.at = <<"kid", d, k, b>>) /\ Gives(c, {TRUE})
  \/ c.op = "drop" /\ (\E d \in Db, k \in Kid : c.at = <<"indexes", d, k>>) /\ Gives(c, {TRUE})

PanelCalls(w) == \A k \in DOMAIN w : PanelCall(w[k])

PanelsTyped ==
  /\ PanelsTypeOK /\ PanelCalls(wire)
  /\ result \in {<<>>} \cup {<<s>> : s \in Sels}
  /\ asking \in {<<>>, <<"db">>} \cup {<<"kid", d>> : d \in Db} \cup {<<"index", d, k>> : d \in Db, k \in Kid}
  /\ dropping \in {<<>>} \cup {<<"db", d>> : d \in Db} \cup {<<"kid", d, k>> : d \in Db, k \in Kid}

LEMMA PanelSame ==
  ASSUME NEW c, NEW d, PanelCall(c), Same(d, c)
  PROVE  PanelCall(d)
<1>1. \A S : Gives(c, S) => Gives(d, S)  BY DEF Gives, Same
<1>2. d.op = c.op /\ d.at = c.at  BY DEF Same
<1>. QED BY ONLY <1>1, <1>2, PanelCall(c) DEF PanelCall

LEMMA PanelStem ==
  ASSUME NEW v, NEW w, NEW C, Stem(v, w, C), PanelCalls(w), \A c \in C : PanelCall(c)
  PROVE  PanelCalls(v)
BY PanelSame DEF PanelCalls, Stem

LEMMA PanelReplied ==
  ASSUME Sound(wire), PanelCalls(wire), NEW i \in DOMAIN wire, NEW a, Reply(i, a),
         \A c : c.op = wire[i].op /\ c.at = wire[i].at /\ c.answer = a => PanelCall(c)
  PROVE  PanelCalls(wire')
<1>1. PICK d : d.op = wire[i].op /\ d.at = wire[i].at /\ d.answer = a  BY AnAnswer
<1>2. Stem(wire', wire, {d})  BY <1>1, StemReply
<1>3. \A c \in {d} : PanelCall(c)  BY <1>1
<1>. QED BY <1>2, <1>3, PanelStem

LEMMA PanelRefused ==
  ASSUME Sound(wire), PanelCalls(wire), NEW i \in DOMAIN wire, Reply(i, Error)
  PROVE  PanelCalls(wire')
<1>1. PanelCall(wire[i])  BY DEF PanelCalls
<1>2. ASSUME NEW c, c.op = wire[i].op, c.at = wire[i].at, c.answer = Error  PROVE PanelCall(c)
  <2>1. \A S : Gives(c, S)  BY <1>2 DEF Gives
  <2>. QED BY ONLY <1>1, <1>2, <2>1 DEF PanelCall
<1>. QED BY <1>2, PanelReplied

(* The calls by their kinds.                                               *)
LEMMA PanelReads ==
  ASSUME NEW c, PanelCall(c), c.op = "read"
  PROVE  \/ c.at = <<"dbs">> /\ c.at[1] = "dbs" /\ Gives(c, SUBSET Db)
         \/ c.at[1] \in Db /\ c.at = <<c.at[1]>> /\ Gives(c, SUBSET Kid)
         \/ /\ c.at[1] \in {"overview", "detail", "find"} /\ c.at[2] \in Sels
            /\ c.at = <<c.at[1], c.at[2]>> /\ Gives(c, {c.at[2]})
<1>1. \/ c.at = <<"dbs">> /\ Gives(c, SUBSET Db)
      \/ \E d \in Db : c.at = <<d>> /\ Gives(c, SUBSET Kid)
      \/ \E l \in {"overview", "detail", "find"}, s \in Sels : c.at = <<l, s>> /\ Gives(c, {s})
  BY DEF PanelCall
<1>2. CASE c.at = <<"dbs">> /\ Gives(c, SUBSET Db)  BY <1>2
<1>3. CASE \E d \in Db : c.at = <<d>> /\ Gives(c, SUBSET Kid)
  <2>1. PICK d \in Db : c.at = <<d>> /\ Gives(c, SUBSET Kid)  BY <1>3
  <2>2. c.at[1] = d  BY <2>1
  <2>. QED BY <2>1, <2>2
<1>4. CASE \E l \in {"overview", "detail", "find"}, s \in Sels : c.at = <<l, s>> /\ Gives(c, {s})
  <2>1. PICK l \in {"overview", "detail", "find"}, s \in Sels : c.at = <<l, s>> /\ Gives(c, {s})  BY <1>4
  <2>2. c.at[1] = l /\ c.at[2] = s  BY <2>1
  <2>. QED BY <2>1, <2>2
<1>. QED BY <1>1, <1>2, <1>3, <1>4

LEMMA PanelAdds ==
  ASSUME NEW c, PanelCall(c), c.op = "add"
  PROVE  /\ c.at[2] \in Db /\ Gives(c, {TRUE})
         /\ \/ c.at = <<"db", c.at[2]>> /\ c.at[1] = "db"
            \/ c.at[1] \in {"kid", "index"} /\ c.at[3] \in Kid /\ c.at = <<c.at[1], c.at[2], c.at[3]>>
<1>1. /\ Gives(c, {TRUE})
      /\ \/ \E d \in Db : c.at = <<"db", d>>
         \/ \E l \in {"kid", "index"}, d \in Db, k \in Kid : c.at = <<l, d, k>>
  BY DEF PanelCall
<1>2. CASE \E d \in Db : c.at = <<"db", d>>
  <2>1. PICK d \in Db : c.at = <<"db", d>>  BY <1>2
  <2>2. c.at[1] = "db" /\ c.at[2] = d  BY <2>1
  <2>. QED BY <1>1, <2>1, <2>2
<1>3. CASE \E l \in {"kid", "index"}, d \in Db, k \in Kid : c.at = <<l, d, k>>
  <2>1. PICK l \in {"kid", "index"}, d \in Db, k \in Kid : c.at = <<l, d, k>>  BY <1>3
  <2>2. c.at[1] = l /\ c.at[2] = d /\ c.at[3] = k  BY <2>1
  <2>. QED BY <1>1, <2>1, <2>2
<1>. QED BY <1>1, <1>2, <1>3

LEMMA PanelDrops ==
  ASSUME NEW c, PanelCall(c), c.op = "drop"
  PROVE  /\ c.at[2] \in Db /\ Gives(c, {TRUE})
         /\ \/ c.at[1] = "db" /\ c.at[3] \in BOOLEAN /\ c.at = <<"db", c.at[2], c.at[3]>>
            \/ /\ c.at[1] = "kid" /\ c.at[3] \in Kid /\ c.at[4] \in BOOLEAN
               /\ c.at = <<"kid", c.at[2], c.at[3], c.at[4]>>
            \/ c.at[1] = "indexes" /\ c.at[3] \in Kid /\ c.at = <<"indexes", c.at[2], c.at[3]>>
<1>1. /\ Gives(c, {TRUE})
      /\ \/ \E d \in Db, b \in BOOLEAN : c.at = <<"db", d, b>>
         \/ \E d \in Db, k \in Kid, b \in BOOLEAN : c.at = <<"kid", d, k, b>>
         \/ \E d \in Db, k \in Kid : c.at = <<"indexes", d, k>>
  BY DEF PanelCall
<1>2. CASE \E d \in Db, b \in BOOLEAN : c.at = <<"db", d, b>>
  <2>1. PICK d \in Db, b \in BOOLEAN : c.at = <<"db", d, b>>  BY <1>2
  <2>2. c.at[1] = "db" /\ c.at[2] = d /\ c.at[3] = b  BY <2>1
  <2>. QED BY <1>1, <2>1, <2>2
<1>3. CASE \E d \in Db, k \in Kid, b \in BOOLEAN : c.at = <<"kid", d, k, b>>
  <2>1. PICK d \in Db, k \in Kid, b \in BOOLEAN : c.at = <<"kid", d, k, b>>  BY <1>3
  <2>2. c.at[1] = "kid" /\ c.at[2] = d /\ c.at[3] = k /\ c.at[4] = b  BY <2>1
  <2>. QED BY <1>1, <2>1, <2>2
<1>4. CASE \E d \in Db, k \in Kid : c.at = <<"indexes", d, k>>
  <2>1. PICK d \in Db, k \in Kid : c.at = <<"indexes", d, k>>  BY <1>4
  <2>2. c.at[1] = "indexes" /\ c.at[2] = d /\ c.at[3] = k  BY <2>1
  <2>. QED BY <1>1, <2>1, <2>2
<1>. QED BY <1>1, <1>2, <1>3, <1>4

LEMMA PanelAsks ==
  /\ PanelCall(ReadDbs) /\ \A d \in Db : PanelCall(ReadKids(d))
  /\ \A sel \in {<<>>} \cup Sels : Sound(ReadPanel(sel)) /\ \A c \in Of(ReadPanel(sel)) : PanelCall(c)
  /\ \A sel \in Sels : PanelCall(Call("read", <<"find", sel>>))
  /\ \A d \in Db : PanelCall(Call("add", <<"db", d>>))
  /\ \A l \in {"kid", "index"}, d \in Db, k \in Kid : PanelCall(Call("add", <<l, d, k>>))
  /\ \A d \in Db, b \in BOOLEAN : PanelCall(Call("drop", <<"db", d, b>>))
  /\ \A d \in Db, k \in Kid, b \in BOOLEAN : PanelCall(Call("drop", <<"kid", d, k, b>>))
  /\ \A d \in Db, k \in Kid : PanelCall(Call("drop", <<"indexes", d, k>>))
<1>1. ASSUME NEW o, NEW a, NEW S  PROVE Call(o, a).op = o /\ Call(o, a).at = a /\ Gives(Call(o, a), S)
  BY CallIs DEF Gives
<1>2. PanelCall(ReadDbs)  BY <1>1 DEF ReadDbs, PanelCall
<1>3. ASSUME NEW d \in Db  PROVE PanelCall(ReadKids(d))  BY <1>1 DEF ReadKids, PanelCall
<1>4. ASSUME NEW l \in {"overview", "detail", "find"}, NEW sel \in Sels  PROVE PanelCall(Call("read", <<l, sel>>))
  BY <1>1 DEF PanelCall
<1>5. ASSUME NEW sel \in {<<>>} \cup Sels
      PROVE  Sound(ReadPanel(sel)) /\ \A c \in Of(ReadPanel(sel)) : PanelCall(c)
  <2>1. CASE ReadPanel(sel) = <<>>  BY <2>1, SoundCall, OfOne
  <2>2. CASE ReadPanel(sel) # <<>>
    <3>1. PICK l \in {"overview", "detail"} : ReadPanel(sel) = <<Call("read", <<l, sel>>)>>
      BY <2>2 DEF ReadPanel
    <3>2. sel \in Sels  BY <2>2 DEF ReadPanel
    <3>. QED BY <1>4, <3>1, <3>2, SoundCall, OfOne
  <2>. QED BY <2>1, <2>2
<1>6. ASSUME NEW d \in Db  PROVE PanelCall(Call("add", <<"db", d>>))  BY <1>1 DEF PanelCall
<1>7. ASSUME NEW l \in {"kid", "index"}, NEW d \in Db, NEW k \in Kid  PROVE PanelCall(Call("add", <<l, d, k>>))
  BY <1>1 DEF PanelCall
<1>8. ASSUME NEW d \in Db, NEW b \in BOOLEAN  PROVE PanelCall(Call("drop", <<"db", d, b>>))
  BY <1>1 DEF PanelCall
<1>9. ASSUME NEW d \in Db, NEW k \in Kid, NEW b \in BOOLEAN  PROVE PanelCall(Call("drop", <<"kid", d, k, b>>))
  BY <1>1 DEF PanelCall
<1>10. ASSUME NEW d \in Db, NEW k \in Kid  PROVE PanelCall(Call("drop", <<"indexes", d, k>>))
  BY <1>1 DEF PanelCall
<1>. QED BY <1>2, <1>3, <1>4, <1>5, <1>6, <1>7, <1>8, <1>9, <1>10

(* The routes answer in kind.                                              *)
LEMMA PanelsServed ==
  ASSUME Sound(wire), PanelsTyped, NEW i \in DOMAIN wire, PanelsServe(i) \/ PanelCallFails(i)
  PROVE  PanelsTyped'
<1>. USE DEF PanelsTyped
<1>0. PanelCall(wire[i])  BY DEF PanelCalls
<1>1. ASSUME NEW a, Reply(i, a), \A c : c.op = wire[i].op /\ c.at = wire[i].at /\ c.answer = a => PanelCall(c)
      PROVE  PanelCalls(wire')
  BY <1>1, PanelReplied
<1>2. ASSUME Reply(i, Error)  PROVE PanelCalls(wire')  BY <1>2, PanelRefused
<1>3. there \subseteq Db /\ kids \in [Db -> SUBSET Kid]  BY DEF PanelsTypeOK
<1>4. ASSUME PanelCalls(wire'), UNCHANGED <<engine, work, treevars, panel, boxes>>, there' \subseteq Db,
             kids' \in [Db -> SUBSET Kid], stale' \subseteq Db \cup {"dbs"}
      PROVE  PanelsTyped'
  BY <1>4 DEF PanelsTypeOK, treevars, panel, boxes
<1>5. ASSUME PanelCalls(wire'), UNCHANGED bvars  PROVE PanelsTyped'
  BY <1>5 DEF PanelsTypeOK, bvars, server, treevars, panel, boxes
<1>6. stale \subseteq Db \cup {"dbs"}  BY DEF PanelsTypeOK
<1>7. CASE ServeDbs(i)
  <2>1. wire[i].at = <<"dbs">> /\ Reply(i, Answer(there)) /\ UNCHANGED bvars  BY <1>7 DEF ServeDbs
  <2>2. wire[i].op = "read"
    <3>1. wire[i].op \in {"read", "add", "drop"}  BY <1>0 DEF PanelCall
    <3>2. wire[i].at[1] = "dbs"  BY <2>1
    <3>. QED BY <1>0, <3>1, <3>2, PanelAdds, PanelDrops
  <2>3. ASSUME NEW c, c.op = "read", c.at = <<"dbs">>, c.answer = Answer(there)  PROVE PanelCall(c)
    <3>1. Gives(c, SUBSET Db)  BY <1>3, <2>3 DEF Gives
    <3>. QED BY <2>3, <3>1 DEF PanelCall
  <2>. QED BY <1>1, <1>5, <2>1, <2>2, <2>3
<1>8. CASE ServeKids(i)
  <2>. DEFINE d == wire[i].at[1]
  <2>1. /\ wire[i].op = "read" /\ d \in Db /\ UNCHANGED bvars
        /\ Reply(i, Error) \/ Reply(i, Answer(kids[d]))
    BY <1>8 DEF ServeKids
  <2>2. wire[i].at = <<d>>  BY <1>0, <2>1, PanelReads, PanelsAssumption
  <2>. HIDE DEF d
  <2>3. ASSUME NEW c, c.op = "read", c.at = <<d>>, c.answer = Answer(kids[d])  PROVE PanelCall(c)
    <3>1. Gives(c, SUBSET Kid)  BY <1>3, <2>1, <2>3 DEF Gives
    <3>. QED BY <2>1, <2>3, <3>1 DEF PanelCall
  <2>4. CASE Reply(i, Error)  BY <1>2, <1>5, <2>1, <2>4
  <2>5. CASE Reply(i, Answer(kids[d]))
    <3>1. \A c : c.op = wire[i].op /\ c.at = wire[i].at /\ c.answer = Answer(kids[d]) => PanelCall(c)
      BY <2>1, <2>2, <2>3
    <3>2. PanelCalls(wire')  BY <1>1, <2>5, <3>1
    <3>. QED BY <1>5, <2>1, <3>2
  <2>. QED BY <2>1, <2>4, <2>5
<1>9. CASE ServePanel(i)
  <2>. DEFINE l == wire[i].at[1]
              s == wire[i].at[2]
  <2>1. /\ wire[i].op = "read" /\ l \in Inside /\ UNCHANGED bvars
        /\ Reply(i, Error) \/ Reply(i, Answer(s))
    BY <1>9 DEF ServePanel
  <2>2. l \in {"overview", "detail", "find"} /\ s \in Sels /\ wire[i].at = <<l, s>>
    BY <1>0, <2>1, PanelReads, PanelsAssumption DEF Inside
  <2>. HIDE DEF l, s
  <2>3. ASSUME NEW c, c.op = "read", c.at = <<l, s>>, c.answer = Answer(s)  PROVE PanelCall(c)
    <3>1. Gives(c, {s})  BY <2>3 DEF Gives
    <3>. QED BY <2>2, <2>3, <3>1 DEF PanelCall
  <2>4. CASE Reply(i, Error)  BY <1>2, <1>5, <2>1, <2>4
  <2>5. CASE Reply(i, Answer(s))
    <3>1. \A c : c.op = wire[i].op /\ c.at = wire[i].at /\ c.answer = Answer(s) => PanelCall(c)
      BY <2>1, <2>2, <2>3
    <3>2. PanelCalls(wire')  BY <1>1, <2>5, <3>1
    <3>. QED BY <1>5, <2>1, <3>2
  <2>. QED BY <2>1, <2>4, <2>5
<1>10. ASSUME wire[i].op \in {"add", "drop"}, Reply(i, Answer(TRUE))  PROVE PanelCalls(wire')
  <2>1. ASSUME NEW c, c.op = wire[i].op, c.at = wire[i].at, c.answer = Answer(TRUE)  PROVE PanelCall(c)
    <3>1. Gives(c, {TRUE})  BY <2>1 DEF Gives
    <3>2. CASE wire[i].op = "add"
      <4>1. \/ \E d \in Db : wire[i].at = <<"db", d>>
            \/ \E m \in {"kid", "index"}, d \in Db, k \in Kid : wire[i].at = <<m, d, k>>
        BY <1>0, <3>2 DEF PanelCall
      <4>. QED BY ONLY <2>1, <3>1, <3>2, <4>1 DEF PanelCall
    <3>3. CASE wire[i].op = "drop"
      <4>1. \/ \E d \in Db, b \in BOOLEAN : wire[i].at = <<"db", d, b>>
            \/ \E d \in Db, k \in Kid, b \in BOOLEAN : wire[i].at = <<"kid", d, k, b>>
            \/ \E d \in Db, k \in Kid : wire[i].at = <<"indexes", d, k>>
        BY <1>0, <3>3 DEF PanelCall
      <4>. QED BY ONLY <2>1, <3>1, <3>3, <4>1 DEF PanelCall
    <3>. QED BY <1>10, <3>2, <3>3
  <2>. QED BY <1>1, <1>10, <2>1
<1>11. ASSUME wire[i].op \in {"add", "drop"}
       PROVE  /\ wire[i].at[2] \in Db
              /\ wire[i].at[1] = "db" \/ wire[i].at[3] \in Kid
              /\ wire[i].op = "add" => wire[i].at[1] \in {"db", "kid", "index"}
  BY <1>0, <1>11, PanelAdds, PanelDrops
<1>12. ASSUME NEW K, NEW T, NEW d \in Db, wire[i].op \in {"add", "drop"},
              K \in [Db -> SUBSET Kid], T \subseteq Db,
              RefuseIt(i) \/ Serve(i, K, T)
       PROVE  PanelCalls(wire') /\ there' \subseteq Db /\ kids' \in [Db -> SUBSET Kid]
  <2>1. CASE RefuseIt(i)  BY <1>2, <1>3, <2>1 DEF RefuseIt, server
  <2>2. CASE Serve(i, K, T)  BY <1>10, <1>12, <2>2 DEF Serve
  <2>. QED BY <1>12, <2>1, <2>2
<1>13. Seed \in Kid  BY PanelsAssumption
<1>14. CASE MongoCreates(i)
  <2>. DEFINE d == wire[i].at[2]
              k == IF wire[i].at[1] = "db" THEN Seed ELSE wire[i].at[3]
  <2>1. /\ wire[i].op = "add" /\ UNCHANGED <<engine, work, treevars, panel, boxes>>
        /\ RefuseIt(i) \/ Serve(i, [kids EXCEPT ![d] = @ \cup {k}], there \cup {d})
        /\ stale' = stale \cup {"dbs", d} \/ stale' = stale \cup {d} \/ stale' = stale
    BY <1>14 DEF MongoCreates
  <2>2. d \in Db /\ k \in Kid  BY <1>11, <1>13, <2>1
  <2>. HIDE DEF d, k
  <2>3. [kids EXCEPT ![d] = @ \cup {k}] \in [Db -> SUBSET Kid] /\ there \cup {d} \subseteq Db  BY <1>3, <2>2
  <2>4. PanelCalls(wire') /\ there' \subseteq Db /\ kids' \in [Db -> SUBSET Kid]
    BY <1>12, <2>1, <2>2, <2>3
  <2>5. stale' \subseteq Db \cup {"dbs"}  BY <1>6, <2>1, <2>2
  <2>. QED BY <1>4, <2>1, <2>4, <2>5
<1>15. CASE MongoDrops(i)
  <2>. DEFINE d == wire[i].at[2]
              left == CASE wire[i].at[1] = "db" -> {} [] wire[i].at[1] = "kid" -> kids[d] \ {wire[i].at[3]}
                        [] OTHER -> kids[d]
              T == IF left = {} THEN there \ {d} ELSE there
  <2>1. /\ wire[i].op = "drop" /\ UNCHANGED <<engine, work, treevars, panel, boxes>>
        /\ RefuseIt(i) \/ Serve(i, [kids EXCEPT ![d] = left], T)
        /\ stale' = stale \cup {d} \/ stale' = stale
    BY <1>15 DEF MongoDrops
  <2>2. d \in Db  BY <1>11, <2>1
  <2>3. left \subseteq Kid  BY <1>3, <2>2
  <2>. HIDE DEF left
  <2>4. [kids EXCEPT ![d] = left] \in [Db -> SUBSET Kid] /\ T \subseteq Db  BY <1>3, <2>2, <2>3
  <2>. HIDE DEF d, T
  <2>5. PanelCalls(wire') /\ there' \subseteq Db /\ kids' \in [Db -> SUBSET Kid]
    BY <1>12, <2>1, <2>2, <2>4
  <2>6. stale' \subseteq Db \cup {"dbs"}  BY <1>6, <2>1, <2>2
  <2>. QED BY <1>4, <2>1, <2>5, <2>6
<1>16. CASE PgCreates(i)
  <2>. DEFINE d == wire[i].at[2]
              k == wire[i].at[3]
  <2>1. /\ wire[i].op = "add" /\ UNCHANGED <<engine, work, treevars, panel, boxes>> /\ stale' = stale
        /\ \/ RefuseIt(i)
           \/ Serve(i, kids, there \cup {d})
           \/ wire[i].at[1] # "db" /\ Serve(i, [kids EXCEPT ![d] = @ \cup {k}], there)
    BY <1>16 DEF PgCreates
  <2>2. d \in Db /\ (wire[i].at[1] # "db" => k \in Kid)  BY <1>11, <2>1
  <2>. HIDE DEF d, k
  <2>3. /\ there \cup {d} \subseteq Db
        /\ wire[i].at[1] # "db" => [kids EXCEPT ![d] = @ \cup {k}] \in [Db -> SUBSET Kid]
    BY <1>3, <2>2
  <2>4. PanelCalls(wire') /\ there' \subseteq Db /\ kids' \in [Db -> SUBSET Kid]
    BY <1>3, <1>12, <2>1, <2>2, <2>3
  <2>. QED BY <1>4, <1>6, <2>1, <2>4
<1>17. CASE PgDrops(i)
  <2>. DEFINE d == wire[i].at[2]
              k == wire[i].at[3]
  <2>1. /\ wire[i].op = "drop" /\ UNCHANGED <<engine, work, treevars, panel, boxes>>
        /\ stale' = stale \cup {d} \/ stale' = stale
        /\ \/ RefuseIt(i)
           \/ Serve(i, [kids EXCEPT ![d] = {}], there \ {d})
           \/ Serve(i, [kids EXCEPT ![d] = @ \ {k}], there)
    BY <1>17 DEF PgDrops
  <2>2. d \in Db  BY <1>11, <2>1
  <2>. HIDE DEF d, k
  <2>3. /\ there \ {d} \subseteq Db /\ [kids EXCEPT ![d] = {}] \in [Db -> SUBSET Kid]
        /\ [kids EXCEPT ![d] = @ \ {k}] \in [Db -> SUBSET Kid]
    BY <1>3, <2>2
  <2>4. PanelCalls(wire') /\ there' \subseteq Db /\ kids' \in [Db -> SUBSET Kid]
    BY <1>3, <1>12, <2>1, <2>2, <2>3
  <2>. QED BY <1>4, <1>6, <2>1, <2>2, <2>4
<1>18. CASE PanelCallFails(i)
  <2>1. /\ Reply(i, Error) /\ UNCHANGED <<engine, work, server, treevars, panel, boxes>>
        /\ \/ wire[i].op \in {"add", "drop"} /\ stale' = stale \cup {"dbs", wire[i].at[2]}
           \/ stale' = stale
    BY <1>18 DEF PanelCallFails, Fail
  <2>2. stale' \subseteq Db \cup {"dbs"}  BY <1>6, <1>11, <2>1
  <2>. QED BY <1>2, <1>3, <1>4, <2>1, <2>2 DEF server
<1>. QED BY <1>7, <1>8, <1>9, <1>14, <1>15, <1>16, <1>17, <1>18 DEF PanelsServe

(* The tab is a skeleton: nothing the panel asked is heard.                *)
LEMMA UnmountedCalls ==
  ASSUME NEW w, Sound(w)
  PROVE  LET u == Unmounted(w) IN
         /\ Sound(u)
         /\ \A k \in DOMAIN u : \E j \in DOMAIN w :
              Same(u[k], w[j]) /\ u[k].heard = (w[j].heard /\ w[j].at[1] \notin Inside)
         /\ \A j \in DOMAIN w :
              (w[j].heard /\ w[j].at[1] \notin Inside) \/ (w[j].op # "read" /\ w[j].answer = NotYet)
                => \E k \in DOMAIN u : Same(u[k], w[j]) /\ u[k].heard = (w[j].heard /\ w[j].at[1] \notin Inside)
<1>. DEFINE v == [k \in DOMAIN w |-> [w[k] EXCEPT !.form = FALSE]]
            u == Leave(v, Inside)
<1>1. IsWire(w) /\ \A k \in DOMAIN w : IsCall(w[k])  BY WireIs DEF Sound
<1>2. \A k \in DOMAIN w : IsCall(v[k]) /\ Same(v[k], w[k]) /\ v[k].heard = w[k].heard
  <2>1. ASSUME NEW k \in DOMAIN w
        PROVE  LET d == [w[k] EXCEPT !.form = FALSE] IN IsCall(d) /\ Same(d, w[k]) /\ d.heard = w[k].heard
    <3>1. IsCall(w[k])  BY <1>1
    <3>. QED BY <3>1, Closed1
  <2>. QED BY <2>1
<1>3. v = [k \in DOMAIN w |-> v[k]] /\ DOMAIN v = DOMAIN w  OBVIOUS
<1>4. u = Unmounted(w)  BY DEF Unmounted
<1>. HIDE DEF v
<1>5. IsWire(v)  BY <1>1, <1>2, <1>3, Changed
<1>6. /\ \A k \in DOMAIN u : \E j \in DOMAIN v :
           Same(u[k], v[j]) /\ u[k].heard = (v[j].heard /\ v[j].at[1] \notin Inside)
      /\ \A j \in DOMAIN v :
           (v[j].heard /\ v[j].at[1] \notin Inside) \/ (v[j].op # "read" /\ v[j].answer = NotYet)
             => \E k \in DOMAIN u : Same(u[k], v[j]) /\ u[k].heard = (v[j].heard /\ v[j].at[1] \notin Inside)
      /\ Sound(u)
  BY <1>5, LeftCalls, SoundLeave
<1>. HIDE DEF u
<1>7. \A k \in DOMAIN u : \E j \in DOMAIN w :
        Same(u[k], w[j]) /\ u[k].heard = (w[j].heard /\ w[j].at[1] \notin Inside)
  BY <1>2, <1>3, <1>6 DEF Same
<1>8. \A j \in DOMAIN w :
        (w[j].heard /\ w[j].at[1] \notin Inside) \/ (w[j].op # "read" /\ w[j].answer = NotYet)
          => \E k \in DOMAIN u : Same(u[k], w[j]) /\ u[k].heard = (w[j].heard /\ w[j].at[1] \notin Inside)
  BY <1>2, <1>3, <1>6 DEF Same
<1>. QED BY <1>4, <1>6, <1>7, <1>8

LEMMA PanelOver ==
  ASSUME Sound(wire), PanelCalls(wire), NEW i \in DOMAIN wire, NEW calls, Sound(calls), \A c \in Of(calls) : PanelCall(c)
  PROVE  Sound(After(i, calls)) /\ PanelCalls(After(i, calls))
<1>1. Sound(After(i, calls))  BY SoundAfter
<1>2. Stem(After(i, calls), wire, Of(calls))  BY StemAfter
<1>. QED BY <1>1, <1>2, PanelStem

LEMMA PanelJoin ==
  ASSUME NEW w, NEW calls, NEW u, Sound(w), Sound(calls), u = w \o calls, PanelCalls(w), \A c \in Of(calls) : PanelCall(c)
  PROVE  PanelCalls(u)
<1>1. Stem(w, w, {})  BY StemSelf
<1>2. Stem(u, w, {} \cup Of(calls))  BY <1>1, StemJoin
<1>3. \A c \in {} \cup Of(calls) : PanelCall(c)  OBVIOUS
<1>. QED BY <1>2, <1>3, PanelStem

LEMMA PanelLeft ==
  ASSUME NEW w, Sound(w), PanelCalls(w), NEW lists
  PROVE  Sound(Leave(w, lists)) /\ PanelCalls(Leave(w, lists))
<1>1. Sound(Leave(w, lists))  BY SoundLeave DEF Sound
<1>2. Stem(w, w, {})  BY StemSelf
<1>3. Stem(Leave(w, lists), w, {})  BY <1>2, StemLeave
<1>. QED BY <1>1, <1>3, PanelStem

LEMMA PanelLoads ==
  ASSUME NEW w, Sound(w), PanelCalls(w), LoadDatabases(w)
  PROVE  PanelCalls(wire')
<1>. DEFINE u == Unmounted(w)
<1>1. Sound(u) /\ \A k \in DOMAIN u : \E j \in DOMAIN w : Same(u[k], w[j])  BY UnmountedCalls
<1>2. wire' = u \o <<ReadDbs>>  BY DEF LoadDatabases
<1>. HIDE DEF u
<1>3. PanelCalls(u)  BY <1>1, PanelSame DEF PanelCalls
<1>4. Sound(<<ReadDbs>>) /\ \A c \in Of(<<ReadDbs>>) : PanelCall(c)
  <2>1. Sound(<<ReadDbs>>)  BY SoundCall DEF ReadDbs
  <2>2. Of(<<ReadDbs>>) = {ReadDbs}  BY OfOne
  <2>. QED BY <2>1, <2>2, PanelAsks
<1>. QED BY <1>1, <1>2, <1>3, <1>4, PanelJoin

LEMMA PanelTurns ==
  ASSUME NEW sel \in Sels, NEW w, Sound(w), PanelCalls(w), Turn(sel, w)
  PROVE  PanelCalls(wire')
<1>1. wire' = w \/ \E lists : wire' = Leave(w, lists) \o ReadPanel(sel)  BY DEF Turn
<1>2. ASSUME NEW lists, wire' = Leave(w, lists) \o ReadPanel(sel)  PROVE PanelCalls(wire')
  <2>. DEFINE u == Leave(w, lists)
  <2>1. Sound(u) /\ PanelCalls(u)  BY PanelLeft
  <2>. HIDE DEF u
  <2>2. Sound(ReadPanel(sel)) /\ \A c \in Of(ReadPanel(sel)) : PanelCall(c)  BY PanelAsks
  <2>3. wire' = u \o ReadPanel(sel)  BY <1>2 DEF u
  <2>. QED BY <2>1, <2>2, <2>3, PanelJoin
<1>. QED BY <1>1, <1>2

(* The handlers go on in kind.                                             *)
LEMMA PanelsWentOn ==
  ASSUME Sound(wire), PanelsTyped, NEW i \in DOMAIN wire, PanelsGoOn(i)
  PROVE  PanelsTyped'
<1>. USE DEF PanelsTyped
<1>0. PanelCall(wire[i])  BY DEF PanelCalls
<1>1. Sound(<<>>) /\ \A c \in Of(<<>>) : PanelCall(c)  BY SoundCall, OfOne
<1>2. Sound(After(i, <<>>)) /\ PanelCalls(After(i, <<>>))  BY <1>1, PanelOver
<1>3. ASSUME NEW d \in Db  PROVE Sound(After(i, <<ReadKids(d)>>)) /\ PanelCalls(After(i, <<ReadKids(d)>>))
  <2>1. Sound(<<ReadKids(d)>>)  BY SoundCall DEF ReadKids
  <2>2. Of(<<ReadKids(d)>>) = {ReadKids(d)}  BY OfOne
  <2>3. \A c \in Of(<<ReadKids(d)>>) : PanelCall(c)  BY <2>2, PanelAsks
  <2>. QED BY <2>1, <2>3, PanelOver
<1>4. selected \in {<<>>} \cup Sels
  <2>1. \A x \in Db \X Kid : x = <<x[1], x[2]>> /\ x[1] \in Db /\ x[2] \in Kid  OBVIOUS
  <2>. QED BY <2>1 DEF PanelsTypeOK, Sels
<1>5. Came(i, "read") => wire[i].answer \notin {NotYet, Error} /\ wire[i].op = "read"  BY DEF Came
<1>6. CASE DbsCome(i)
  <2>1. /\ wire' = After(i, Remounted) /\ skeleton' = FALSE /\ panelBusy' = (panelBusy \/ Remounted # <<>>)
        /\ UNCHANGED <<engine, work, server, cached, spinning, expanded, selected, result, boxes>>
        /\ tree' = tree \/ (Came(i, "read") /\ wire[i].at = <<"dbs">> /\ tree' = Value(i))
        /\ stale' = stale \cup {"dbs"} \/ stale' = stale
    BY <1>6 DEF DbsCome
  <2>2. PanelCalls(wire')
    <3>1. Remounted = <<>> \/ Remounted = ReadPanel(selected)  BY DEF Remounted
    <3>2. Sound(Remounted) /\ \A c \in Of(Remounted) : PanelCall(c)  BY <1>1, <1>4, <3>1, PanelAsks
    <3>. QED BY <2>1, <3>2, PanelOver
  <2>3. Came(i, "read") /\ wire[i].at = <<"dbs">> => Value(i) \subseteq Db
    <3>. SUFFICES ASSUME Came(i, "read"), wire[i].at = <<"dbs">>  PROVE Value(i) \subseteq Db  OBVIOUS
    <3>1. wire[i].at[1] = "dbs"  OBVIOUS
    <3>2. Gives(wire[i], SUBSET Db)  BY <1>0, <1>5, <3>1, PanelReads, PanelsAssumption
    <3>. QED BY <1>5, <3>2, AnswerIs DEF Gives, Value
  <2>4. tree' \subseteq Db  BY <2>1, <2>3 DEF PanelsTypeOK
  <2>18. {skeleton', panelBusy'} \subseteq BOOLEAN  BY <2>1, <2>2, <2>4 DEF PanelsTypeOK, server, boxes
  <2>19. Len(result') \in 0 .. 1 /\ stale' \subseteq Db \cup {"dbs"}
    BY <2>1, <2>2, <2>4 DEF PanelsTypeOK, server, boxes
  <2>20. PanelsTypeOK'  BY <2>1, <2>2, <2>4, <2>18, <2>19 DEF PanelsTypeOK, server, boxes
  <2>. QED BY <2>1, <2>2, <2>4, <2>20 DEF boxes, panel
<1>7. CASE KidsCome(i)
  <2>. DEFINE d == wire[i].at[1]
  <2>1. /\ wire[i].op = "read" /\ d \in Db /\ wire' = After(i, <<>>) /\ spinning' = spinning \ {d}
        /\ UNCHANGED <<engine, work, server, tree, expanded, skeleton, panel, boxes>>
        /\ cached' = cached \/ (Came(i, "read") /\ cached' = [cached EXCEPT ![d] = <<Value(i)>>])
        /\ stale' = stale \cup {d} \/ stale' = stale
    BY <1>7 DEF KidsCome
  <2>2. Came(i, "read") => Value(i) \subseteq Kid
    <3>. SUFFICES ASSUME Came(i, "read")  PROVE Value(i) \subseteq Kid  OBVIOUS
    <3>1. Gives(wire[i], SUBSET Kid)  BY <1>0, <2>1, PanelReads, PanelsAssumption
    <3>. QED BY <1>5, <3>1, AnswerIs DEF Gives, Value
  <2>. HIDE DEF d
  <2>3. cached' \in [Db -> {<<>>} \cup {<<s>> : s \in SUBSET Kid}]  BY <2>1, <2>2 DEF PanelsTypeOK
  <2>20. PanelsTypeOK'  BY <1>2, <2>1, <2>3 DEF PanelsTypeOK, server, panel, boxes
  <2>. QED BY <1>2, <2>1, <2>3, <2>20 DEF boxes, panel
<1>8. CASE PanelComes(i)
  <2>1. /\ wire' = After(i, <<>>) /\ panelBusy' = FALSE
        /\ UNCHANGED <<engine, work, server, treevars, selected, result, boxes, stale>>
    BY <1>8 DEF PanelComes
  <2>16. skeleton \in BOOLEAN  BY DEF PanelsTypeOK
  <2>17. skeleton' = skeleton  BY <2>1 DEF treevars
  <2>18. {skeleton', panelBusy'} \subseteq BOOLEAN  BY <2>1, <2>16, <2>17
  <2>19. Len(result') \in 0 .. 1 /\ stale' \subseteq Db \cup {"dbs"}
    BY <1>2, <2>1 DEF PanelsTypeOK, server, treevars, boxes
  <2>20. PanelsTypeOK'  BY <1>2, <2>1, <2>18, <2>19 DEF PanelsTypeOK, server, treevars, boxes
  <2>. QED BY <1>2, <2>1, <2>20 DEF boxes, panel
<1>9. CASE Found(i)
  <2>1. /\ wire' = After(i, <<>>) /\ wire[i].at[1] = "find"
        /\ UNCHANGED <<engine, work, server, treevars, selected, panelBusy, boxes, stale>>
        /\ (Came(i, "read") /\ result' = <<Value(i)>>) \/ result' = <<>>
    BY <1>9 DEF Found
  <2>2. Came(i, "read") => Value(i) \in Sels
    <3>. SUFFICES ASSUME Came(i, "read")  PROVE Value(i) \in Sels  OBVIOUS
    <3>1. Gives(wire[i], {wire[i].at[2]}) /\ wire[i].at[2] \in Sels
      BY <1>0, <1>5, <2>1, PanelReads, PanelsAssumption
    <3>. QED BY <1>5, <3>1, AnswerIs DEF Gives, Value
  <2>3. result' \in {<<>>} \cup {<<s>> : s \in Sels}  BY <2>1, <2>2
  <2>4. Len(result') \in 0 .. 1  BY <2>3
  <2>20. PanelsTypeOK'  BY <1>2, <2>1, <2>3, <2>4 DEF PanelsTypeOK, server, treevars, boxes
  <2>. QED BY <1>2, <2>1, <2>3, <2>4, <2>20 DEF boxes, panel
<1>10. CASE IndexGone(i)
  <2>. DEFINE sel == <<wire[i].at[2], wire[i].at[3]>>
              w == Leave(After(i, <<>>), {"find"})
  <2>1. /\ wire' = w \o ReadPanel(sel) /\ panelBusy' = TRUE /\ result' = <<>>
        /\ UNCHANGED <<engine, work, server, treevars, selected, boxes, stale>>
        /\ wire[i].op = "drop" /\ wire[i].at[1] = "indexes"
    BY <1>10 DEF IndexGone, Came
  <2>2. sel \in Sels  BY <1>0, <2>1, PanelDrops DEF Sels
  <2>3. Sound(w) /\ PanelCalls(w)  BY <1>2, PanelLeft
  <2>. HIDE DEF sel, w
  <2>4. PanelCalls(wire')  BY <2>1, <2>2, <2>3, PanelAsks, PanelJoin
  <2>20. PanelsTypeOK'  BY <2>1, <2>4 DEF PanelsTypeOK, server, treevars, boxes
  <2>. QED BY <2>1, <2>4, <2>20 DEF boxes, panel
<1>11. \A x : Closed(x) => asking' = <<>> \/ asking' = asking  BY DEF Closed
<1>12. CASE DbCreated(i)
  <2>1. /\ LoadDatabases(After(i, <<>>)) /\ (asking' = <<>> \/ asking' = asking)
        /\ UNCHANGED <<engine, work, server, tree, cached, spinning, expanded, selected, dropping, stale>>
    BY <1>11, <1>12 DEF DbCreated
  <2>2. PanelCalls(wire')  BY <1>2, <2>1, PanelLoads
  <2>3. skeleton' = TRUE /\ panelBusy' = FALSE /\ result' = <<>>  BY <2>1 DEF LoadDatabases
  <2>4. Len(asking') \in 0 .. 3  BY <2>1 DEF PanelsTypeOK
  <2>18. {skeleton', panelBusy'} \subseteq BOOLEAN  BY <2>1, <2>2, <2>3, <2>4 DEF PanelsTypeOK, server
  <2>19. Len(result') \in 0 .. 1 /\ stale' \subseteq Db \cup {"dbs"}
    BY <2>1, <2>2, <2>3, <2>4 DEF PanelsTypeOK, server
  <2>20. PanelsTypeOK'  BY <2>1, <2>2, <2>3, <2>4, <2>18, <2>19 DEF PanelsTypeOK, server
  <2>. QED BY <2>1, <2>2, <2>3, <2>4, <2>20 DEF boxes, panel
<1>13. CASE KidCreated(i)
  <2>1. /\ wire[i].op = "add" /\ wire' = After(i, <<ReadKids(wire[i].at[2])>>)
        /\ spinning' = spinning \cup {wire[i].at[2]} /\ (asking' = <<>> \/ asking' = asking)
        /\ UNCHANGED <<engine, work, server, tree, cached, expanded, skeleton, panel, dropping, stale>>
    BY <1>11, <1>13 DEF KidCreated, Came
  <2>2. wire[i].at[2] \in Db  BY <1>0, <2>1, PanelAdds
  <2>3. PanelCalls(wire')  BY <1>3, <2>1, <2>2
  <2>4. Len(asking') \in 0 .. 3  BY <2>1 DEF PanelsTypeOK
  <2>18. {skeleton', panelBusy'} \subseteq BOOLEAN  BY <2>1, <2>2, <2>3, <2>4 DEF PanelsTypeOK, server, panel
  <2>19. Len(result') \in 0 .. 1 /\ stale' \subseteq Db \cup {"dbs"}
    BY <2>1, <2>2, <2>3, <2>4 DEF PanelsTypeOK, server, panel
  <2>20. PanelsTypeOK'  BY <2>1, <2>2, <2>3, <2>4, <2>18, <2>19 DEF PanelsTypeOK, server, panel
  <2>. QED BY <2>1, <2>2, <2>3, <2>4, <2>20 DEF boxes, panel
<1>14. CASE IndexMade(i)
  <2>1. /\ wire' = After(i, <<>>) /\ (asking' = <<>> \/ asking' = asking)
        /\ UNCHANGED <<engine, work, server, treevars, panel, dropping, stale>>
    BY <1>11, <1>14 DEF IndexMade
  <2>2. Len(asking') \in 0 .. 3  BY <2>1 DEF PanelsTypeOK
  <2>20. PanelsTypeOK'  BY <1>2, <2>1, <2>2 DEF PanelsTypeOK, server, treevars, panel
  <2>. QED BY <1>2, <2>1, <2>2, <2>20 DEF boxes, panel
<1>15. CASE DbDropped(i)
  <2>1. /\ LoadDatabases(After(i, <<>>)) /\ selected' = <<>> /\ expanded' = expanded \ {wire[i].at[2]}
        /\ dropping' = <<>>
        /\ UNCHANGED <<engine, work, server, tree, cached, spinning, asking, stale>>
    BY <1>15 DEF DbDropped
  <2>2. PanelCalls(wire')  BY <1>2, <2>1, PanelLoads
  <2>3. skeleton' = TRUE /\ panelBusy' = FALSE /\ result' = <<>>  BY <2>1 DEF LoadDatabases
  <2>18. {skeleton', panelBusy'} \subseteq BOOLEAN  BY <2>1, <2>2, <2>3 DEF PanelsTypeOK, server
  <2>19. Len(result') \in 0 .. 1 /\ stale' \subseteq Db \cup {"dbs"}
    BY <2>1, <2>2, <2>3 DEF PanelsTypeOK, server
  <2>20. PanelsTypeOK'  BY <2>1, <2>2, <2>3, <2>18, <2>19 DEF PanelsTypeOK, server
  <2>. QED BY <2>1, <2>2, <2>3, <2>20 DEF boxes, panel
<1>16. CASE KidDropped(i)
  <2>. DEFINE d == wire[i].at[2]
  <2>1. /\ wire[i].op = "drop" /\ LoadDatabases(After(i, <<ReadKids(d)>>))
        /\ selected' = <<d>> \/ selected' = selected
        /\ spinning' = spinning \cup {d} /\ dropping' = <<>>
        /\ UNCHANGED <<engine, work, server, tree, cached, expanded, asking, stale>>
    BY <1>16 DEF KidDropped, Came
  <2>2. d \in Db  BY <1>0, <2>1, PanelDrops
  <2>. HIDE DEF d
  <2>3. PanelCalls(wire')  BY <1>3, <2>1, <2>2, PanelLoads
  <2>4. skeleton' = TRUE /\ panelBusy' = FALSE /\ result' = <<>>  BY <2>1 DEF LoadDatabases
  <2>18. {skeleton', panelBusy'} \subseteq BOOLEAN  BY <2>1, <2>2, <2>3, <2>4 DEF PanelsTypeOK, server
  <2>19. Len(result') \in 0 .. 1 /\ stale' \subseteq Db \cup {"dbs"}
    BY <2>1, <2>2, <2>3, <2>4 DEF PanelsTypeOK, server
  <2>20. PanelsTypeOK'  BY <2>1, <2>2, <2>3, <2>4, <2>18, <2>19 DEF PanelsTypeOK, server
  <2>. QED BY <2>1, <2>2, <2>3, <2>4, <2>20 DEF boxes, panel
<1>17. CASE OrderFails(i)
  <2>1. /\ wire' = After(i, <<>>) /\ (dropping' = <<>> \/ dropping' = dropping)
        /\ UNCHANGED <<engine, work, server, treevars, panel, asking, stale>>
    BY <1>17 DEF OrderFails
  <2>2. Len(dropping') \in {0, 2, 3}  BY <2>1 DEF PanelsTypeOK
  <2>20. PanelsTypeOK'  BY <1>2, <2>1, <2>2 DEF PanelsTypeOK, server, treevars, panel
  <2>. QED BY <1>2, <2>1, <2>2, <2>20 DEF boxes, panel
<1>. QED BY <1>6, <1>7, <1>8, <1>9, <1>10, <1>12, <1>13, <1>14, <1>15, <1>16, <1>17
     DEF PanelsGoOn, MongoTree, PgTree, MongoPanel, PgPanel, MongoDropped, PgDropped

LEMMA AppendJoins ==
  ASSUME NEW w, Sound(w), NEW c
  PROVE  Append(w, c) = w \o <<c>>
<1>. DEFINE S == {w[k] : k \in DOMAIN w} \cup {c}
<1>1. w \in Seq({w[k] : k \in DOMAIN w})  BY DEF Sound, IsWire
<1>2. w \in Seq(S)  BY <1>1, LenProperties, IsSeqIf
<1>3. c \in S  OBVIOUS
<1>. HIDE DEF S
<1>. QED BY <1>2, <1>3, AppendIsConcat

(* The calls a click on database d works on.                               *)
LEMMA PanelOpens ==
  ASSUME Sound(wire), PanelCalls(wire), NEW d \in Db
  PROVE  /\ Append(wire, ReadKids(d)) = wire \o <<ReadKids(d)>> /\ Sound(<<ReadKids(d)>>)
         /\ Sound(Append(wire, ReadKids(d))) /\ PanelCalls(Append(wire, ReadKids(d)))
<1>. DEFINE c == ReadKids(d)
            w == Append(wire, c)
<1>1. Sound(<<c>>) /\ PanelCall(c)  BY SoundCall, PanelAsks DEF ReadKids
<1>. HIDE DEF c
<1>2. w = wire \o <<c>>  BY AppendJoins
<1>3. Of(<<c>>) = {c}  BY OfOne
<1>. HIDE DEF w
<1>4. Sound(w) /\ PanelCalls(w)
  <2>1. \A x \in Of(<<c>>) : PanelCall(x)  BY <1>1, <1>3
  <2>. QED BY <1>1, <1>2, <2>1, SoundJoin, PanelJoin
<1>. QED BY <1>1, <1>2, <1>4 DEF c, w

LEMMA PanelSent ==
  ASSUME Sound(wire), PanelCalls(wire), NEW o, NEW a, Send(<<Call(o, a)>>), PanelCall(Call(o, a))
  PROVE  PanelCalls(wire')
<1>. DEFINE c == Call(o, a)
<1>1. Sound(<<c>>) /\ PanelCall(c)  BY SoundCall
<1>2. wire' = wire \o <<c>>  BY DEF Send
<1>. HIDE DEF c
<1>3. Of(<<c>>) = {c}  BY OfOne
<1>4. \A x \in Of(<<c>>) : PanelCall(x)  BY <1>1, <1>3
<1>. QED BY <1>1, <1>2, <1>4, PanelJoin

LEMMA PairAnd ==
  ASSUME NEW a, NEW b, NEW m
  PROVE  <<a, b>> \o <<m>> = <<a, b, m>>
<1>. DEFINE S == {a, b, m}
<1>1. <<a, b>> \in Seq(S) /\ <<m>> \in Seq(S) /\ <<a, b, m>> \in Seq(S)  OBVIOUS
<1>2. /\ Len(<<a, b>>) = 2 /\ <<a, b>>[1] = a /\ <<a, b>>[2] = b /\ Len(<<m>>) = 1 /\ <<m>>[1] = m
      /\ Len(<<a, b, m>>) = 3 /\ <<a, b, m>>[1] = a /\ <<a, b, m>>[2] = b /\ <<a, b, m>>[3] = m
  OBVIOUS
<1>. DEFINE u == <<a, b>>
            v == <<m>>
            w == <<a, b, m>>
<1>. HIDE DEF S, u, v, w
<1>3. u \o v \in Seq(S) /\ Len(u \o v) = 3  BY <1>1, <1>2, ConcatProperties DEF u, v
<1>4. \A i \in 1 .. 3 : (u \o v)[i] = w[i]  BY <1>1, <1>2, ConcatProperties DEF u, v, w
<1>5. u \o v = w  BY <1>1, <1>2, <1>3, <1>4, SeqEqual DEF w
<1>. QED BY <1>5 DEF u, v, w

LEMMA TripleAnd ==
  ASSUME NEW a, NEW b, NEW d, NEW m
  PROVE  <<a, b, d>> \o <<m>> = <<a, b, d, m>>
<1>. DEFINE S == {a, b, d, m}
<1>1. <<a, b, d>> \in Seq(S) /\ <<m>> \in Seq(S) /\ <<a, b, d, m>> \in Seq(S)  OBVIOUS
<1>2. /\ Len(<<a, b, d>>) = 3 /\ <<a, b, d>>[1] = a /\ <<a, b, d>>[2] = b /\ <<a, b, d>>[3] = d
      /\ Len(<<m>>) = 1 /\ <<m>>[1] = m
      /\ Len(<<a, b, d, m>>) = 4 /\ <<a, b, d, m>>[1] = a /\ <<a, b, d, m>>[2] = b
      /\ <<a, b, d, m>>[3] = d /\ <<a, b, d, m>>[4] = m
  OBVIOUS
<1>. DEFINE u == <<a, b, d>>
            v == <<m>>
            w == <<a, b, d, m>>
<1>. HIDE DEF S, u, v, w
<1>3. u \o v \in Seq(S) /\ Len(u \o v) = 4  BY <1>1, <1>2, ConcatProperties DEF u, v
<1>4. \A i \in 1 .. 4 : (u \o v)[i] = w[i]  BY <1>1, <1>2, ConcatProperties DEF u, v, w
<1>5. u \o v = w  BY <1>1, <1>2, <1>3, <1>4, SeqEqual DEF w
<1>. QED BY <1>5 DEF u, v, w

LEMMA PanelsClicked ==
  ASSUME Sound(wire), PanelsTyped, PanelsClick
  PROVE  PanelsTyped'
<1>. USE DEF PanelsTyped
<1>1. selected \in {<<>>} \cup Sels
  <2>1. \A x \in Db \X Kid : x = <<x[1], x[2]>> /\ x[1] \in Db /\ x[2] \in Kid  OBVIOUS
  <2>. QED BY <2>1 DEF PanelsTypeOK, Sels
<1>2. (\A d \in Db : <<d>> \in Sels) /\ \A d \in Db, k \in Kid : <<d, k>> \in Sels  BY DEF Sels
<1>3. Len(selected) = 2 => selected[1] \in Db /\ selected[2] \in Kid /\ selected = <<selected[1], selected[2]>>
  <2>1. \A d : Len(<<d>>) = 1  OBVIOUS
  <2>2. Len(<<>>) = 0  OBVIOUS
  <2>3. Len(selected) = 2 => selected \in {<<d, k>> : d \in Db, k \in Kid}  BY <1>1, <2>1, <2>2 DEF Sels
  <2>. QED BY <2>3
<1>4. ASSUME NEW sel \in Sels, NEW w, Turn(sel, w)
      PROVE  /\ selected' = sel /\ panelBusy' \in BOOLEAN /\ (result' = result \/ result' = <<>>)
             /\ selected' \in {<<>>} \cup {<<d>> : d \in Db} \cup (Db \X Kid)
  <2>1. selected' = sel  BY <1>4 DEF Turn
  <2>2. panelBusy \in BOOLEAN  BY DEF PanelsTypeOK
  <2>3. panelBusy' = panelBusy \/ panelBusy' = (work # "tree")  BY <1>4 DEF Turn
  <2>4. result' = result \/ result' = <<>>  BY <1>4 DEF Turn
  <2>5. sel \in {<<>>} \cup {<<d>> : d \in Db} \cup (Db \X Kid)  BY DEF Sels
  <2>6. panelBusy' \in BOOLEAN  BY <2>2, <2>3
  <2>. QED BY <2>1, <2>4, <2>5, <2>6
<1>5. ASSUME NEW d \in Db, SelectDb(d)  PROVE PanelsTyped'
  <2>1. /\ UNCHANGED <<engine, work, server, tree, cached, skeleton, boxes, stale>>
        /\ (expanded' = expanded \cup {d} \/ expanded' = expanded \ {d})
        /\ (spinning' = spinning \cup {d} \/ spinning' = spinning)
        /\ (Turn(<<d>>, wire) \/ Turn(<<d>>, Append(wire, ReadKids(d))))
    BY <1>5 DEF SelectDb
  <2>. DEFINE s == <<d>>
              v == Append(wire, ReadKids(d))
  <2>c. s \in Sels  BY <1>2
  <2>e. Sound(wire) /\ PanelCalls(wire)  OBVIOUS
  <2>d. Sound(v) /\ PanelCalls(v)  BY ONLY <2>e, d \in Db, PanelOpens DEF v
  <2>a. s \in Sels /\ Sound(v) /\ PanelCalls(v)  BY <2>c, <2>d
  <2>b. Turn(s, wire) \/ Turn(s, v)  BY <2>1
  <2>. HIDE DEF s, v
  <2>2. PanelCalls(wire')
    <3>1. CASE Turn(s, wire)  BY <2>a, <3>1, PanelTurns
    <3>2. CASE Turn(s, v)  BY <2>a, <3>2, PanelTurns
    <3>. QED BY <2>b, <3>1, <3>2
  <2>3. /\ panelBusy' \in BOOLEAN /\ (result' = result \/ result' = <<>>)
        /\ selected' \in {<<>>} \cup {<<e>> : e \in Db} \cup (Db \X Kid)
    BY <1>4, <2>a, <2>b
  <2>4. Len(result') \in 0 .. 1  BY <2>3 DEF PanelsTypeOK
  <2>5. {tree', spinning', expanded'} \subseteq SUBSET Db  BY <2>1 DEF PanelsTypeOK
  <2>6. PanelsTypeOK'  BY <2>1, <2>3, <2>4, <2>5 DEF PanelsTypeOK, server, boxes
  <2>. QED BY <2>1, <2>2, <2>3, <2>6 DEF boxes
<1>6. ASSUME NEW d \in Db, NEW k \in Kid, SelectKid(d, k)  PROVE PanelsTyped'
  <2>. DEFINE s == <<d, k>>
  <2>1. UNCHANGED <<engine, work, server, treevars, boxes, stale>> /\ Turn(s, wire)  BY <1>6 DEF SelectKid
  <2>a. s \in Sels  BY <1>2
  <2>. HIDE DEF s
  <2>2. PanelCalls(wire')  BY <2>a, <2>1, PanelTurns
  <2>3. /\ panelBusy' \in BOOLEAN /\ (result' = result \/ result' = <<>>)
        /\ selected' \in {<<>>} \cup {<<e>> : e \in Db} \cup (Db \X Kid)
    BY <1>4, <2>a, <2>1
  <2>4. Len(result') \in 0 .. 1  BY <2>3 DEF PanelsTypeOK
  <2>5. UNCHANGED <<tree, cached, spinning, expanded, skeleton, there, kids, asking, dropping>>
    BY <2>1 DEF treevars, server, boxes
  <2>6. PanelsTypeOK'  BY <2>1, <2>3, <2>4, <2>5 DEF PanelsTypeOK
  <2>. QED BY <2>2, <2>3, <2>5, <2>6
<1>7. ASSUME PanelCalls(wire'), UNCHANGED bvars  PROVE PanelsTyped'
  BY <1>7 DEF PanelsTypeOK, bvars, server, treevars, panel, boxes
<1>8. ASSUME PanelCalls(wire'), UNCHANGED <<engine, work, server, treevars, panel, stale>>,
             asking' \in {<<>>, <<"db">>} \cup {<<"kid", d>> : d \in Db} \cup {<<"index", d, k>> : d \in Db, k \in Kid},
             dropping' \in {<<>>} \cup {<<"db", d>> : d \in Db} \cup {<<"kid", d, k>> : d \in Db, k \in Kid}
      PROVE  PanelsTyped'
  <2>1. Len(asking') \in 0 .. 3 /\ Len(dropping') \in {0, 2, 3}  BY <1>8
  <2>2. PanelsTypeOK'  BY <1>8, <2>1 DEF PanelsTypeOK, server, treevars, panel
  <2>. QED BY <1>8, <2>2 DEF panel
<1>9. ASSUME NEW n, Find(n)  PROVE PanelCalls(wire')
  <2>1. Send(<<Call("read", <<"find", selected>>)>>) /\ selected # <<>>  BY <1>9 DEF Find, PanelShown
  <2>2. selected \in Sels  BY <1>1, <2>1
  <2>3. PanelCall(Call("read", <<"find", selected>>))  BY <2>2, PanelAsks
  <2>. QED BY <2>1, <2>3, PanelSent
<1>10. CASE MongoFind \/ MongoPage  BY <1>7, <1>9, <1>10 DEF MongoFind, MongoPage
<1>11. CASE PgRun
  <2>1. /\ result' = <<>>
        /\ UNCHANGED <<engine, work, server, treevars, selected, panelBusy, boxes, stale>>
    BY <1>11 DEF PgRun
  <2>2. PanelCalls(wire')  BY <1>9, <1>11 DEF PgRun
  <2>3. Len(result') \in 0 .. 1  BY <2>1
  <2>4. UNCHANGED <<tree, cached, spinning, expanded, skeleton, there, kids, asking, dropping>>
    BY <2>1 DEF treevars, server, boxes
  <2>5. PanelsTypeOK'  BY <2>1, <2>3, <2>4 DEF PanelsTypeOK
  <2>. QED BY <2>1, <2>2, <2>4, <2>5
<1>12. CASE DropIndex
  <2>1. /\ Send(<<Call("drop", <<"indexes", selected[1], selected[2]>>)>>) /\ UNCHANGED bvars /\ Len(selected) = 2
    BY <1>12 DEF DropIndex
  <2>2. PanelCall(Call("drop", <<"indexes", selected[1], selected[2]>>))  BY <1>3, <2>1, PanelAsks
  <2>3. PanelCalls(wire')  BY <2>1, <2>2, PanelSent
  <2>. QED BY <1>7, <2>1, <2>3
<1>13. ASSUME NEW box, Ask(box),
              box \in {<<>>, <<"db">>} \cup {<<"kid", d>> : d \in Db} \cup {<<"index", d, k>> : d \in Db, k \in Kid}
       PROVE  PanelsTyped'
  <2>1. asking' = box /\ UNCHANGED <<engine, work, server, treevars, panel, dropping, stale, wire>>
    BY <1>13 DEF Ask
  <2>. QED BY <1>8, <1>13, <2>1
<1>14. CASE AskDb  BY <1>13, <1>14 DEF AskDb
<1>15. CASE AskIndex
  <2>1. Ask(<<"index", selected[1], selected[2]>>) /\ Len(selected) = 2  BY <1>15 DEF AskIndex
  <2>. QED BY <1>3, <1>13, <2>1
<1>16. CASE CloseBox  BY <1>13, <1>16 DEF CloseBox
<1>17. ASSUME NEW d \in Db, AskKid(d)  PROVE PanelsTyped'  BY <1>13, <1>17 DEF AskKid
<1>18. CASE CancelDrop
  <2>1. dropping' = <<>> /\ UNCHANGED <<engine, work, server, treevars, panel, asking, stale, wire>>
    BY <1>18 DEF CancelDrop
  <2>. QED BY <1>8, <2>1
<1>19. ASSUME NEW at, AskDrop(at), at \in {<<"db", d>> : d \in Db} \cup {<<"kid", d, k>> : d \in Db, k \in Kid}
       PROVE  PanelsTyped'
  <2>1. dropping' = at /\ UNCHANGED <<engine, work, server, treevars, panel, asking, stale, wire>>
    BY <1>19 DEF AskDrop
  <2>. QED BY <1>8, <1>19, <2>1
<1>20. CASE ConfirmDrop
  <2>. DEFINE match == dropping[1] = "kid" /\ Len(selected) = 2 /\ selected[2] = dropping[3]
  <2>1. /\ Send(<<Call("drop", dropping \o <<match>>)>>) /\ dropping # <<>> /\ dropping' = <<>>
        /\ UNCHANGED <<engine, work, server, treevars, panel, asking, stale>>
    BY <1>20 DEF ConfirmDrop
  <2>2. match \in BOOLEAN  OBVIOUS
  <2>. DEFINE at == dropping \o <<match>>
  <2>. HIDE DEF match
  <2>3. ASSUME \E d \in Db : dropping = <<"db", d>>  PROVE PanelCalls(wire')
    <3>1. PICK d \in Db : dropping = <<"db", d>>  BY <2>3
    <3>2. dropping \o <<match>> = <<"db", d, match>>  BY PairAnd, <3>1
    <3>3. PanelCall(Call("drop", at))  BY <2>2, <3>2, PanelAsks
    <3>4. Send(<<Call("drop", at)>>)  BY <2>1
    <3>. HIDE DEF at
    <3>. QED BY <3>3, <3>4, PanelSent
  <2>4. ASSUME \E d \in Db, k \in Kid : dropping = <<"kid", d, k>>  PROVE PanelCalls(wire')
    <3>1. PICK d \in Db, k \in Kid : dropping = <<"kid", d, k>>  BY <2>4
    <3>2. dropping \o <<match>> = <<"kid", d, k, match>>  BY TripleAnd, <3>1
    <3>3. PanelCall(Call("drop", at))  BY <2>2, <3>2, PanelAsks
    <3>4. Send(<<Call("drop", at)>>)  BY <2>1
    <3>. HIDE DEF at
    <3>. QED BY <3>3, <3>4, PanelSent
  <2>5. PanelCalls(wire')  BY <2>1, <2>3, <2>4
  <2>. QED BY <1>8, <2>1, <2>5
<1>21. ASSUME NEW kind, NEW at, Create(kind, at), PanelCall(Call("add", at))  PROVE PanelsTyped'
  <2>1. Send(<<Call("add", at)>>) /\ UNCHANGED bvars  BY <1>21 DEF Create
  <2>. QED BY <1>7, <1>21, <2>1, PanelSent
<1>22. CASE CreateIndex
  <2>1. Create("index", asking) /\ asking # <<>> /\ asking[1] = "index"  BY <1>22 DEF CreateIndex, Create
  <2>2. PICK d \in Db, k \in Kid : asking = <<"index", d, k>>
    <3>1. asking \notin {<<"db">>} \cup {<<"kid", d>> : d \in Db}
      <4>1. <<"db">>[1] # "index" /\ \A d : <<"kid", d>>[1] # "index"  OBVIOUS
      <4>. QED BY <2>1, <4>1
    <3>. QED BY <2>1, <3>1
  <2>3. PanelCall(Call("add", asking))  BY <2>2, PanelAsks
  <2>. QED BY <1>21, <2>1, <2>3
<1>23. ASSUME NEW d \in Db, CreateDb(d)  PROVE PanelsTyped'
  BY <1>21, <1>23, PanelAsks DEF CreateDb
<1>24. ASSUME NEW k \in Kid, CreateKid(k)  PROVE PanelsTyped'
  <2>1. Create("kid", <<"kid", asking[2], k>>) /\ asking # <<>> /\ asking[1] = "kid"
    BY <1>24 DEF CreateKid, Create
  <2>2. asking[2] \in Db
    <3>1. asking \notin {<<"db">>} \cup {<<"index", d, j>> : d \in Db, j \in Kid}
      <4>1. <<"db">>[1] # "kid" /\ \A d, j : <<"index", d, j>>[1] # "kid"  OBVIOUS
      <4>. QED BY <2>1, <4>1
    <3>2. PICK d \in Db : asking = <<"kid", d>>  BY <2>1, <3>1
    <3>. QED BY <3>2
  <2>3. PanelCall(Call("add", <<"kid", asking[2], k>>))  BY <2>2, PanelAsks
  <2>. QED BY <1>21, <2>1, <2>3
<1>25. CASE MongoSelect \/ PgSelect  BY <1>5, <1>6, <1>25 DEF MongoSelect, PgSelect
<1>26. CASE MongoDialogs \/ PgDialogs  BY <1>22, <1>23, <1>24, <1>26 DEF MongoDialogs, PgDialogs
<1>27. ASSUME NEW d \in Db, NEW k \in Kid, AskDrop(<<"kid", d, k>>)  PROVE PanelsTyped'  BY <1>19, <1>27
<1>28. ASSUME NEW d \in Db, AskDrop(<<"db", d>>)  PROVE PanelsTyped'  BY <1>19, <1>28
<1>29. ASSUME NEW d \in Db, AskKid(d) \/ AskDrop(<<"db", d>>) \/ \E k \in Kid : AskDrop(<<"kid", d, k>>)
       PROVE  PanelsTyped'
  <2>1. CASE AskKid(d)  BY <1>17, <2>1
  <2>2. CASE AskDrop(<<"db", d>>)  BY <1>28, <2>2
  <2>3. CASE \E k \in Kid : AskDrop(<<"kid", d, k>>)  BY <1>27, <2>3
  <2>. QED BY <1>29, <2>1, <2>2, <2>3
<1>. HIDE DEF PanelsTyped
<1>30. CASE \E d \in Db : AskKid(d) \/ AskDrop(<<"db", d>>) \/ \E k \in Kid : AskDrop(<<"kid", d, k>>)
  BY <1>29, <1>30, Zenon
<1>. QED BY <1>10, <1>11, <1>12, <1>14, <1>15, <1>16, <1>18, <1>20, <1>25, <1>26, <1>30, Zenon DEF PanelsClick

(* The panel's query: those of w whose answer is waited for.               *)
Finds(w) == {w[k].at[2] : k \in {j \in DOMAIN w : w[j].at[1] = "find" /\ w[j].heard}}
NoFind(c) == c.at[1] # "find"

FindInv == FindOfSelection /\ \A s \in Finds(wire) : PanelShown /\ s = selected

LEMMA FindsStem ==
  ASSUME NEW v, NEW w, NEW C, Stem(v, w, C), \A c \in C : NoFind(c)
  PROVE  Finds(v) \subseteq Finds(w)
<1>. SUFFICES ASSUME NEW k \in DOMAIN v, v[k].at[1] = "find", v[k].heard
              PROVE  v[k].at[2] \in Finds(w)
  BY DEF Finds
<1>1. ~\E c \in C : Same(v[k], c)  BY DEF Same, NoFind
<1>2. PICK j \in DOMAIN w : Same(v[k], w[j]) /\ (v[k].heard => w[j].heard)  BY <1>1 DEF Stem
<1>. QED BY <1>2 DEF Same, Finds

LEMMA NoFinds ==
  /\ NoFind(ReadDbs) /\ \A d \in Db : NoFind(ReadKids(d))
  /\ \A sel : \A c \in Of(ReadPanel(sel)) : NoFind(c)
  /\ \A o, a : a[1] # "find" => NoFind(Call(o, a))
  /\ Finds(<<>>) = {}
<1>1. \A o, a : Call(o, a).at = a  BY CallIs
<1>2. \A o, a : a[1] # "find" => NoFind(Call(o, a))  BY <1>1 DEF NoFind
<1>3. NoFind(ReadDbs)  BY <1>2 DEF ReadDbs
<1>4. ASSUME NEW d \in Db  PROVE NoFind(ReadKids(d))
  <2>1. <<d>>[1] # "find"  BY PanelsAssumption
  <2>. QED BY <1>2, <2>1 DEF ReadKids
<1>5. ASSUME NEW sel, NEW c \in Of(ReadPanel(sel))  PROVE NoFind(c)
  <2>1. ReadPanel(sel) # <<>>  BY <1>5, OfOne
  <2>2. PICK l \in {"overview", "detail"} : ReadPanel(sel) = <<Call("read", <<l, sel>>)>>
    BY <2>1 DEF ReadPanel
  <2>3. c = Call("read", <<l, sel>>)  BY <1>5, <2>2, OfOne
  <2>. QED BY <1>2, <2>3
<1>6. Finds(<<>>) = {}
  <2>1. DOMAIN <<>> = {}  OBVIOUS
  <2>. QED BY <2>1 DEF Finds
<1>. QED BY <1>2, <1>3, <1>4, <1>5, <1>6

LEMMA FindsAfter ==
  ASSUME Sound(wire), NEW i \in DOMAIN wire, NEW calls, Sound(calls), \A c \in Of(calls) : NoFind(c)
  PROVE  Finds(After(i, calls)) \subseteq Finds(wire)
BY StemAfter, FindsStem

LEMMA FindsSent ==
  ASSUME Sound(wire), NEW o, NEW a, Send(<<Call(o, a)>>), a[1] # "find"
  PROVE  Finds(wire') \subseteq Finds(wire)
<1>. DEFINE c == Call(o, a)
<1>1. Sound(<<c>>) /\ NoFind(c)  BY SoundCall, NoFinds
<1>2. Send(<<c>>)  OBVIOUS
<1>. HIDE DEF c
<1>3. Of(<<c>>) = {c}  BY OfOne
<1>4. Stem(wire', wire, Of(<<c>>))  BY <1>1, <1>2, StemSent
<1>. QED BY <1>1, <1>3, <1>4, FindsStem

LEMMA FindsReplied ==
  ASSUME Sound(wire), NEW i \in DOMAIN wire, NEW a, Reply(i, a)
  PROVE  Finds(wire') \subseteq Finds(wire)
<1>1. \A k \in DOMAIN wire' :
        \/ \E j \in DOMAIN wire : wire'[k] = wire[j]
        \/ wire[i].heard /\ wire'[k].at = wire[i].at
  BY RepliedCalls DEF Sound
<1>. QED BY <1>1 DEF Finds

(* When the panel goes, its query is not waited for.                       *)
LEMMA FindsLeft ==
  ASSUME NEW w, Sound(w), NEW lists, "find" \in lists
  PROVE  Finds(Leave(w, lists)) = {}
<1>. DEFINE u == Leave(w, lists)
<1>1. \A k \in DOMAIN u : \E j \in DOMAIN w : Same(u[k], w[j]) /\ u[k].heard = (w[j].heard /\ w[j].at[1] \notin lists)
  BY LeftCalls DEF Sound
<1>. HIDE DEF u
<1>2. \A k \in DOMAIN u : ~(u[k].at[1] = "find" /\ u[k].heard)
  <2>. SUFFICES ASSUME NEW k \in DOMAIN u, u[k].at[1] = "find", u[k].heard PROVE FALSE  OBVIOUS
  <2>1. PICK j \in DOMAIN w : Same(u[k], w[j]) /\ u[k].heard = (w[j].heard /\ w[j].at[1] \notin lists)  BY <1>1
  <2>2. w[j].at[1] = "find"  BY <2>1 DEF Same
  <2>. QED BY <2>1, <2>2
<1>3. Finds(u) = {}  BY <1>2 DEF Finds
<1>. QED BY <1>3 DEF u

LEMMA FindsJoin ==
  ASSUME NEW w, NEW calls, NEW u, Sound(w), Sound(calls), u = w \o calls, \A c \in Of(calls) : NoFind(c)
  PROVE  Finds(u) \subseteq Finds(w)
<1>1. Stem(w, w, {})  BY StemSelf
<1>2. Stem(u, w, {} \cup Of(calls))  BY <1>1, StemJoin
<1>. QED BY <1>2, FindsStem

LEMMA FindsLoad ==
  ASSUME NEW w, Sound(w), LoadDatabases(w)
  PROVE  Finds(wire') = {} /\ result' = <<>>
<1>. DEFINE u == Unmounted(w)
<1>1. Sound(u) /\ \A k \in DOMAIN u : \E j \in DOMAIN w :
        Same(u[k], w[j]) /\ u[k].heard = (w[j].heard /\ w[j].at[1] \notin Inside)
  BY UnmountedCalls
<1>2. wire' = u \o <<ReadDbs>> /\ result' = <<>>  BY DEF LoadDatabases
<1>. HIDE DEF u
<1>3. "find" \in Inside  BY DEF Inside
<1>4. \A k \in DOMAIN u : ~(u[k].at[1] = "find" /\ u[k].heard)
  <2>. SUFFICES ASSUME NEW k \in DOMAIN u, u[k].at[1] = "find", u[k].heard PROVE FALSE  OBVIOUS
  <2>1. PICK j \in DOMAIN w : Same(u[k], w[j]) /\ u[k].heard = (w[j].heard /\ w[j].at[1] \notin Inside)  BY <1>1
  <2>2. w[j].at[1] = "find"  BY <2>1 DEF Same
  <2>. QED BY <1>3, <2>1, <2>2
<1>5. Finds(u) = {}  BY <1>4 DEF Finds
<1>6. Sound(<<ReadDbs>>) /\ \A c \in Of(<<ReadDbs>>) : NoFind(c)  BY SoundCall, OfOne, NoFinds DEF ReadDbs
<1>. QED BY <1>1, <1>2, <1>5, <1>6, FindsJoin

LEMMA FindsTurn ==
  ASSUME NEW sel, NEW w, Sound(w), Finds(w) \subseteq Finds(wire), Turn(sel, w)
  PROVE  \/ Finds(wire') = {} /\ result' = <<>>
         \/ Finds(wire') \subseteq Finds(wire) /\ UNCHANGED panel
<1>1. CASE sel = selected  BY <1>1 DEF Turn, panel
<1>2. CASE sel # selected
  <2>1. PICK gone : "find" \in gone /\ wire' = Leave(w, gone) \o ReadPanel(sel) /\ result' = <<>>
    BY <1>2 DEF Turn, Inside
  <2>. DEFINE u == Leave(w, gone)
  <2>2. Sound(u) /\ Finds(u) = {}  BY <2>1, FindsLeft, SoundLeave DEF Sound
  <2>3. wire' = u \o ReadPanel(sel)  BY <2>1
  <2>. HIDE DEF u
  <2>4. Sound(ReadPanel(sel)) /\ \A c \in Of(ReadPanel(sel)) : NoFind(c)  BY PanelRead, NoFinds
  <2>. QED BY <2>1, <2>2, <2>3, <2>4, FindsJoin
<1>. QED BY <1>1, <1>2

(* A step keeps the query with the selection when it takes the panel away, *)
(* or leaves it and starts no query.                                       *)
LEMMA FindKept ==
  ASSUME FindInv, Finds(wire') \subseteq Finds(wire), UNCHANGED <<panel, work, skeleton>>
  PROVE  FindInv'
BY DEF FindInv, FindOfSelection, PanelShown, panel

LEMMA FindGone ==
  ASSUME Finds(wire') = {}, result' = <<>>
  PROVE  FindInv'
BY DEF FindInv, FindOfSelection

LEMMA FindsServed ==
  ASSUME Sound(wire), FindInv, NEW i \in DOMAIN wire, PanelsServe(i) \/ PanelCallFails(i)
  PROVE  FindInv'
<1>1. (\E a : Reply(i, a)) /\ UNCHANGED <<panel, work, skeleton>>
  <2>. USE DEF treevars, bvars, Serve, RefuseIt
  <2>1. ServeDbs(i) => (\E a : Reply(i, a)) /\ UNCHANGED <<panel, work, skeleton>>  BY DEF ServeDbs
  <2>2. ServeKids(i) => (\E a : Reply(i, a)) /\ UNCHANGED <<panel, work, skeleton>>  BY DEF ServeKids
  <2>3. ServePanel(i) => (\E a : Reply(i, a)) /\ UNCHANGED <<panel, work, skeleton>>  BY DEF ServePanel
  <2>4. MongoCreates(i) => (\E a : Reply(i, a)) /\ UNCHANGED <<panel, work, skeleton>>  BY DEF MongoCreates
  <2>5. MongoDrops(i) => (\E a : Reply(i, a)) /\ UNCHANGED <<panel, work, skeleton>>  BY DEF MongoDrops
  <2>6. PgCreates(i) => (\E a : Reply(i, a)) /\ UNCHANGED <<panel, work, skeleton>>  BY DEF PgCreates
  <2>7. PgDrops(i) => (\E a : Reply(i, a)) /\ UNCHANGED <<panel, work, skeleton>>  BY DEF PgDrops
  <2>8. PanelCallFails(i) => (\E a : Reply(i, a)) /\ UNCHANGED <<panel, work, skeleton>>
    BY DEF PanelCallFails, Fail
  <2>. QED BY <2>1, <2>2, <2>3, <2>4, <2>5, <2>6, <2>7, <2>8 DEF PanelsServe
<1>. QED BY <1>1, FindsReplied, FindKept

LEMMA FindsWentOn ==
  ASSUME Sound(wire), PanelsTyped, FindInv, NEW i \in DOMAIN wire, PanelsGoOn(i)
  PROVE  FindInv'
<1>0. PanelCall(wire[i])  BY DEF PanelsTyped, PanelCalls
<1>1. Sound(<<>>) /\ \A c \in Of(<<>>) : NoFind(c)  BY SoundCall, OfOne
<1>2. Sound(After(i, <<>>)) /\ Finds(After(i, <<>>)) \subseteq Finds(wire)  BY <1>1, SoundAfter, FindsAfter
<1>3. \A d \in Db : Sound(<<ReadKids(d)>>) /\ \A c \in Of(<<ReadKids(d)>>) : NoFind(c)
  BY SoundCall, OfOne, NoFinds DEF ReadKids
<1>4. ~PanelShown => Finds(wire) = {} /\ result = <<>>  BY DEF FindInv, FindOfSelection
<1>5. ASSUME wire' = After(i, <<>>), UNCHANGED <<panel, work, skeleton>>  PROVE FindInv'
  BY <1>2, <1>5, FindKept
<1>6. CASE DbsCome(i)
  <2>1. /\ skeleton' = FALSE /\ panelBusy' = (panelBusy \/ Remounted # <<>>) /\ wire' = After(i, Remounted)
        /\ UNCHANGED <<work, selected, result>>
    BY <1>6 DEF DbsCome
  <2>2. Sound(Remounted) /\ \A c \in Of(Remounted) : NoFind(c)  BY <1>1, PanelRead, NoFinds DEF Remounted
  <2>3. Finds(wire') \subseteq Finds(wire)  BY <2>1, <2>2, FindsAfter
  <2>4. CASE skeleton
    <3>1. ~PanelShown  BY <2>4 DEF PanelShown
    <3>2. Finds(wire') = {} /\ result' = <<>>  BY <1>4, <2>1, <2>3, <3>1
    <3>. QED BY <3>2, FindGone
  <2>5. CASE ~skeleton
    <3>1. PanelShown => PanelShown'
      <4>1. Remounted = <<>>  BY <2>5 DEF Remounted
      <4>. QED BY <2>1, <4>1 DEF PanelShown
    <3>. QED BY <2>1, <2>3, <3>1 DEF FindInv, FindOfSelection
  <2>. QED BY <2>4, <2>5
<1>7. CASE KidsCome(i)  BY <1>5, <1>7 DEF KidsCome
<1>8. CASE PanelComes(i)
  <2>1. panelBusy' = FALSE /\ wire' = After(i, <<>>) /\ UNCHANGED <<work, treevars, selected, result>>
    BY <1>8 DEF PanelComes
  <2>2. PanelShown => PanelShown'  BY <2>1 DEF PanelShown, treevars
  <2>. QED BY <1>2, <2>1, <2>2 DEF FindInv, FindOfSelection
<1>9. CASE Found(i)
  <2>1. /\ wire' = After(i, <<>>) /\ wire[i].at[1] = "find"
        /\ UNCHANGED <<work, treevars, selected, panelBusy>>
        /\ \/ Came(i, "read") /\ result' = <<Value(i)>>
           \/ result' = <<>>
    BY <1>9 DEF Found
  <2>2. PanelShown => PanelShown'  BY <2>1 DEF PanelShown, treevars
  <2>3. CASE Came(i, "read") /\ result' = <<Value(i)>>
    <3>1. wire[i].answer \notin {NotYet, Error} /\ wire[i].op = "read"  BY <2>3 DEF Came
    <3>2. wire[i].heard  BY <3>1 DEF Sound
    <3>3. wire[i].at[2] \in Finds(wire)  BY <2>1, <3>2 DEF Finds
    <3>4. Gives(wire[i], {wire[i].at[2]})  BY <1>0, <2>1, <3>1, PanelReads, PanelsAssumption
    <3>5. Value(i) = wire[i].at[2]  BY <3>1, <3>4, AnswerIs DEF Gives, Value
    <3>. QED BY <1>2, <2>1, <2>2, <2>3, <3>3, <3>5 DEF FindInv, FindOfSelection
  <2>4. CASE result' = <<>>  BY <1>2, <2>1, <2>2, <2>4 DEF FindInv, FindOfSelection
  <2>. QED BY <2>1, <2>3, <2>4
<1>10. CASE IndexGone(i)
  <2>. DEFINE sel == <<wire[i].at[2], wire[i].at[3]>>
              w == After(i, <<>>)
              u == Leave(w, {"find"})
  <2>1. wire' = u \o ReadPanel(sel) /\ result' = <<>>  BY <1>10 DEF IndexGone
  <2>2. Sound(w)  BY <1>2
  <2>. HIDE DEF w, sel
  <2>3. Sound(u) /\ Finds(u) = {}  BY <2>2, FindsLeft, SoundLeave DEF Sound
  <2>. HIDE DEF u
  <2>4. Sound(ReadPanel(sel)) /\ \A c \in Of(ReadPanel(sel)) : NoFind(c)  BY PanelRead, NoFinds
  <2>5. Finds(wire') = {}  BY <2>1, <2>3, <2>4, FindsJoin
  <2>. QED BY <2>1, <2>5, FindGone
<1>11. CASE DbCreated(i)
  <2>1. LoadDatabases(After(i, <<>>))  BY <1>11 DEF DbCreated
  <2>. QED BY <1>2, <2>1, FindsLoad, FindGone
<1>12. CASE KidCreated(i)
  <2>. DEFINE d == wire[i].at[2]
  <2>1. /\ wire[i].op = "add" /\ wire' = After(i, <<ReadKids(d)>>)
        /\ UNCHANGED <<work, skeleton, panel>>
    BY <1>12 DEF KidCreated, Came
  <2>2. d \in Db  BY <1>0, <2>1, PanelAdds
  <2>. HIDE DEF d
  <2>3. Finds(wire') \subseteq Finds(wire)  BY <1>3, <2>1, <2>2, FindsAfter
  <2>. QED BY <2>1, <2>3, FindKept
<1>13. CASE IndexMade(i)  BY <1>5, <1>13 DEF IndexMade, treevars
<1>14. CASE DbDropped(i)
  <2>1. LoadDatabases(After(i, <<>>))  BY <1>14 DEF DbDropped
  <2>. QED BY <1>2, <2>1, FindsLoad, FindGone
<1>15. CASE KidDropped(i)
  <2>. DEFINE d == wire[i].at[2]
              w == After(i, <<ReadKids(d)>>)
  <2>1. wire[i].op = "drop" /\ LoadDatabases(w)  BY <1>15 DEF KidDropped, Came
  <2>2. Sound(w)
    <3>1. d \in Db  BY <1>0, <2>1, PanelDrops
    <3>. QED BY <1>3, <3>1, SoundAfter
  <2>. HIDE DEF w
  <2>. QED BY <2>1, <2>2, FindsLoad, FindGone
<1>16. CASE OrderFails(i)  BY <1>5, <1>16 DEF OrderFails, treevars
<1>. QED BY <1>6, <1>7, <1>8, <1>9, <1>10, <1>11, <1>12, <1>13, <1>14, <1>15, <1>16
     DEF PanelsGoOn, MongoTree, PgTree, MongoPanel, PgPanel, MongoDropped, PgDropped

LEMMA FindsClicked ==
  ASSUME Sound(wire), PanelsTyped, FindInv, PanelsClick
  PROVE  FindInv'
<1>1. ASSUME NEW o, NEW a, Send(<<Call(o, a)>>), a[1] # "find", UNCHANGED <<panel, work, skeleton>>  PROVE FindInv'
  BY <1>1, FindsSent, FindKept
<1>2. ASSUME UNCHANGED <<wire, panel, work, skeleton>>  PROVE FindInv'
  BY <1>2, FindKept
<1>3. ASSUME NEW sel, NEW w, Sound(w), Finds(w) \subseteq Finds(wire), Turn(sel, w), UNCHANGED <<work, skeleton>>
      PROVE  FindInv'
  <2>1. \/ Finds(wire') = {} /\ result' = <<>>
        \/ Finds(wire') \subseteq Finds(wire) /\ UNCHANGED panel
    BY <1>3, FindsTurn
  <2>. QED BY <1>3, <2>1, FindGone, FindKept
<1>4. ASSUME NEW d \in Db, SelectDb(d)  PROVE FindInv'
  <2>. DEFINE s == <<d>>
              v == Append(wire, ReadKids(d))
  <2>1. (Turn(s, wire) \/ Turn(s, v)) /\ UNCHANGED <<work, skeleton>>  BY <1>4 DEF SelectDb
  <2>2. Sound(v) /\ Finds(v) \subseteq Finds(wire)
    <3>. DEFINE c == ReadKids(d)
    <3>1. v = wire \o <<c>> /\ Sound(<<c>>) /\ Sound(v)  BY PanelOpens DEF PanelsTyped
    <3>. HIDE DEF v
    <3>2. \A x \in Of(<<c>>) : NoFind(x)  BY OfOne, NoFinds
    <3>. QED BY <3>1, <3>2, FindsJoin
  <2>. HIDE DEF s, v
  <2>. QED BY <1>3, <2>1, <2>2
<1>5. ASSUME NEW d \in Db, NEW k \in Kid, SelectKid(d, k)  PROVE FindInv'
  <2>. DEFINE s == <<d, k>>
  <2>1. Turn(s, wire) /\ UNCHANGED <<work, skeleton>>  BY <1>5 DEF SelectKid, treevars
  <2>. HIDE DEF s
  <2>. QED BY <1>3, <2>1
<1>6. ASSUME NEW n, Find(n), UNCHANGED <<work, skeleton, selected, panelBusy>>, result' = result \/ result' = <<>>
      PROVE  FindInv'
  <2>. DEFINE c == Call("read", <<"find", selected>>)
  <2>1. Send(<<c>>) /\ PanelShown  BY <1>6 DEF Find
  <2>2. c.at[2] = selected /\ Sound(<<c>>)  BY CallIs, SoundCall
  <2>. HIDE DEF c
  <2>3. wire' = wire \o <<c>>  BY <2>1 DEF Send
  <2>4. IsWire(wire) /\ IsWire(<<c>>)  BY <2>2 DEF Sound
  <2>5. \A k \in DOMAIN wire' : (\E j \in DOMAIN wire : wire'[k] = wire[j]) \/ wire'[k] = c
    <3>1. \A k \in DOMAIN wire' : (\E j \in DOMAIN wire : wire'[k] = wire[j]) \/ \E j \in DOMAIN <<c>> : wire'[k] = <<c>>[j]
      BY <2>3, <2>4, SentCalls
    <3>2. \A j \in DOMAIN <<c>> : <<c>>[j] = c  OBVIOUS
    <3>. QED BY <3>1, <3>2
  <2>6. Finds(wire') \subseteq Finds(wire) \cup {selected}  BY <2>2, <2>5 DEF Finds
  <2>7. PanelShown'  BY <1>6, <2>1 DEF PanelShown
  <2>. QED BY <1>6, <2>1, <2>6, <2>7 DEF FindInv, FindOfSelection
<1>7. CASE MongoFind \/ MongoPage  BY <1>6, <1>7 DEF MongoFind, MongoPage, bvars, treevars, panel
<1>8. CASE PgRun  BY <1>6, <1>8 DEF PgRun, treevars
<1>9. CASE DropIndex
  <2>. DEFINE a == <<"indexes", selected[1], selected[2]>>
  <2>1. Send(<<Call("drop", a)>>) /\ UNCHANGED <<panel, work, skeleton>>
    BY <1>9 DEF DropIndex, bvars, treevars
  <2>2. a[1] # "find"  OBVIOUS
  <2>. HIDE DEF a
  <2>. QED BY <1>1, <2>1, <2>2
<1>10. ASSUME NEW box, Ask(box)  PROVE FindInv'  BY <1>2, <1>10 DEF Ask, treevars
<1>11. ASSUME NEW at, AskDrop(at)  PROVE FindInv'  BY <1>2, <1>11 DEF AskDrop, treevars
<1>12. CASE CancelDrop  BY <1>2, <1>12 DEF CancelDrop, treevars
<1>13. CASE ConfirmDrop
  <2>. DEFINE m == dropping[1] = "kid" /\ Len(selected) = 2 /\ selected[2] = dropping[3]
              a == dropping \o <<m>>
  <2>1. Send(<<Call("drop", a)>>) /\ UNCHANGED <<panel, work, skeleton>> /\ dropping # <<>>
    BY <1>13 DEF ConfirmDrop, treevars
  <2>2. a[1] # "find"
    <3>. HIDE DEF m
    <3>1. CASE \E d \in Db : dropping = <<"db", d>>
      <4>1. PICK d \in Db : dropping = <<"db", d>>  BY <3>1
      <4>2. a = <<"db", d, m>>  BY <4>1, PairAnd
      <4>. HIDE DEF a
      <4>. QED BY <4>2
    <3>2. CASE \E d \in Db, k \in Kid : dropping = <<"kid", d, k>>
      <4>1. PICK d \in Db, k \in Kid : dropping = <<"kid", d, k>>  BY <3>2
      <4>2. a = <<"kid", d, k, m>>  BY <4>1, TripleAnd
      <4>. HIDE DEF a
      <4>. QED BY <4>2
    <3>. QED BY <2>1, <3>1, <3>2 DEF PanelsTyped
  <2>. HIDE DEF a
  <2>. QED BY <1>1, <2>1, <2>2
<1>14. ASSUME NEW kind, NEW at, Create(kind, at), at[1] # "find"  PROVE FindInv'
  BY <1>1, <1>14 DEF Create, bvars, treevars
<1>15. CASE CreateIndex
  <2>1. Create("index", asking) /\ asking[1] = "index"  BY <1>15 DEF CreateIndex, Create
  <2>. QED BY <1>14, <2>1
<1>16. ASSUME NEW d \in Db, CreateDb(d)  PROVE FindInv'
  <2>1. <<"db", d>>[1] # "find"  OBVIOUS
  <2>. QED BY <1>14, <1>16, <2>1 DEF CreateDb
<1>17. ASSUME NEW k \in Kid, CreateKid(k)  PROVE FindInv'
  <2>1. <<"kid", asking[2], k>>[1] # "find"  OBVIOUS
  <2>. QED BY <1>14, <1>17, <2>1 DEF CreateKid
<1>18. CASE MongoSelect \/ PgSelect  BY <1>4, <1>5, <1>18 DEF MongoSelect, PgSelect
<1>19. CASE MongoDialogs \/ PgDialogs  BY <1>15, <1>16, <1>17, <1>19 DEF MongoDialogs, PgDialogs
<1>20. CASE AskDb \/ AskIndex \/ CloseBox  BY <1>10, <1>20 DEF AskDb, AskIndex, CloseBox
<1>. HIDE DEF FindInv
<1>21. ASSUME NEW d \in Db, AskKid(d) \/ AskDrop(<<"db", d>>) \/ \E k \in Kid : AskDrop(<<"kid", d, k>>)
       PROVE  FindInv'
  <2>1. CASE AskKid(d)  BY <1>10, <2>1 DEF AskKid
  <2>2. CASE AskDrop(<<"db", d>>)  BY <1>11, <2>2
  <2>3. CASE \E k \in Kid : AskDrop(<<"kid", d, k>>)  BY <1>11, <2>3
  <2>. QED BY <1>21, <2>1, <2>2, <2>3
<1>22. CASE \E d \in Db : AskKid(d) \/ AskDrop(<<"db", d>>) \/ \E k \in Kid : AskDrop(<<"kid", d, k>>)
  BY <1>21, <1>22, Zenon
<1>. QED BY <1>7, <1>8, <1>9, <1>12, <1>13, <1>18, <1>19, <1>20, <1>22, Zenon DEF PanelsClick

(* The databases page, and what the other pages leave of it.               *)
PanelsPageInv ==
  IF mounted = "databases" THEN PanelsTyped /\ FindInv ELSE PanelsTypeOK /\ result = <<>>

LEMMA PanelsPageKept == AdminSpec => []PanelsPageInv
<1>1. AdminInit => PanelsPageInv
  <2>. SUFFICES ASSUME AdminInit PROVE PanelsPageInv  OBVIOUS
  <2>1. PanelsStart /\ wire = CASE mounted = "projects"  -> ReadAll({"projects"})
                                [] mounted = "databases" -> <<ReadDbs>>
                                [] mounted = "tasks"     -> ReadTasks
                                [] OTHER                 -> <<>>
    BY DEF AdminInit
  <2>2. PanelsTypeOK /\ result = <<>> /\ asking = <<>> /\ dropping = <<>>
    <3>1. Protected \in Db /\ Managed \in Kid  BY PanelsAssumption
    <3>2. there \subseteq Db /\ kids \in [Db -> SUBSET Kid]  BY <2>1, <3>1 DEF PanelsStart
    <3>3. cached \in [Db -> {<<>>} \cup {<<s>> : s \in SUBSET Kid}]
      <4>1. \A d \in Db : kids[d] \in SUBSET Kid  BY <3>2
      <4>. QED BY <2>1, <4>1 DEF PanelsStart
    <3>4. /\ tree = {} /\ spinning = {} /\ skeleton = TRUE /\ panelBusy = FALSE
          /\ selected = <<>> /\ result = <<>> /\ asking = <<>> /\ dropping = <<>> /\ stale = {}
      BY <2>1 DEF PanelsStart
    <3>7. expanded \subseteq Db  BY <2>1 DEF PanelsStart
    <3>8. {skeleton, panelBusy} \subseteq BOOLEAN  BY <3>4
    <3>9. {tree, spinning, expanded} \subseteq SUBSET Db  BY <3>4, <3>7
    <3>5. engine \in Engines /\ work \in Works  BY <2>1 DEF PanelsStart
    <3>6. Len(<<>>) = 0  OBVIOUS
    <3>10. Len(result) \in 0 .. 1 /\ Len(asking) \in 0 .. 3 /\ Len(dropping) \in {0, 2, 3}  BY <3>4, <3>6
    <3>. QED BY <3>2, <3>3, <3>4, <3>5, <3>8, <3>9, <3>10 DEF PanelsTypeOK
  <2>3. ASSUME mounted = "databases"  PROVE PanelsTyped /\ FindInv
    <3>1. wire = <<ReadDbs>>  BY <2>1, <2>3
    <3>2. PanelCalls(wire)
      <4>1. \A c \in Of(<<ReadDbs>>) : PanelCall(c)  BY PanelAsks, OfOne
      <4>. QED BY <3>1, <4>1 DEF PanelCalls, Of
    <3>3. Finds(wire) = {}
      <4>1. \A k \in DOMAIN wire : NoFind(wire[k])
        <5>1. \A j \in DOMAIN <<ReadDbs>> : <<ReadDbs>>[j] = ReadDbs  OBVIOUS
        <5>. QED BY <3>1, <5>1, NoFinds
      <4>. QED BY <4>1 DEF NoFind, Finds
    <3>. QED BY <2>2, <3>2, <3>3 DEF PanelsTyped, FindInv, FindOfSelection
  <2>. QED BY <2>2, <2>3 DEF PanelsPageInv
<1>2. PanelsPageInv /\ Sound(wire) /\ [AdminNext]_all => PanelsPageInv'
  <2>. SUFFICES ASSUME PanelsPageInv, Sound(wire), [AdminNext]_all PROVE PanelsPageInv'  OBVIOUS
  <2>1. CASE OnDatabases(PanelsNext)
    <3>1. mounted = "databases" /\ mounted' = mounted /\ PanelsNext  BY <2>1 DEF OnDatabases
    <3>2. PanelsTyped /\ FindInv  BY <3>1 DEF PanelsPageInv
    <3>3. PanelsTyped'  BY <3>1, <3>2, PanelsServed, PanelsWentOn, PanelsClicked DEF PanelsNext
    <3>4. FindInv'  BY <3>1, <3>2, FindsServed, FindsWentOn, FindsClicked DEF PanelsNext
    <3>. QED BY <3>1, <3>3, <3>4 DEF PanelsPageInv
  <2>2. CASE OnProjects(ProjectsNext) \/ OnDialogs(DialogsNext) \/ OnTasksPage(TasksNext)
    <3>1. mounted # "databases" /\ mounted' = mounted /\ UNCHANGED bvars
      BY <2>2 DEF OnProjects, OnDialogs, OnTasksPage
    <3>2. PanelsTypeOK' /\ result' = result
      BY <3>1 DEF PanelsPageInv, PanelsTyped, PanelsTypeOK, bvars, server, treevars, panel, boxes
    <3>. QED BY <3>1, <3>2 DEF PanelsPageInv
  <2>3. CASE UNCHANGED all
    <3>1. UNCHANGED <<mounted, wire>> /\ UNCHANGED bvars  BY <2>3 DEF all
    <3>2. (PanelsTypeOK' <=> PanelsTypeOK) /\ result' = result
      BY <3>1 DEF PanelsTypeOK, bvars, server, treevars, panel, boxes
    <3>3. (PanelsTyped' <=> PanelsTyped) /\ (FindInv' <=> FindInv)
      BY <3>1, <3>2 DEF PanelsTyped, PanelCalls, FindInv, FindOfSelection, Finds, PanelShown, bvars, server, treevars, panel, boxes
    <3>. QED BY <3>1, <3>2, <3>3 DEF PanelsPageInv
  <2>. QED BY <2>1, <2>2, <2>3 DEF AdminNext
<1>. QED BY <1>1, <1>2, WireSound, PTL DEF AdminSpec

(* The result of a query in the panel is one of the collection or the      *)
(* database selected, however late it comes and whatever was selected      *)
(* meanwhile (mongo-detail.tsx and postgres-detail.tsx: the panel of       *)
(* another selection starts anew).                                         *)
THEOREM ResultOfSelection == AdminSpec => []FindOfSelection
<1>1. PanelsPageInv => FindOfSelection  BY DEF PanelsPageInv, FindInv, FindOfSelection
<1>. QED BY <1>1, PanelsPageKept, PTL

(***************************************************************************)
(* The tree of the databases page shows the changes the person made.       *)
(***************************************************************************)
Routes == {"dbs", "db", "kid", "index"} \cup Db \cup Inside

(* Nothing but the panel goes away; who works with the indexes does        *)
(* nothing else, and with the one kid there is.                            *)
TreeCall(c) ==
  /\ ListCall(c, Routes) /\ (c.at[1] \notin Inside => c.heard)
  /\ c.op # "read" => c.at[1] \in (IF work = "indexes" THEN {"index", "indexes"} ELSE {"db", "kid"})
  /\ c.op = "add" /\ c.at[1] = "index" => c.at[3] = Managed
  /\ c.op = "read" /\ c.at[1] \in Db /\ work = "indexes" => c.answer \in {NotYet, Error, Answer({Managed})}
TreeCalls(w) == \A k \in DOMAIN w : TreeCall(w[k])
TreeAsks(q)  == Sound(q) /\ TreeCalls(q) /\ \A k \in DOMAIN q : q[k].answer = NotYet

(* The list of the databases, or that of database x, is read again after c.*)
Branches == {"dbs"} \cup Db
Heeds(c, x) ==
  /\ c.op # "read"
  /\ IF x = "dbs" THEN c.at[1] = "db" \/ (c.at[1] = "kid" /\ c.op = "drop")
     ELSE c.at[1] = "kid" /\ c.at[2] = x
Due(c, x) == Heeds(c, x) /\ c.answer \notin {NotYet, Error}

Fits(w, x, v, s) == (\E k \in DOMAIN w : Due(w[k], x)) \/ Current(w, x, v, s)

(* What the server has of x, and what the tree shows.                      *)
Kept(x) == IF x = "dbs" THEN there ELSE kids[x]
Seen(x) == IF x = "dbs" THEN tree ELSE IF cached[x] = <<>> THEN kids[x] ELSE cached[x][1]

Still ==
  /\ there = Db /\ kids = [d \in Db |-> {Managed}] /\ cached = [d \in Db |-> <<{Managed}>>]
  /\ dropping = <<>> /\ \A d \in Db, k \in Kid : selected = <<d, k>> => k = Managed
  /\ asking # <<>> => asking[1] = "index" /\ asking[3] = Managed

TreeTyped ==
  /\ TreeCalls(wire) /\ (work = "indexes" => engine = "mongodb")
  /\ IF work = "indexes" THEN Still ELSE asking = <<>> \/ asking[1] # "index"

TreeInv == TreeTyped /\ \A x \in Branches : x \in stale \/ Fits(wire, x, Kept(x), Seen(x))

LEMMA TreeSame ==
  ASSUME NEW c, NEW d, TreeCall(d), Same(c, d), c.op = "read" => c.heard, c.at[1] \notin Inside => c.heard
  PROVE  TreeCall(c)
BY DEF TreeCall, ListCall, Same

LEMMA TreeList ==
  ASSUME NEW w, TreeCalls(w)
  PROVE  /\ ListCalls(w, Routes)
         /\ \A k \in DOMAIN w, x \in Branches : ~IsDone(w[k], x)
<1>1. ASSUME NEW c, TreeCall(c), NEW x \in Branches  PROVE ~IsDone(c, x)
  <2>1. c.op # "read" => c.at[1] \in {"index", "indexes", "db", "kid"}  BY <1>1 DEF TreeCall
  <2>2. x \notin {"index", "indexes", "db", "kid"}  BY PanelsAssumption DEF Branches
  <2>. QED BY <2>1, <2>2 DEF IsDone
<1>. QED BY <1>1 DEF TreeCalls, TreeCall, ListCalls

LEMMA TreeAsked ==
  /\ TreeAsks(<<>>) /\ \A o, a : TreeCall(Call(o, a)) => TreeAsks(<<Call(o, a)>>)
  /\ TreeAsks(<<ReadDbs>>) /\ IsRead(<<ReadDbs>>[1], "dbs") /\ 1 \in DOMAIN <<ReadDbs>>
  /\ \A d \in Db : TreeAsks(<<ReadKids(d)>>) /\ IsRead(<<ReadKids(d)>>[1], d) /\ 1 \in DOMAIN <<ReadKids(d)>>
  /\ \A sel : TreeAsks(ReadPanel(sel))
<1>1. TreeAsks(<<>>)
  <2>1. DOMAIN <<>> = {}  BY NoCalls, WireIs
  <2>. QED BY <2>1, SoundCall DEF TreeAsks, TreeCalls
<1>2. ASSUME NEW o, NEW a, TreeCall(Call(o, a))  PROVE TreeAsks(<<Call(o, a)>>)
  <2>. DEFINE c == Call(o, a)
  <2>1. TreeCall(c) /\ c.answer = NotYet /\ Sound(<<c>>)  BY <1>2, CallIs, SoundCall
  <2>. HIDE DEF c
  <2>2. DOMAIN <<c>> = {1} /\ <<c>>[1] = c  OBVIOUS
  <2>3. TreeAsks(<<c>>)  BY <2>1, <2>2 DEF TreeAsks, TreeCalls
  <2>. QED BY <2>3 DEF c
<1>3. ASSUME NEW a, a[1] \in Routes  PROVE TreeCall(Call("read", a))
  BY <1>3, CallIs DEF TreeCall, ListCall
<1>4. TreeAsks(<<ReadDbs>>) /\ IsRead(ReadDbs, "dbs")
  <2>1. <<"dbs">>[1] = "dbs" /\ "dbs" \in Routes  BY DEF Routes
  <2>. QED BY <1>2, <1>3, <2>1, CallIs DEF ReadDbs, IsRead
<1>5. ASSUME NEW d \in Db  PROVE TreeAsks(<<ReadKids(d)>>) /\ IsRead(ReadKids(d), d)
  <2>1. <<d>>[1] = d /\ d \in Routes  BY DEF Routes
  <2>. QED BY <1>2, <1>3, <2>1, CallIs DEF ReadKids, IsRead
<1>6. ASSUME NEW sel  PROVE TreeAsks(ReadPanel(sel))
  <2>1. CASE ReadPanel(sel) = <<>>  BY <1>1, <2>1
  <2>2. ASSUME NEW l \in {"overview", "detail"}  PROVE TreeAsks(<<Call("read", <<l, sel>>)>>)
    <3>1. <<l, sel>>[1] = l /\ l \in Routes  BY DEF Routes, Inside
    <3>. QED BY <1>2, <1>3, <3>1
  <2>. QED BY <2>1, <2>2 DEF ReadPanel
<1>7. \A c : <<c>>[1] = c /\ 1 \in DOMAIN <<c>>  OBVIOUS
<1>. QED BY <1>1, <1>2, <1>4, <1>5, <1>6, <1>7

LEMMA FitsAfter ==
  ASSUME Sound(wire), TreeCalls(wire), NEW i \in DOMAIN wire, NEW calls, TreeAsks(calls)
  PROVE  LET u == After(i, calls) IN
         /\ Sound(u) /\ TreeCalls(u)
         /\ \A x \in Branches : \A v, s : ~IsRead(wire[i], x) /\ ~Due(wire[i], x) /\ Fits(wire, x, v, s) => Fits(u, x, v, s)
         /\ \A x, v, s : (\E k \in DOMAIN calls : IsRead(calls[k], x)) => Fits(u, x, v, s)
         /\ \A x, v, s : Fetched(wire[i], x) /\ Fits(wire, x, v, s) => Fits(u, x, v, wire[i].answer[2])
<1>. DEFINE u == After(i, calls)
<1>1. /\ \A k \in DOMAIN u :
           \/ \E j \in DOMAIN wire \ {i} : Same(u[k], wire[j]) /\ u[k].heard = wire[j].heard
           \/ \E j \in DOMAIN calls : u[k] = calls[j]
      /\ \A j \in DOMAIN wire \ {i} : \E k \in DOMAIN u : Same(u[k], wire[j])
  BY AfterCalls DEF Sound, TreeAsks
<1>2. Sound(u)  BY SoundAfter DEF TreeAsks
<1>3. Asks(calls, Routes)  BY TreeList DEF TreeAsks, Asks
<1>4. /\ \A l, v, s : ~IsRead(wire[i], l) /\ ~IsDone(wire[i], l) /\ Current(wire, l, v, s) => Current(u, l, v, s)
      /\ \A l, v, s : (\E k \in DOMAIN calls : IsRead(calls[k], l)) => Current(u, l, v, s)
      /\ \A l, v, s : Fetched(wire[i], l) /\ Current(wire, l, v, s) => Current(u, l, v, wire[i].answer[2])
  BY <1>3, CurrentAfter
<1>. HIDE DEF u
<1>5. TreeCalls(u)
  <2>. SUFFICES ASSUME NEW k \in DOMAIN u PROVE TreeCall(u[k])  BY DEF TreeCalls
  <2>1. CASE \E j \in DOMAIN wire \ {i} : Same(u[k], wire[j]) /\ u[k].heard = wire[j].heard
    <3>1. PICK j \in DOMAIN wire : Same(u[k], wire[j]) /\ u[k].heard = wire[j].heard  BY <2>1
    <3>2. TreeCall(wire[j])  BY DEF TreeCalls
    <3>3. (u[k].op = "read" => u[k].heard) /\ (u[k].at[1] \notin Inside => u[k].heard)
      BY <3>1, <3>2 DEF TreeCall, ListCall, Same
    <3>. QED BY <3>1, <3>2, <3>3, TreeSame
  <2>2. CASE \E j \in DOMAIN calls : u[k] = calls[j]  BY <2>2 DEF TreeAsks, TreeCalls
  <2>. QED BY <1>1, <2>1, <2>2
<1>6. \A x : (\E k \in DOMAIN wire : Due(wire[k], x)) /\ ~Due(wire[i], x) => \E k \in DOMAIN u : Due(u[k], x)
  BY <1>1 DEF Due, Heeds, Same
<1>7. \A x \in Branches : ~IsDone(wire[i], x)  BY TreeList
<1>8. \A x : Fetched(wire[i], x) => ~Due(wire[i], x)  BY DEF Fetched, IsRead, Due, Heeds
<1>9. \A x \in Branches : \A v, s : ~IsRead(wire[i], x) /\ ~Due(wire[i], x) /\ Fits(wire, x, v, s) => Fits(u, x, v, s)
  BY <1>4, <1>6, <1>7 DEF Fits
<1>10. \A x, v, s : (\E k \in DOMAIN calls : IsRead(calls[k], x)) => Fits(u, x, v, s)  BY <1>4 DEF Fits
<1>11. \A x, v, s : Fetched(wire[i], x) /\ Fits(wire, x, v, s) => Fits(u, x, v, wire[i].answer[2])
  BY <1>4, <1>6, <1>8 DEF Fits
<1>. QED BY <1>2, <1>5, <1>9, <1>10, <1>11 DEF u

LEMMA FitsJoin ==
  ASSUME NEW w, Sound(w), TreeCalls(w), NEW calls, TreeAsks(calls), NEW u, u = w \o calls
  PROVE  /\ Sound(u) /\ TreeCalls(u)
         /\ \A x, v, s : Fits(w, x, v, s) => Fits(u, x, v, s)
         /\ \A x, v, s : (\E k \in DOMAIN calls : IsRead(calls[k], x)) => Fits(u, x, v, s)
<1>1. /\ \A k \in DOMAIN u : (\E j \in DOMAIN w : u[k] = w[j]) \/ (\E j \in DOMAIN calls : u[k] = calls[j])
      /\ \A j \in DOMAIN w : \E k \in DOMAIN u : u[k] = w[j]
  <2>1. IsWire(w) /\ IsWire(calls) /\ u = w \o calls  BY DEF Sound, TreeAsks
  <2>2. \A k \in DOMAIN u : (\E j \in DOMAIN w : u[k] = w[j]) \/ (\E j \in DOMAIN calls : u[k] = calls[j])
    BY <2>1, SentCalls
  <2>3. \A j \in DOMAIN w : \E k \in DOMAIN u : u[k] = w[j]  BY <2>1, SentCalls
  <2>. QED BY <2>2, <2>3
<1>2. Sound(u) /\ TreeCalls(u)  BY <1>1, SoundJoin DEF TreeAsks, TreeCalls
<1>3. Asks(calls, Routes)  BY TreeList DEF TreeAsks, Asks
<1>4. /\ \A l, v, s : Current(w, l, v, s) => Current(u, l, v, s)
      /\ \A l, v, s : (\E k \in DOMAIN calls : IsRead(calls[k], l)) => Current(u, l, v, s)
  BY <1>3, CurrentSent
<1>5. \A x : (\E k \in DOMAIN w : Due(w[k], x)) => \E k \in DOMAIN u : Due(u[k], x)  BY <1>1
<1>. QED BY <1>2, <1>4, <1>5 DEF Fits

LEMMA FitsLeft ==
  ASSUME NEW w, Sound(w), TreeCalls(w), NEW lists, lists \subseteq Inside
  PROVE  LET u == Leave(w, lists) IN
         Sound(u) /\ TreeCalls(u) /\ \A x \in Branches : \A v, s : Fits(w, x, v, s) => Fits(u, x, v, s)
<1>. DEFINE u == Leave(w, lists)
<1>1. IsWire(w)  BY DEF Sound
<1>2. /\ \A k \in DOMAIN u :
           /\ u[k].heard \/ (u[k].op # "read" /\ u[k].answer = NotYet)
           /\ \E j \in DOMAIN w : Same(u[k], w[j]) /\ u[k].heard = (w[j].heard /\ w[j].at[1] \notin lists)
      /\ \A j \in DOMAIN w :
           (w[j].heard /\ w[j].at[1] \notin lists) \/ (w[j].op # "read" /\ w[j].answer = NotYet)
             => \E k \in DOMAIN u : Same(u[k], w[j]) /\ u[k].heard = (w[j].heard /\ w[j].at[1] \notin lists)
  BY <1>1, LeftCalls
<1>3. Sound(u)  BY <1>1, SoundLeave
<1>4. \A x, v, s : x \notin lists /\ Current(w, x, v, s) => Current(u, x, v, s)
  <2>1. ListCalls(w, Routes)  BY TreeList
  <2>. QED BY <2>1, CurrentLeft
<1>. HIDE DEF u
<1>5. TreeCalls(u)
  <2>. SUFFICES ASSUME NEW k \in DOMAIN u PROVE TreeCall(u[k])  BY DEF TreeCalls
  <2>1. PICK j \in DOMAIN w : Same(u[k], w[j]) /\ u[k].heard = (w[j].heard /\ w[j].at[1] \notin lists)  BY <1>2
  <2>2. TreeCall(w[j])  BY DEF TreeCalls
  <2>3. (u[k].op = "read" => u[k].heard) /\ (u[k].at[1] \notin Inside => u[k].heard)
    BY <1>2, <2>1, <2>2 DEF TreeCall, Same
  <2>. QED BY <2>1, <2>2, <2>3, TreeSame
<1>6. ASSUME NEW x, NEW j \in DOMAIN w, Due(w[j], x)  PROVE \E k \in DOMAIN u : Due(u[k], x)
  <2>1. w[j].heard  BY <1>6 DEF Due, Sound
  <2>2. w[j].at[1] \in {"db", "kid"}  BY <1>6 DEF Due, Heeds
  <2>3. w[j].at[1] \notin lists  BY <2>2 DEF Inside
  <2>. QED BY <1>2, <1>6, <2>1, <2>3 DEF Due, Heeds, Same
<1>7. \A x \in Branches : x \notin lists  BY PanelsAssumption DEF Branches, Inside
<1>8. \A x \in Branches : \A v, s : Fits(w, x, v, s) => Fits(u, x, v, s)  BY <1>4, <1>6, <1>7 DEF Fits
<1>. QED BY <1>3, <1>5, <1>8 DEF u

LEMMA FitsClosed ==
  ASSUME NEW w, Sound(w), TreeCalls(w)
  PROVE  LET u == [k \in DOMAIN w |-> [w[k] EXCEPT !.form = FALSE]] IN
         Sound(u) /\ TreeCalls(u) /\ \A x, v, s : Fits(w, x, v, s) => Fits(u, x, v, s)
<1>. DEFINE u == [k \in DOMAIN w |-> [w[k] EXCEPT !.form = FALSE]]
<1>1. IsWire(w) /\ \A k \in DOMAIN w : IsCall(w[k])  BY WireIs DEF Sound
<1>2. \A k \in DOMAIN w : IsCall(u[k]) /\ Same(u[k], w[k]) /\ u[k].heard = w[k].heard /\ u[k].late = w[k].late
  <2>1. ASSUME NEW k \in DOMAIN w
        PROVE  LET d == [w[k] EXCEPT !.form = FALSE] IN
               IsCall(d) /\ Same(d, w[k]) /\ d.heard = w[k].heard /\ d.late = w[k].late
    <3>1. IsCall(w[k])  BY <1>1
    <3>. QED BY <3>1, Closed1
  <2>. QED BY <2>1
<1>3. u = [k \in DOMAIN w |-> u[k]] /\ DOMAIN u = DOMAIN w  OBVIOUS
<1>. HIDE DEF u
<1>4. IsWire(u)  BY <1>1, <1>2, <1>3, Changed
<1>5. Sound(u)  BY <1>2, <1>3, <1>4 DEF Sound, Same
<1>6. TreeCalls(u)
  <2>. SUFFICES ASSUME NEW k \in DOMAIN u PROVE TreeCall(u[k])  BY DEF TreeCalls
  <2>1. TreeCall(w[k]) /\ Same(u[k], w[k]) /\ u[k].heard = w[k].heard  BY <1>2, <1>3 DEF TreeCalls
  <2>2. (u[k].op = "read" => u[k].heard) /\ (u[k].at[1] \notin Inside => u[k].heard)
    BY <2>1 DEF TreeCall, ListCall, Same
  <2>. QED BY <2>1, <2>2, TreeSame
<1>7. \A k \in DOMAIN w : \A x, v :
        /\ Due(u[k], x) = Due(w[k], x) /\ IsDone(u[k], x) = IsDone(w[k], x)
        /\ IsRead(u[k], x) = IsRead(w[k], x) /\ Stale(u[k], x, v) = Stale(w[k], x, v)
  BY <1>2 DEF Due, Heeds, IsDone, IsRead, Stale, Same
<1>8. \A x, v, s : Fits(w, x, v, s) => Fits(u, x, v, s)  BY <1>3, <1>7 DEF Fits, Current
<1>. QED BY <1>5, <1>6, <1>8 DEF u

(* The databases are read again, the panel goes.                           *)
LEMMA FitsLoad ==
  ASSUME NEW w, Sound(w), TreeCalls(w), LoadDatabases(w)
  PROVE  /\ TreeCalls(wire') /\ \A x \in Branches : \A v, s : Fits(w, x, v, s) => Fits(wire', x, v, s)
         /\ \A v, s : Fits(wire', "dbs", v, s)
<1>. DEFINE c == [k \in DOMAIN w |-> [w[k] EXCEPT !.form = FALSE]]
            u == Leave(c, Inside)
<1>1. Sound(c) /\ TreeCalls(c) /\ \A x, v, s : Fits(w, x, v, s) => Fits(c, x, v, s)  BY FitsClosed
<1>2. wire' = u \o <<ReadDbs>>  BY DEF LoadDatabases, Unmounted
<1>. HIDE DEF c
<1>3. Sound(u) /\ TreeCalls(u) /\ \A x \in Branches : \A v, s : Fits(c, x, v, s) => Fits(u, x, v, s)  BY <1>1, FitsLeft
<1>. HIDE DEF u
<1>4. TreeAsks(<<ReadDbs>>) /\ \E k \in DOMAIN <<ReadDbs>> : IsRead(<<ReadDbs>>[k], "dbs")  BY TreeAsked
<1>5. /\ TreeCalls(wire') /\ \A x, v, s : Fits(u, x, v, s) => Fits(wire', x, v, s)
      /\ \A v, s : Fits(wire', "dbs", v, s)
  BY <1>2, <1>3, <1>4, FitsJoin
<1>. QED BY <1>1, <1>3, <1>5

(* The panel turns.                                                        *)
LEMMA FitsTurn ==
  ASSUME NEW sel, NEW w, Sound(w), TreeCalls(w), Turn(sel, w)
  PROVE  TreeCalls(wire') /\ \A x \in Branches : \A v, s : Fits(w, x, v, s) => Fits(wire', x, v, s)
<1>1. wire' = w \/ \E lists \in SUBSET Inside : wire' = Leave(w, lists) \o ReadPanel(sel)  BY DEF Turn, Inside
<1>2. ASSUME NEW lists \in SUBSET Inside, wire' = Leave(w, lists) \o ReadPanel(sel)
      PROVE  TreeCalls(wire') /\ \A x \in Branches : \A v, s : Fits(w, x, v, s) => Fits(wire', x, v, s)
  <2>. DEFINE u == Leave(w, lists)
              q == ReadPanel(sel)
  <2>1. Sound(u) /\ TreeCalls(u) /\ \A x \in Branches : \A v, s : Fits(w, x, v, s) => Fits(u, x, v, s)  BY FitsLeft
  <2>2. TreeAsks(q) /\ wire' = u \o q  BY <1>2, TreeAsked
  <2>. HIDE DEF u, q
  <2>3. TreeCalls(wire') /\ \A x, v, s : Fits(u, x, v, s) => Fits(wire', x, v, s)  BY <2>1, <2>2, FitsJoin
  <2>. QED BY <2>1, <2>3
<1>. QED BY <1>1, <1>2

(* A call is answered that changes nothing of x.                           *)
LEMMA FitsReplied ==
  ASSUME Sound(wire), TreeCalls(wire), NEW i \in DOMAIN wire, NEW a, Reply(i, a)
  PROVE  /\ (wire[i].op = "read" /\ wire[i].at[1] \in Db /\ work = "indexes" => a \in {NotYet, Error, Answer({Managed})})
              => TreeCalls(wire')
         /\ \A x \in Branches : \A v, s :
              ~Due(wire[i], x) /\ (IsRead(wire[i], x) => a \in {NotYet, Error, Answer(v)}) /\ Fits(wire, x, v, s)
                => Fits(wire', x, v, s)
<1>0. TreeCall(wire[i])  BY DEF TreeCalls
<1>1. /\ \A k \in DOMAIN wire' :
           \/ \E j \in DOMAIN wire \ {i} : wire'[k] = wire[j]
           \/ /\ wire'[k].op = wire[i].op /\ wire'[k].at = wire[i].at
              /\ wire'[k].answer = a /\ wire'[k].heard
      /\ \A j \in DOMAIN wire \ {i} : \E k \in DOMAIN wire' : wire'[k] = wire[j]
  BY RepliedCalls DEF Sound
<1>2. ASSUME wire[i].op = "read" /\ wire[i].at[1] \in Db /\ work = "indexes" => a \in {NotYet, Error, Answer({Managed})}
      PROVE  TreeCalls(wire')
  <2>. SUFFICES ASSUME NEW k \in DOMAIN wire' PROVE TreeCall(wire'[k])  BY DEF TreeCalls
  <2>1. CASE \E j \in DOMAIN wire : wire'[k] = wire[j]  BY <2>1 DEF TreeCalls
  <2>2. CASE wire'[k].op = wire[i].op /\ wire'[k].at = wire[i].at /\ wire'[k].answer = a /\ wire'[k].heard
    BY <1>0, <1>2, <2>2 DEF TreeCall, ListCall
  <2>. QED BY <1>1, <2>1, <2>2
<1>3. ASSUME NEW x \in Branches, NEW v, NEW s, ~Due(wire[i], x),
             IsRead(wire[i], x) => a \in {NotYet, Error, Answer(v)}, Fits(wire, x, v, s)
      PROVE  Fits(wire', x, v, s)
  <2>1. CASE \E k \in DOMAIN wire : Due(wire[k], x)
    <3>1. \E k \in DOMAIN wire \ {i} : Due(wire[k], x)  BY <1>3, <2>1
    <3>. QED BY <1>1, <3>1 DEF Fits
  <2>2. CASE Current(wire, x, v, s)
    <3>1. ~IsDone(wire[i], x)  BY TreeList
    <3>2. IsRead(wire[i], x) => wire[i].heard /\ a \in {NotYet, Error, Answer(v)}
      BY <1>0, <1>3 DEF IsRead, TreeCall, ListCall
    <3>3. Current(wire', x, v, s)  BY <2>2, <3>1, <3>2, CurrentReplied
    <3>. QED BY <3>3 DEF Fits
  <2>. QED BY <1>3, <2>1, <2>2 DEF Fits
<1>. QED BY <1>2, <1>3

(* A change is answered after which x is read again.                       *)
LEMMA FitsDone ==
  ASSUME Sound(wire), TreeCalls(wire), NEW i \in DOMAIN wire, NEW z, Reply(i, Answer(z)), NEW x, Heeds(wire[i], x)
  PROVE  \A v, s : Fits(wire', x, v, s)
<1>1. wire[i].heard
  <2>1. wire[i].at[1] \in {"db", "kid"}  BY DEF Heeds
  <2>2. wire[i].at[1] \notin Inside  BY <2>1 DEF Inside
  <2>. QED BY <2>2 DEF TreeCalls, TreeCall
<1>2. \E k \in DOMAIN wire' : /\ wire'[k].op = wire[i].op /\ wire'[k].at = wire[i].at
                              /\ wire'[k].answer = Answer(z)
  BY <1>1, RepliedCalls DEF Sound
<1>3. \E k \in DOMAIN wire' : Due(wire'[k], x)  BY <1>2, AnswerIs DEF Due, Heeds
<1>. QED BY <1>3 DEF Fits

(***************************************************************************)
(* The tree, step by step.                                                 *)
(***************************************************************************)
LEMMA TreeServed ==
  ASSUME Sound(wire), PanelsTyped, TreeInv, NEW i \in DOMAIN wire, PanelsServe(i) \/ PanelCallFails(i)
  PROVE  TreeInv'
<1>0. /\ TreeTyped /\ TreeCalls(wire) /\ TreeCall(wire[i]) /\ PanelCall(wire[i])
      /\ there \subseteq Db /\ kids \in [Db -> SUBSET Kid]
      /\ \A x \in Branches : x \in stale \/ Fits(wire, x, Kept(x), Seen(x))
  BY DEF TreeInv, TreeTyped, TreeCalls, PanelsTyped, PanelCalls, PanelsTypeOK
<1>1. UNCHANGED <<engine, work, tree, cached, selected, asking, dropping>>
  BY DEF PanelsServe, ServeDbs, ServeKids, ServePanel, MongoCreates, MongoDrops, PgCreates, PgDrops, PanelCallFails,
     bvars, treevars, panel, boxes
<1>2. wire[i].op \in {"read", "add", "drop"}  BY <1>0 DEF PanelCall
<1>3. Asked(i) => \A x : ~Due(wire[i], x)  BY DEF Asked, Due
<1>4. ASSUME NEW a, Reply(i, a), work = "indexes" => UNCHANGED server,
             wire[i].op = "read" /\ wire[i].at[1] \in Db /\ work = "indexes" => a \in {NotYet, Error, Answer({Managed})}
      PROVE  TreeTyped'
  <2>1. TreeCalls(wire')  BY <1>0, <1>4, FitsReplied
  <2>2. TreeCalls(wire)'  BY <1>1, <2>1 DEF TreeCalls, TreeCall
  <2>3. work = "indexes" => Still'  BY <1>0, <1>1, <1>4 DEF TreeTyped, Still, server
  <2>. QED BY <1>0, <1>1, <2>2, <2>3 DEF TreeTyped
<1>5. ASSUME TreeTyped', \A x \in Branches : x \in stale' \/ Fits(wire', x, Kept(x)', Seen(x)')  PROVE TreeInv'
  BY <1>5 DEF TreeInv, Fits, Current, Branches
<1>6. \A x : Kept(x)' = Kept(x) => Seen(x)' = Seen(x)  BY <1>1 DEF Kept, Seen
<1>7. ASSUME NEW a, Reply(i, a), UNCHANGED server, stale \subseteq stale',
             \A x \in Branches : x \in stale' \/ ~Due(wire[i], x),
             \A x \in Branches : IsRead(wire[i], x) => a \in {NotYet, Error, Answer(Kept(x))}
      PROVE  TreeInv'
  <2>1. TreeTyped'
    <3>1. ASSUME wire[i].op = "read", wire[i].at[1] \in Db, work = "indexes"
          PROVE  a \in {NotYet, Error, Answer({Managed})}
      <4>. DEFINE x == wire[i].at[1]
      <4>1. x \in Branches /\ x # "dbs" /\ IsRead(wire[i], x)  BY <3>1, PanelsAssumption DEF Branches, IsRead
      <4>2. Kept(x) = {Managed}  BY <1>0, <3>1, <4>1 DEF TreeTyped, Still, Kept
      <4>. QED BY <1>7, <4>1, <4>2
    <3>. QED BY <1>4, <1>7, <3>1
  <2>2. ASSUME NEW x \in Branches, x \notin stale'  PROVE Fits(wire', x, Kept(x)', Seen(x)')
    <3>1. Kept(x)' = Kept(x) /\ Seen(x)' = Seen(x)  BY <1>6, <1>7 DEF Kept, server
    <3>2. Fits(wire, x, Kept(x), Seen(x)) /\ ~Due(wire[i], x)  BY <1>0, <1>7, <2>2
    <3>3. Fits(wire', x, Kept(x), Seen(x))  BY <1>0, <1>7, <3>2, FitsReplied
    <3>. QED BY <3>1, <3>3
  <2>. QED BY <1>5, <2>1, <2>2
<1>8. CASE ServeDbs(i)
  <2>1. Asked(i) /\ wire[i].at[1] = "dbs" /\ Reply(i, Answer(there)) /\ UNCHANGED <<server, stale>>
    BY <1>8 DEF ServeDbs, bvars
  <2>2. \A x \in Branches : IsRead(wire[i], x) => Answer(there) = Answer(Kept(x))  BY <2>1 DEF IsRead, Kept
  <2>. QED BY <1>3, <1>7, <2>1, <2>2
<1>9. CASE ServeKids(i)
  <2>. DEFINE d == wire[i].at[1]
  <2>1. /\ Asked(i) /\ d \in Db /\ UNCHANGED <<server, stale>>
        /\ Reply(i, Error) \/ Reply(i, Answer(kids[d]))
    BY <1>9 DEF ServeKids, bvars
  <2>2. \A x \in Branches : IsRead(wire[i], x) => Answer(kids[d]) = Answer(Kept(x))
    BY <2>1, PanelsAssumption DEF IsRead, Kept
  <2>. HIDE DEF d
  <2>. QED BY <1>3, <1>7, <2>1, <2>2
<1>10. CASE ServePanel(i)
  <2>1. Asked(i) /\ wire[i].at[1] \in Inside /\ UNCHANGED <<server, stale>> /\ \E a : Reply(i, a)
    BY <1>10 DEF ServePanel, bvars
  <2>2. \A x \in Branches : ~IsRead(wire[i], x)  BY <2>1, PanelsAssumption DEF IsRead, Branches, Inside
  <2>. QED BY <1>3, <1>7, <2>1, <2>2
<1>11. ASSUME RefuseIt(i), Asked(i), wire[i].op # "read", stale \subseteq stale'  PROVE TreeInv'
  <2>1. \A x : ~IsRead(wire[i], x)  BY <1>11 DEF IsRead
  <2>. QED BY <1>3, <1>7, <1>11, <2>1 DEF RefuseIt
<1>12. CASE PanelCallFails(i)
  <2>1. /\ Reply(i, Error) /\ UNCHANGED server
        /\ stale' = IF wire[i].op \in {"add", "drop"} /\ wire[i].answer # NotYet
                    THEN stale \cup {"dbs", wire[i].at[2]} ELSE stale
    BY <1>12 DEF PanelCallFails, Fail
  <2>2. \A x : Due(wire[i], x) => x \in stale'  BY <1>2, <2>1 DEF Due, Heeds
  <2>. QED BY <1>7, <2>1, <2>2
(* a change is made, and each list is read again, or not known, or the same *)
<1>13. ASSUME NEW K, NEW T, Serve(i, K, T), Asked(i), wire[i].op # "read", stale \subseteq stale',
              work = "indexes" => UNCHANGED server,
              \A x \in Branches :
                \/ x \in stale' \/ Heeds(wire[i], x) \/ Kept(x)' = Kept(x)
                \/ x # "dbs" /\ cached[x] = <<>> /\ ~\E j \in DOMAIN wire : IsRead(wire[j], x)
       PROVE  TreeInv'
  <2>1. Reply(i, Answer(TRUE))  BY <1>13 DEF Serve
  <2>2. TreeTyped'  BY <1>4, <1>13, <2>1
  <2>3. ASSUME NEW x \in Branches, x \notin stale'  PROVE Fits(wire', x, Kept(x)', Seen(x)')
    <3>1. CASE Heeds(wire[i], x)  BY <1>0, <2>1, <3>1, FitsDone
    <3>2. CASE Kept(x)' = Kept(x)
      <4>1. ~Due(wire[i], x) /\ ~IsRead(wire[i], x)  BY <1>3, <1>13 DEF IsRead
      <4>2. Fits(wire, x, Kept(x), Seen(x))  BY <1>0, <1>13, <2>3
      <4>3. Fits(wire', x, Kept(x), Seen(x))  BY <1>0, <2>1, <4>1, <4>2, FitsReplied
      <4>. QED BY <1>6, <3>2, <4>3
    <3>3. CASE x # "dbs" /\ cached[x] = <<>> /\ ~\E j \in DOMAIN wire : IsRead(wire[j], x)
      <4>1. Kept(x)' = Seen(x)'  BY <1>1, <3>3 DEF Kept, Seen
      <4>2. \A k \in DOMAIN wire' : (\E j \in DOMAIN wire : wire'[k] = wire[j]) \/ wire'[k].op = wire[i].op
        <5>1. IsWire(wire)  BY DEF Sound
        <5>2. \A k \in DOMAIN wire' :
                 \/ \E j \in DOMAIN wire \ {i} : wire'[k] = wire[j]
                 \/ /\ wire[i].heard /\ wire'[k].op = wire[i].op /\ wire'[k].at = wire[i].at
                    /\ wire'[k].answer = Answer(TRUE) /\ wire'[k].heard
          BY <2>1, <5>1, RepliedCalls
        <5>. QED BY <5>2
      <4>3. \A k \in DOMAIN wire' : ~IsRead(wire'[k], x)  BY <1>13, <3>3, <4>2 DEF IsRead
      <4>. QED BY <4>1, <4>3 DEF Fits, Current, Stale
    <3>. QED BY <1>13, <2>3, <3>1, <3>2, <3>3
  <2>. QED BY <1>5, <2>2, <2>3
<1>. DEFINE d == wire[i].at[2]
            o == wire[i].at[1]
<1>14. /\ wire[i].op = "add" => o \in (IF work = "indexes" THEN {"index"} ELSE {"db", "kid"})
       /\ wire[i].op = "drop" => o \in (IF work = "indexes" THEN {"indexes"} ELSE {"db", "kid"})
       /\ wire[i].op # "read" => d \in Db
  <2>1. wire[i].op # "read" => o \in (IF work = "indexes" THEN {"index", "indexes"} ELSE {"db", "kid"})
    BY <1>0 DEF TreeCall
  <2>2. wire[i].op = "add" => o # "indexes" /\ d \in Db  BY <1>0, PanelAdds
  <2>3. wire[i].op = "drop" => o # "index" /\ d \in Db  BY <1>0, PanelDrops
  <2>. QED BY <1>2, <2>1, <2>2, <2>3
<1>15. /\ Heeds(wire[i], "dbs") <=> wire[i].op # "read" /\ (o = "db" \/ (o = "kid" /\ wire[i].op = "drop"))
       /\ \A x : x # "dbs" => (Heeds(wire[i], x) <=> wire[i].op # "read" /\ o = "kid" /\ d = x)
       /\ Kept("dbs") = there /\ Kept("dbs")' = there'
       /\ \A x \in Db : x # "dbs" /\ Kept(x) = kids[x] /\ Kept(x)' = kids'[x]
       /\ \A x \in Branches : x = "dbs" \/ x \in Db
  BY PanelsAssumption DEF Heeds, Kept, Branches
<1>16. work = "indexes" => there = Db /\ kids = [x \in Db |-> {Managed}]  BY <1>0 DEF TreeTyped, Still
<1>. HIDE DEF d, o
<1>17. CASE MongoCreates(i)
  <2>. DEFINE k == IF o = "db" THEN Seed ELSE wire[i].at[3]
              K == [kids EXCEPT ![d] = @ \cup {k}]
  <2>1. /\ Asked(i) /\ wire[i].op = "add"
        /\ IF o # "index" /\ k \in kids[d] THEN RefuseIt(i) ELSE Serve(i, K, there \cup {d})
        /\ stale' = CASE o = "kid" /\ d \notin there -> stale \cup {"dbs", d}
                      [] o = "db" /\ (cached[d] # <<>> \/ UnderWay("read", <<d>>)) -> stale \cup {d}
                      [] OTHER -> stale
    BY <1>17 DEF MongoCreates, d, o
  <2>2. stale \subseteq stale'  BY <2>1
  <2>3. CASE RefuseIt(i)  BY <1>11, <2>1, <2>2, <2>3
  <2>4. CASE Serve(i, K, there \cup {d})
    <3>1. kids' = K /\ there' = there \cup {d}  BY <2>4 DEF Serve
    <3>2. ASSUME work = "indexes"  PROVE UNCHANGED server
      <4>1. k = Managed  BY <1>0, <1>14, <2>1, <3>2 DEF TreeCall, o
      <4>. HIDE DEF k
      <4>. QED BY <1>14, <1>16, <2>1, <3>1, <3>2, <4>1 DEF server
    <3>3. \A x \in Db : x # d => kids'[x] = kids[x]  BY <1>0, <3>1
    <3>4. ASSUME o = "db", d \notin stale'  PROVE cached[d] = <<>> /\ ~\E j \in DOMAIN wire : IsRead(wire[j], d)
      <4>1. cached[d] = <<>> /\ ~UnderWay("read", <<d>>)  BY <2>1, <3>4
      <4>2. ASSUME NEW j \in DOMAIN wire, IsRead(wire[j], d)  PROVE FALSE
        <5>1. PanelCall(wire[j]) /\ wire[j].op = "read" /\ wire[j].at[1] = d
          BY <4>2 DEF PanelsTyped, PanelCalls, IsRead
        <5>2. wire[j].at = <<d>>  BY <1>14, <2>1, <5>1, PanelReads, PanelsAssumption
        <5>. QED BY <4>1, <5>1, <5>2 DEF UnderWay
      <4>. QED BY <4>1, <4>2
    <3>5. o = "kid" => there' = there \/ {"dbs", d} \subseteq stale'  BY <2>1, <3>1
    <3>6. ASSUME work # "indexes", NEW x \in Branches
          PROVE  \/ x \in stale' \/ Heeds(wire[i], x) \/ Kept(x)' = Kept(x)
                 \/ x # "dbs" /\ cached[x] = <<>> /\ ~\E j \in DOMAIN wire : IsRead(wire[j], x)
      <4>. HIDE DEF K
      <4>1. o \in {"db", "kid"} /\ d \in Db  BY <1>14, <2>1, <3>6
      <4>2. CASE x = "dbs"  BY <1>15, <2>1, <3>5, <4>1, <4>2
      <4>3. CASE x \in Db
        <5>1. x # "dbs" /\ Kept(x) = kids[x] /\ Kept(x)' = kids'[x]  BY <1>15, <4>3
        <5>2. CASE x # d  BY <3>3, <4>3, <5>1, <5>2
        <5>3. CASE x = d
          <6>1. CASE o = "kid"  BY <1>15, <2>1, <5>1, <5>3, <6>1
          <6>2. CASE o = "db"  BY <3>4, <5>1, <5>3, <6>2
          <6>. QED BY <4>1, <6>1, <6>2
        <5>. QED BY <5>2, <5>3
      <4>. QED BY <1>15, <4>2, <4>3
    <3>7. work = "indexes" => \A x \in Branches : Kept(x)' = Kept(x)  BY <3>2 DEF Kept, server
    <3>. HIDE DEF K
    <3>. QED BY <1>13, <2>1, <2>2, <2>4, <3>2, <3>6, <3>7
  <2>. QED BY <2>1, <2>3, <2>4
<1>18. CASE MongoDrops(i)
  <2>. DEFINE left == CASE o = "db" -> {} [] o = "kid" -> kids[d] \ {wire[i].at[3]} [] OTHER -> kids[d]
              K == [kids EXCEPT ![d] = left]
              T == IF left = {} THEN there \ {d} ELSE there
  <2>1. /\ Asked(i) /\ wire[i].op = "drop"
        /\ RefuseIt(i) \/ Serve(i, K, T)
        /\ stale' = IF o = "db" THEN stale \cup {d} ELSE stale
    BY <1>18 DEF MongoDrops, d, o
  <2>2. stale \subseteq stale'  BY <2>1
  <2>3. CASE RefuseIt(i)  BY <1>11, <2>1, <2>2, <2>3
  <2>4. CASE Serve(i, K, T)
    <3>1. kids' = K /\ there' = T  BY <2>4 DEF Serve
    <3>2. ASSUME work = "indexes"  PROVE UNCHANGED server
      <4>1. o = "indexes" /\ d \in Db  BY <1>14, <2>1, <3>2
      <4>2. left = kids[d] /\ kids[d] = {Managed}  BY <1>16, <3>2, <4>1
      <4>. HIDE DEF left
      <4>. QED BY <1>0, <3>1, <4>1, <4>2 DEF server
    <3>3. \A x \in Db : x # d => kids'[x] = kids[x]
      <4>. HIDE DEF left
      <4>. QED BY <1>0, <3>1
    <3>. HIDE DEF K, T
    <3>4. ASSUME work # "indexes", NEW x \in Branches
          PROVE  x \in stale' \/ Heeds(wire[i], x) \/ Kept(x)' = Kept(x)
      <4>1. o \in {"db", "kid"} /\ d \in Db  BY <1>14, <2>1, <3>4
      <4>2. CASE x = "dbs"  BY <1>15, <2>1, <4>1, <4>2
      <4>3. CASE x \in Db  BY <1>15, <2>1, <3>3, <4>1, <4>3
      <4>. QED BY <1>15, <4>2, <4>3
    <3>5. work = "indexes" => \A x \in Branches : Kept(x)' = Kept(x)  BY <3>2 DEF Kept, server
    <3>. QED BY <1>13, <2>1, <2>2, <2>4, <3>2, <3>4, <3>5
  <2>. QED BY <2>1, <2>3, <2>4
<1>19. CASE PgCreates(i) \/ PgDrops(i)
  <2>. DEFINE k == wire[i].at[3]
  <2>1. engine = "postgres" /\ work # "indexes" /\ Asked(i) /\ wire[i].op \in {"add", "drop"}
    BY <1>0, <1>19 DEF PgCreates, PgDrops, TreeTyped
  <2>2. o \in {"db", "kid"} /\ d \in Db  BY <1>14, <2>1
  <2>3. /\ stale' = IF wire[i].op = "drop" /\ o = "db" THEN stale \cup {d} ELSE stale
        /\ \/ RefuseIt(i)
           \/ o = "db" /\ wire[i].op = "add" /\ Serve(i, kids, there \cup {d})
           \/ o = "db" /\ wire[i].op = "drop" /\ Serve(i, [kids EXCEPT ![d] = {}], there \ {d})
           \/ o # "db" /\ \E s : Serve(i, [kids EXCEPT ![d] = s], there)
    <3>1. CASE PgCreates(i)  BY <3>1 DEF PgCreates, d, o
    <3>2. CASE PgDrops(i)  BY <3>2 DEF PgDrops, d, o
    <3>. QED BY <1>19, <3>1, <3>2
  <2>4. stale \subseteq stale'  BY <2>3
  <2>5. CASE RefuseIt(i)  BY <1>11, <2>1, <2>4, <2>5
  <2>6. ASSUME NEW K, NEW T, Serve(i, K, T), \A x \in Db : x # d => K[x] = kids[x],
               o = "db" \/ T = there, K = kids \/ o = "kid" \/ d \in stale'
        PROVE  TreeInv'
    <3>1. kids' = K /\ there' = T  BY <2>6 DEF Serve
    <3>2. ASSUME NEW x \in Branches  PROVE x \in stale' \/ Heeds(wire[i], x) \/ Kept(x)' = Kept(x)
      <4>1. CASE x = "dbs"  BY <1>15, <2>1, <2>6, <3>1, <4>1
      <4>2. CASE x \in Db  BY <1>15, <2>1, <2>6, <3>1, <4>2
      <4>. QED BY <1>15, <4>1, <4>2
    <3>. QED BY <1>13, <2>1, <2>4, <2>6, <3>2
  <2>7. ASSUME NEW s, NEW T, Serve(i, [kids EXCEPT ![d] = s], T), o = "db" \/ T = there, o = "kid" \/ d \in stale'
        PROVE  TreeInv'
    <3>. DEFINE K == [kids EXCEPT ![d] = s]
    <3>1. \A x \in Db : x # d => K[x] = kids[x]  BY <1>0
    <3>2. Serve(i, K, T)  BY <2>7
    <3>. HIDE DEF K
    <3>. QED BY <2>6, <2>7, <3>1, <3>2
  <2>. QED BY <2>2, <2>3, <2>5, <2>6, <2>7
<1>. QED BY <1>8, <1>9, <1>10, <1>12, <1>17, <1>18, <1>19 DEF PanelsServe

LEMMA TreeWentOn ==
  ASSUME Sound(wire), PanelsTyped, TreeInv, NEW i \in DOMAIN wire, PanelsGoOn(i)
  PROVE  TreeInv'
<1>0. /\ TreeTyped /\ TreeCalls(wire) /\ TreeCall(wire[i]) /\ PanelCall(wire[i])
      /\ cached \in [Db -> {<<>>} \cup {<<s>> : s \in SUBSET Kid}]
      /\ \A x \in Branches : x \in stale \/ Fits(wire, x, Kept(x), Seen(x))
  BY DEF TreeInv, TreeTyped, TreeCalls, PanelsTyped, PanelCalls, PanelsTypeOK
(* what a step leaves of the server's lists and of the dialogs *)
<1>1. ASSUME NEW u, wire' = u, TreeCalls(u), UNCHANGED <<engine, work, server>>,
             work = "indexes" => cached' = cached /\ selected' = selected,
             dropping' = <<>> \/ dropping' = dropping, asking' = <<>> \/ asking' = asking,
             stale \subseteq stale',
             \A x \in Branches : x \notin stale' => Fits(u, x, Kept(x), Seen(x)')
      PROVE  TreeInv'
  <2>1. TreeCalls(wire)'  BY <1>1 DEF TreeCalls, TreeCall
  <2>2. work = "indexes" => Still'  BY <1>0, <1>1 DEF TreeTyped, Still, server
  <2>3. TreeTyped'  BY <1>0, <1>1, <2>1, <2>2 DEF TreeTyped
  <2>4. \A x : Kept(x)' = Kept(x)  BY <1>1 DEF Kept, server
  <2>. QED BY <1>1, <2>3, <2>4 DEF TreeInv, Fits, Current, Branches
<1>2. ASSUME NEW u, wire' = u, TreeCalls(u), UNCHANGED <<engine, work, server, tree, cached, stale>>,
             work = "indexes" => selected' = selected,
             dropping' = <<>> \/ dropping' = dropping, asking' = <<>> \/ asking' = asking,
             \A x \in Branches : \A v, s : Fits(wire, x, v, s) => Fits(u, x, v, s)
      PROVE  TreeInv'
  <2>1. \A x : Seen(x)' = Seen(x)  BY <1>2 DEF Seen, server
  <2>. QED BY <1>0, <1>1, <1>2, <2>1
(* the call that goes on *)
<1>. DEFINE o == wire[i].at[1]
<1>3. \A x \in Branches : /\ IsRead(wire[i], x) <=> wire[i].op = "read" /\ x = o
                          /\ wire[i].op = "read" \/ wire[i].answer = Error => ~Due(wire[i], x)
  BY DEF IsRead, Due, Heeds
<1>4. "dbs" \in Branches /\ Db \subseteq Branches /\ "dbs" \notin Db  BY PanelsAssumption DEF Branches
<1>5. Came(i, "read") => wire[i].answer \notin {NotYet, Error}  BY DEF Came
<1>6. /\ TreeCalls(After(i, <<>>)) /\ Sound(After(i, <<>>))
      /\ \A x \in Branches : \A v, s :
           ~IsRead(wire[i], x) /\ ~Due(wire[i], x) /\ Fits(wire, x, v, s) => Fits(After(i, <<>>), x, v, s)
  BY <1>0, TreeAsked, FitsAfter
<1>7. CASE DbsCome(i)
  <2>. DEFINE u == After(i, Remounted)
  <2>1. /\ wire' = u /\ wire[i].op = "read" /\ wire[i].at = <<"dbs">>
        /\ UNCHANGED <<engine, work, server, cached, selected, boxes>>
        /\ \/ Came(i, "read") /\ tree' = Value(i) /\ stale' = IF wire[i].late THEN stale \cup {"dbs"} ELSE stale
           \/ tree' = tree /\ stale' = stale \cup {"dbs"}
    BY <1>7 DEF DbsCome, Came, Failed
  <2>2. TreeAsks(Remounted)  BY TreeAsked DEF Remounted
  <2>3. /\ TreeCalls(u)
        /\ \A x \in Branches : \A v, s :
             ~IsRead(wire[i], x) /\ ~Due(wire[i], x) /\ Fits(wire, x, v, s) => Fits(u, x, v, s)
        /\ \A x, v, s : Fetched(wire[i], x) /\ Fits(wire, x, v, s) => Fits(u, x, v, wire[i].answer[2])
    BY <1>0, <2>2, FitsAfter
  <2>. HIDE DEF u
  <2>4. o = "dbs"  BY <2>1
  <2>5. ASSUME NEW x \in Branches, x \notin stale'  PROVE Fits(u, x, Kept(x), Seen(x)')
    <3>1. Fits(wire, x, Kept(x), Seen(x))  BY <1>0, <2>1, <2>5
    <3>2. CASE x = "dbs"
      <4>1. Came(i, "read") /\ tree' = Value(i) /\ ~wire[i].late  BY <2>1, <2>5, <3>2
      <4>2. Fetched(wire[i], x)  BY <1>3, <1>5, <2>1, <2>4, <3>2, <4>1 DEF Fetched
      <4>3. Seen(x)' = wire[i].answer[2]  BY <3>2, <4>1 DEF Seen, Value
      <4>. QED BY <2>3, <3>1, <4>2, <4>3
    <3>3. CASE x # "dbs"
      <4>1. Seen(x)' = Seen(x)  BY <2>1, <3>3 DEF Seen, server
      <4>2. ~IsRead(wire[i], x) /\ ~Due(wire[i], x)  BY <1>3, <2>1, <2>4, <3>3
      <4>. QED BY <2>3, <3>1, <4>1, <4>2
    <3>. QED BY <3>2, <3>3
  <2>6. stale \subseteq stale'  BY <2>1
  <2>. QED BY <1>1, <2>1, <2>3, <2>5, <2>6 DEF boxes
<1>8. CASE KidsCome(i)
  <2>. DEFINE u == After(i, <<>>)
  <2>1. /\ wire' = u /\ wire[i].op = "read" /\ o \in Db
        /\ UNCHANGED <<engine, work, server, tree, selected, boxes>>
        /\ \/ /\ Came(i, "read") /\ cached' = [cached EXCEPT ![o] = <<Value(i)>>]
              /\ stale' = IF wire[i].late THEN stale \cup {o} ELSE stale
           \/ cached' = cached /\ stale' = stale \cup {o}
    BY <1>8 DEF KidsCome, panel
  <2>2. \A x, v, s : Fetched(wire[i], x) /\ Fits(wire, x, v, s) => Fits(u, x, v, wire[i].answer[2])
    BY <1>0, TreeAsked, FitsAfter
  <2>3. ASSUME work = "indexes"  PROVE cached' = cached
    <3>1. cached = [d \in Db |-> <<{Managed}>>]  BY <1>0, <2>3 DEF TreeTyped, Still
    <3>2. Came(i, "read") => Value(i) = {Managed}
      <4>1. wire[i].answer \in {NotYet, Error, Answer({Managed})}  BY <1>0, <2>1, <2>3 DEF TreeCall
      <4>. QED BY <1>5, <4>1, AnswerIs DEF Value
    <3>. QED BY <2>1, <3>1, <3>2
  <2>. HIDE DEF u, o
  <2>5. ASSUME NEW x \in Branches, x \notin stale'  PROVE Fits(u, x, Kept(x), Seen(x)')
    <3>1. Fits(wire, x, Kept(x), Seen(x))  BY <1>0, <2>1, <2>5
    <3>2. CASE x = o
      <4>1. Came(i, "read") /\ cached' = [cached EXCEPT ![o] = <<Value(i)>>] /\ ~wire[i].late
        BY <2>1, <2>5, <3>2
      <4>2. Fetched(wire[i], x)  BY <1>3, <1>5, <2>1, <3>2, <4>1 DEF Fetched
      <4>3. cached'[x] = <<Value(i)>>  BY <1>0, <2>1, <3>2, <4>1
      <4>4. Seen(x)' = wire[i].answer[2]  BY <1>4, <2>1, <3>2, <4>3 DEF Seen, Value
      <4>. QED BY <2>2, <3>1, <4>2, <4>4
    <3>3. CASE x # o
      <4>1. Seen(x)' = Seen(x)
        <5>1. x \in Db => cached'[x] = cached[x]  BY <1>0, <2>1, <3>3
        <5>. QED BY <2>1, <5>1 DEF Seen, server, Branches
      <4>2. ~IsRead(wire[i], x) /\ ~Due(wire[i], x)  BY <1>3, <2>1, <3>3
      <4>. QED BY <1>6, <3>1, <4>1, <4>2 DEF u
    <3>. QED BY <3>2, <3>3
  <2>6. stale \subseteq stale'  BY <2>1
  <2>7. TreeCalls(u)  BY <1>6 DEF u
  <2>. QED BY <1>1, <2>1, <2>3, <2>5, <2>6, <2>7 DEF boxes
(* calls whose handler has nothing to do with the lists *)
<1>9. ASSUME \A x \in Branches : ~IsRead(wire[i], x) /\ ~Due(wire[i], x), wire' = After(i, <<>>),
             UNCHANGED <<engine, work, server, tree, cached, selected, stale>>,
             dropping' = <<>> \/ dropping' = dropping, asking' = <<>> \/ asking' = asking
      PROVE  TreeInv'
  <2>. DEFINE u == After(i, <<>>)
  <2>1. TreeCalls(u) /\ wire' = u /\ \A x \in Branches : \A v, s : Fits(wire, x, v, s) => Fits(u, x, v, s)
    BY <1>6, <1>9
  <2>. HIDE DEF u
  <2>. QED BY <1>2, <1>9, <2>1
<1>10. ASSUME o \in Inside  PROVE \A x \in Branches : ~IsRead(wire[i], x) /\ ~Due(wire[i], x)
  <2>1. \A x \in Branches : x \notin Inside  BY PanelsAssumption DEF Branches, Inside
  <2>2. o \notin {"db", "kid"}  BY <1>10 DEF Inside
  <2>. QED BY <1>10, <2>1, <2>2 DEF IsRead, Due, Heeds
<1>11. CASE PanelComes(i) \/ Found(i)
  <2>1. /\ o \in Inside /\ wire' = After(i, <<>>)
        /\ UNCHANGED <<engine, work, server, treevars, selected, boxes, stale>>
    BY <1>11 DEF PanelComes, Found, Inside
  <2>. QED BY <1>9, <1>10, <2>1 DEF treevars, boxes
<1>12. CASE IndexGone(i)
  <2>. DEFINE sel == <<wire[i].at[2], wire[i].at[3]>>
              w == After(i, <<>>)
              v == Leave(w, {"find"})
              q == ReadPanel(sel)
  <2>1. /\ o \in Inside /\ wire' = v \o q
        /\ UNCHANGED <<engine, work, server, treevars, selected, boxes, stale>>
    BY <1>12 DEF IndexGone, Inside
  <2>2. Sound(w) /\ TreeCalls(w) /\ \A x \in Branches : \A y, s : Fits(wire, x, y, s) => Fits(w, x, y, s)
    BY <1>6, <1>10, <2>1
  <2>. HIDE DEF w
  <2>3. Sound(v) /\ TreeCalls(v) /\ \A x \in Branches : \A y, s : Fits(w, x, y, s) => Fits(v, x, y, s)
    <3>1. {"find"} \subseteq Inside  BY DEF Inside
    <3>. QED BY <2>2, <3>1, FitsLeft
  <2>4. TreeAsks(q)  BY TreeAsked
  <2>. HIDE DEF v, q
  <2>. DEFINE u == v \o q
  <2>5. TreeCalls(u) /\ \A x, y, s : Fits(v, x, y, s) => Fits(u, x, y, s)  BY <2>3, <2>4, FitsJoin
  <2>6. wire' = u  BY <2>1
  <2>. HIDE DEF u
  <2>7. UNCHANGED <<engine, work, server, tree, cached, stale, selected, dropping, asking>>
    BY <2>1 DEF treevars, boxes
  <2>8. \A x \in Branches : \A y, s : Fits(wire, x, y, s) => Fits(u, x, y, s)  BY <2>2, <2>3, <2>5
  <2>. QED BY <1>2, <2>5, <2>6, <2>7, <2>8
<1>13. CASE IndexMade(i) \/ OrderFails(i)
  <2>1. /\ wire' = After(i, <<>>) /\ UNCHANGED <<engine, work, server, treevars, panel, stale>>
        /\ dropping' = <<>> \/ dropping' = dropping
        /\ asking' = <<>> \/ asking' = asking
    BY <1>13 DEF IndexMade, OrderFails, Closed
  <2>2. wire[i].op # "read" /\ (o = "index" \/ wire[i].answer = Error)
    BY <1>13 DEF IndexMade, OrderFails, Came, Failed
  <2>3. o = "index" => \A x : ~Due(wire[i], x)  BY DEF Due, Heeds
  <2>4. \A x \in Branches : ~IsRead(wire[i], x) /\ ~Due(wire[i], x)  BY <1>3, <2>2, <2>3
  <2>. QED BY <1>9, <2>1, <2>4 DEF treevars, panel
(* who works with the indexes neither makes nor drops what is in the tree *)
<1>14. wire[i].op \in {"add", "drop"} /\ o \in {"db", "kid"} => work # "indexes"  BY <1>0 DEF TreeCall
<1>15. CASE DbCreated(i) \/ DbDropped(i)
  <2>. DEFINE w == After(i, <<>>)
  <2>1. /\ LoadDatabases(w) /\ UNCHANGED <<engine, work, server, tree, cached, stale>>
        /\ dropping' = <<>> \/ dropping' = dropping
        /\ asking' = <<>> \/ asking' = asking
        /\ wire[i].op \in {"add", "drop"} /\ o = "db"
    BY <1>15 DEF DbCreated, DbDropped, Closed, Came
  <2>2. Sound(w) /\ TreeCalls(w)  BY <1>6
  <2>3. \A x \in Branches : \A v, s : x # "dbs" /\ Fits(wire, x, v, s) => Fits(w, x, v, s)
    <3>1. \A x : x # "dbs" => ~Due(wire[i], x)  BY <2>1 DEF Due, Heeds
    <3>. QED BY <1>3, <1>6, <2>1, <3>1
  <2>. HIDE DEF w
  <2>4. /\ TreeCalls(wire') /\ \A x \in Branches : \A v, s : Fits(w, x, v, s) => Fits(wire', x, v, s)
        /\ \A v, s : Fits(wire', "dbs", v, s)
    BY <2>1, <2>2, FitsLoad
  <2>5. \A x \in Branches : \A v, s : Fits(wire, x, v, s) => Fits(wire', x, v, s)  BY <2>3, <2>4
  <2>. QED BY <1>2, <1>14, <2>1, <2>4, <2>5
<1>16. ASSUME wire[i].op \in {"add", "drop"}, o = "kid"
       PROVE  LET d == wire[i].at[2]  w == After(i, <<ReadKids(d)>>) IN
              /\ d \in Db /\ Sound(w) /\ TreeCalls(w)
              /\ \A x \in Branches : \A v, s :
                   (x = "dbs" => wire[i].op = "add") /\ Fits(wire, x, v, s) => Fits(w, x, v, s)
  <2>. DEFINE d == wire[i].at[2]
              q == <<ReadKids(d)>>
              w == After(i, q)
  <2>1. d \in Db  BY <1>0, <1>16, PanelAdds, PanelDrops
  <2>2. TreeAsks(q) /\ \E k \in DOMAIN q : IsRead(q[k], d)  BY <2>1, TreeAsked
  <2>3. \A x : x # d /\ (x = "dbs" => wire[i].op = "add") => ~Due(wire[i], x)  BY <1>16 DEF Due, Heeds
  <2>. HIDE DEF d, q
  <2>4. /\ Sound(w) /\ TreeCalls(w)
        /\ \A x \in Branches : \A v, s :
             ~IsRead(wire[i], x) /\ ~Due(wire[i], x) /\ Fits(wire, x, v, s) => Fits(w, x, v, s)
        /\ \A x, v, s : (\E k \in DOMAIN q : IsRead(q[k], x)) => Fits(w, x, v, s)
    BY <1>0, <2>2, FitsAfter
  <2>5. \A x \in Branches : ~IsRead(wire[i], x)  BY <1>3, <1>16
  <2>. HIDE DEF w
  <2>6. \A x \in Branches : \A v, s :
          (x = "dbs" => wire[i].op = "add") /\ Fits(wire, x, v, s) => Fits(w, x, v, s)
    BY <2>2, <2>3, <2>4, <2>5
  <2>. QED BY <2>1, <2>4, <2>6 DEF d, q, w
<1>. DEFINE d == wire[i].at[2]
            w == After(i, <<ReadKids(d)>>)
<1>17. CASE KidCreated(i)
  <2>1. /\ wire' = w /\ UNCHANGED <<engine, work, server, tree, cached, stale, selected, dropping>>
        /\ asking' = <<>> \/ asking' = asking
        /\ wire[i].op = "add" /\ o = "kid"
    BY <1>17 DEF KidCreated, Closed, Came, panel
  <2>2. TreeCalls(w) /\ \A x \in Branches : \A v, s : Fits(wire, x, v, s) => Fits(w, x, v, s)  BY <1>16, <2>1
  <2>. HIDE DEF w
  <2>. QED BY <1>2, <2>1, <2>2
<1>18. CASE KidDropped(i)
  <2>1. /\ LoadDatabases(w) /\ UNCHANGED <<engine, work, server, tree, cached, stale, asking>>
        /\ dropping' = <<>> /\ wire[i].op = "drop" /\ o = "kid"
    BY <1>18 DEF KidDropped, Came
  <2>2. Sound(w) /\ TreeCalls(w) /\ \A x \in Branches : \A v, s : x # "dbs" /\ Fits(wire, x, v, s) => Fits(w, x, v, s)
    BY <1>16, <2>1
  <2>. HIDE DEF w
  <2>4. /\ TreeCalls(wire') /\ \A x \in Branches : \A v, s : Fits(w, x, v, s) => Fits(wire', x, v, s)
        /\ \A v, s : Fits(wire', "dbs", v, s)
    BY <2>1, <2>2, FitsLoad
  <2>5. \A x \in Branches : \A v, s : Fits(wire, x, v, s) => Fits(wire', x, v, s)  BY <2>2, <2>4
  <2>. QED BY <1>2, <1>14, <2>1, <2>4, <2>5
<1>. QED BY <1>7, <1>8, <1>11, <1>12, <1>13, <1>15, <1>17, <1>18
     DEF PanelsGoOn, MongoTree, PgTree, MongoPanel, PgPanel, MongoDropped, PgDropped

LEMMA TreeClicked ==
  ASSUME Sound(wire), PanelsTyped, TreeInv, PanelsClick
  PROVE  TreeInv'
<1>0. /\ TreeTyped /\ TreeCalls(wire) /\ PanelCalls(wire)
      /\ selected \in {<<>>} \cup {<<d>> : d \in Db} \cup (Db \X Kid)
      /\ \A x \in Branches : x \in stale \/ Fits(wire, x, Kept(x), Seen(x))
  BY DEF TreeInv, TreeTyped, PanelsTyped, PanelsTypeOK
<1>1. Len(selected) = 2 => selected[1] \in Db /\ selected[2] \in Kid /\ selected = <<selected[1], selected[2]>>
  <2>1. (\A d : Len(<<d>>) = 1) /\ Len(<<>>) = 0  OBVIOUS
  <2>2. \A x \in Db \X Kid : x = <<x[1], x[2]>> /\ x[1] \in Db /\ x[2] \in Kid  OBVIOUS
  <2>. QED BY <1>0, <2>1, <2>2
(* what a click leaves of the lists and of the dialogs *)
<1>2. ASSUME NEW u, wire' = u, TreeCalls(u), UNCHANGED <<engine, work, server, tree, cached, stale>>,
             IF work = "indexes"
             THEN /\ dropping' = <<>>
                  /\ \A d \in Db, k \in Kid : selected' = <<d, k>> => k = Managed
                  /\ asking' # <<>> => asking'[1] = "index" /\ asking'[3] = Managed
             ELSE asking' = <<>> \/ asking'[1] # "index",
             \A x \in Branches : \A v, s : Fits(wire, x, v, s) => Fits(u, x, v, s)
      PROVE  TreeInv'
  <2>1. TreeCalls(wire)'  BY <1>2 DEF TreeCalls, TreeCall
  <2>2. work = "indexes" => Still'  BY <1>0, <1>2 DEF TreeTyped, Still, server
  <2>3. TreeTyped'  BY <1>0, <1>2, <2>1, <2>2 DEF TreeTyped
  <2>4. \A x : Kept(x)' = Kept(x) /\ Seen(x)' = Seen(x)  BY <1>2 DEF Kept, Seen, server
  <2>. QED BY <1>0, <1>2, <2>3, <2>4 DEF TreeInv, Fits, Current, Branches
<1>3. /\ work = "indexes" => /\ dropping = <<>> /\ \A d \in Db, k \in Kid : selected = <<d, k>> => k = Managed
                             /\ asking # <<>> => asking[1] = "index" /\ asking[3] = Managed
      /\ work # "indexes" => asking = <<>> \/ asking[1] # "index"
  BY <1>0 DEF TreeTyped, Still
(* the dialogs *)
<1>4. ASSUME wire' = wire, UNCHANGED <<engine, work, server, tree, cached, stale, selected>>,
             dropping' = dropping \/ dropping' = <<>> \/ work # "indexes",
             \/ asking' \in {asking, <<>>}
             \/ work # "indexes" /\ asking'[1] # "index"
             \/ work = "indexes" /\ asking'[1] = "index" /\ asking'[3] = Managed
      PROVE  TreeInv'
  BY <1>0, <1>2, <1>3, <1>4
<1>5. ASSUME NEW box, Ask(box),
             \/ box = <<>>
             \/ work # "indexes" /\ box[1] # "index"
             \/ work = "indexes" /\ box[1] = "index" /\ box[3] = Managed
      PROVE  TreeInv'
  BY <1>4, <1>5 DEF Ask, treevars, panel
<1>6. CASE AskDb
  <2>1. Ask(<<"db">>) /\ work = "tree" /\ <<"db">>[1] = "db"  BY <1>6 DEF AskDb
  <2>. QED BY <1>5, <2>1
<1>7. ASSUME NEW d \in Db, AskKid(d)  PROVE TreeInv'
  <2>1. Ask(<<"kid", d>>) /\ work = "tree" /\ <<"kid", d>>[1] = "kid"  BY <1>7 DEF AskKid
  <2>. QED BY <1>5, <2>1
<1>8. CASE AskIndex
  <2>. DEFINE box == <<"index", selected[1], selected[2]>>
  <2>1. Ask(box) /\ work = "indexes" /\ Len(selected) = 2 /\ box[1] = "index" /\ box[3] = selected[2]
    BY <1>8 DEF AskIndex
  <2>2. selected[2] = Managed  BY <1>1, <1>3, <2>1
  <2>. HIDE DEF box
  <2>. QED BY <1>5, <2>1, <2>2
<1>9. CASE CloseBox  BY <1>5, <1>9 DEF CloseBox
<1>10. CASE CancelDrop \/ \E at : AskDrop(at)
  <2>1. /\ UNCHANGED <<engine, work, server, treevars, panel, asking, stale, wire>>
        /\ dropping' = <<>> \/ work # "indexes"
    BY <1>10 DEF CancelDrop, AskDrop
  <2>. QED BY <1>4, <2>1 DEF treevars, panel
(* one more call *)
<1>11. ASSUME NEW o, NEW a, Send(<<Call(o, a)>>), TreeCall(Call(o, a)),
              UNCHANGED <<engine, work, server, tree, cached, stale, selected, asking>>,
              dropping' = dropping \/ dropping' = <<>>
       PROVE  TreeInv'
  <2>. DEFINE q == <<Call(o, a)>>
              u == wire \o q
  <2>1. TreeAsks(q) /\ wire' = u  BY <1>11, TreeAsked DEF Send
  <2>. HIDE DEF q
  <2>2. TreeCalls(u) /\ \A x, v, s : Fits(wire, x, v, s) => Fits(u, x, v, s)  BY <1>0, <2>1, FitsJoin
  <2>. HIDE DEF u
  <2>. QED BY <1>2, <1>3, <1>11, <2>1, <2>2
<1>12. CASE MongoFind \/ MongoPage \/ PgRun
  <2>. DEFINE a == <<"find", selected>>
  <2>1. Send(<<Call("read", a)>>) /\ UNCHANGED <<engine, work, server, treevars, selected, boxes, stale>>
    BY <1>12 DEF MongoFind, MongoPage, PgRun, Find, bvars, panel
  <2>2. a[1] \in Routes  BY DEF Routes, Inside
  <2>. HIDE DEF a
  <2>3. TreeCall(Call("read", a))  BY <2>2, CallIs DEF TreeCall, ListCall
  <2>. QED BY <1>11, <2>1, <2>3 DEF treevars, boxes
<1>13. ASSUME NEW o \in {"add", "drop"}, NEW a,
              a[1] \in (IF work = "indexes" THEN {"index", "indexes"} ELSE {"db", "kid"}),
              o = "add" /\ a[1] = "index" => a[3] = Managed
       PROVE  TreeCall(Call(o, a))
  <2>1. a[1] \in Routes  BY <1>13 DEF Routes, Inside
  <2>. QED BY <1>13, <2>1, CallIs DEF TreeCall, ListCall
<1>14. CASE DropIndex
  <2>. DEFINE a == <<"indexes", selected[1], selected[2]>>
  <2>1. Send(<<Call("drop", a)>>) /\ work = "indexes" /\ UNCHANGED bvars /\ a[1] = "indexes"
    BY <1>14 DEF DropIndex
  <2>. HIDE DEF a
  <2>2. TreeCall(Call("drop", a))  BY <1>13, <2>1
  <2>. QED BY <1>11, <2>1, <2>2 DEF bvars, treevars, panel, boxes
<1>15. ASSUME NEW kind, NEW a, Create(kind, a), TreeCall(Call("add", a))  PROVE TreeInv'
  BY <1>11, <1>15 DEF Create, bvars, treevars, panel, boxes
<1>16. CASE CreateIndex
  <2>1. Create("index", asking) /\ asking # <<>> /\ asking[1] = "index"  BY <1>16 DEF CreateIndex, Create
  <2>2. work = "indexes" /\ asking[3] = Managed  BY <1>3, <2>1
  <2>3. TreeCall(Call("add", asking))  BY <1>13, <2>1, <2>2
  <2>. QED BY <1>15, <2>1, <2>3
<1>17. ASSUME NEW kind \in {"db", "kid"}, NEW a, Create(kind, a), a[1] = kind  PROVE TreeInv'
  <2>1. asking # <<>> /\ asking[1] = kind  BY <1>17 DEF Create
  <2>2. work # "indexes"  BY <1>3, <2>1
  <2>3. TreeCall(Call("add", a))  BY <1>13, <1>17, <2>2
  <2>. QED BY <1>15, <1>17, <2>3
<1>18. ASSUME NEW d \in Db, CreateDb(d)  PROVE TreeInv'
  <2>1. Create("db", <<"db", d>>) /\ <<"db", d>>[1] = "db"  BY <1>18 DEF CreateDb
  <2>. QED BY <1>17, <2>1
<1>19. ASSUME NEW k \in Kid, CreateKid(k)  PROVE TreeInv'
  <2>. DEFINE a == <<"kid", asking[2], k>>
  <2>1. Create("kid", a) /\ a[1] = "kid"  BY <1>19 DEF CreateKid
  <2>. HIDE DEF a
  <2>. QED BY <1>17, <2>1
<1>20. CASE ConfirmDrop
  <2>. DEFINE match == dropping[1] = "kid" /\ Len(selected) = 2 /\ selected[2] = dropping[3]
              a == dropping \o <<match>>
  <2>1. /\ Send(<<Call("drop", a)>>) /\ dropping # <<>> /\ dropping' = <<>>
        /\ UNCHANGED <<engine, work, server, treevars, panel, asking, stale>>
    BY <1>20 DEF ConfirmDrop
  <2>. HIDE DEF match, a
  <2>2. work # "indexes"  BY <1>3, <2>1
  <2>3. a[1] \in {"db", "kid"}
    <3>1. \/ \E d \in Db : dropping = <<"db", d>>
          \/ \E d \in Db, k \in Kid : dropping = <<"kid", d, k>>
      BY <2>1 DEF PanelsTyped
    <3>2. ASSUME NEW d \in Db, dropping = <<"db", d>>  PROVE a[1] \in {"db", "kid"}
      <4>1. a = <<"db", d, match>>  BY <3>2, PairAnd DEF a
      <4>2. <<"db", d, match>>[1] = "db"  OBVIOUS
      <4>. QED BY <4>1, <4>2
    <3>3. ASSUME NEW d \in Db, NEW k \in Kid, dropping = <<"kid", d, k>>  PROVE a[1] \in {"db", "kid"}
      <4>1. a = <<"kid", d, k, match>>  BY <3>3, TripleAnd DEF a
      <4>2. <<"kid", d, k, match>>[1] = "kid"  OBVIOUS
      <4>. QED BY <4>1, <4>2
    <3>. QED BY <3>1, <3>2, <3>3
  <2>4. TreeCall(Call("drop", a))  BY <1>13, <2>2, <2>3
  <2>. QED BY <1>11, <2>1, <2>4 DEF treevars, panel
(* what is selected *)
<1>21. ASSUME NEW sel, NEW w, Turn(sel, w), Sound(w), TreeCalls(w),
              \A x \in Branches : \A v, s : Fits(wire, x, v, s) => Fits(w, x, v, s),
              UNCHANGED <<engine, work, server, tree, cached, stale, boxes>>,
              work = "indexes" => \A d \in Db, k \in Kid : sel = <<d, k>> => k = Managed
       PROVE  TreeInv'
  <2>1. TreeCalls(wire') /\ \A x \in Branches : \A v, s : Fits(w, x, v, s) => Fits(wire', x, v, s)  BY <1>21, FitsTurn
  <2>2. selected' = sel  BY <1>21 DEF Turn
  <2>3. \A x \in Branches : \A v, s : Fits(wire, x, v, s) => Fits(wire', x, v, s)  BY <1>21, <2>1
  <2>. QED BY <1>2, <1>3, <1>21, <2>1, <2>2, <2>3 DEF boxes
<1>22. ASSUME NEW d \in Db, SelectDb(d)  PROVE TreeInv'
  <2>. DEFINE sel == <<d>>
              q == <<ReadKids(d)>>
              w == Append(wire, ReadKids(d))
  <2>1. /\ UNCHANGED <<engine, work, server, tree, cached, stale, boxes>>
        /\ Turn(sel, wire) \/ Turn(sel, w)
    BY <1>22 DEF SelectDb
  <2>2. \A e, k : sel # <<e, k>>
    <3>1. (\A e : Len(<<e>>) = 1) /\ \A e, k : Len(<<e, k>>) = 2  OBVIOUS
    <3>. QED BY <3>1
  <2>3. w = wire \o q  BY <1>0, PanelOpens
  <2>4. TreeAsks(q)  BY TreeAsked
  <2>. HIDE DEF sel, q, w
  <2>5. Sound(w) /\ TreeCalls(w) /\ \A x, v, s : Fits(wire, x, v, s) => Fits(w, x, v, s)
    BY <1>0, <2>3, <2>4, FitsJoin
  <2>. QED BY <1>0, <1>21, <2>1, <2>2, <2>5
<1>23. ASSUME NEW d \in Db, NEW k \in Kid, SelectKid(d, k)  PROVE TreeInv'
  <2>1. /\ Turn(<<d, k>>, wire) /\ k \in KidsShown(d)
        /\ UNCHANGED <<engine, work, server, treevars, boxes, stale>>
    BY <1>23 DEF SelectKid
  <2>2. work = "indexes" => k = Managed
    <3>1. work = "indexes" => cached[d] = <<{Managed}>>  BY <1>0 DEF TreeTyped, Still
    <3>2. <<{Managed}>> # <<>> /\ <<{Managed}>>[1] = {Managed}  OBVIOUS
    <3>. QED BY <2>1, <3>1, <3>2 DEF KidsShown
  <2>3. work = "indexes" => \A e \in Db, f \in Kid : <<d, k>> = <<e, f>> => f = Managed  BY <2>2
  <2>. DEFINE sel == <<d, k>>
  <2>. HIDE DEF sel
  <2>4. Turn(sel, wire) /\ (work = "indexes" => \A e \in Db, f \in Kid : sel = <<e, f>> => f = Managed)
    BY <2>1, <2>3 DEF sel
  <2>. QED BY <1>0, <1>21, <2>1, <2>4 DEF treevars
<1>24. CASE MongoSelect \/ PgSelect  BY <1>22, <1>23, <1>24 DEF MongoSelect, PgSelect
<1>25. CASE MongoDialogs \/ PgDialogs  BY <1>16, <1>18, <1>19, <1>25 DEF MongoDialogs, PgDialogs
<1>. QED BY <1>6, <1>7, <1>8, <1>9, <1>10, <1>12, <1>14, <1>20, <1>24, <1>25 DEF PanelsClick

LEMMA TreeStarts ==
  ASSUME PanelsStart, wire = <<ReadDbs>>
  PROVE  TreeInv
<1>1. /\ work = "indexes" => engine = "mongodb"
      /\ work = "indexes" => there = Db
      /\ kids = [d \in Db |-> IF d \in there THEN {Managed} ELSE {}]
      /\ cached = [d \in Db |-> IF work # "tree" THEN <<kids[d]>> ELSE <<>>]
      /\ selected = <<>> /\ asking = <<>> /\ dropping = <<>>
  BY DEF PanelsStart
<1>2. TreeAsks(wire) /\ IsRead(wire[1], "dbs") /\ 1 \in DOMAIN wire  BY TreeAsked
<1>3. work = "indexes" => Still
  <2>1. \A d, k : <<>> # <<d, k>>
    <3>1. Len(<<>>) = 0 /\ \A d, k : Len(<<d, k>>) = 2  OBVIOUS
    <3>. QED BY <3>1
  <2>. SUFFICES ASSUME work = "indexes" PROVE Still  OBVIOUS
  <2>2. kids = [d \in Db |-> {Managed}]  BY <1>1
  <2>3. cached = [d \in Db |-> <<{Managed}>>]  BY <1>1, <2>2
  <2>. QED BY <1>1, <2>1, <2>2, <2>3 DEF Still
<1>4. TreeTyped  BY <1>1, <1>2, <1>3 DEF TreeTyped, TreeAsks
<1>5. Fits(wire, "dbs", Kept("dbs"), Seen("dbs"))
  <2>1. \A k \in DOMAIN wire : wire[k].answer = NotYet  BY <1>2 DEF TreeAsks
  <2>. QED BY <1>2, <2>1, CurrentAsked DEF Fits
<1>6. ASSUME NEW d \in Db  PROVE Fits(wire, d, Kept(d), Seen(d))
  <2>1. d # "dbs"  BY PanelsAssumption
  <2>2. cached[d] = <<>> \/ cached[d] = <<kids[d]>>  BY <1>1
  <2>3. Kept(d) = kids[d] /\ Seen(d) = kids[d]
    <3>1. \A s : <<s>> # <<>> /\ <<s>>[1] = s  OBVIOUS
    <3>. QED BY <2>1, <2>2, <3>1 DEF Kept, Seen
  <2>4. \A k \in DOMAIN wire : wire[k].answer = NotYet  BY <1>2 DEF TreeAsks
  <2>. QED BY <2>3, <2>4 DEF Fits, Current, Stale
<1>. QED BY <1>4, <1>5, <1>6 DEF TreeInv, Branches

LEMMA TreeShows ==
  ASSUME PanelsTyped, TreeInv
  PROVE  OwnTreeChanges
<1>1. \A k \in DOMAIN wire : PanelCall(wire[k]) /\ wire[k].op \in {"read", "add", "drop"}
  <2>1. ASSUME NEW c, PanelCall(c)  PROVE c.op \in {"read", "add", "drop"}  BY <2>1 DEF PanelCall
  <2>. QED BY <2>1 DEF PanelsTyped, PanelCalls
<1>2. ASSUME NEW x \in Branches, x \notin stale, ~Concerns(x), \A k \in DOMAIN wire : ~Due(wire[k], x)
      PROVE  Seen(x) = Kept(x)
  <2>1. \A k \in DOMAIN wire : wire[k].at[1] # x  BY <1>2 DEF Concerns
  <2>2. Fits(wire, x, Kept(x), Seen(x))  BY <1>2 DEF TreeInv
  <2>. QED BY <1>2, <2>1, <2>2 DEF Fits, Current, IsDone, IsRead
<1>3. ASSUME ~(\E k \in DOMAIN wire : wire[k].op \in {"add", "drop"}), ~Concerns("dbs"), "dbs" \notin stale
      PROVE  tree = there
  <2>1. \A k \in DOMAIN wire : ~Due(wire[k], "dbs")  BY <1>1, <1>3 DEF Due, Heeds
  <2>2. "dbs" \in Branches  BY DEF Branches
  <2>3. Seen("dbs") = Kept("dbs")  BY <1>2, <1>3, <2>1, <2>2
  <2>. QED BY <2>3 DEF Seen, Kept
<1>4. ASSUME NEW d \in there, cached[d] # <<>>, d \notin stale, ~Concerns(d)
      PROVE  KidsShown(d) = kids[d]
  <2>1. d \in Db /\ d \in Branches /\ d # "dbs"
    BY PanelsAssumption DEF PanelsTyped, PanelsTypeOK, Branches
  <2>2. ASSUME NEW k \in DOMAIN wire, Due(wire[k], d)  PROVE FALSE
    <3>1. wire[k].op \in {"add", "drop"} /\ wire[k].at[1] = "kid" /\ wire[k].at[2] = d
      BY <1>1, <2>1, <2>2 DEF Due, Heeds
    <3>2. Len(wire[k].at) > 1
      <4>1. /\ \A a, b, c : Len(<<a, b, c>>) > 1
            /\ \A a, b, c, e : Len(<<a, b, c, e>>) > 1
        OBVIOUS
      <4>2. CASE wire[k].op = "add"  BY <1>1, <3>1, <4>1, <4>2, PanelAdds
      <4>3. CASE wire[k].op = "drop"  BY <1>1, <3>1, <4>1, <4>3, PanelDrops
      <4>. QED BY <3>1, <4>2, <4>3
    <3>. QED BY <1>4, <3>1, <3>2 DEF Concerns
  <2>3. Seen(d) = Kept(d)  BY <1>2, <1>4, <2>1, <2>2
  <2>. QED BY <1>4, <2>1, <2>3 DEF Seen, Kept, KidsShown
<1>. QED BY <1>3, <1>4 DEF OwnTreeChanges

(* The tree shows the person's own changes: once nothing of it is under    *)
(* way, the databases and what was read of each are the server's, unless   *)
(* it could not be told (the handlers of the tabs in pages/databases that  *)
(* read the databases or the kids of one again), for any databases, calls  *)
(* under way in any order, and failures.                                   *)
THEOREM ChangesAreInTree == AdminSpec => []OwnTreeChanges
<1>. DEFINE Inv == IF mounted = "databases" THEN TreeInv ELSE skeleton = TRUE /\ cached = [d \in Db |-> <<>>]
<1>1. AdminInit => Inv
  <2>. SUFFICES ASSUME AdminInit PROVE Inv  OBVIOUS
  <2>1. PanelsStart /\ (mounted # "databases" => work = "tree")  BY DEF AdminInit
  <2>2. CASE mounted = "databases"
    <3>1. wire = <<ReadDbs>>  BY <2>2 DEF AdminInit
    <3>. QED BY <2>1, <2>2, <3>1, TreeStarts
  <2>3. CASE mounted # "databases"  BY <2>1, <2>3 DEF PanelsStart
  <2>. QED BY <2>2, <2>3
<1>2. Inv /\ PanelsPageInv /\ Sound(wire) /\ [AdminNext]_all => Inv'
  <2>. SUFFICES ASSUME Inv, PanelsPageInv, Sound(wire), [AdminNext]_all PROVE Inv'  OBVIOUS
  <2>1. CASE OnDatabases(PanelsNext)
    <3>1. mounted = "databases" /\ mounted' = mounted /\ PanelsNext  BY <2>1 DEF OnDatabases
    <3>2. PanelsTyped /\ TreeInv  BY <3>1 DEF PanelsPageInv
    <3>3. TreeInv'  BY <3>1, <3>2, TreeServed, TreeWentOn, TreeClicked DEF PanelsNext
    <3>. QED BY <3>1, <3>3
  <2>2. CASE OnProjects(ProjectsNext) \/ OnDialogs(DialogsNext) \/ OnTasksPage(TasksNext)
    <3>1. mounted # "databases" /\ mounted' = mounted /\ UNCHANGED bvars
      BY <2>2 DEF OnProjects, OnDialogs, OnTasksPage
    <3>. QED BY <3>1 DEF bvars, treevars
  <2>3. CASE UNCHANGED all
    <3>1. UNCHANGED <<mounted, wire>> /\ UNCHANGED bvars  BY <2>3 DEF all
    <3>2. UNCHANGED <<engine, work, there, kids, tree, cached, skeleton, selected, asking, dropping, stale>>
      BY <3>1 DEF bvars, server, treevars, panel, boxes
    <3>3. TreeCalls(wire)' <=> TreeCalls(wire)  BY <3>1, <3>2 DEF TreeCalls, TreeCall
    <3>4. TreeTyped' <=> TreeTyped  BY <3>1, <3>2, <3>3 DEF TreeTyped, Still
    <3>5. \A x : Fits(wire, x, Kept(x), Seen(x))' <=> Fits(wire, x, Kept(x), Seen(x))
      BY <3>1, <3>2 DEF Fits, Current, Kept, Seen
    <3>6. TreeInv' <=> TreeInv  BY <3>2, <3>4, <3>5 DEF TreeInv, Branches
    <3>. QED BY <3>1, <3>2, <3>6
  <2>. QED BY <2>1, <2>2, <2>3 DEF AdminNext
<1>3. Inv /\ PanelsPageInv => OwnTreeChanges
  <2>1. mounted = "databases" /\ Inv /\ PanelsPageInv => OwnTreeChanges  BY TreeShows DEF PanelsPageInv
  <2>2. mounted # "databases" /\ Inv /\ PanelsPageInv => OwnTreeChanges
    BY DEF PanelsPageInv, PanelsTypeOK, OwnTreeChanges
  <2>. QED BY <2>1, <2>2
<1>. QED BY <1>1, <1>2, <1>3, WireSound, PanelsPageKept, PTL DEF AdminSpec

(***************************************************************************)
(* The dialogs of a project: the selects that depend on each other.        *)
(***************************************************************************)
Opts(c) == c.at[1] = "options"
OptionsCall(c) ==
  /\ c.op = "read" /\ c.at = <<"options", c.at[2], c.at[3]>> /\ c.at[2] \in 1 .. 4
  /\ Gives(c, {Below(c.at[2], c.at[3])}) /\ c.heard

OptionsCalls(w) == \A k \in DOMAIN w : Opts(w[k]) => OptionsCall(w[k])
NoOptions(w)    == \A k \in DOMAIN w : ~Opts(w[k])
Under(w, a)     == \E k \in DOMAIN w : w[k].at = a
Columns(c)      == <<"options", 4, SubSeq(c, 1, 3)>>

(* The columns of the chosen table are being read, or are the ones offered,*)
(* or the database has no such table.                                      *)
ColumnInv ==
  IF Ready(4, source, choice)
  THEN \/ Under(wire, Columns(choice))
       \/ options[4] \subseteq Below(4, choice) /\ choice[4] \in {None} \cup Below(4, choice)
       \/ Below(4, choice) = {}
  ELSE options[4] = {} /\ choice[4] = None

SelectsTyped ==
  /\ source \in {"mongodb", "postgres"} /\ choice \in [1 .. 4 -> Name \cup {None}]
  /\ options \in [1 .. 4 -> SUBSET Name] /\ astray \in BOOLEAN

DialogsInv ==
  /\ SelectsTyped /\ OptionsCalls(wire) /\ (dialog # "collection" => NoOptions(wire))
  /\ (~astray => ColumnInv)

(* Nothing but the three names before it decides what select 4 offers.     *)
LEMMA ThreeNames ==
  ASSUME NEW c \in [1 .. 4 -> Name \cup {None}]
  PROVE  /\ Below(4, SubSeq(c, 1, 3)) = Below(4, c)
         /\ \A d \in [1 .. 4 -> Name \cup {None}] : (\A j \in 1 .. 3 : d[j] = c[j]) =>
              Columns(d) = Columns(c) /\ Below(4, d) = Below(4, c)
<1>. DEFINE S == Name \cup {None}
<1>0. \A d \in [1 .. 4 -> S] : d \in Seq(S) /\ Len(d) = 4
  <2>. SUFFICES ASSUME NEW d \in [1 .. 4 -> S] PROVE d \in Seq(S) /\ Len(d) = 4  OBVIOUS
  <2>. HIDE DEF S
  <2>1. d \in Seq(S)  BY IsSeqIf
  <2>. QED BY <2>1, LenProperties
<1>. HIDE DEF S
<1>1. \A d \in [1 .. 4 -> S] : LET p == SubSeq(d, 1, 3) IN p \in Seq(S) /\ Len(p) = 3 /\ \A j \in 1 .. 3 : p[j] = d[j]
  <2>. SUFFICES ASSUME NEW d \in [1 .. 4 -> S]
                PROVE  LET p == SubSeq(d, 1, 3) IN p \in Seq(S) /\ Len(p) = 3 /\ \A j \in 1 .. 3 : p[j] = d[j]
    OBVIOUS
  <2>1. d \in Seq(S) /\ Len(d) = 4  BY <1>0
  <2>. QED BY <2>1, SubSeqProperties
<1>2. c \in [1 .. 4 -> S]  BY DEF S
<1>3. \A p, d : (\A j \in 1 .. 3 : p[j] = d[j]) => Below(4, p) = Below(4, d)
  <2>. SUFFICES ASSUME NEW p, NEW d, \A j \in 1 .. 3 : p[j] = d[j]  PROVE Below(4, p) = Below(4, d)  OBVIOUS
  <2>1. 4 - 1 = 3  OBVIOUS
  <2>2. \A q : (\A j \in 1 .. 3 : q[j] = p[j]) <=> (\A j \in 1 .. 3 : q[j] = d[j])  OBVIOUS
  <2>. QED BY <2>1, <2>2 DEF Below
<1>4. Below(4, SubSeq(c, 1, 3)) = Below(4, c)  BY <1>1, <1>2, <1>3
<1>5. ASSUME NEW d \in [1 .. 4 -> S], \A j \in 1 .. 3 : d[j] = c[j]  PROVE SubSeq(d, 1, 3) = SubSeq(c, 1, 3)
  <2>. DEFINE p == SubSeq(c, 1, 3)
              q == SubSeq(d, 1, 3)
  <2>1. /\ p \in Seq(S) /\ Len(p) = 3 /\ \A j \in 1 .. 3 : p[j] = c[j]
        /\ q \in Seq(S) /\ Len(q) = 3 /\ \A j \in 1 .. 3 : q[j] = d[j]
    BY <1>1, <1>2
  <2>. HIDE DEF p, q
  <2>2. p = q  BY <1>5, <2>1, SeqEqual
  <2>. QED BY <2>2 DEF p, q
<1>. QED BY <1>3, <1>4, <1>5 DEF S, Columns

(* A table that is not chosen has no columns.                              *)
LEMMA NoTable ==
  /\ \A k \in 1 .. 4 : \A c : Below(k, c) \subseteq Name
  /\ \A j \in 1 .. 3 : \A c : c[j] = None => Below(4, c) = {}
<1>1. Catalog \subseteq [1 .. 4 -> Name] /\ None \notin Name  BY DialogsAssumption
<1>2. 4 - 1 = 3  OBVIOUS
<1>3. ASSUME NEW c, NEW j \in 1 .. 3, c[j] = None, NEW q \in Catalog, \A m \in 1 .. 3 : q[m] = c[m]  PROVE FALSE
  BY <1>1, <1>3
<1>. QED BY <1>1, <1>2, <1>3 DEF Below

LEMMA DefaultIs ==
  ASSUME NEW k, NEW offered
  PROVE  /\ Default(k, offered) \in offered \cup {choice[k]}
         /\ offered = {} => Default(k, offered) = choice[k]
         /\ k = 4 /\ offered # {} => Default(k, offered) \in offered
<1>. DEFINE first(s) == CHOOSE x \in s : TRUE
<1>1. \A s : s # {} => first(s) \in s  OBVIOUS
<1>2. Cardinality(offered \cap Primary) = 1 => offered \cap Primary # {}
  <2>1. Cardinality({}) = 0  BY FS_EmptySet
  <2>. QED BY <2>1
<1>3. CASE offered = {}  BY <1>3 DEF Default
<1>4. CASE offered # {} /\ k = 2
  <2>1. Default(k, offered) = IF Public \in offered THEN Public ELSE first(offered)  BY <1>4 DEF Default
  <2>. HIDE DEF first
  <2>. QED BY <1>1, <1>4, <2>1
<1>5. CASE offered # {} /\ k = 4
  <2>. DEFINE primary == offered \cap Primary
  <2>1. Default(k, offered) = first(IF Cardinality(primary) = 1 THEN primary ELSE offered)
    BY <1>5 DEF Default
  <2>2. first(offered) \in offered  BY <1>1, <1>5
  <2>3. Cardinality(primary) = 1 => first(primary) \in offered
    <3>. SUFFICES ASSUME Cardinality(primary) = 1 PROVE first(primary) \in offered  OBVIOUS
    <3>1. first(primary) \in primary  BY <1>1, <1>2
    <3>. QED BY <3>1
  <2>. HIDE DEF first, primary
  <2>. QED BY <1>5, <2>1, <2>2, <2>3
<1>6. CASE offered # {} /\ k # 2 /\ k # 4  BY <1>6 DEF Default
<1>. QED BY <1>3, <1>4, <1>5, <1>6

LEMMA ReadsAre ==
  ASSUME NEW s, NEW c
  PROVE  /\ Sound(Reads(s, c)) /\ OptionsCalls(Reads(s, c))
         /\ Reread(4, s, c) => Under(Reads(s, c), Columns(c))
<1>. DEFINE K == {j \in 1 .. 4 : Reread(j, s, c)}
            T == {ReadOptions(k, c) : k \in K}
            q == Reads(s, c)
<1>1. IsFiniteSet(K)
  <2>1. IsFiniteSet(1 .. 4)
    <3>1. 1 \in Int /\ 4 \in Int  OBVIOUS
    <3>. QED BY <3>1, FS_Interval, Zenon
  <2>2. K \subseteq 1 .. 4  OBVIOUS
  <2>. HIDE DEF K
  <2>. QED BY <2>1, <2>2, FS_Subset
<1>2. IsFiniteSet(T)
  <2>. DEFINE f == [k \in K |-> ReadOptions(k, c)]
  <2>1. T = {f[k] : k \in K} /\ f = [k \in K |-> f[k]]  OBVIOUS
  <2>. HIDE DEF K, T, f
  <2>. QED BY <1>1, <2>1, ImageFinite
<1>3. \A d \in T : \E o, a : d = Call(o, a)  BY DEF ReadOptions
<1>4. q = SetToSeq(T)  BY DEF Reads
<1>5. \A d \in T : OptionsCall(d)
  <2>. SUFFICES ASSUME NEW k \in K PROVE OptionsCall(ReadOptions(k, c))  OBVIOUS
  <2>. DEFINE a == <<"options", k, SubSeq(c, 1, k - 1)>>
              d == Call("read", a)
  <2>1. a[1] = "options" /\ a[2] = k /\ a = <<"options", a[2], a[3]>>  OBVIOUS
  <2>. HIDE DEF a
  <2>2. d.op = "read" /\ d.at = a /\ d.answer = NotYet /\ d.heard  BY CallIs
  <2>3. d = ReadOptions(k, c)  BY DEF ReadOptions, a
  <2>. HIDE DEF d
  <2>4. k \in 1 .. 4  OBVIOUS
  <2>. HIDE DEF K
  <2>5. OptionsCall(d)  BY <2>1, <2>2, <2>4 DEF OptionsCall, Gives
  <2>. QED BY <2>3, <2>5
<1>6. Reread(4, s, c) => ReadOptions(4, c) \in T  OBVIOUS
<1>7. ReadOptions(4, c).at = Columns(c)
  <2>1. 4 - 1 = 3  OBVIOUS
  <2>. QED BY <2>1, CallIs DEF ReadOptions, Columns
<1>. HIDE DEF T, q
<1>8. /\ Sound(q) /\ \A k \in DOMAIN q : q[k] \in T
      /\ \A d \in T : \E k \in DOMAIN q : q[k] = d
  <2>1. LET r == SetToSeq(T) IN
        /\ Sound(r) /\ \A k \in DOMAIN r : r[k] \in T
        /\ \A d \in T : \E k \in DOMAIN r : r[k] = d
    BY <1>2, <1>3, AskedAll
  <2>. QED BY <1>4, <2>1
<1>9. OptionsCalls(q)  BY <1>5, <1>8 DEF OptionsCalls
<1>10. Reread(4, s, c) => Under(q, Columns(c))  BY <1>6, <1>7, <1>8 DEF Under
<1>. QED BY <1>8, <1>9, <1>10 DEF q

LEMMA SentNew ==
  ASSUME NEW w, NEW calls, IsWire(w), IsWire(calls), NEW j \in DOMAIN calls
  PROVE  \E k \in DOMAIN (w \o calls) : (w \o calls)[k] = calls[j]
<1>. DEFINE n == Len(w)
            m == Len(calls)
            u == w \o calls
<1>1. IsWire(u) /\ Len(u) = n + m /\ \A k \in 1 .. m : u[n + k] = calls[k]  BY Join
<1>2. n \in Nat /\ m \in Nat /\ DOMAIN calls = 1 .. m /\ DOMAIN u = 1 .. n + m
  <2>. HIDE DEF u
  <2>. QED BY <1>1, WireIs
<1>. HIDE DEF n, m, u
<1>3. j \in 1 .. m /\ n + j \in 1 .. n + m  BY <1>2
<1>4. \E k \in DOMAIN u : u[k] = calls[j]  BY <1>1, <1>2, <1>3
<1>. QED BY <1>4 DEF u

(* The reads of options, as the wire changes.                              *)
LEMMA OptionsSame ==
  ASSUME NEW c, NEW d, Same(d, c)
  PROVE  (Opts(d) <=> Opts(c)) /\ (OptionsCall(c) /\ d.heard => OptionsCall(d))
<1>1. \A S : Gives(c, S) => Gives(d, S)  BY DEF Gives, Same
<1>2. d.op = c.op /\ d.at = c.at  BY DEF Same
<1>. QED BY <1>1, <1>2 DEF Opts, OptionsCall

LEMMA OptionsAfter ==
  ASSUME Sound(wire), OptionsCalls(wire), NEW i \in DOMAIN wire, NEW calls, Sound(calls), OptionsCalls(calls)
  PROVE  LET u == After(i, calls) IN
         /\ Sound(u) /\ OptionsCalls(u) /\ (NoOptions(wire) /\ NoOptions(calls) => NoOptions(u))
         /\ \A a : Under(calls, a) \/ (Under(wire, a) /\ wire[i].at # a) => Under(u, a)
<1>. DEFINE u == After(i, calls)
<1>1. /\ \A k \in DOMAIN u :
           \/ \E j \in DOMAIN wire \ {i} : Same(u[k], wire[j]) /\ u[k].heard = wire[j].heard
           \/ \E j \in DOMAIN calls : u[k] = calls[j]
      /\ \A j \in DOMAIN wire \ {i} : \E k \in DOMAIN u : Same(u[k], wire[j]) /\ u[k].heard = wire[j].heard
      /\ \A j \in DOMAIN calls : \E k \in DOMAIN u : u[k] = calls[j]
      /\ Sound(u)
  BY AfterCalls, SoundAfter DEF Sound
<1>. HIDE DEF u
<1>2. OptionsCalls(u)
  <2>. SUFFICES ASSUME NEW k \in DOMAIN u, Opts(u[k]) PROVE OptionsCall(u[k])  BY DEF OptionsCalls
  <2>1. CASE \E j \in DOMAIN calls : u[k] = calls[j]  BY <2>1 DEF OptionsCalls
  <2>2. ASSUME NEW j \in DOMAIN wire, Same(u[k], wire[j]), u[k].heard = wire[j].heard  PROVE OptionsCall(u[k])
    <3>1. Opts(wire[j])  BY <2>2, OptionsSame
    <3>2. OptionsCall(wire[j])  BY <3>1 DEF OptionsCalls
    <3>3. u[k].heard  BY <2>2, <3>2 DEF OptionsCall
    <3>. QED BY <2>2, <3>2, <3>3, OptionsSame
  <2>. QED BY <1>1, <2>1, <2>2
<1>3. NoOptions(wire) /\ NoOptions(calls) => NoOptions(u)  BY <1>1, OptionsSame DEF NoOptions
<1>4. ASSUME NEW a, Under(calls, a) \/ (Under(wire, a) /\ wire[i].at # a)  PROVE Under(u, a)
  BY <1>1, <1>4 DEF Under, Same
<1>. QED BY <1>1, <1>2, <1>3, <1>4 DEF u

LEMMA OptionsSent ==
  ASSUME Sound(wire), OptionsCalls(wire), NEW calls, Sound(calls), OptionsCalls(calls), Send(calls)
  PROVE  /\ OptionsCalls(wire') /\ (NoOptions(wire) /\ NoOptions(calls) => NoOptions(wire'))
         /\ \A a : Under(calls, a) \/ Under(wire, a) => Under(wire', a)
<1>1. wire' = wire \o calls /\ IsWire(wire) /\ IsWire(calls)  BY DEF Send, Sound
<1>2. \A k \in DOMAIN wire' : (\E j \in DOMAIN wire : wire'[k] = wire[j]) \/ (\E j \in DOMAIN calls : wire'[k] = calls[j])
  BY <1>1, SentCalls
<1>2a. \A j \in DOMAIN wire : \E k \in DOMAIN wire' : wire'[k] = wire[j]  BY <1>1, SentCalls
<1>2b. \A j \in DOMAIN calls : \E k \in DOMAIN wire' : wire'[k] = calls[j]
  <2>. SUFFICES ASSUME NEW j \in DOMAIN calls PROVE \E k \in DOMAIN wire' : wire'[k] = calls[j]  OBVIOUS
  <2>1. \E k \in DOMAIN (wire \o calls) : (wire \o calls)[k] = calls[j]  BY <1>1, SentNew
  <2>. QED BY <1>1, <2>1
<1>3. /\ \A j \in DOMAIN wire : \E k \in DOMAIN wire' : wire'[k] = wire[j]
      /\ \A j \in DOMAIN calls : \E k \in DOMAIN wire' : wire'[k] = calls[j]
  BY <1>2a, <1>2b
<1>4. OptionsCalls(wire') /\ (NoOptions(wire) /\ NoOptions(calls) => NoOptions(wire'))
  BY <1>2 DEF OptionsCalls, NoOptions
<1>5. \A a : Under(calls, a) \/ Under(wire, a) => Under(wire', a)  BY <1>3 DEF Under
<1>. QED BY <1>4, <1>5

LEMMA OptionsReplied ==
  ASSUME Sound(wire), OptionsCalls(wire), NEW i \in DOMAIN wire, NEW a, Reply(i, a),
         Opts(wire[i]) => a = Error \/ a = Answer(Below(wire[i].at[2], wire[i].at[3]))
  PROVE  /\ OptionsCalls(wire') /\ (NoOptions(wire) => NoOptions(wire'))
         /\ \A b : b[1] = "options" /\ Under(wire, b) => Under(wire', b)
<1>1. /\ \A k \in DOMAIN wire' :
           \/ \E j \in DOMAIN wire \ {i} : wire'[k] = wire[j]
           \/ /\ wire[i].heard /\ wire'[k].op = wire[i].op /\ wire'[k].at = wire[i].at
              /\ wire'[k].answer = a /\ wire'[k].heard
      /\ \A j \in DOMAIN wire \ {i} : \E k \in DOMAIN wire' : wire'[k] = wire[j]
      /\ wire[i].heard => \E k \in DOMAIN wire' : /\ wire'[k].op = wire[i].op /\ wire'[k].at = wire[i].at
                                                  /\ wire'[k].answer = a /\ wire'[k].heard
  BY RepliedCalls DEF Sound
<1>2. ASSUME NEW k \in DOMAIN wire', Opts(wire'[k])  PROVE OptionsCall(wire'[k])
  <2>1. CASE \E j \in DOMAIN wire : wire'[k] = wire[j]  BY <1>2, <2>1 DEF OptionsCalls
  <2>2. CASE /\ wire[i].heard /\ wire'[k].op = wire[i].op /\ wire'[k].at = wire[i].at
             /\ wire'[k].answer = a /\ wire'[k].heard
    <3>1. Opts(wire[i])  BY <1>2, <2>2 DEF Opts
    <3>2. OptionsCall(wire[i])  BY <3>1 DEF OptionsCalls
    <3>3. Gives(wire'[k], {Below(wire[i].at[2], wire[i].at[3])})  BY <2>2, <3>1 DEF Gives
    <3>. QED BY <2>2, <3>2, <3>3 DEF OptionsCall
  <2>. QED BY <1>1, <2>1, <2>2
<1>3. NoOptions(wire) => NoOptions(wire')  BY <1>1 DEF NoOptions, Opts
<1>4. ASSUME NEW b, b[1] = "options", Under(wire, b)  PROVE Under(wire', b)
  <2>1. PICK j \in DOMAIN wire : wire[j].at = b  BY <1>4 DEF Under
  <2>2. wire[j].heard
    <3>1. Opts(wire[j])  BY <1>4, <2>1 DEF Opts
    <3>. QED BY <3>1 DEF OptionsCalls, OptionsCall
  <2>. QED BY <1>1, <2>1, <2>2 DEF Under
<1>. QED BY <1>2, <1>3, <1>4 DEF OptionsCalls

(* When the form goes, no read of options is left.                         *)
LEMMA OptionsLeft ==
  ASSUME NEW w, Sound(w), OptionsCalls(w), NEW lists, "options" \in lists, NEW o, NEW l
  PROVE  NoOptions(Orphan(Leave(w, lists), o, l))
<1>. DEFINE u == Leave(w, lists)
            v == Orphan(u, o, l)
<1>1. /\ Sound(u)
      /\ \A k \in DOMAIN u :
           /\ u[k].heard \/ (u[k].op # "read" /\ u[k].answer = NotYet)
           /\ \E j \in DOMAIN w : Same(u[k], w[j]) /\ u[k].heard = (w[j].heard /\ w[j].at[1] \notin lists)
  BY LeftCalls, SoundLeave DEF Sound
<1>. HIDE DEF u
<1>2. NoOptions(u)
  <2>. SUFFICES ASSUME NEW k \in DOMAIN u, Opts(u[k]) PROVE FALSE  BY DEF NoOptions
  <2>1. PICK j \in DOMAIN w : Same(u[k], w[j]) /\ u[k].heard = (w[j].heard /\ w[j].at[1] \notin lists)
    BY <1>1
  <2>2. Opts(w[j])  BY <2>1, OptionsSame
  <2>3. w[j].op = "read" /\ w[j].at[1] = "options"  BY <2>2 DEF Opts, OptionsCalls, OptionsCall
  <2>. QED BY <1>1, <2>1, <2>3 DEF Same
<1>3. DOMAIN v = DOMAIN u /\ \A k \in DOMAIN u : Same(v[k], u[k])  BY <1>1, OrphanIs DEF Sound
<1>. HIDE DEF v
<1>4. NoOptions(v)  BY <1>2, <1>3, OptionsSame DEF NoOptions
<1>. QED BY <1>4 DEF u, v

LEMMA Selected3 ==
  ASSUME NEW s, NEW c, Chosen(s, c), ~Ready(4, s, c)
  PROVE  ~Ready(4, source', choice') /\ options'[4] = {} /\ choice'[4] = None
<1>1. source' = s /\ choice'[4] = None /\ options'[4] = {}  BY DEF Chosen
<1>2. CASE s # "postgres"  BY <1>1, <1>2 DEF Ready
<1>3. CASE s = "postgres"
  <2>1. 4 - 1 = 3  OBVIOUS
  <2>2. PICK j \in 1 .. 3 : c[j] = None  BY <1>3, <2>1 DEF Ready
  <2>3. choice'[j] = None  BY <2>2 DEF Chosen
  <2>. QED BY <1>1, <2>1, <2>2, <2>3 DEF Ready
<1>. QED BY <1>1, <1>2, <1>3

LEMMA Selected4 ==
  ASSUME NEW s, NEW c \in [1 .. 4 -> Name \cup {None}], Chosen(s, c), Ready(4, s, c),
         options \in [1 .. 4 -> SUBSET Name]
  PROVE  source' = s /\ choice' = c /\ options' = options /\ Ready(4, source', choice')
<1>1. \A k \in 1 .. 4 : ~(k > 1 /\ ~Ready(k, s, c))  BY DEF Ready
<1>2. choice' = [k \in 1 .. 4 |-> c[k]]  BY <1>1 DEF Chosen
<1>3. options' = [k \in 1 .. 4 |-> options[k]]  BY <1>1 DEF Chosen
<1>. QED BY <1>2, <1>3 DEF Chosen

LEMMA SelectsKept ==
  ASSUME SelectsTyped, NEW s \in {"mongodb", "postgres"}, NEW c \in [1 .. 4 -> Name \cup {None}], Chosen(s, c),
         astray' \in BOOLEAN
  PROVE  SelectsTyped'
<1>1. options' \in [1 .. 4 -> SUBSET Name]  BY DEF Chosen, SelectsTyped
<1>2. choice' \in [1 .. 4 -> Name \cup {None}]  BY DEF Chosen
<1>. QED BY <1>1, <1>2 DEF Chosen, SelectsTyped

(* A choice before the last makes the columns be read again, or leaves     *)
(* select 4 empty.                                                         *)
LEMMA ColumnChosen ==
  ASSUME SelectsTyped, Sound(wire), OptionsCalls(wire),
         NEW s, NEW c \in [1 .. 4 -> Name \cup {None}], Chosen(s, c), Send(Reads(s, c)),
         s # source \/ \E j \in 1 .. 3 : c[j] # choice[j]
  PROVE  ColumnInv'
<1>1. CASE ~Ready(4, s, c)  BY <1>1, Selected3 DEF ColumnInv
<1>2. CASE Ready(4, s, c)
  <2>1. choice' = c /\ Ready(4, source', choice')  BY <1>2, Selected4 DEF SelectsTyped
  <2>2. Reread(4, s, c)
    <3>1. 4 - 1 = 3  OBVIOUS
    <3>. QED BY <1>2, <3>1 DEF Reread
  <2>3. Under(wire', Columns(c))
    <3>. DEFINE q == Reads(s, c)
    <3>1. Sound(q) /\ OptionsCalls(q) /\ Under(q, Columns(c)) /\ Send(q)  BY <2>2, ReadsAre
    <3>. HIDE DEF q
    <3>. QED BY <3>1, OptionsSent
  <2>. QED BY <2>1, <2>3 DEF ColumnInv
<1>. QED BY <1>1, <1>2

(* The steps that change nothing of the selects.                           *)
LEMMA DialogsSame ==
  ASSUME DialogsInv, UNCHANGED <<dialog, source, choice, options, astray>>,
         OptionsCalls(wire'), NoOptions(wire) => NoOptions(wire'),
         \A b : b[1] = "options" /\ Under(wire, b) => Under(wire', b)
  PROVE  DialogsInv'
<1>1. UNCHANGED <<source, choice, options>>  OBVIOUS
<1>2. SelectsTyped'  BY <1>1 DEF DialogsInv, SelectsTyped
<1>3. dialog' # "collection" => NoOptions(wire')  BY DEF DialogsInv
<1>4. Columns(choice)[1] = "options"  BY DEF Columns
<1>5. ColumnInv => ColumnInv'  BY <1>1, <1>4 DEF ColumnInv, Ready
<1>. QED BY <1>2, <1>3, <1>5 DEF DialogsInv

(* The dialogs start, and end, with nothing chosen.                        *)
LEMMA DialogsAnew ==
  ASSUME NEW d, Reset(d), NoOptions(wire')
  PROVE  DialogsInv'
<1>1. /\ source' = "mongodb" /\ choice' = NoChoice /\ options' = [k \in 1 .. 4 |-> {}] /\ astray' = FALSE
  BY DEF Reset
<1>2. NoChoice \in [1 .. 4 -> Name \cup {None}] /\ NoChoice[4] = None  BY DEF NoChoice
<1>3. SelectsTyped'  BY <1>1, <1>2 DEF SelectsTyped
<1>4. ColumnInv'  BY <1>1, <1>2 DEF ColumnInv, Ready
<1>5. OptionsCalls(wire')  BY DEF NoOptions, OptionsCalls
<1>. QED BY <1>3, <1>4, <1>5 DEF DialogsInv

(* The options come.                                                       *)
LEMMA ColumnsCome ==
  ASSUME Sound(wire), DialogsInv, NEW i \in DOMAIN wire, OptionsCome(i)
  PROVE  DialogsInv'
<1>. DEFINE k == wire[i].at[2]
            v == Value(i)
            c == [choice EXCEPT ![k] = Default(k, v)]
            q == Reads(source, c)
<1>1. /\ wire' = After(i, q) /\ source' = source /\ choice' = c /\ options' = [options EXCEPT ![k] = v]
      /\ astray' = (astray \/ source = "mongodb" \/ wire[i].at[3] # SubSeq(choice, 1, k - 1))
      /\ dialog' = dialog /\ Came(i, "read") /\ wire[i].at[1] = "options"
  BY DEF OptionsCome
<1>2. OptionsCall(wire[i])  BY <1>1 DEF DialogsInv, OptionsCalls, Opts
<1>3. k \in 1 .. 4 /\ v = Below(k, wire[i].at[3])
  <2>1. wire[i].answer \notin {NotYet, Error}  BY <1>1 DEF Came
  <2>. QED BY <1>2, <2>1, AnswerIs DEF OptionsCall, Gives, Value
<1>4. SelectsTyped  BY DEF DialogsInv
<1>. DEFINE x == Default(k, v)
<1>5. x \in v \cup {choice[k]} /\ (v = {} => x = choice[k]) /\ (k = 4 /\ v # {} => x \in v)  BY DefaultIs
<1>. HIDE DEF k, v, x
<1>6. v \subseteq Name /\ x \in Name \cup {None}  BY <1>3, <1>4, <1>5, NoTable DEF SelectsTyped
<1>7. c = [choice EXCEPT ![k] = x]  BY DEF x
<1>. HIDE DEF c
<1>8. c \in [1 .. 4 -> Name \cup {None}]  BY <1>3, <1>4, <1>6, <1>7 DEF SelectsTyped
<1>9. SelectsTyped'  BY <1>1, <1>3, <1>4, <1>6, <1>8 DEF SelectsTyped
<1>10. dialog = "collection"  BY <1>1 DEF DialogsInv, NoOptions, Opts
<1>11. /\ OptionsCalls(wire')
       /\ \A a : Under(q, a) \/ (Under(wire, a) /\ wire[i].at # a) => Under(wire', a)
  <2>1. Sound(q) /\ OptionsCalls(q)  BY ReadsAre
  <2>. HIDE DEF q
  <2>. QED BY <1>1, <2>1, OptionsAfter DEF DialogsInv
<1>12. ASSUME ~astray'  PROVE ColumnInv'
  <2>1. ~astray /\ source = "postgres" /\ wire[i].at[3] = SubSeq(choice, 1, k - 1) /\ ColumnInv
    BY <1>1, <1>4, <1>12 DEF DialogsInv, SelectsTyped
  <2>2. CASE k = 4
    <3>1. \A j \in 1 .. 3 : c[j] = choice[j]  BY <1>4, <1>7, <1>8, <2>2 DEF SelectsTyped
    <3>2. 4 - 1 = 3  OBVIOUS
    <3>3. v = Below(4, choice) /\ Below(4, c) = Below(4, choice)
      BY <1>3, <1>4, <1>8, <2>1, <2>2, <3>1, <3>2, ThreeNames DEF SelectsTyped
    <3>4. options'[4] = v /\ c[4] = x  BY <1>1, <1>4, <1>7, <2>2 DEF SelectsTyped
    <3>5. CASE Ready(4, source, choice)
      <4>1. Ready(4, source', choice')  BY <1>1, <3>1, <3>2, <3>5 DEF Ready
      <4>. QED BY <1>1, <1>5, <2>2, <3>3, <3>4, <4>1 DEF ColumnInv
    <3>6. CASE ~Ready(4, source, choice)
      <4>1. ~Ready(4, source', choice')  BY <1>1, <3>1, <3>2, <3>6 DEF Ready
      <4>2. choice[4] = None  BY <2>1, <3>6 DEF ColumnInv
      <4>3. v = {}
        <5>1. PICK j \in 1 .. 3 : choice[j] = None  BY <2>1, <3>2, <3>6 DEF Ready
        <5>. QED BY <3>3, <5>1, NoTable
      <4>. QED BY <1>1, <1>5, <2>2, <3>4, <4>1, <4>2, <4>3 DEF ColumnInv
    <3>. QED BY <3>5, <3>6
  <2>3. CASE k # 4 /\ x = choice[k]
    <3>1. c = choice  BY <1>4, <1>7, <2>3 DEF SelectsTyped
    <3>2. options'[4] = options[4]  BY <1>1, <1>3, <1>4, <2>3 DEF SelectsTyped
    <3>3. Under(wire, Columns(choice)) => Under(wire', Columns(choice))
      <4>1. Columns(choice)[2] = 4  BY DEF Columns
      <4>2. wire[i].at # Columns(choice)  BY <2>3, <4>1 DEF k
      <4>. QED BY <1>11, <4>2
    <3>. QED BY <1>1, <2>1, <3>1, <3>2, <3>3 DEF ColumnInv
  <2>4. CASE k # 4 /\ x # choice[k]
    <3>1. k \in 1 .. 3 /\ c[k] = x /\ x \in Name /\ x # None
      BY <1>3, <1>4, <1>5, <1>6, <1>7, <2>4, DialogsAssumption DEF SelectsTyped
    <3>2. options'[4] = options[4] /\ c[4] = choice[4]  BY <1>1, <1>3, <1>4, <1>7, <2>4 DEF SelectsTyped
    <3>3. CASE Ready(4, source, c)
      <4>1. 4 - 1 = 3  OBVIOUS
      <4>2. Reread(4, source, c)  BY <2>4, <3>1, <3>3, <4>1 DEF Reread
      <4>3. Under(q, Columns(c))  BY <4>2, ReadsAre
      <4>. QED BY <1>1, <1>11, <3>3, <4>3 DEF ColumnInv
    <3>4. CASE ~Ready(4, source, c)
      <4>1. 4 - 1 = 3  OBVIOUS
      <4>2. ~Ready(4, source, choice)
        <5>1. PICK j \in 1 .. 3 : c[j] = None  BY <2>1, <3>4, <4>1 DEF Ready
        <5>2. j # k  BY <3>1, <5>1
        <5>3. choice[j] = None  BY <1>4, <1>7, <5>1, <5>2 DEF SelectsTyped
        <5>. QED BY <4>1, <5>3 DEF Ready
      <4>. QED BY <1>1, <2>1, <3>2, <3>4, <4>2 DEF ColumnInv
    <3>. QED BY <3>3, <3>4
  <2>. QED BY <2>2, <2>3, <2>4
<1>. QED BY <1>1, <1>9, <1>10, <1>11, <1>12 DEF DialogsInv

(* The calls that are no reads of options.                                 *)
LEMMA OtherCall ==
  ASSUME NEW o, NEW a, a[1] # "options"
  PROVE  LET q == <<Call(o, a)>> IN Sound(q) /\ NoOptions(q) /\ OptionsCalls(q)
<1>. DEFINE d == Call(o, a)
<1>1. Sound(<<d>>)  BY SoundCall
<1>2. d.at = a  BY CallIs
<1>. HIDE DEF d
<1>3. \A k \in DOMAIN <<d>> : <<d>>[k] = d  OBVIOUS
<1>4. NoOptions(<<d>>)  BY <1>2, <1>3 DEF NoOptions, Opts
<1>5. OptionsCalls(<<d>>)  BY <1>4 DEF NoOptions, OptionsCalls
<1>. QED BY <1>1, <1>4, <1>5 DEF d

LEMMA NothingSent == Sound(<<>>) /\ NoOptions(<<>>) /\ OptionsCalls(<<>>)
<1>1. Sound(<<>>)  BY SoundCall
<1>2. DOMAIN <<>> = {}  OBVIOUS
<1>. QED BY <1>1, <1>2 DEF NoOptions, OptionsCalls

(* The requests of the dialogs are served.                                 *)
LEMMA DialogsServed ==
  ASSUME Sound(wire), DialogsInv, NEW i \in DOMAIN wire,
         ServeOptions(i) \/ ServeDiscover(i) \/ ServeCreate(i) \/ ServeToken(i) \/ (Fail(i) /\ UNCHANGED dvars)
  PROVE  DialogsInv'
<1>1. OptionsCalls(wire)  BY DEF DialogsInv
<1>2. ASSUME NEW a, Reply(i, a), Opts(wire[i]) => a = Error \/ a = Answer(Below(wire[i].at[2], wire[i].at[3])),
             UNCHANGED dvars
      PROVE  DialogsInv'
  <2>1. /\ OptionsCalls(wire') /\ (NoOptions(wire) => NoOptions(wire'))
        /\ \A b : b[1] = "options" /\ Under(wire, b) => Under(wire', b)
    BY <1>1, <1>2, OptionsReplied
  <2>2. UNCHANGED <<dialog, source, choice, options, astray>>  BY <1>2 DEF dvars, form
  <2>. QED BY <2>1, <2>2, DialogsSame
<1>3. wire[i].op # "read" => ~Opts(wire[i])  BY <1>1 DEF OptionsCalls, OptionsCall
<1>4. CASE ServeOptions(i)  BY <1>2, <1>4 DEF ServeOptions
<1>5. CASE ServeDiscover(i)
  <2>1. Reply(i, Answer("fields")) /\ UNCHANGED dvars /\ ~Opts(wire[i])  BY <1>3, <1>5 DEF ServeDiscover
  <2>. QED BY <1>2, <2>1
<1>6. CASE ServeCreate(i)
  <2>1. ~Opts(wire[i]) /\ UNCHANGED dvars  BY <1>3, <1>6 DEF ServeCreate
  <2>2. \E a : Reply(i, a)  BY <1>6 DEF ServeCreate
  <2>. QED BY <1>2, <2>1, <2>2
<1>7. CASE ServeToken(i)
  <2>1. ~Opts(wire[i]) /\ UNCHANGED dvars /\ Reply(i, Answer(wire[i].at[2]))  BY <1>3, <1>7 DEF ServeToken
  <2>. QED BY <1>2, <2>1
<1>8. CASE Fail(i) /\ UNCHANGED dvars  BY <1>2, <1>8 DEF Fail
<1>. QED BY <1>4, <1>5, <1>6, <1>7, <1>8

(* A handler that reads no options goes on.                                *)
LEMMA DialogsGoOn ==
  ASSUME Sound(wire), DialogsInv, NEW i \in DOMAIN wire,
         Discovered(i) \/ CollectionCreated(i) \/ TokenComes(i) \/ DialogCallFails(i)
  PROVE  DialogsInv'
<1>. DEFINE u == After(i, <<>>)
<1>1. OptionsCalls(wire)  BY DEF DialogsInv
<1>2. /\ Sound(u) /\ OptionsCalls(u) /\ (NoOptions(wire) => NoOptions(u))
      /\ \A a : Under(wire, a) /\ wire[i].at # a => Under(u, a)
  BY <1>1, NothingSent, OptionsAfter
<1>. HIDE DEF u
<1>3. wire[i].op # "read" => ~Opts(wire[i])  BY <1>1 DEF OptionsCalls, OptionsCall
<1>4. ASSUME wire' = u, UNCHANGED <<dialog, source, choice, options, astray>>, ~Opts(wire[i])  PROVE DialogsInv'
  <2>1. \A b : b[1] = "options" /\ Under(wire, b) => Under(wire', b)  BY <1>2, <1>4 DEF Opts
  <2>. QED BY <1>2, <1>4, <2>1, DialogsSame
<1>5. CASE Discovered(i)
  <2>1. wire' = u /\ UNCHANGED <<dialog, source, choice, options, astray>>  BY <1>5 DEF Discovered, u
  <2>2. ~Opts(wire[i])  BY <1>3, <1>5 DEF Discovered, Came
  <2>. QED BY <1>4, <2>1, <2>2
<1>6. CASE TokenComes(i)
  <2>1. wire' = u /\ UNCHANGED <<dialog, source, choice, options, astray>>  BY <1>6 DEF TokenComes, form, u
  <2>2. ~Opts(wire[i])  BY <1>3, <1>6 DEF TokenComes, Came
  <2>. QED BY <1>4, <2>1, <2>2
<1>7. CASE CollectionCreated(i)
  <2>1. ~Opts(wire[i])  BY <1>3, <1>7 DEF CollectionCreated, Came
  <2>2. CASE dialog = "collection"
    <3>1. Reset("none") /\ wire' = Orphan(Leave(u, {"options", "fields"}), "create", "collection")
      BY <1>7, <2>2 DEF CollectionCreated, u
    <3>2. NoOptions(wire')  BY <1>2, <3>1, OptionsLeft
    <3>. QED BY <3>1, <3>2, DialogsAnew
  <2>3. CASE dialog # "collection"
    <3>1. wire' = u /\ UNCHANGED <<dialog, source, choice, options, astray>>
      BY <1>7, <2>3 DEF CollectionCreated, u, dvars, form
    <3>. QED BY <1>4, <2>1, <3>1
  <2>. QED BY <2>2, <2>3
<1>8. CASE DialogCallFails(i)
  <2>1. wire' = u /\ astray' = (astray \/ (wire[i].op = "read" /\ dialog = "collection"))
        /\ UNCHANGED <<dialog, source, choice, options>>
    BY <1>8 DEF DialogCallFails, form, u
  <2>2. CASE Opts(wire[i])
    <3>1. dialog = "collection"  BY <2>2 DEF DialogsInv, NoOptions
    <3>2. wire[i].op = "read"  BY <1>3, <2>2
    <3>3. astray'  BY <2>1, <3>1, <3>2
    <3>5. SelectsTyped'  BY <2>1 DEF DialogsInv, SelectsTyped
    <3>. QED BY <1>2, <2>1, <3>1, <3>3, <3>5 DEF DialogsInv
  <2>3. CASE ~Opts(wire[i]) /\ astray' = astray  BY <1>4, <2>1, <2>3
  <2>4. CASE ~Opts(wire[i]) /\ astray' # astray
    <3>1. astray'  BY <2>1, <2>4 DEF DialogsInv, SelectsTyped
    <3>3. SelectsTyped'  BY <2>1 DEF DialogsInv, SelectsTyped
    <3>4. dialog' # "collection" => NoOptions(wire')  BY <1>2, <2>1 DEF DialogsInv
    <3>. QED BY <1>2, <2>1, <3>1, <3>3, <3>4 DEF DialogsInv
  <2>. QED BY <2>2, <2>3, <2>4
<1>. QED BY <1>5, <1>6, <1>7, <1>8

(* A choice is made in a select.                                           *)
LEMMA SelectChosen ==
  ASSUME Sound(wire), DialogsInv, NEW k \in 1 .. 4, NEW x \in Name, Choose(k, x)
  PROVE  DialogsInv'
<1>. DEFINE c == [choice EXCEPT ![k] = x]
            q == Reads(source, c)
<1>1. SelectsTyped /\ OptionsCalls(wire)  BY DEF DialogsInv
<1>2. /\ dialog = "collection" /\ dialog' = dialog /\ astray' = astray
      /\ source = "postgres" /\ x \in options[k] /\ x # choice[k] /\ Send(q) /\ Chosen(source, c)
  BY DEF Choose, Free
<1>3. c \in [1 .. 4 -> Name \cup {None}] /\ c[k] = x /\ \A j \in 1 .. 4 \ {k} : c[j] = choice[j]
  BY <1>1 DEF SelectsTyped
<1>. DEFINE C == c
<1>4. SelectsTyped'  BY <1>1, <1>2, <1>3, SelectsKept DEF SelectsTyped
<1>5. /\ OptionsCalls(wire')
      /\ \A a : Under(q, a) \/ Under(wire, a) => Under(wire', a)
  <2>1. Sound(q) /\ OptionsCalls(q)  BY ReadsAre
  <2>. HIDE DEF q
  <2>. QED BY <1>1, <1>2, <2>1, OptionsSent
<1>. HIDE DEF C
<1>6. ASSUME ~astray  PROVE ColumnInv'
  <2>1. ColumnInv  BY <1>6 DEF DialogsInv
  <2>2. CASE k # 4
    <3>1. k \in 1 .. 3  BY <2>2
    <3>2. \E j \in 1 .. 3 : c[j] # choice[j]  BY <1>2, <1>3, <3>1
    <3>. HIDE DEF c, q
    <3>3. Send(Reads(source, c))  BY <1>2 DEF q
    <3>. QED BY <1>1, <1>2, <1>3, <3>2, <3>3, ColumnChosen
  <2>3. CASE k = 4
    <3>. HIDE DEF c, q
    <3>1. Ready(4, source, choice)  BY <1>2, <2>1, <2>3 DEF ColumnInv
    <3>2. \A j \in 1 .. 3 : c[j] = choice[j]  BY <1>3, <2>3
    <3>3. Ready(4, source, c)
      <4>1. 4 - 1 = 3  OBVIOUS
      <4>. QED BY <3>1, <3>2, <4>1 DEF Ready
    <3>4. source' = source /\ choice' = c /\ options' = options /\ Ready(4, source', choice')
      BY <1>1, <1>2, <1>3, <3>3, Selected4 DEF SelectsTyped
    <3>5. Columns(c) = Columns(choice) /\ Below(4, c) = Below(4, choice)
      BY <1>1, <1>3, <3>2, ThreeNames DEF SelectsTyped
    <3>6. CASE Under(wire, Columns(choice))
      BY <1>5, <3>4, <3>5, <3>6 DEF ColumnInv
    <3>7. CASE options[4] \subseteq Below(4, choice)
      BY <1>2, <1>3, <2>3, <3>4, <3>5, <3>7 DEF ColumnInv
    <3>8. CASE Below(4, choice) = {}  BY <3>4, <3>5, <3>8 DEF ColumnInv
    <3>. QED BY <2>1, <3>1, <3>6, <3>7, <3>8 DEF ColumnInv
  <2>. QED BY <2>2, <2>3
<1>. QED BY <1>2, <1>4, <1>5, <1>6 DEF DialogsInv

(* Another source is chosen.                                               *)
LEMMA SourceChosen ==
  ASSUME Sound(wire), DialogsInv, NEW s \in {"mongodb", "postgres"}, ChooseSource(s)
  PROVE  DialogsInv'
<1>. DEFINE q == Reads(s, choice)
<1>1. SelectsTyped /\ OptionsCalls(wire) /\ choice \in [1 .. 4 -> Name \cup {None}]
  BY DEF DialogsInv, SelectsTyped
<1>2. dialog' = dialog /\ astray' = astray /\ dialog = "collection" /\ s # source /\ Send(q) /\ Chosen(s, choice)
  BY DEF ChooseSource, Free
<1>3. SelectsTyped'  BY <1>1, <1>2, SelectsKept DEF SelectsTyped
<1>4. ColumnInv'  BY <1>1, <1>2, ColumnChosen
<1>5. OptionsCalls(wire')
  <2>1. Sound(q) /\ OptionsCalls(q)  BY ReadsAre
  <2>. HIDE DEF q
  <2>. QED BY <1>1, <1>2, <2>1, OptionsSent
<1>. QED BY <1>2, <1>3, <1>4, <1>5 DEF DialogsInv

(* The other clicks.                                                       *)
LEMMA DialogsSent ==
  ASSUME Sound(wire), DialogsInv, NEW o, NEW a, a[1] # "options", Send(<<Call(o, a)>>), UNCHANGED dvars
  PROVE  DialogsInv'
<1>. DEFINE q == <<Call(o, a)>>
<1>1. Sound(q) /\ NoOptions(q) /\ OptionsCalls(q) /\ Send(q)  BY OtherCall
<1>. HIDE DEF q
<1>2. /\ OptionsCalls(wire') /\ (NoOptions(wire) => NoOptions(wire'))
      /\ \A b : Under(wire, b) => Under(wire', b)
  BY <1>1, OptionsSent DEF DialogsInv
<1>3. UNCHANGED <<dialog, source, choice, options, astray>>  BY DEF dvars, form
<1>. QED BY <1>2, <1>3, DialogsSame

LEMMA DialogsClicked ==
  ASSUME Sound(wire), DialogsInv, DialogsClick
  PROVE  DialogsInv'
<1>. USE DEF DialogsInv
<1>1. ASSUME NEW d, OpenDialog(d)  PROVE DialogsInv'
  <2>1. NoOptions(wire') /\ Reset(d)  BY <1>1 DEF OpenDialog
  <2>. QED BY <2>1, DialogsAnew
<1>2. CASE CloseDialog
  <2>1. Reset("none") /\ wire' = Orphan(Leave(wire, {"options", "fields", "token"}), "create", "collection")
    BY <1>2 DEF CloseDialog
  <2>2. NoOptions(wire')  BY <2>1, OptionsLeft
  <2>. QED BY <2>1, <2>2, DialogsAnew
<1>3. CASE Discover
  <2>1. <<"fields">>[1] # "options"  OBVIOUS
  <2>. QED BY <1>3, <2>1, DialogsSent DEF Discover
<1>4. CASE SubmitCollection
  <2>1. <<"collection", source, choice>>[1] # "options"  OBVIOUS
  <2>. QED BY <1>4, <2>1, DialogsSent DEF SubmitCollection
<1>5. CASE GenerateToken
  <2>. DEFINE a == <<"token", IF custom /\ rules # <<>> THEN Used ELSE Coll>>
  <2>1. a[1] # "options" /\ Send(<<Call("token", a)>>) /\ UNCHANGED dvars  BY <1>5 DEF GenerateToken
  <2>. HIDE DEF a
  <2>. QED BY <2>1, DialogsSent
<1>6. ASSUME UNCHANGED <<dialog, source, choice, options, astray, wire>>  PROVE DialogsInv'
  <2>1. \A b : Under(wire, b) => Under(wire', b)  BY <1>6 DEF Under
  <2>2. OptionsCalls(wire') /\ (NoOptions(wire) => NoOptions(wire'))  BY <1>6
  <2>. HIDE DEF DialogsInv
  <2>. QED BY <1>6, <2>1, <2>2, DialogsSame
<1>7. CASE TickRules  BY <1>6, <1>7 DEF TickRules, form
<1>8. CASE AddRule  BY <1>6, <1>8 DEF AddRule, form
<1>9. ASSUME NEW n, RemoveRule(n)  PROVE DialogsInv'  BY <1>6, <1>9 DEF RemoveRule, form
<1>10. ASSUME NEW n, NEW c, UpdateRule(n, c)  PROVE DialogsInv'  BY <1>6, <1>10 DEF UpdateRule, form
<1>11. ASSUME NEW s \in {"mongodb", "postgres"}, ChooseSource(s)  PROVE DialogsInv'  BY <1>11, SourceChosen
<1>12. ASSUME NEW k \in 1 .. 4, NEW x \in Name, Choose(k, x)  PROVE DialogsInv'  BY <1>12, SelectChosen
<1>. HIDE DEF DialogsInv
<1>. QED BY <1>1, <1>2, <1>3, <1>4, <1>5, <1>7, <1>8, <1>9, <1>10, <1>11, <1>12, Zenon DEF DialogsClick

(* The dialogs, and what the other pages leave of them.                    *)
DialogsPageInv == IF mounted = "dialogs" THEN DialogsInv ELSE choice = NoChoice

LEMMA DialogsPageKept == AdminSpec => []DialogsPageInv
<1>1. AdminInit => DialogsPageInv
  <2>. SUFFICES ASSUME AdminInit PROVE DialogsPageInv  OBVIOUS
  <2>1. DialogsStart /\ wire = CASE mounted = "projects"  -> ReadAll({"projects"})
                                 [] mounted = "databases" -> <<ReadDbs>>
                                 [] mounted = "tasks"     -> ReadTasks
                                 [] OTHER                 -> <<>>
    BY DEF AdminInit
  <2>2. choice = NoChoice  BY <2>1 DEF DialogsStart
  <2>3. ASSUME mounted = "dialogs"  PROVE DialogsInv
    <3>1. wire = <<>>  BY <2>1, <2>3
    <3>2. NoOptions(wire) /\ OptionsCalls(wire)  BY <3>1, NothingSent
    <3>3. /\ source = "mongodb" /\ options = [k \in 1 .. 4 |-> {}] /\ astray = FALSE
      BY <2>1 DEF DialogsStart
    <3>4. NoChoice \in [1 .. 4 -> Name \cup {None}] /\ NoChoice[4] = None  BY DEF NoChoice
    <3>5. SelectsTyped  BY <2>2, <3>3, <3>4 DEF SelectsTyped
    <3>6. ColumnInv  BY <2>2, <3>3, <3>4 DEF ColumnInv, Ready
    <3>. QED BY <3>2, <3>5, <3>6 DEF DialogsInv
  <2>. QED BY <2>2, <2>3 DEF DialogsPageInv
<1>2. DialogsPageInv /\ Sound(wire) /\ [AdminNext]_all => DialogsPageInv'
  <2>. SUFFICES ASSUME DialogsPageInv, Sound(wire), [AdminNext]_all PROVE DialogsPageInv'  OBVIOUS
  <2>1. CASE OnDialogs(DialogsNext)
    <3>1. mounted = "dialogs" /\ mounted' = mounted /\ DialogsNext  BY <2>1 DEF OnDialogs
    <3>2. DialogsInv  BY <3>1 DEF DialogsPageInv
    <3>3. DialogsInv'
      <4>1. ASSUME NEW i \in DOMAIN wire, DialogsStep(i) \/ (Fail(i) /\ UNCHANGED dvars)  PROVE DialogsInv'
        BY <3>2, <4>1, DialogsServed, DialogsGoOn, ColumnsCome, Zenon DEF DialogsStep
      <4>. QED BY <3>1, <3>2, <4>1, DialogsClicked DEF DialogsNext
    <3>. QED BY <3>1, <3>3 DEF DialogsPageInv
  <2>2. CASE OnProjects(ProjectsNext) \/ OnDatabases(PanelsNext) \/ OnTasksPage(TasksNext)
    <3>1. mounted # "dialogs" /\ mounted' = mounted /\ UNCHANGED dvars
      BY <2>2 DEF OnProjects, OnDatabases, OnTasksPage
    <3>. QED BY <3>1 DEF DialogsPageInv, dvars, form
  <2>3. CASE UNCHANGED all
    <3>1. UNCHANGED <<mounted, wire>> /\ UNCHANGED dvars  BY <2>3 DEF all
    <3>2. DialogsInv' <=> DialogsInv
      BY <3>1 DEF DialogsInv, SelectsTyped, ColumnInv, Ready, dvars, form
    <3>3. choice' = choice  BY <3>1 DEF dvars, form
    <3>. QED BY <3>1, <3>2, <3>3 DEF DialogsPageInv
  <2>. QED BY <2>1, <2>2, <2>3 DEF AdminNext
<1>. QED BY <1>1, <1>2, WireSound, PTL DEF AdminSpec

(* When the options of all selects have come, and none failed or came for  *)
(* choices since changed, the id column of a new collection is one of the  *)
(* table chosen (the effects of CreateCollectionDialog in projects.tsx),   *)
(* for any database.                                                       *)
THEOREM ColumnOfTable == AdminSpec => []IdColumnOfTable
<1>1. DialogsPageInv => IdColumnOfTable
  <2>. SUFFICES ASSUME DialogsPageInv, ~astray, ~\E i \in DOMAIN wire : wire[i].at[1] = "options",
                       choice[4] # None, Below(4, choice) # {}
                PROVE  choice[4] \in Below(4, choice)
    BY DEF IdColumnOfTable
  <2>1. mounted = "dialogs"
    <3>1. NoChoice[4] = None  BY DEF NoChoice
    <3>. QED BY <3>1 DEF DialogsPageInv
  <2>2. ColumnInv  BY <2>1 DEF DialogsPageInv, DialogsInv
  <2>3. ~Under(wire, Columns(choice))
    <3>1. Columns(choice)[1] = "options"  BY DEF Columns
    <3>. QED BY <3>1 DEF Under
  <2>. QED BY <2>2, <2>3 DEF ColumnInv
<1>. QED BY <1>1, DialogsPageKept, PTL

=============================================================================
