-------------------------- MODULE StorageTreeProofs --------------------------
(***************************************************************************)
(* Proofs about StorageTree: types, that the search index follows the      *)
(* rows, and that rows, paths and disk agree, for any folders, files and   *)
(* names, trees of any depth and any number of faults.                     *)
(*                                                                         *)
(* Paths come first: prefixes, what a rename of a directory makes of the   *)
(* paths below it, and that SQL REPLACE makes the same of the rows when no *)
(* folder has the name of the root.  Induction on a number is the choice   *)
(* of a least counterexample (LeastNumber).  Then the three invariants,    *)
(* TypeInv, SearchInv and TreeInv, step by step.                           *)
(***************************************************************************)
EXTENDS StorageTree, SequenceTheorems, WellFoundedInduction, TLAPS

(***************************************************************************)
(* Paths: sequences that begin with the name of the root folder.           *)
(***************************************************************************)

Segment == {RootName} \cup Name
Below == {p \in Path : Len(p) >= 2}

LEMMA PathIsSeq ==
  ASSUME NEW p \in Path
  PROVE  /\ p \in Seq(Segment) /\ Len(p) \in Nat /\ Len(p) >= 1
         /\ p[1] = RootName /\ \A i \in 2 .. Len(p) : p[i] \in Name
<1>1. p \in Seq(Segment) /\ p # <<>>  BY DEF Path, Segment
<1>2. Len(p) \in Nat /\ Len(p) # 0  BY <1>1, EmptySeq, LenProperties
<1>. QED BY <1>1, <1>2 DEF Path

LEMMA PathIs ==
  ASSUME NEW p \in Seq(Segment), Len(p) >= 1, p[1] = RootName, \A i \in 2 .. Len(p) : p[i] \in Name
  PROVE  p \in Path
BY DEF Path, Segment

LEMMA SegmentIs ==
  ASSUME NEW p \in Path, NEW i \in 1 .. Len(p)
  PROVE  p[i] \in Segment
BY PathIsSeq, ElementOfSeq

LEMMA RootIsPath == Root \in Path /\ Len(Root) = 1
BY DEF Root, Path

LEMMA PathsEqual ==
  ASSUME NEW p \in Path, NEW q \in Path, Len(p) = Len(q), \A i \in 1 .. Len(p) : p[i] = q[i]
  PROVE  p = q
BY PathIsSeq, SeqEqual

(* A prefix, segment by segment.                                           *)
LEMMA PrefixIs ==
  ASSUME NEW p \in Path, NEW q \in Path
  PROVE  IsPrefix(p, q) <=> Len(p) <= Len(q) /\ \A i \in 1 .. Len(p) : p[i] = q[i]
<1>1. Len(p) \in Nat /\ Len(q) \in Nat /\ p \in Seq(Segment) /\ q \in Seq(Segment)  BY PathIsSeq
<1>2. SubSeq(p, 1, Len(p)) = p  BY <1>1, SubSeqFull
<1>3. ASSUME Len(p) <= Len(q)
      PROVE  SubSeq(p, 1, Len(p)) = SubSeq(q, 1, Len(p)) <=> \A i \in 1 .. Len(p) : p[i] = q[i]
  <2>1. \A i \in 1 .. Len(p) : q[i] \in Segment  BY <1>1, <1>3, ElementOfSeq
  <2>2. /\ SubSeq(q, 1, Len(p)) \in Seq(Segment) /\ Len(SubSeq(q, 1, Len(p))) = Len(p)
        /\ \A i \in 1 .. Len(p) : SubSeq(q, 1, Len(p))[i] = q[i]
    BY <1>1, <2>1, SubSeqProperties
  <2>. QED BY <1>1, <1>2, <2>2, SeqEqual
<1>. QED BY <1>1, <1>3 DEF IsPrefix

LEMMA StrictPrefixIs ==
  ASSUME NEW p \in Path, NEW q \in Path
  PROVE  IsStrictPrefix(p, q) <=> Len(p) < Len(q) /\ \A i \in 1 .. Len(p) : p[i] = q[i]
<1>1. Len(p) \in Nat /\ Len(q) \in Nat  BY PathIsSeq
<1>. QED BY <1>1, PrefixIs, PathsEqual DEF IsStrictPrefix

LEMMA PrefixOfItself ==
  ASSUME NEW p \in Path
  PROVE  IsPrefix(p, p) /\ ~IsStrictPrefix(p, p)
BY PrefixIs, PathIsSeq DEF IsStrictPrefix

LEMMA PrefixTransitive ==
  ASSUME NEW p \in Path, NEW q \in Path, NEW r \in Path, IsPrefix(p, q), IsPrefix(q, r)
  PROVE  IsPrefix(p, r)
BY PrefixIs, PathIsSeq

(* The prefixes of a path are ordered by their length.                     *)
LEMMA PrefixesNested ==
  ASSUME NEW p \in Path, NEW q \in Path, NEW r \in Path, IsPrefix(p, r), IsPrefix(q, r)
  PROVE  IsPrefix(p, q) \/ IsPrefix(q, p)
BY PrefixIs, PathIsSeq

LEMMA PrefixBothWays ==
  ASSUME NEW p \in Path, NEW q \in Path, IsPrefix(p, q), IsPrefix(q, p)
  PROVE  p = q
BY PrefixIs, PathIsSeq, PathsEqual

(* A path with one more segment.                                           *)
LEMMA Appended ==
  ASSUME NEW p \in Path, NEW n \in Name
  PROVE  /\ Append(p, n) \in Below /\ Len(Append(p, n)) = Len(p) + 1
         /\ \A i \in 1 .. Len(p) : Append(p, n)[i] = p[i]
         /\ Append(p, n)[Len(p) + 1] = n
<1>1. p \in Seq(Segment) /\ Len(p) \in Nat /\ n \in Segment  BY PathIsSeq DEF Segment
<1>2. /\ Append(p, n) \in Seq(Segment) /\ Len(Append(p, n)) = Len(p) + 1
      /\ \A i \in 1 .. Len(p) : Append(p, n)[i] = p[i]
      /\ Append(p, n)[Len(p) + 1] = n
  BY <1>1, AppendProperties
<1>3. Append(p, n) \in Path
  <2>1. Len(p) >= 1 /\ p[1] = RootName /\ \A i \in 2 .. Len(p) : p[i] \in Name  BY PathIsSeq
  <2>2. Append(p, n)[1] = RootName  BY <1>1, <1>2, <2>1
  <2>3. ASSUME NEW i \in 2 .. Len(p) + 1  PROVE  Append(p, n)[i] \in Name
    <3>1. i \in 2 .. Len(p) \/ i = Len(p) + 1  BY <1>1
    <3>2. CASE i \in 2 .. Len(p)
      <4>1. i \in 1 .. Len(p)  BY <3>2, <1>1
      <4>. QED BY <3>2, <4>1, <1>2, <2>1
    <3>3. CASE i = Len(p) + 1  BY <3>3, <1>2
    <3>. QED BY <3>1, <3>2, <3>3
  <2>4. Len(Append(p, n)) >= 1  BY <1>1, <1>2
  <2>5. \A i \in 2 .. Len(Append(p, n)) : Append(p, n)[i] \in Name  BY <1>2, <2>3
  <2>. QED BY <1>2, <2>2, <2>4, <2>5, PathIs
<1>. QED BY <1>1, <1>2, <1>3, PathIsSeq DEF Below

LEMMA FrontOfAppend ==
  ASSUME NEW p \in Path, NEW n \in Name
  PROVE  Front(Append(p, n)) = p
<1>1. p \in Seq(Segment) /\ Len(p) \in Nat /\ Append(p, n) \in Path /\ Len(Append(p, n)) = Len(p) + 1
  BY PathIsSeq, Appended DEF Below
<1>2. \A i \in 1 .. Len(p) : Append(p, n)[i] = p[i] /\ p[i] \in Segment  BY Appended, SegmentIs
<1>3. /\ SubSeq(Append(p, n), 1, Len(p)) \in Seq(Segment) /\ Len(SubSeq(Append(p, n), 1, Len(p))) = Len(p)
      /\ \A i \in 1 .. Len(p) : SubSeq(Append(p, n), 1, Len(p))[i] = Append(p, n)[i]
  <2>1. \A i \in 1 .. Len(p) : Append(p, n)[i] \in Segment  BY <1>2
  <2>2. 1 \in Int /\ Len(p) \in Int  BY <1>1
  <2>. QED BY <1>1, <2>1, <2>2, SubSeqProperties
<1>4. SubSeq(Append(p, n), 1, Len(p)) = p  BY <1>1, <1>2, <1>3, SeqEqual
<1>5. Len(Append(p, n)) - 1 = Len(p)  BY <1>1
<1>. QED BY <1>4, <1>5 DEF Front

LEMMA FrontIsPath ==
  ASSUME NEW p \in Below
  PROVE  /\ Front(p) \in Path /\ Len(Front(p)) = Len(p) - 1
         /\ \A i \in 1 .. Len(p) - 1 : Front(p)[i] = p[i]
<1>1. p \in Path /\ Len(p) >= 2 /\ Len(p) \in Nat  BY PathIsSeq DEF Below
<1>2. \A i \in 1 .. Len(p) - 1 : p[i] \in Segment  BY <1>1, SegmentIs
<1>3. 1 \in Int /\ Len(p) - 1 \in Int  BY <1>1
<1>4. /\ Front(p) \in Seq(Segment) /\ Len(Front(p)) = Len(p) - 1
      /\ \A i \in 1 .. Len(p) - 1 : Front(p)[i] = p[i]
  BY <1>1, <1>2, <1>3, SubSeqProperties DEF Front
<1>. QED BY <1>1, <1>4, PathIsSeq, PathIs

(* What an appended path is under.                                         *)
LEMMA UnderAppended ==
  ASSUME NEW p \in Path, NEW n \in Name, NEW q \in Path
  PROVE  IsPrefix(q, Append(p, n)) <=> IsPrefix(q, p) \/ q = Append(p, n)
<1>1. Append(p, n) \in Path /\ Len(Append(p, n)) = Len(p) + 1 /\ \A i \in 1 .. Len(p) : Append(p, n)[i] = p[i]
  BY Appended DEF Below
<1>2. Len(p) \in Nat /\ Len(q) \in Nat  BY PathIsSeq
<1>3. ASSUME IsPrefix(q, Append(p, n)), q # Append(p, n)  PROVE  IsPrefix(q, p)
  <2>1. Len(q) <= Len(p) + 1 /\ \A i \in 1 .. Len(q) : q[i] = Append(p, n)[i]  BY <1>1, <1>3, PrefixIs
  <2>2. Len(q) # Len(p) + 1  BY <1>1, <1>3, <2>1, PathsEqual
  <2>. QED BY <1>1, <1>2, <2>1, <2>2, PrefixIs
<1>4. ASSUME IsPrefix(q, p)  PROVE  IsPrefix(q, Append(p, n))
  <2>1. Len(q) <= Len(p) /\ \A i \in 1 .. Len(q) : q[i] = p[i]  BY <1>4, PrefixIs
  <2>2. \A i \in 1 .. Len(q) : i \in 1 .. Len(p)  BY <1>2, <2>1
  <2>3. Len(q) <= Len(Append(p, n)) /\ \A i \in 1 .. Len(q) : q[i] = Append(p, n)[i]
    BY <1>1, <1>2, <2>1, <2>2
  <2>. QED BY <1>1, <2>3, PrefixIs
<1>5. IsPrefix(Append(p, n), Append(p, n))  BY <1>1, PrefixOfItself
<1>. QED BY <1>3, <1>4, <1>5

LEMMA StrictlyUnderAppended ==
  ASSUME NEW p \in Path, NEW n \in Name, NEW q \in Path
  PROVE  IsStrictPrefix(q, Append(p, n)) <=> IsPrefix(q, p)
<1>1. Append(p, n) \in Path /\ Len(Append(p, n)) = Len(p) + 1  BY Appended DEF Below
<1>2. ~IsPrefix(Append(p, n), p)
  <2>1. Len(p) \in Nat /\ ~(Len(Append(p, n)) <= Len(p))  BY <1>1, PathIsSeq
  <2>. QED BY <1>1, <2>1, PrefixIs
<1>. QED BY <1>2, UnderAppended DEF IsStrictPrefix

(***************************************************************************)
(* Renaming: what a rename of a directory makes of the paths below it.     *)
(***************************************************************************)

LEMMA RenamedIs ==
  ASSUME NEW p \in Path, NEW old \in Path, NEW new \in Path, IsPrefix(old, p)
  PROVE  /\ Renamed(p, old, new) = new \o SubSeq(p, Len(old) + 1, Len(p))
         /\ Renamed(p, old, new) \in Path
         /\ Len(Renamed(p, old, new)) = Len(new) + (Len(p) - Len(old))
         /\ \A i \in 1 .. Len(new) : Renamed(p, old, new)[i] = new[i]
         /\ \A i \in Len(old) + 1 .. Len(p) : Renamed(p, old, new)[Len(new) + (i - Len(old))] = p[i]
<1>. DEFINE rest == SubSeq(p, Len(old) + 1, Len(p))
            r == Renamed(p, old, new)
<1>1. /\ Len(p) \in Nat /\ Len(old) \in Nat /\ Len(new) \in Nat /\ Len(old) <= Len(p)
      /\ Len(old) >= 1 /\ Len(new) >= 1 /\ new \in Seq(Segment)
  BY PathIsSeq, PrefixIs
<1>2. r = new \o rest  BY DEF Renamed
<1>3. /\ rest \in Seq(Segment) /\ Len(rest) = Len(p) - Len(old)
      /\ \A i \in 1 .. Len(p) - Len(old) : rest[i] = p[Len(old) + i]
  <2>1. \A i \in Len(old) + 1 .. Len(p) : p[i] \in Segment
    <3>1. \A i \in Len(old) + 1 .. Len(p) : i \in 1 .. Len(p)  BY <1>1
    <3>. QED BY <3>1, SegmentIs
  <2>2. Len(old) + 1 \in Int /\ Len(p) \in Int  BY <1>1
  <2>3. /\ rest \in Seq(Segment) /\ Len(rest) = IF Len(old) + 1 <= Len(p) THEN Len(p) - (Len(old) + 1) + 1 ELSE 0
        /\ \A i \in 1 .. Len(p) - (Len(old) + 1) + 1 : rest[i] = p[(Len(old) + 1) + i - 1]
    BY <2>1, <2>2, SubSeqProperties
  <2>. QED BY <1>1, <2>3
<1>. HIDE DEF rest, r
<1>4. /\ r \in Seq(Segment) /\ Len(r) = Len(new) + Len(rest)
      /\ \A i \in 1 .. Len(new) + Len(rest) : r[i] = IF i <= Len(new) THEN new[i] ELSE rest[i - Len(new)]
  BY <1>1, <1>2, <1>3, ConcatProperties
<1>5. \A i \in 1 .. Len(new) : r[i] = new[i]
  <2>1. \A i \in 1 .. Len(new) : i \in 1 .. Len(new) + Len(rest) /\ i <= Len(new)  BY <1>1, <1>3
  <2>. QED BY <1>4, <2>1
<1>6. ASSUME NEW i \in Len(old) + 1 .. Len(p)  PROVE  r[Len(new) + (i - Len(old))] = p[i]
  <2>. DEFINE j == Len(new) + (i - Len(old))
  <2>1. j \in 1 .. Len(new) + Len(rest) /\ ~(j <= Len(new)) /\ j - Len(new) = i - Len(old)
    BY <1>1, <1>3
  <2>2. i - Len(old) \in 1 .. Len(p) - Len(old) /\ Len(old) + (i - Len(old)) = i  BY <1>1
  <2>. QED BY <1>3, <1>4, <2>1, <2>2
<1>7. r \in Path
  <2>1. r[1] = RootName  BY <1>1, <1>5, PathIsSeq
  <2>2. ASSUME NEW j \in 2 .. Len(r)  PROVE  r[j] \in Name
    <3>1. CASE j <= Len(new)
      <4>1. j \in 1 .. Len(new) /\ j \in 2 .. Len(new)  BY <1>1, <3>1
      <4>. QED BY <4>1, <1>5, PathIsSeq
    <3>2. CASE ~(j <= Len(new))
      <4>. DEFINE i == (j - Len(new)) + Len(old)
      <4>1. i \in Len(old) + 1 .. Len(p) /\ Len(new) + (i - Len(old)) = j /\ i \in 2 .. Len(p)
        BY <1>1, <1>3, <1>4, <3>2
      <4>. QED BY <4>1, <1>6, PathIsSeq
    <3>. QED BY <3>1, <3>2
  <2>3. Len(r) >= 1  BY <1>1, <1>3, <1>4
  <2>. QED BY <1>4, <2>1, <2>2, <2>3, PathIs
<1>. QED BY <1>1, <1>2, <1>3, <1>4, <1>5, <1>6, <1>7 DEF r, rest

LEMMA RenamedElsewhere ==
  ASSUME NEW p, NEW old, NEW new, p \notin Path \/ ~IsPrefix(old, p)
  PROVE  Renamed(p, old, new) = p
BY DEF Renamed

LEMMA RenamedIsPath ==
  ASSUME NEW p \in Path, NEW old \in Path, NEW new \in Path
  PROVE  Renamed(p, old, new) \in Path
BY RenamedIs, RenamedElsewhere

LEMMA RenamedUnder ==
  ASSUME NEW p \in Path, NEW old \in Path, NEW new \in Path, IsPrefix(old, p)
  PROVE  IsPrefix(new, Renamed(p, old, new))
<1>1. /\ Len(p) \in Nat /\ Len(old) \in Nat /\ Len(new) \in Nat /\ Len(old) <= Len(p)
  BY PathIsSeq, PrefixIs
<1>2. Len(new) <= Len(Renamed(p, old, new))  BY <1>1, RenamedIs
<1>. QED BY <1>2, RenamedIs, PrefixIs

LEMMA RenamedStrictlyUnder ==
  ASSUME NEW p \in Path, NEW old \in Path, NEW new \in Path, IsStrictPrefix(old, p)
  PROVE  IsStrictPrefix(new, Renamed(p, old, new))
<1>1. IsPrefix(old, p) /\ Len(old) < Len(p)  BY StrictPrefixIs DEF IsStrictPrefix
<1>2. /\ Len(p) \in Nat /\ Len(old) \in Nat /\ Len(new) \in Nat  BY PathIsSeq
<1>3. Len(Renamed(p, old, new)) # Len(new)  BY <1>1, <1>2, RenamedIs
<1>. QED BY <1>1, <1>3, RenamedUnder DEF IsStrictPrefix

LEMMA RenamedItself ==
  ASSUME NEW old \in Path, NEW new \in Path
  PROVE  Renamed(old, old, new) = new
<1>1. IsPrefix(old, old)  BY PrefixOfItself
<1>2. Len(old) \in Nat /\ Len(new) \in Nat  BY PathIsSeq
<1>3. /\ Renamed(old, old, new) \in Path /\ Len(Renamed(old, old, new)) = Len(new) + (Len(old) - Len(old))
      /\ \A i \in 1 .. Len(new) : Renamed(old, old, new)[i] = new[i]
  BY <1>1, RenamedIs
<1>4. Len(Renamed(old, old, new)) = Len(new)  BY <1>2, <1>3
<1>. QED BY <1>3, <1>4, PathsEqual

LEMMA RenamedInjective ==
  ASSUME NEW p \in Path, NEW q \in Path, NEW old \in Path, NEW new \in Path,
         IsPrefix(old, p), IsPrefix(old, q), Renamed(p, old, new) = Renamed(q, old, new)
  PROVE  p = q
<1>1. /\ Len(p) \in Nat /\ Len(q) \in Nat /\ Len(old) \in Nat /\ Len(new) \in Nat  BY PathIsSeq
<1>2. /\ Len(Renamed(p, old, new)) = Len(new) + (Len(p) - Len(old))
      /\ \A i \in Len(old) + 1 .. Len(p) : Renamed(p, old, new)[Len(new) + (i - Len(old))] = p[i]
  BY RenamedIs
<1>3. /\ Len(Renamed(q, old, new)) = Len(new) + (Len(q) - Len(old))
      /\ \A i \in Len(old) + 1 .. Len(q) : Renamed(q, old, new)[Len(new) + (i - Len(old))] = q[i]
  BY RenamedIs
<1>4. Len(p) = Len(q)  BY <1>1, <1>2, <1>3
<1>5. ASSUME NEW i \in 1 .. Len(p)  PROVE  p[i] = q[i]
  <2>1. CASE i <= Len(old)
    <3>1. i \in 1 .. Len(old)  BY <1>1, <2>1
    <3>. QED BY <3>1, PrefixIs
  <2>2. CASE ~(i <= Len(old))
    <3>1. i \in Len(old) + 1 .. Len(p) /\ i \in Len(old) + 1 .. Len(q)  BY <1>1, <1>4, <2>2
    <3>2. Renamed(p, old, new)[Len(new) + (i - Len(old))] = p[i]  BY <3>1, <1>2
    <3>3. Renamed(q, old, new)[Len(new) + (i - Len(old))] = q[i]  BY <3>1, <1>3
    <3>. QED BY <3>2, <3>3
  <2>. QED BY <2>1, <2>2
<1>. QED BY <1>4, <1>5, PathsEqual

(* A rename undone.                                                        *)
LEMMA RenamedBack ==
  ASSUME NEW p \in Path, NEW old \in Path, NEW new \in Path, IsPrefix(old, p)
  PROVE  Renamed(Renamed(p, old, new), new, old) = p
<1>. DEFINE q == Renamed(p, old, new)
            r == Renamed(q, new, old)
<1>1. /\ Len(p) \in Nat /\ Len(old) \in Nat /\ Len(new) \in Nat /\ Len(old) <= Len(p)  BY PathIsSeq, PrefixIs
<1>2. q \in Path /\ IsPrefix(new, q) /\ Len(q) = Len(new) + (Len(p) - Len(old))  BY RenamedIs, RenamedUnder
<1>. HIDE DEF q
<1>3. /\ r \in Path /\ Len(r) = Len(old) + (Len(q) - Len(new))
      /\ \A i \in 1 .. Len(old) : r[i] = old[i]
      /\ \A i \in Len(new) + 1 .. Len(q) : r[Len(old) + (i - Len(new))] = q[i]
  <2>1. q \in Path /\ IsPrefix(new, q)  BY <1>2
  <2>. QED BY <2>1, RenamedIs, SMTT(30)
<1>4. \A i \in Len(old) + 1 .. Len(p) : q[Len(new) + (i - Len(old))] = p[i]  BY RenamedIs DEF q
<1>. HIDE DEF r
<1>5. Len(r) = Len(p)  BY <1>1, <1>2, <1>3
<1>6. ASSUME NEW i \in 1 .. Len(p)  PROVE  r[i] = p[i]
  <2>1. CASE i <= Len(old)
    <3>1. i \in 1 .. Len(old)  BY <1>1, <2>1
    <3>. QED BY <3>1, <1>3, PrefixIs
  <2>2. CASE ~(i <= Len(old))
    <3>. DEFINE j == Len(new) + (i - Len(old))
    <3>1. /\ i \in Len(old) + 1 .. Len(p) /\ j \in Len(new) + 1 .. Len(q)
          /\ Len(old) + (j - Len(new)) = i
      BY <1>1, <1>2, <2>2
    <3>2. r[Len(old) + (j - Len(new))] = q[j]  BY <1>3, <3>1
    <3>3. q[j] = p[i]  BY <1>4, <3>1
    <3>. QED BY <3>1, <3>2, <3>3
  <2>. QED BY <2>1, <2>2
<1>. QED BY <1>3, <1>5, <1>6, PathsEqual DEF q, r

LEMMA RenamedAppended ==
  ASSUME NEW p \in Path, NEW n \in Name, NEW old \in Path, NEW new \in Path, IsPrefix(old, p)
  PROVE  Renamed(Append(p, n), old, new) = Append(Renamed(p, old, new), n)
<1>. DEFINE q == Renamed(p, old, new)
            a == Append(p, n)
            b == Append(q, n)
            r == Renamed(a, old, new)
<1>1. /\ Len(p) \in Nat /\ Len(old) \in Nat /\ Len(new) \in Nat /\ Len(old) <= Len(p)  BY PathIsSeq, PrefixIs
<1>2. q \in Path /\ Len(q) = Len(new) + (Len(p) - Len(old))  BY RenamedIs
<1>3. /\ a \in Path /\ Len(a) = Len(p) + 1 /\ (\A i \in 1 .. Len(p) : a[i] = p[i]) /\ a[Len(p) + 1] = n
  BY Appended DEF Below
<1>4. /\ b \in Path /\ Len(b) = Len(q) + 1 /\ (\A i \in 1 .. Len(q) : b[i] = q[i]) /\ b[Len(q) + 1] = n
  BY <1>2, Appended DEF Below
<1>5. IsPrefix(old, a)  BY UnderAppended
<1>6. /\ r \in Path /\ Len(r) = Len(new) + (Len(a) - Len(old))
      /\ \A i \in 1 .. Len(new) : r[i] = new[i]
      /\ \A i \in Len(old) + 1 .. Len(a) : r[Len(new) + (i - Len(old))] = a[i]
  BY <1>3, <1>5, RenamedIs, ZenonT(60)
<1>7. /\ \A i \in 1 .. Len(new) : q[i] = new[i]
      /\ \A i \in Len(old) + 1 .. Len(p) : q[Len(new) + (i - Len(old))] = p[i]
  BY RenamedIs, ZenonT(60)
<1>. HIDE DEF q, a, b, r
<1>8. Len(r) = Len(b)  BY <1>1, <1>2, <1>3, <1>4, <1>6
<1>9. ASSUME NEW j \in 1 .. Len(r)  PROVE  r[j] = b[j]
  <2>1. CASE j <= Len(new)
    <3>1. j \in 1 .. Len(new) /\ j \in 1 .. Len(q)  BY <1>1, <1>2, <2>1
    <3>. QED BY <3>1, <1>4, <1>6, <1>7
  <2>2. CASE ~(j <= Len(new)) /\ j <= Len(q)
    <3>. DEFINE i == (j - Len(new)) + Len(old)
    <3>1. /\ i \in Len(old) + 1 .. Len(p) /\ i \in Len(old) + 1 .. Len(a) /\ i \in 1 .. Len(p)
          /\ Len(new) + (i - Len(old)) = j /\ j \in 1 .. Len(q)
      BY <1>1, <1>2, <1>3, <2>2
    <3>2. r[j] = a[i] /\ q[j] = p[i]  BY <1>6, <1>7, <3>1
    <3>. QED BY <1>3, <1>4, <3>1, <3>2
  <2>3. CASE ~(j <= Len(q))
    <3>1. j = Len(q) + 1 /\ Len(p) + 1 \in Len(old) + 1 .. Len(a) /\ Len(new) + ((Len(p) + 1) - Len(old)) = j
      BY <1>1, <1>2, <1>3, <1>6, <2>3
    <3>2. r[j] = a[Len(p) + 1]  BY <1>6, <3>1
    <3>. QED BY <1>3, <1>4, <3>1, <3>2
  <2>. QED BY <2>1, <2>2, <2>3
<1>. QED BY <1>4, <1>6, <1>8, <1>9, PathsEqual DEF a, b, q, r

(***************************************************************************)
(* SQL REPLACE.  The function it is defined by is recursive; the provers   *)
(* have no induction rule, so that each induction is an argument about a   *)
(* least counterexample.                                                   *)
(***************************************************************************)

LEMMA LeastNumber ==
  ASSUME NEW T, T \subseteq Nat, T # {}
  PROVE  \E n \in T : \A m \in T : n <= m
<1>1. IsWellFoundedOn(OpToRel(<, Nat), Nat)  BY NatLessThanWellFounded, Zenon
<1>2. PICK n \in T : \A m \in T : ~(<<m, n>> \in OpToRel(<, Nat))  BY <1>1, WFMin, Zenon
<1>3. \A m \in T : ~(m < n)  BY <1>2 DEF OpToRel
<1>. QED BY <1>3

(* What REPLACE makes of the segments from i on, when f has the rest.      *)
Scan(f, p, old, new, i) ==
  IF i > Len(p) THEN <<>>
  ELSE IF i + Len(old) <= Len(p) + 1 /\ SubSeq(p, i, i + Len(old) - 1) = old
  THEN new \o f[i + Len(old)]
  ELSE <<p[i]>> \o f[i + 1]

Scans(f, p, old, new) == \A i \in 1 .. Len(p) + 1 : f[i] = Scan(f, p, old, new, i)

LEMMA ScanLooksAhead ==
  ASSUME NEW p \in Path, NEW old \in Path, NEW new, NEW f, NEW g, NEW i \in 1 .. Len(p) + 1,
         \A j \in i + 1 .. Len(p) + 1 : f[j] = g[j]
  PROVE  Scan(f, p, old, new, i) = Scan(g, p, old, new, i)
<1>1. Len(p) \in Nat /\ Len(old) \in Nat /\ Len(old) >= 1  BY PathIsSeq
<1>2. CASE i > Len(p)  BY <1>2 DEF Scan
<1>3. CASE ~(i > Len(p))
  <2>1. f[i + 1] = g[i + 1]  BY <1>1, <1>3
  <2>2. i + Len(old) <= Len(p) + 1 => f[i + Len(old)] = g[i + Len(old)]  BY <1>1
  <2>. QED BY <1>3, <2>1, <2>2 DEF Scan
<1>. QED BY <1>2, <1>3

LEMMA ScanThroughout ==
  ASSUME NEW p \in Path, NEW old \in Path, NEW new
  PROVE  \E f : Scans(f, p, old, new)
<1>. DEFINE N == Len(p) + 1
            Good(k) == \E f : \A i \in N - k .. N : f[i] = Scan(f, p, old, new, i)
            Bad == {k \in 0 .. Len(p) : ~Good(k)}
<1>1. Len(p) \in Nat  BY PathIsSeq
<1>2. Good(0)
  <2>. DEFINE f == [i \in 1 .. N |-> <<>>]
  <2>1. \A i \in N - 0 .. N : i = N /\ f[i] = <<>>  BY <1>1
  <2>2. Scan(f, p, old, new, N) = <<>>  BY <1>1 DEF Scan
  <2>. QED BY <2>1, <2>2
<1>3. ASSUME NEW k \in 1 .. Len(p), Good(k - 1)  PROVE  Good(k)
  <2>1. PICK f : \A i \in N - (k - 1) .. N : f[i] = Scan(f, p, old, new, i)  BY <1>3
  <2>. DEFINE g == [i \in 1 .. N |-> IF i = N - k THEN Scan(f, p, old, new, i) ELSE f[i]]
  <2>2. ASSUME NEW i \in N - k .. N  PROVE  g[i] = Scan(g, p, old, new, i)
    <3>1. i \in 1 .. N  BY <1>1
    <3>2. \A j \in i + 1 .. N : f[j] = g[j]  BY <1>1
    <3>3. Scan(f, p, old, new, i) = Scan(g, p, old, new, i)
      <4>. HIDE DEF g
      <4>. QED BY <3>1, <3>2, ScanLooksAhead
    <3>4. CASE i = N - k  BY <3>1, <3>3, <3>4
    <3>5. CASE i # N - k
      <4>1. i \in N - (k - 1) .. N  BY <1>1, <3>5
      <4>2. g[i] = f[i]  BY <3>1, <3>5
      <4>. QED BY <2>1, <3>3, <4>1, <4>2
    <3>. QED BY <3>4, <3>5
  <2>. HIDE DEF g
  <2>. QED BY <2>2
<1>. HIDE DEF Good
<1>4. Bad = {}
  <2>1. SUFFICES ASSUME Bad # {}  PROVE FALSE  OBVIOUS
  <2>2. PICK k \in Bad : \A m \in Bad : k <= m
    <3>1. Bad \subseteq Nat  BY <1>1
    <3>. QED BY <2>1, <3>1, LeastNumber
  <2>3. k # 0  BY <1>2
  <2>4. k - 1 \in 0 .. Len(p) /\ k \in 1 .. Len(p) /\ ~(k <= k - 1)  BY <1>1, <2>3
  <2>5. Good(k - 1)  BY <2>2, <2>4
  <2>6. Good(k)  BY <1>3, <2>4, <2>5
  <2>. QED BY <2>2, <2>6
<1>5. Good(Len(p)) /\ N - Len(p) = 1  BY <1>1, <1>4
<1>. QED BY <1>5 DEF Good, Scans

LEMMA ReplacedScans ==
  ASSUME NEW p \in Path, NEW old \in Path, NEW new
  PROVE  \E f : Scans(f, p, old, new) /\ Replaced(p, old, new) = f[1]
<1>. DEFINE N == Len(p) + 1
            Fits1(g) == g = [i \in 1 .. N |-> Scan(g, p, old, new, i)]
            f == CHOOSE g : Fits1(g)
<1>1. Len(p) \in Nat /\ Len(p) >= 1  BY PathIsSeq
<1>2. \E g : Fits1(g)
  <2>1. PICK g : Scans(g, p, old, new)  BY ScanThroughout
  <2>2. \A i \in 1 .. N : g[i] = Scan(g, p, old, new, i)  BY <2>1 DEF Scans
  <2>. DEFINE h == [i \in 1 .. N |-> g[i]]
  <2>3. ASSUME NEW i \in 1 .. N  PROVE  g[i] = Scan(h, p, old, new, i)
    <3>1. \A j \in i + 1 .. N : g[j] = h[j]  BY <1>1
    <3>2. Scan(g, p, old, new, i) = Scan(h, p, old, new, i)
      <4>. HIDE DEF h
      <4>. QED BY <3>1, ScanLooksAhead
    <3>. QED BY <2>2, <3>2
  <2>4. h = [i \in 1 .. N |-> Scan(h, p, old, new, i)]
    <3>. DEFINE k == [i \in 1 .. N |-> Scan(h, p, old, new, i)]
    <3>1. \A i \in 1 .. N : h[i] = g[i]  OBVIOUS
    <3>2. \A i \in 1 .. N : k[i] = g[i]  BY <2>3
    <3>3. DOMAIN h = 1 .. N /\ DOMAIN k = 1 .. N  OBVIOUS
    <3>4. k = [i \in 1 .. N |-> k[i]] /\ h = [i \in 1 .. N |-> h[i]]  OBVIOUS
    <3>5. [i \in 1 .. N |-> k[i]] = [i \in 1 .. N |-> h[i]]  BY <3>1, <3>2
    <3>. QED BY <3>4, <3>5
  <2>. QED BY <2>4
<1>3. Fits1(f)  BY <1>2
<1>4. Replaced(p, old, new) = f[1]  BY DEF Replaced, Scan
<1>. HIDE DEF f
<1>5. Scans(f, p, old, new)  BY <1>3 DEF Scans
<1>. QED BY <1>4, <1>5

LEMMA ScanMatches ==
  ASSUME NEW p \in Path, NEW old \in Path, NEW i \in 1 .. Len(p),
         i + Len(old) <= Len(p) + 1, SubSeq(p, i, i + Len(old) - 1) = old
  PROVE  p[i] = RootName
<1>1. Len(p) \in Nat /\ Len(old) \in Nat /\ Len(old) >= 1 /\ old[1] = RootName  BY PathIsSeq
<1>2. \A j \in i .. i + Len(old) - 1 : p[j] \in Segment
  <2>1. \A j \in i .. i + Len(old) - 1 : j \in 1 .. Len(p)  BY <1>1
  <2>. QED BY <2>1, SegmentIs
<1>3. i \in Int /\ i + Len(old) - 1 \in Int  BY <1>1
<1>4. \A j \in 1 .. (i + Len(old) - 1) - i + 1 : SubSeq(p, i, i + Len(old) - 1)[j] = p[i + j - 1]
  BY <1>2, <1>3, SubSeqProperties
<1>5. 1 \in 1 .. (i + Len(old) - 1) - i + 1 /\ i + 1 - 1 = i  BY <1>1
<1>6. SubSeq(p, i, i + Len(old) - 1)[1] = p[i]  BY <1>4, <1>5
<1>. QED BY <1>1, <1>6

(* After the first segment the scan yields names.                          *)
LEMMA ScanYieldsNames ==
  ASSUME NEW p \in Path, NEW old \in Path, NEW new \in Path, NEW f,
         Scans(f, p, old, new), NEW n \in 2 .. Len(p) + 1
  PROVE  f[n] \in Seq(Name)
<1>. DEFINE N == Len(p) + 1
            Bad == {k \in 0 .. N - 2 : f[N - k] \notin Seq(Name)}
<1>1. /\ Len(p) \in Nat /\ Len(p) >= 1 /\ Len(old) \in Nat /\ Len(old) >= 1
      /\ \A i \in 2 .. Len(p) : p[i] \in Name
  BY PathIsSeq
<1>2. ASSUME NEW k \in 0 .. N - 2, \A m \in 0 .. k - 1 : f[N - m] \in Seq(Name)
      PROVE  f[N - k] \in Seq(Name)
  <2>. DEFINE i == N - k
  <2>1. i \in 2 .. N /\ f[i] = Scan(f, p, old, new, i)  BY <1>1 DEF Scans
  <2>2. CASE i > Len(p)
    <3>1. f[i] = <<>>  BY <2>1, <2>2 DEF Scan
    <3>. QED BY <3>1
  <2>3. CASE ~(i > Len(p)) /\ i + Len(old) <= N /\ SubSeq(p, i, i + Len(old) - 1) = old
    <3>1. i \in 1 .. Len(p) /\ i \in 2 .. Len(p)  BY <1>1, <2>1, <2>3
    <3>2. p[i] = RootName  BY <2>3, <3>1, ScanMatches
    <3>3. RootName \in Name  BY <1>1, <3>1, <3>2
    <3>4. new \in Seq(Name)
      <4>1. Segment = Name  BY <3>3 DEF Segment
      <4>. QED BY <4>1, PathIsSeq
    <3>5. i + Len(old) = N - (k - Len(old)) /\ k - Len(old) \in 0 .. k - 1  BY <1>1, <2>3
    <3>6. f[i + Len(old)] \in Seq(Name)  BY <1>2, <3>5
    <3>7. f[i] = new \o f[i + Len(old)]  BY <2>1, <2>3 DEF Scan
    <3>. QED BY <3>4, <3>6, <3>7, ConcatProperties
  <2>4. CASE ~(i > Len(p)) /\ ~(i + Len(old) <= N /\ SubSeq(p, i, i + Len(old) - 1) = old)
    <3>1. i \in 2 .. Len(p) /\ k - 1 \in 0 .. k - 1 /\ i + 1 = N - (k - 1)  BY <1>1, <2>1, <2>4
    <3>2. <<p[i]>> \in Seq(Name)  BY <1>1, <3>1
    <3>3. f[i + 1] \in Seq(Name)  BY <1>2, <3>1
    <3>4. f[i] = <<p[i]>> \o f[i + 1]  BY <2>1, <2>4 DEF Scan
    <3>. QED BY <3>2, <3>3, <3>4, ConcatProperties
  <2>. QED BY <2>2, <2>3, <2>4
<1>3. Bad = {}
  <2>1. SUFFICES ASSUME Bad # {}  PROVE FALSE  OBVIOUS
  <2>2. PICK k \in Bad : \A m \in Bad : k <= m
    <3>1. Bad \subseteq Nat  BY <1>1
    <3>. QED BY <2>1, <3>1, LeastNumber
  <2>3. \A m \in 0 .. k - 1 : m \in 0 .. N - 2 /\ ~(k <= m)  BY <1>1
  <2>4. \A m \in 0 .. k - 1 : f[N - m] \in Seq(Name)  BY <2>2, <2>3
  <2>. QED BY <1>2, <2>2, <2>4
<1>4. N - n \in 0 .. N - 2 /\ N - (N - n) = n  BY <1>1
<1>. QED BY <1>3, <1>4

(* When the root's name is nobody else's, the scan copies what follows.    *)
LEMMA ScanCopies ==
  ASSUME RootName \notin Name,
         NEW p \in Path, NEW old \in Path, NEW new \in Path, NEW f,
         Scans(f, p, old, new), NEW n \in 2 .. Len(p) + 1
  PROVE  f[n] = SubSeq(p, n, Len(p))
<1>. DEFINE N == Len(p) + 1
            Bad == {k \in 0 .. N - 2 : f[N - k] # SubSeq(p, N - k, Len(p))}
<1>1. /\ Len(p) \in Nat /\ Len(p) >= 1 /\ p \in Seq(Segment)
      /\ \A i \in 2 .. Len(p) : p[i] \in Name
  BY PathIsSeq
<1>2. ASSUME NEW k \in 0 .. N - 2, \A m \in 0 .. k - 1 : f[N - m] = SubSeq(p, N - m, Len(p))
      PROVE  f[N - k] = SubSeq(p, N - k, Len(p))
  <2>. DEFINE i == N - k
  <2>1. i \in 2 .. N /\ f[i] = Scan(f, p, old, new, i)  BY <1>1 DEF Scans
  <2>2. CASE i > Len(p)
    <3>1. f[i] = <<>>  BY <2>1, <2>2 DEF Scan
    <3>2. i \in Int /\ Len(p) \in Int /\ Len(p) < i  BY <1>1, <2>2
    <3>3. SubSeq(p, i, Len(p)) = <<>>  BY <3>2, SubSeqEmpty
    <3>. QED BY <3>1, <3>3
  <2>3. CASE ~(i > Len(p))
    <3>1. i \in 2 .. Len(p) /\ i \in 1 .. Len(p) /\ k - 1 \in 0 .. k - 1 /\ i + 1 = N - (k - 1)
      BY <1>1, <2>1, <2>3
    <3>2. ~(i + Len(old) <= Len(p) + 1 /\ SubSeq(p, i, i + Len(old) - 1) = old)
      BY <1>1, <3>1, ScanMatches
    <3>3. f[i] = <<p[i]>> \o f[i + 1]  BY <2>1, <2>3, <3>2 DEF Scan
    <3>4. f[i + 1] = SubSeq(p, i + 1, Len(p))  BY <1>2, <3>1
    <3>5. Len(p) \in i .. Len(p)  BY <3>1
    <3>6. SubSeq(p, i, Len(p)) = <<p[i]>> \o SubSeq(p, i + 1, Len(p))
      BY <1>1, <3>1, <3>5, SubSeqRecursiveFirst
    <3>. QED BY <3>3, <3>4, <3>6
  <2>. QED BY <2>2, <2>3
<1>3. Bad = {}
  <2>1. SUFFICES ASSUME Bad # {}  PROVE FALSE  OBVIOUS
  <2>2. PICK k \in Bad : \A m \in Bad : k <= m
    <3>1. Bad \subseteq Nat  BY <1>1
    <3>. QED BY <2>1, <3>1, LeastNumber
  <2>3. \A m \in 0 .. k - 1 : m \in 0 .. N - 2 /\ ~(k <= m)  BY <1>1
  <2>4. \A m \in 0 .. k - 1 : f[N - m] = SubSeq(p, N - m, Len(p))  BY <2>2, <2>3
  <2>. QED BY <1>2, <2>2, <2>4
<1>4. N - n \in 0 .. N - 2 /\ N - (N - n) = n  BY <1>1
<1>. QED BY <1>3, <1>4

LEMMA ReplacedBegins ==
  ASSUME NEW p \in Path, NEW old \in Path, NEW new \in Path, NEW f, IsPrefix(old, p),
         Scans(f, p, old, new)
  PROVE  f[1] = new \o f[Len(old) + 1]
<1>1. /\ Len(p) \in Nat /\ Len(p) >= 1 /\ Len(old) \in Nat /\ old \in Seq(Segment)  BY PathIsSeq
<1>2. Len(old) <= Len(p) /\ SubSeq(p, 1, Len(old)) = old
  BY <1>1, SubSeqFull DEF IsPrefix
<1>3. /\ 1 \in 1 .. Len(p) + 1 /\ ~(1 > Len(p)) /\ 1 + Len(old) <= Len(p) + 1
      /\ 1 + Len(old) - 1 = Len(old) /\ 1 + Len(old) = Len(old) + 1
  BY <1>1, <1>2
<1>4. f[1] = Scan(f, p, old, new, 1)  BY <1>3 DEF Scans
<1>. QED BY <1>2, <1>3, <1>4 DEF Scan

LEMMA ReplacedIsPath ==
  ASSUME NEW p \in Path, NEW old \in Path, NEW new \in Path, IsPrefix(old, p)
  PROVE  Replaced(p, old, new) \in Path /\ Len(Replaced(p, old, new)) >= Len(new)
<1>1. PICK f : Scans(f, p, old, new) /\ Replaced(p, old, new) = f[1]  BY ReplacedScans
<1>. DEFINE t == f[Len(old) + 1]
            r == new \o t
<1>2. f[1] = r  BY <1>1, ReplacedBegins
<1>3. /\ Len(p) \in Nat /\ Len(old) \in Nat /\ Len(old) >= 1 /\ Len(old) <= Len(p)
      /\ new \in Seq(Segment) /\ Len(new) \in Nat /\ Len(new) >= 1 /\ new[1] = RootName
      /\ \A i \in 2 .. Len(new) : new[i] \in Name
  BY PathIsSeq, PrefixIs
<1>4. t \in Seq(Name)
  <2>1. Len(old) + 1 \in 2 .. Len(p) + 1  BY <1>3
  <2>. QED BY <1>1, <2>1, ScanYieldsNames
<1>. HIDE DEF t
<1>5. t \in Seq(Segment) /\ Len(t) \in Nat
  <2>1. Name \subseteq Segment  BY DEF Segment
  <2>. QED BY <1>4, <2>1, SeqMonotonic, LenProperties
<1>6. /\ r \in Seq(Segment) /\ Len(r) = Len(new) + Len(t)
      /\ \A i \in 1 .. Len(new) + Len(t) : r[i] = IF i <= Len(new) THEN new[i] ELSE t[i - Len(new)]
  BY <1>3, <1>5, ConcatProperties
<1>. HIDE DEF r
<1>7. r[1] = RootName /\ Len(r) >= 1  BY <1>3, <1>5, <1>6
<1>8. ASSUME NEW i \in 2 .. Len(r)  PROVE  r[i] \in Name
  <2>1. i \in 1 .. Len(new) + Len(t)  BY <1>3, <1>5, <1>6
  <2>2. CASE i <= Len(new)
    <3>1. i \in 2 .. Len(new)  BY <1>3, <2>2
    <3>. QED BY <1>3, <1>6, <2>1, <2>2, <3>1
  <2>3. CASE ~(i <= Len(new))
    <3>1. i - Len(new) \in 1 .. Len(t)  BY <1>3, <1>5, <1>6, <2>3
    <3>2. t[i - Len(new)] \in Name  BY <1>4, <3>1, ElementOfSeq
    <3>. QED BY <1>6, <2>1, <2>3, <3>2
  <2>. QED BY <2>2, <2>3
<1>9. r \in Path  BY <1>6, <1>7, <1>8, PathIs
<1>. QED BY <1>1, <1>2, <1>3, <1>5, <1>6, <1>9

(* Where the root's name is nobody else's, REPLACE renames.                *)
LEMMA ReplacedIsRenamed ==
  ASSUME RootName \notin Name, NEW p \in Path, NEW old \in Path, NEW new \in Path, IsPrefix(old, p)
  PROVE  Replaced(p, old, new) = Renamed(p, old, new)
<1>1. PICK f : Scans(f, p, old, new) /\ Replaced(p, old, new) = f[1]  BY ReplacedScans
<1>2. f[1] = new \o f[Len(old) + 1]  BY <1>1, ReplacedBegins
<1>3. Len(old) + 1 \in 2 .. Len(p) + 1
  <2>1. Len(p) \in Nat /\ Len(old) \in Nat /\ Len(old) >= 1 /\ Len(old) <= Len(p)  BY PathIsSeq, PrefixIs
  <2>. QED BY <2>1
<1>4. f[Len(old) + 1] = SubSeq(p, Len(old) + 1, Len(p))  BY <1>1, <1>3, ScanCopies
<1>5. Renamed(p, old, new) = new \o SubSeq(p, Len(old) + 1, Len(p))  BY RenamedIs
<1>. QED BY <1>1, <1>2, <1>4, <1>5

(***************************************************************************)
(* Type correctness, for any number of requests at once.                   *)
(***************************************************************************)

FolderRowBelow == [path : Below, name : Name, parent : Folder \cup {Top}]
FileRowBelow == [path : Below, name : Name, folder : Folder \cup {Top}, disk : Path \cup {Hdd}]

(* What a request is about.                                                *)
OpShape(o) ==
  /\ o \in Op /\ o.to \in Below
  /\ o.kind \in {"create", "moveFolder", "deleteFolder"} => o.id \in Folder
  /\ o.kind \in {"moveFolder", "deleteFolder"} => o.from \in Path
  /\ o.kind \in {"moveFile", "deleteFile"} => o.id \in File
  /\ o.step = "back" => o.kind = "moveFolder" \/ (o.kind = "moveFile" /\ o.from # Hdd)

RowsTyped(fo, fi) == fo \in [Folder -> FolderRowBelow \cup {Gone}] /\ fi \in [File -> FileRowBelow \cup {Gone}]
DiskTyped(ds, bs) == ds \in SUBSET Path /\ bs \in [File -> Path \cup {Hdd, Nowhere}]
OpsTyped(m) == /\ m \in [Handler -> Op \cup {NoOp}]
               /\ \A h \in Handler : m[h] # NoOp => OpShape(m[h])
SearchTyped(ix, ts, re, su) == /\ ix \in [Indexed -> Doc] /\ ts \in SUBSET Task
                               /\ re \in {"no", "read"} /\ su \in SUBSET Indexed
RestTyped(u, fs, tn) == u \in SUBSET Id /\ fs \in 0 .. MaxFaults /\ tn \in SUBSET Id

TypeInv ==
  /\ RowsTyped(folder, file) /\ DiskTyped(dirs, bytes) /\ OpsTyped(op)
  /\ SearchTyped(index, tasks, reindex, suspect) /\ RestTyped(unused, faults, torn)

LEMMA BelowIsPath == Below \subseteq Path
BY DEF Below

LEMMA TypeInvImplies == TypeInv => TypeOK
<1>. SUFFICES ASSUME TypeInv  PROVE TypeOK  OBVIOUS
<1>1. FolderRowBelow \subseteq FolderRow /\ FileRowBelow \subseteq FileRow
  BY BelowIsPath DEF FolderRowBelow, FileRowBelow, FolderRow, FileRow
<1>2. folder \in [Folder -> FolderRow \cup {Gone}] /\ file \in [File -> FileRow \cup {Gone}]
  BY <1>1 DEF TypeInv, RowsTyped
<1>. QED BY <1>2 DEF TypeInv, TypeOK, DiskTyped, OpsTyped, SearchTyped, RestTyped

LEMMA SpecialsApart ==
  /\ Gone \notin FolderRowBelow /\ Gone \notin FileRowBelow /\ Gone \notin Op
  /\ Keep \notin Path /\ Hdd \notin Path /\ Nowhere \notin Path /\ Nowhere # Hdd
  /\ Gone # "current" /\ Gone # "old" /\ Keep # "current" /\ Keep # "old" /\ Keep # Gone
<1>1. FolderRowBelow \subseteq FolderRow /\ FileRowBelow \subseteq FileRow
  BY BelowIsPath DEF FolderRowBelow, FileRowBelow, FolderRow, FileRow
<1>. QED BY <1>1, SpecialAssumption DEF Doc

(* Rows and their paths.                                                   *)
LEMMA FolderRows ==
  ASSUME TypeInv, NEW f \in Folders
  PROVE  /\ f \in Folder /\ f # Top /\ f \notin File /\ folder[f] \in FolderRowBelow
         /\ folder[f].path \in Below /\ folder[f].path \in Path
         /\ folder[f].name \in Name /\ folder[f].parent \in Folder \cup {Top}
         /\ PathOf(f) = folder[f].path
<1>1. f \in Folder /\ folder[f] \in FolderRowBelow  BY DEF TypeInv, RowsTyped, Folders
<1>. QED BY <1>1, BelowIsPath, ConstantsAssumption DEF FolderRowBelow, PathOf

LEMMA FileRows ==
  ASSUME TypeInv, NEW x \in Files
  PROVE  /\ x \in File /\ x # Top /\ x \notin Folder /\ file[x] \in FileRowBelow
         /\ file[x].path \in Below /\ file[x].path \in Path
         /\ file[x].name \in Name /\ file[x].folder \in Folder \cup {Top}
         /\ file[x].disk \in Path \cup {Hdd} /\ PathOf(x) = file[x].path
<1>1. x \in File /\ file[x] \in FileRowBelow  BY DEF TypeInv, RowsTyped, Files
<1>. QED BY <1>1, BelowIsPath, ConstantsAssumption DEF FileRowBelow, PathOf

LEMMA TopPath == PathOf(Top) = Root /\ Root \in Path
BY RootIsPath DEF PathOf

LEMMA ParentPath ==
  ASSUME TypeInv, NEW p \in Parents
  PROVE  PathOf(p) \in Path /\ p \in Folder \cup {Top}
BY FolderRows, TopPath DEF Parents

LEMMA UnderIsId ==
  ASSUME NEW p
  PROVE  Under(p) \subseteq Id
BY DEF Under, Folders, Files, Id

LEMMA TouchingIsId ==
  ASSUME NEW o \in Op
  PROVE  Touching(o) \subseteq Id
BY UnderIsId DEF Touching, Op

(* Requests, step by step.                                                 *)
LEMMA OpAt ==
  ASSUME TypeInv, NEW h \in Handler, op[h] # NoOp
  PROVE  /\ OpShape(op[h]) /\ op[h] \in Op
         /\ op[h].id \in Id /\ op[h].parent \in Folder \cup {Top} /\ op[h].to \in Below /\ op[h].to \in Path
         /\ op[h].from \in Path \cup {Hdd} /\ op[h].name \in Name
<1>1. OpShape(op[h]) /\ op[h] \in Op  BY DEF TypeInv, OpsTyped, OpShape
<1>. QED BY <1>1, BelowIsPath DEF OpShape, Op

LEMMA OpBegins ==
  ASSUME TypeInv, NEW h \in Handler, NEW o, Start(h, o), OpShape(o)
  PROVE  OpsTyped(op') /\ op'[h] = o /\ \A g \in Handler : g # h => op'[g] = op[g]
BY DEF TypeInv, OpsTyped, Start, OpShape

LEMMA OpEnds ==
  ASSUME TypeInv, NEW h \in Handler, End(h)
  PROVE  OpsTyped(op') /\ op'[h] = NoOp /\ \A g \in Handler : g # h => op'[g] = op[g]
BY DEF TypeInv, OpsTyped, End

LEMMA OpGoes ==
  ASSUME TypeInv, NEW h \in Handler, op[h] # NoOp, NEW s \in {"disk", "rows", "back"}, Goto(h, s),
         s = "back" => op[h].kind = "moveFolder" \/ (op[h].kind = "moveFile" /\ op[h].from # Hdd)
  PROVE  /\ OpsTyped(op') /\ op'[h] # NoOp /\ \A g \in Handler : g # h => op'[g] = op[g]
         /\ op'[h].step = s
         /\ op'[h].kind = op[h].kind /\ op'[h].id = op[h].id /\ op'[h].parent = op[h].parent
         /\ op'[h].from = op[h].from /\ op'[h].to = op[h].to /\ op'[h].name = op[h].name
<1>. DEFINE o == [op[h] EXCEPT !.step = s]
<1>1. OpShape(op[h]) /\ op[h] \in Op  BY OpAt
<1>2. /\ o \in Op /\ o.step = s
      /\ o.kind = op[h].kind /\ o.id = op[h].id /\ o.parent = op[h].parent
      /\ o.from = op[h].from /\ o.to = op[h].to /\ o.name = op[h].name
  BY <1>1 DEF Op
<1>3. OpShape(o)
  <2>. HIDE DEF o
  <2>. QED BY <1>1, <1>2 DEF OpShape
<1>4. op \in [Handler -> Op \cup {NoOp}] /\ op' = [op EXCEPT ![h] = o]
  BY DEF TypeInv, OpsTyped, Goto
<1>5. o # NoOp  BY <1>2, SpecialsApart DEF NoOp
<1>. HIDE DEF o
<1>6. op'[h] = o /\ (\A g \in Handler : g # h => op'[g] = op[g]) /\ op' \in [Handler -> Op \cup {NoOp}]
  BY <1>2, <1>4
<1>7. OpsTyped(op')  BY <1>3, <1>6 DEF TypeInv, OpsTyped
<1>. QED BY <1>2, <1>5, <1>6, <1>7

(* Requests to the index.                                                  *)
LEMMA AgedTyped ==
  ASSUME NEW ids, NEW S, "old" \in S, NEW docs \in [Indexed -> S]
  PROVE  Aged(docs, ids) \in [Indexed -> S]
BY DEF Aged

LEMMA PutIsTask ==
  ASSUME NEW i, NEW doc \in Doc
  PROVE  Put(i, doc) \in Task
<1>1. [Silent EXCEPT ![i] = doc] \in [Indexed -> Doc \cup {Keep}]  BY DEF Silent
<1>2. {i} \cap Indexed \in SUBSET Indexed  OBVIOUS
<1>. QED BY <1>1, <1>2 DEF Put, Task

LEMMA SendKeepsTypes ==
  ASSUME TypeInv, NEW t \in Task, NEW changed, SendFor(t, changed)
  PROVE  SearchTyped(index', tasks', reindex', suspect')
<1>1. index \in [Indexed -> Doc] /\ tasks \in SUBSET Task /\ reindex \in {"no", "read"} /\ suspect \in SUBSET Indexed
  BY DEF TypeInv, SearchTyped
<1>2. index' \in [Indexed -> Doc]  BY <1>1, AgedTyped DEF SendFor, Doc
<1>3. tasks' \in SUBSET Task
  <2>1. ASSUME NEW u \in tasks  PROVE  [u EXCEPT !.docs = Aged(@, changed)] \in Task
    <3>1. u \in Task  BY <1>1
    <3>2. Aged(u.docs, changed) \in [Indexed -> Doc \cup {Keep}]  BY <3>1, AgedTyped DEF Task, Doc
    <3>. QED BY <3>1, <3>2 DEF Task
  <2>. QED BY <2>1 DEF SendFor
<1>4. suspect' \in SUBSET Indexed
  <2>1. t.ids \subseteq Indexed  BY DEF Task
  <2>. QED BY <1>1, <2>1 DEF SendFor
<1>. QED BY <1>1, <1>2, <1>3, <1>4 DEF SearchTyped, SendFor

(* Rows.                                                                   *)
LEMMA MovedFolderTyped ==
  ASSUME TypeInv, NEW o, OpShape(o), o.kind = "moveFolder", NEW f \in Folders
  PROVE  MovedFolder(f, o) \in FolderRowBelow
<1>1. o.to \in Below /\ o.to \in Path /\ o.from \in Path /\ o.name \in Name /\ o.parent \in Folder \cup {Top}
  BY BelowIsPath DEF OpShape, Op
<1>2. CASE f = o.id  BY <1>1, <1>2 DEF MovedFolder, FolderRowBelow
<1>3. CASE f # o.id
  <2>1. folder[f] \in FolderRowBelow /\ folder[f].path \in Below /\ folder[f].path \in Path  BY FolderRows
  <2>2. IsStrictPrefix(o.from, folder[f].path) => Replaced(folder[f].path, o.from, o.to) \in Below
    <3>. SUFFICES ASSUME IsStrictPrefix(o.from, folder[f].path)
                  PROVE  Replaced(folder[f].path, o.from, o.to) \in Below
      OBVIOUS
    <3>1. IsPrefix(o.from, folder[f].path)  BY DEF IsStrictPrefix
    <3>2. /\ Replaced(folder[f].path, o.from, o.to) \in Path
          /\ Len(Replaced(folder[f].path, o.from, o.to)) >= Len(o.to)
      BY <1>1, <2>1, <3>1, ReplacedIsPath
    <3>3. Len(o.to) >= 2 /\ Len(o.to) \in Nat /\ Len(Replaced(folder[f].path, o.from, o.to)) \in Nat
      BY <1>1, <3>2, PathIsSeq DEF Below
    <3>. QED BY <3>2, <3>3 DEF Below
  <2>. QED BY <1>3, <2>1, <2>2 DEF MovedFolder, FolderRowBelow
<1>. QED BY <1>2, <1>3

LEMMA MovedFileTyped ==
  ASSUME TypeInv, NEW o, OpShape(o), o.kind = "moveFolder", NEW x \in Files
  PROVE  MovedFile(x, o) \in FileRowBelow
<1>1. o.to \in Below /\ o.to \in Path /\ o.from \in Path  BY BelowIsPath DEF OpShape
<1>2. /\ file[x] \in FileRowBelow /\ file[x].path \in Below /\ file[x].path \in Path
      /\ file[x].disk \in Path \cup {Hdd}
  BY FileRows
<1>3. CASE ~IsStrictPrefix(o.from, file[x].path)  BY <1>2, <1>3 DEF MovedFile
<1>4. CASE IsStrictPrefix(o.from, file[x].path)
  <2>1. IsPrefix(o.from, file[x].path)  BY <1>4 DEF IsStrictPrefix
  <2>2. /\ Replaced(file[x].path, o.from, o.to) \in Path
        /\ Len(Replaced(file[x].path, o.from, o.to)) >= Len(o.to)
    BY <1>1, <1>2, <2>1, ReplacedIsPath
  <2>3. Len(o.to) >= 2 /\ Len(o.to) \in Nat /\ Len(Replaced(file[x].path, o.from, o.to)) \in Nat
    BY <1>1, <2>2, PathIsSeq DEF Below
  <2>4. Replaced(file[x].path, o.from, o.to) \in Below  BY <2>2, <2>3 DEF Below
  <2>5. (IF file[x].disk = Hdd THEN Hdd ELSE Renamed(file[x].disk, o.from, o.to)) \in Path \cup {Hdd}
    BY <1>1, <1>2, RenamedIsPath
  <2>. QED BY <1>2, <1>4, <2>4, <2>5 DEF MovedFile, FileRowBelow
<1>. QED BY <1>3, <1>4

(* Directories.                                                            *)
LEMMA WithDirTyped ==
  ASSUME TypeInv, NEW p, p \in Path
  PROVE  WithDir(p) \subseteq Path
<1>1. dirs \subseteq Path  BY DEF TypeInv, DiskTyped
<1>2. ASSUME NEW n \in 1 .. Len(p)  PROVE  SubSeq(p, 1, n) \in Path
  <2>1. Len(p) \in Nat /\ p[1] = RootName /\ \A i \in 2 .. Len(p) : p[i] \in Name  BY PathIsSeq
  <2>2. \A i \in 1 .. n : p[i] \in Segment
    <3>1. \A i \in 1 .. n : i \in 1 .. Len(p)  BY <2>1
    <3>. QED BY <3>1, SegmentIs
  <2>3. 1 \in Int /\ n \in Int  BY <2>1
  <2>4. /\ SubSeq(p, 1, n) \in Seq(Segment) /\ Len(SubSeq(p, 1, n)) = IF 1 <= n THEN n - 1 + 1 ELSE 0
        /\ \A i \in 1 .. n - 1 + 1 : SubSeq(p, 1, n)[i] = p[1 + i - 1]
    BY <2>2, <2>3, SubSeqProperties
  <2>5. Len(SubSeq(p, 1, n)) = n /\ \A i \in 1 .. n : SubSeq(p, 1, n)[i] = p[i]  BY <2>1, <2>4
  <2>6. \A i \in 2 .. n : i \in 1 .. n /\ i \in 2 .. Len(p)  BY <2>1
  <2>7. Len(SubSeq(p, 1, n)) >= 1 /\ SubSeq(p, 1, n)[1] = RootName
        /\ \A i \in 2 .. Len(SubSeq(p, 1, n)) : SubSeq(p, 1, n)[i] \in Name
    BY <2>1, <2>5, <2>6
  <2>. QED BY <2>4, <2>7, PathIs
<1>. QED BY <1>1, <1>2 DEF WithDir

LEMMA RenamedBytes ==
  ASSUME NEW b \in Path \cup {Hdd, Nowhere}, NEW old \in Path, NEW new \in Path
  PROVE  Renamed(b, old, new) \in Path \cup {Hdd, Nowhere}
<1>1. CASE b \in Path  BY <1>1, RenamedIsPath
<1>2. CASE b \notin Path  BY <1>2, RenamedElsewhere
<1>. QED BY <1>1, <1>2

LEMMA TypeInit == Init => TypeInv
<1>. SUFFICES ASSUME Init  PROVE TypeInv  OBVIOUS
<1>1. RowsTyped(folder, file)  BY DEF Init, RowsTyped
<1>2. DiskTyped(dirs, bytes)  BY RootIsPath DEF Init, DiskTyped
<1>3. OpsTyped(op)  BY DEF Init, OpsTyped
<1>4. SearchTyped(index, tasks, reindex, suspect)  BY DEF Init, SearchTyped, Doc
<1>5. RestTyped(unused, faults, torn)  BY ConstantsAssumption DEF Init, RestTyped
<1>. QED BY <1>1, <1>2, <1>3, <1>4, <1>5 DEF TypeInv

(* Requests that begin.                                                    *)
LEMMA TypeStartCreate ==
  ASSUME TypeInv, NEW h \in Handler, NEW f, NEW p, NEW n \in Name, StartCreate(h, f, p, n)
  PROVE  TypeInv'
<1>. DEFINE o == [kind |-> "create", step |-> "disk", id |-> f, parent |-> p,
                  from |-> Hdd, to |-> Append(PathOf(p), n), name |-> n]
<1>1. p \in Parents /\ f \in Folder /\ Start(h, o)  BY DEF StartCreate
<1>2. PathOf(p) \in Path /\ p \in Folder \cup {Top}  BY <1>1, ParentPath
<1>3. Append(PathOf(p), n) \in Below /\ Append(PathOf(p), n) \in Path  BY <1>2, Appended, BelowIsPath
<1>4. OpShape(o)  BY <1>1, <1>2, <1>3 DEF OpShape, Op, Id
<1>. HIDE DEF o
<1>5. OpsTyped(op')  BY <1>1, <1>4, OpBegins
<1>6. unused' \subseteq unused  BY DEF StartCreate
<1>. QED BY <1>5, <1>6 DEF StartCreate, TypeInv, RowsTyped, DiskTyped, SearchTyped, RestTyped, disk, search

LEMMA TypeStartMoveFolder ==
  ASSUME TypeInv, NEW h \in Handler, NEW f, NEW p, NEW n \in Name, StartMoveFolder(h, f, p, n)
  PROVE  TypeInv'
<1>. DEFINE from == folder[f].path
            to == Append(IF p = folder[f].parent THEN Front(from) ELSE PathOf(p), n)
            o == [kind |-> "moveFolder", step |-> "disk", id |-> f, parent |-> p,
                  from |-> from, to |-> to, name |-> n]
<1>1. f \in Folders /\ p \in Parents /\ Start(h, o)  BY DEF StartMoveFolder
<1>2. f \in Folder /\ from \in Below /\ from \in Path  BY <1>1, FolderRows
<1>3. PathOf(p) \in Path /\ p \in Folder \cup {Top}  BY <1>1, ParentPath
<1>4. Front(from) \in Path  BY <1>2, FrontIsPath
<1>5. to \in Below /\ to \in Path  BY <1>3, <1>4, Appended, BelowIsPath
<1>. HIDE DEF from, to
<1>6. OpShape(o)  BY <1>2, <1>3, <1>5 DEF OpShape, Op, Id
<1>. HIDE DEF o
<1>7. OpsTyped(op')  BY <1>1, <1>6, OpBegins
<1>. QED BY <1>7 DEF StartMoveFolder, TypeInv, RowsTyped, DiskTyped, SearchTyped, RestTyped, rows, disk, search

LEMMA TypeStartDeleteFolder ==
  ASSUME TypeInv, NEW h \in Handler, NEW f, StartDeleteFolder(h, f)
  PROVE  TypeInv'
<1>. DEFINE o == [kind |-> "deleteFolder", step |-> "disk", id |-> f, parent |-> folder[f].parent,
                  from |-> folder[f].path, to |-> folder[f].path, name |-> folder[f].name]
<1>1. f \in Folders /\ Start(h, o)  BY DEF StartDeleteFolder
<1>2. /\ f \in Folder /\ folder[f].path \in Below /\ folder[f].path \in Path
      /\ folder[f].name \in Name /\ folder[f].parent \in Folder \cup {Top}
  BY <1>1, FolderRows
<1>3. OpShape(o)  BY <1>2 DEF OpShape, Op, Id
<1>. HIDE DEF o
<1>4. OpsTyped(op')  BY <1>1, <1>3, OpBegins
<1>. QED BY <1>4 DEF StartDeleteFolder, TypeInv, RowsTyped, DiskTyped, SearchTyped, RestTyped, rows, disk, search

LEMMA TypeStartMoveFile ==
  ASSUME TypeInv, NEW h \in Handler, NEW x, NEW p, NEW n \in Name, StartMoveFile(h, x, p, n)
  PROVE  TypeInv'
<1>. DEFINE to == Append(IF p = file[x].folder THEN Front(file[x].path) ELSE PathOf(p), n)
            o == [kind |-> "moveFile", step |-> "disk", id |-> x, parent |-> p,
                  from |-> file[x].disk, to |-> to, name |-> n]
<1>1. x \in Files /\ p \in Parents /\ Start(h, o)  BY DEF StartMoveFile
<1>2. x \in File /\ file[x].path \in Below /\ file[x].disk \in Path \cup {Hdd}  BY <1>1, FileRows
<1>3. PathOf(p) \in Path /\ p \in Folder \cup {Top}  BY <1>1, ParentPath
<1>4. Front(file[x].path) \in Path  BY <1>2, FrontIsPath
<1>5. to \in Below /\ to \in Path  BY <1>3, <1>4, Appended, BelowIsPath
<1>. HIDE DEF to
<1>6. OpShape(o)  BY <1>2, <1>3, <1>5 DEF OpShape, Op, Id
<1>. HIDE DEF o
<1>7. OpsTyped(op')  BY <1>1, <1>6, OpBegins
<1>. QED BY <1>7 DEF StartMoveFile, TypeInv, RowsTyped, DiskTyped, SearchTyped, RestTyped, rows, disk, search

LEMMA TypeStartDeleteFile ==
  ASSUME TypeInv, NEW h \in Handler, NEW x, StartDeleteFile(h, x)
  PROVE  TypeInv'
<1>. DEFINE o == [kind |-> "deleteFile", step |-> "disk", id |-> x, parent |-> file[x].folder,
                  from |-> file[x].disk, to |-> file[x].path, name |-> file[x].name]
<1>1. x \in Files /\ Start(h, o)  BY DEF StartDeleteFile
<1>2. /\ x \in File /\ file[x].path \in Below /\ file[x].path \in Path /\ file[x].disk \in Path \cup {Hdd}
      /\ file[x].name \in Name /\ file[x].folder \in Folder \cup {Top}
  BY <1>1, FileRows
<1>3. OpShape(o)  BY <1>2 DEF OpShape, Op, Id
<1>. HIDE DEF o
<1>4. OpsTyped(op')  BY <1>1, <1>3, OpBegins
<1>. QED BY <1>4 DEF StartDeleteFile, TypeInv, RowsTyped, DiskTyped, SearchTyped, RestTyped, rows, disk, search

LEMMA TypeUpload ==
  ASSUME TypeInv, NEW x, NEW p, NEW n \in Name, NEW tier, Upload(x, p, n, tier)
  PROVE  TypeInv'
<1>. DEFINE to == Append(PathOf(p), n)
            place == IF tier = "ssd" THEN to ELSE Hdd
            r == [path |-> to, name |-> n, folder |-> p, disk |-> place]
<1>1. /\ x \in File /\ p \in Parents /\ unused' = unused \ {x}
      /\ file' = [file EXCEPT ![x] = r] /\ dirs' = WithDir(Front(to))
      /\ bytes' = [bytes EXCEPT ![x] = place] /\ Send(Put(x, "current"))
      /\ UNCHANGED <<folder, op, faults, torn>>
  BY DEF Upload
<1>2. PathOf(p) \in Path /\ p \in Folder \cup {Top}  BY <1>1, ParentPath
<1>3. to \in Below /\ to \in Path /\ Front(to) = PathOf(p)  BY <1>2, Appended, FrontOfAppend, BelowIsPath
<1>. HIDE DEF to
<1>4. r \in FileRowBelow  BY <1>2, <1>3 DEF FileRowBelow
<1>5. place \in Path \cup {Hdd, Nowhere}  BY <1>3
<1>. HIDE DEF r, place
<1>6. RowsTyped(folder', file')  BY <1>1, <1>4 DEF TypeInv, RowsTyped
<1>7. dirs' \subseteq Path  BY <1>1, <1>2, <1>3, WithDirTyped
<1>8. DiskTyped(dirs', bytes')  BY <1>1, <1>5, <1>7 DEF TypeInv, DiskTyped
<1>9. Put(x, "current") \in Task  BY PutIsTask DEF Doc
<1>10. SearchTyped(index', tasks', reindex', suspect')  BY <1>1, <1>9, SendKeepsTypes DEF Send
<1>11. OpsTyped(op') /\ RestTyped(unused', faults', torn')  BY <1>1 DEF TypeInv, OpsTyped, RestTyped
<1>. QED BY <1>6, <1>8, <1>10, <1>11 DEF TypeInv

(* The disk.                                                               *)
LEMMA TypeDiskStep ==
  ASSUME TypeInv, OpsTyped(op'), DiskTyped(dirs', bytes'), UNCHANGED <<rows, search, faults, torn>>
  PROVE  TypeInv'
BY DEF TypeInv, RowsTyped, SearchTyped, RestTyped, rows, search

LEMMA TypeMakeDir ==
  ASSUME TypeInv, NEW h \in Handler, MakeDir(h)
  PROVE  TypeInv'
<1>1. op[h] # NoOp  BY DEF MakeDir
<1>2. op[h].to \in Path  BY <1>1, OpAt
<1>3. OpsTyped(op')
  <2>1. CASE End(h)  BY <2>1, OpEnds
  <2>2. CASE Goto(h, "rows")  BY <1>1, <2>2, OpGoes
  <2>. QED BY <2>1, <2>2 DEF MakeDir
<1>4. DiskTyped(dirs', bytes')  BY <1>2, WithDirTyped DEF MakeDir, TypeInv, DiskTyped
<1>. QED BY <1>3, <1>4, TypeDiskStep DEF MakeDir, search

LEMMA MoveFolderAt ==
  ASSUME TypeInv, NEW h \in Handler, op[h] # NoOp, op[h].kind = "moveFolder"
  PROVE  /\ op[h].from \in Path /\ op[h].to \in Path /\ op[h].to \in Below
         /\ Front(op[h].to) \in Path /\ op[h].id \in Folder
BY OpAt, FrontIsPath DEF OpShape

LEMMA TypeRenameDir ==
  ASSUME TypeInv, NEW h \in Handler, RenameDir(h)
  PROVE  TypeInv'
<1>. DEFINE o == op[h]
<1>1. o # NoOp /\ o.kind = "moveFolder"  BY DEF RenameDir
<1>2. o.from \in Path /\ o.to \in Path /\ Front(o.to) \in Path  BY <1>1, MoveFolderAt
<1>3. OpsTyped(op')
  <2>1. CASE End(h)  BY <2>1, OpEnds
  <2>2. CASE Goto(h, "rows")  BY <1>1, <2>2, OpGoes
  <2>. QED BY <2>1, <2>2 DEF RenameDir
<1>4. WithDir(Front(o.to)) \subseteq Path  BY <1>2, WithDirTyped
<1>5. \A d \in WithDir(Front(o.to)) : Renamed(d, o.from, o.to) \in Path  BY <1>2, <1>4, RenamedIsPath
<1>6. \A x \in File : Renamed(bytes[x], o.from, o.to) \in Path \cup {Hdd, Nowhere}
  BY <1>2, RenamedBytes DEF TypeInv, DiskTyped
<1>. HIDE DEF o
<1>7. DiskTyped(dirs', bytes')
  <2>1. CASE UNCHANGED disk  BY <2>1 DEF disk, TypeInv, DiskTyped
  <2>2. CASE dirs' = WithDir(Front(o.to)) /\ UNCHANGED bytes  BY <2>2, <1>4 DEF TypeInv, DiskTyped
  <2>3. CASE /\ dirs' = {Renamed(d, o.from, o.to) : d \in WithDir(Front(o.to))}
             /\ bytes' = [x \in File |-> Renamed(bytes[x], o.from, o.to)]
    BY <2>3, <1>5, <1>6 DEF DiskTyped
  <2>. QED BY <2>1, <2>2, <2>3 DEF RenameDir, o
<1>. QED BY <1>3, <1>7, TypeDiskStep DEF RenameDir

LEMMA FileRenamedTyped ==
  ASSUME TypeInv, NEW old, NEW new, new \in Path \cup {Hdd}
  PROVE  FileRenamed(old, new) \in [File -> Path \cup {Hdd, Nowhere}]
BY DEF FileRenamed, TypeInv, DiskTyped

LEMMA TypeRenameFile ==
  ASSUME TypeInv, NEW h \in Handler, RenameFile(h)
  PROVE  TypeInv'
<1>. DEFINE o == op[h]
<1>1. o # NoOp /\ o.kind = "moveFile"  BY DEF RenameFile
<1>2. o.to \in Path /\ Front(o.to) \in Path  BY <1>1, OpAt, FrontIsPath
<1>3. OpsTyped(op')
  <2>1. CASE End(h)  BY <2>1, OpEnds
  <2>2. CASE Goto(h, "rows")  BY <1>1, <2>2, OpGoes
  <2>. QED BY <2>1, <2>2 DEF RenameFile
<1>4. WithDir(Front(o.to)) \subseteq Path  BY <1>2, WithDirTyped
<1>5. FileRenamed(o.from, o.to) \in [File -> Path \cup {Hdd, Nowhere}]  BY <1>2, FileRenamedTyped
<1>. HIDE DEF o
<1>6. dirs' \subseteq Path /\ bytes' \in [File -> Path \cup {Hdd, Nowhere}]
  <2>1. UNCHANGED disk \/ dirs' = WithDir(Front(o.to))  BY DEF RenameFile, o
  <2>2. UNCHANGED bytes \/ bytes' = FileRenamed(o.from, o.to)  BY DEF RenameFile, disk, o
  <2>. QED BY <2>1, <2>2, <1>4, <1>5 DEF disk, TypeInv, DiskTyped
<1>. QED BY <1>3, <1>6, TypeDiskStep DEF RenameFile, DiskTyped

LEMMA TypeRemove ==
  ASSUME TypeInv, NEW h \in Handler, RemoveDir(h) \/ RemoveFile(h)
  PROVE  TypeInv'
<1>1. op[h] # NoOp /\ Goto(h, "rows")  BY DEF RemoveDir, RemoveFile
<1>2. OpsTyped(op')  BY <1>1, OpGoes
<1>3. DiskTyped(dirs', bytes')  BY DEF RemoveDir, RemoveFile, TypeInv, DiskTyped
<1>. QED BY <1>2, <1>3, TypeDiskStep DEF RemoveDir, RemoveFile

LEMMA TypeMoveBack ==
  ASSUME TypeInv, NEW h \in Handler, MoveBack(h)
  PROVE  TypeInv'
<1>. DEFINE o == op[h]
<1>1. o # NoOp /\ o.step = "back" /\ End(h)  BY DEF MoveBack
<1>2. OpsTyped(op')  BY <1>1, OpEnds
<1>3. OpShape(o) /\ o.to \in Path /\ o.from \in Path \cup {Hdd}  BY <1>1, OpAt
<1>4. DiskTyped(dirs', bytes')
  <2>1. CASE o.kind = "moveFile"
    <3>1. FileRenamed(o.to, o.from) \in [File -> Path \cup {Hdd, Nowhere}]  BY <1>3, FileRenamedTyped
    <3>. QED BY <2>1, <3>1 DEF MoveBack, TypeInv, DiskTyped
  <2>2. CASE o.kind # "moveFile"
    <3>1. o.from \in Path  BY <1>1, <1>3, <2>2 DEF OpShape
    <3>2. \A d \in dirs : Renamed(d, o.to, o.from) \in Path  BY <1>3, <3>1, RenamedIsPath DEF TypeInv, DiskTyped
    <3>3. \A x \in File : Renamed(bytes[x], o.to, o.from) \in Path \cup {Hdd, Nowhere}
      BY <1>3, <3>1, RenamedBytes DEF TypeInv, DiskTyped
    <3>. QED BY <2>2, <3>2, <3>3 DEF MoveBack, DiskTyped
  <2>. QED BY <2>1, <2>2
<1>. QED BY <1>2, <1>4, TypeDiskStep DEF MoveBack

(* The rows.                                                               *)
LEMMA TypeRowStep ==
  ASSUME TypeInv, NEW h \in Handler, End(h), RowsTyped(folder', file'),
         NEW t \in Task, NEW changed, SendFor(t, changed), UNCHANGED <<unused, disk, faults, torn>>
  PROVE  TypeInv'
<1>1. OpsTyped(op')  BY OpEnds
<1>2. SearchTyped(index', tasks', reindex', suspect')  BY SendKeepsTypes
<1>. QED BY <1>1, <1>2 DEF TypeInv, DiskTyped, RestTyped, disk

LEMMA TypeInsertFolder ==
  ASSUME TypeInv, NEW h \in Handler, InsertFolder(h)
  PROVE  TypeInv'
<1>. DEFINE o == op[h]
            r == [path |-> o.to, name |-> o.name, parent |-> o.parent]
<1>1. o # NoOp /\ End(h) /\ Send(Put(o.id, "current"))  BY DEF InsertFolder
<1>2. r \in FolderRowBelow  BY <1>1, OpAt DEF FolderRowBelow
<1>3. folder' = [folder EXCEPT ![o.id] = r] /\ file' = file  BY DEF InsertFolder
<1>. HIDE DEF r
<1>4. RowsTyped(folder', file')  BY <1>2, <1>3 DEF TypeInv, RowsTyped
<1>5. Put(o.id, "current") \in Task  BY PutIsTask DEF Doc
<1>. QED BY <1>1, <1>4, <1>5, TypeRowStep DEF InsertFolder, Send

LEMMA ScanIsTask ==
  ASSUME NEW p \in Path, NEW ids
  PROVE  [scan |-> p, ids |-> ids \cap Indexed, docs |-> Silent] \in Task
BY DEF Task, Silent

LEMMA TypeUpdateFolders ==
  ASSUME TypeInv, NEW h \in Handler, UpdateFolders(h)
  PROVE  TypeInv'
<1>. DEFINE o == op[h]
            moved == [f \in Folders |-> MovedFolder(f, o)]
            t == [scan |-> o.to, ids |-> ({o.id} \cup Under(o.from)) \cap Indexed, docs |-> Silent]
<1>1. /\ o # NoOp /\ o.kind = "moveFolder" /\ End(h) /\ Send(t)
      /\ folder' = [f \in Folder |-> IF f \in Folders THEN moved[f] ELSE Gone]
      /\ file' = [x \in File |-> IF x \in Files THEN MovedFile(x, o) ELSE Gone]
  BY DEF UpdateFolders
<1>2. OpShape(o) /\ o.to \in Path  BY <1>1, OpAt
<1>3. \A f \in Folders : MovedFolder(f, o) \in FolderRowBelow  BY <1>1, <1>2, MovedFolderTyped
<1>4. \A x \in Files : MovedFile(x, o) \in FileRowBelow  BY <1>1, <1>2, MovedFileTyped
<1>5. RowsTyped(folder', file')  BY <1>1, <1>3, <1>4 DEF RowsTyped
<1>6. t \in Task  BY <1>2, ScanIsTask
<1>. HIDE DEF t
<1>. QED BY <1>1, <1>5, <1>6, TypeRowStep DEF UpdateFolders, Send

LEMMA TypeUpdateFile ==
  ASSUME TypeInv, NEW h \in Handler, UpdateFile(h)
  PROVE  TypeInv'
<1>. DEFINE o == op[h]
            r == [path |-> o.to, name |-> o.name, folder |-> o.parent,
                  disk |-> IF o.from = Hdd THEN Hdd ELSE o.to]
<1>1. o # NoOp /\ End(h) /\ Send(Put(o.id, "current"))  BY DEF UpdateFile
<1>2. r \in FileRowBelow  BY <1>1, OpAt DEF FileRowBelow
<1>3. file' = [file EXCEPT ![o.id] = r] /\ folder' = folder  BY DEF UpdateFile
<1>. HIDE DEF r
<1>4. RowsTyped(folder', file')  BY <1>2, <1>3 DEF TypeInv, RowsTyped
<1>5. Put(o.id, "current") \in Task  BY PutIsTask DEF Doc
<1>. QED BY <1>1, <1>4, <1>5, TypeRowStep DEF UpdateFile, Send

LEMMA TypeDeleteRow ==
  ASSUME TypeInv, NEW h \in Handler, DeleteRow(h)
  PROVE  TypeInv'
<1>. DEFINE o == op[h]
            cascaded == {x \in Files : file[x].folder = o.id}
<1>1. o # NoOp /\ End(h) /\ SendFor(Put(o.id, Gone), {o.id} \cup cascaded)  BY DEF DeleteRow
<1>2. RowsTyped(folder', file')  BY DEF DeleteRow, TypeInv, RowsTyped
<1>3. Put(o.id, Gone) \in Task  BY PutIsTask DEF Doc
<1>. QED BY <1>1, <1>2, <1>3, TypeRowStep DEF DeleteRow

LEMMA FaultCounts ==
  ASSUME TypeInv, Fault
  PROVE  faults' \in 0 .. MaxFaults
BY ConstantsAssumption DEF TypeInv, RestTyped, Fault

LEMMA TypeRowsFail ==
  ASSUME TypeInv, NEW h \in Handler, RowsFail(h)
  PROVE  TypeInv'
<1>. DEFINE o == op[h]
<1>1. o # NoOp /\ Fault /\ UNCHANGED <<rows, disk, search>>  BY DEF RowsFail
<1>2. faults' \in 0 .. MaxFaults  BY <1>1, FaultCounts
<1>3. Touching(o) \subseteq Id  BY <1>1, OpAt, TouchingIsId
<1>4. OpsTyped(op')
  <2>1. CASE o.kind = "moveFolder" \/ (o.kind = "moveFile" /\ o.from # Hdd)
    <3>1. Goto(h, "back")  BY <2>1 DEF RowsFail
    <3>. QED BY <1>1, <2>1, <3>1, OpGoes
  <2>2. CASE ~(o.kind = "moveFolder" \/ (o.kind = "moveFile" /\ o.from # Hdd))
    <3>1. End(h)  BY <2>2 DEF RowsFail
    <3>. QED BY <3>1, OpEnds
  <2>. QED BY <2>1, <2>2
<1>5. torn' \subseteq Id
  <2>1. torn \subseteq Id  BY DEF TypeInv, RestTyped
  <2>2. torn' = torn \/ torn' = torn \cup Touching(o)  BY DEF RowsFail
  <2>. QED BY <1>3, <2>1, <2>2
<1>. QED BY <1>1, <1>2, <1>4, <1>5 DEF TypeInv, RowsTyped, DiskTyped, SearchTyped, RestTyped, rows, disk, search

(* The index, and a restart.                                               *)
LEMMA NewsIsTask ==
  ASSUME NEW ids
  PROVE  [scan |-> Keep, ids |-> ids \cap Indexed,
          docs |-> [i \in Indexed |-> IF i \in ids THEN "current" ELSE Keep]] \in Task
BY DEF Task, Doc

LEMMA InFlightTyped ==
  ASSUME TypeInv
  PROVE  InFlight \subseteq Indexed /\ \A t \in tasks : t \in Task /\ t.ids \subseteq Indexed
BY DEF TypeInv, SearchTyped, InFlight, Task

LEMMA TypeSearchStep ==
  ASSUME TypeInv, SearchTyped(index', tasks', reindex', suspect'), UNCHANGED <<rows, disk, op, torn>>,
         faults' \in 0 .. MaxFaults
  PROVE  TypeInv'
BY DEF TypeInv, RowsTyped, DiskTyped, OpsTyped, RestTyped, rows, disk

LEMMA TypeReadMoved ==
  ASSUME TypeInv, NEW t, ReadMoved(t)
  PROVE  TypeInv'
<1>. DEFINE found == Under(t.scan) \cap Indexed
            new == [scan |-> Keep, ids |-> found, docs |-> [i \in Indexed |-> IF i \in found THEN "current" ELSE Keep]]
            others == UNION {u.ids : u \in tasks \ {t}}
<1>1. /\ t \in tasks /\ tasks' = (tasks \ {t}) \cup {new}
      /\ suspect' = (suspect \cup (found \cap others)) \cup (t.ids \ found)
      /\ UNCHANGED <<rows, disk, op, index, reindex, faults, torn>>
  BY DEF ReadMoved
<1>2. new \in Task
  <2>1. found = found \cap Indexed  OBVIOUS
  <2>. HIDE DEF found
  <2>. QED BY <2>1, NewsIsTask
<1>3. t.ids \subseteq Indexed  BY <1>1, InFlightTyped
<1>. HIDE DEF new
<1>4. SearchTyped(index', tasks', reindex', suspect')
  <2>1. tasks' \in SUBSET Task  BY <1>1, <1>2 DEF TypeInv, SearchTyped
  <2>2. suspect' \in SUBSET Indexed  BY <1>1, <1>3 DEF TypeInv, SearchTyped
  <2>. QED BY <1>1, <2>1, <2>2 DEF TypeInv, SearchTyped
<1>. QED BY <1>1, <1>4, TypeSearchStep DEF TypeInv, RestTyped

LEMMA TypeDeliver ==
  ASSUME TypeInv, NEW t, Deliver(t)
  PROVE  TypeInv'
<1>1. t \in tasks /\ t \in Task  BY InFlightTyped DEF Deliver
<1>2. SearchTyped(index', tasks', reindex', suspect')
  BY <1>1 DEF Deliver, TypeInv, SearchTyped, Task
<1>. QED BY <1>2, TypeSearchStep DEF Deliver, TypeInv, RestTyped

LEMMA TypeTaskFails ==
  ASSUME TypeInv, NEW t, TaskFails(t)
  PROVE  TypeInv'
<1>1. t \in tasks /\ t.ids \subseteq Indexed  BY InFlightTyped DEF TaskFails
<1>2. SearchTyped(index', tasks', reindex', suspect')  BY <1>1 DEF TaskFails, TypeInv, SearchTyped
<1>. QED BY <1>2, FaultCounts, TypeSearchStep DEF TaskFails

LEMMA TypeReindex ==
  ASSUME TypeInv, ReindexClear \/ ReindexRead
  PROVE  TypeInv'
<1>1. CASE ReindexClear
  <2>1. SearchTyped(index', tasks', reindex', suspect')  BY <1>1 DEF ReindexClear, TypeInv, SearchTyped, Doc
  <2>. QED BY <1>1, <2>1, TypeSearchStep DEF ReindexClear, TypeInv, RestTyped
<1>2. CASE ReindexRead
  <2>. DEFINE ids == Folders \cup Files
              new == [scan |-> Keep, ids |-> ids \cap Indexed,
                      docs |-> [i \in Indexed |-> IF i \in ids THEN "current" ELSE Keep]]
  <2>1. /\ tasks' = tasks \cup {new} /\ reindex' = "no" /\ index' = index
        /\ suspect' = InFlight \cup {i \in Indexed \ (Folders \cup Files) : index[i] # Gone}
    BY <1>2 DEF ReindexRead
  <2>2. new \in Task
    <3>. HIDE DEF ids
    <3>. QED BY NewsIsTask
  <2>. HIDE DEF new
  <2>3. SearchTyped(index', tasks', reindex', suspect')
    <3>1. tasks' \in SUBSET Task  BY <2>1, <2>2 DEF TypeInv, SearchTyped
    <3>2. suspect' \in SUBSET Indexed  BY <2>1, InFlightTyped
    <3>. QED BY <2>1, <3>1, <3>2 DEF TypeInv, SearchTyped
  <2>. QED BY <1>2, <2>3, TypeSearchStep DEF ReindexRead, TypeInv, RestTyped
<1>. QED BY <1>1, <1>2

LEMMA TypeCrash ==
  ASSUME TypeInv, Crash
  PROVE  TypeInv'
<1>1. faults' \in 0 .. MaxFaults  BY FaultCounts DEF Crash
<1>2. OpsTyped(op')  BY DEF Crash, OpsTyped
<1>3. SearchTyped(index', tasks', reindex', suspect')  BY InFlightTyped DEF Crash, TypeInv, SearchTyped
<1>4. torn' \subseteq Id
  <2>1. \A h \in Handler : op[h] # NoOp => Touching(op[h]) \subseteq Id  BY OpAt, TouchingIsId
  <2>. QED BY <2>1 DEF Crash, TypeInv, RestTyped
<1>. QED BY <1>1, <1>2, <1>3, <1>4 DEF Crash, TypeInv, RowsTyped, DiskTyped, RestTyped, rows, disk

LEMMA TypeStep == TypeInv /\ [Next]_vars => TypeInv'
<1>. SUFFICES ASSUME TypeInv, [Next]_vars  PROVE TypeInv'  OBVIOUS
<1>1. CASE UNCHANGED vars
  BY <1>1 DEF vars, TypeInv, RowsTyped, DiskTyped, OpsTyped, SearchTyped, RestTyped
<1>2. ASSUME NEW h \in Handler, Request(h)  PROVE TypeInv'
  BY <1>2, TypeStartCreate, TypeStartMoveFolder, TypeStartDeleteFolder, TypeStartMoveFile, TypeStartDeleteFile
     DEF Request
<1>3. ASSUME NEW h \in Handler, Proceed(h)  PROVE TypeInv'
  BY <1>3, TypeMakeDir, TypeRenameDir, TypeRenameFile, TypeRemove, TypeInsertFolder, TypeUpdateFolders,
     TypeUpdateFile, TypeDeleteRow, TypeRowsFail, TypeMoveBack DEF Proceed
<1>4. ASSUME NEW x \in File, NEW p, NEW n \in Name, NEW tier, Upload(x, p, n, tier)  PROVE TypeInv'
  BY <1>4, TypeUpload
<1>5. CASE Search  BY <1>5, TypeReadMoved, TypeDeliver, TypeTaskFails, TypeReindex DEF Search
<1>6. CASE Crash  BY <1>6, TypeCrash
<1>. QED BY <1>1, <1>2, <1>3, <1>4, <1>5, <1>6 DEF Next

LEMMA TypesAlways == Spec => []TypeInv
<1>. QED BY TypeInit, TypeStep, PTL DEF Spec

(* Every variable keeps its type: with any number of requests at once, and *)
(* with no bound on the depth of a path, REPLACE and the renames of        *)
(* folders.ts 446-482 make paths of paths.                                 *)
THEOREM TypeCorrectness == Spec => []TypeOK
BY TypesAlways, TypeInvImplies, PTL

(***************************************************************************)
(* The search index follows the rows.                                      *)
(*                                                                         *)
(* The strengthening says what is on its way: a document that is not       *)
(* suspect has at most one request about it in flight, and that one says   *)
(* what the row is, so that the document is right once it is delivered.    *)
(***************************************************************************)

Right(i) == IF i \in Folders \cup Files THEN "current" ELSE Gone

(* A request says something about the documents it is about, and nothing   *)
(* about others.                                                           *)
Speaks(t) == t.scan = Keep => \A i \in Indexed : t.docs[i] # Keep <=> i \in t.ids

(* What is known of a document that is not suspect.                        *)
Follows(i, ts, doc, right) ==
  /\ (\A t \in ts : i \notin t.ids) => doc = right
  /\ \A t, u \in ts : i \in t.ids /\ i \in u.ids => t = u
  /\ \A t \in ts : i \in t.ids /\ t.scan = Keep => t.docs[i] = right

SearchInv ==
  /\ \A t \in tasks : Speaks(t)
  /\ \A i \in Indexed \ suspect : Follows(i, tasks, index[i], Right(i))

LEMMA SearchInvImplies == SearchInv => SearchFollows
BY DEF SearchInv, SearchFollows, Follows, Right, InFlight

LEMMA SearchInit == Init => SearchInv
<1>. SUFFICES ASSUME Init  PROVE SearchInv  OBVIOUS
<1>1. \A i \in Indexed : Right(i) = Gone  BY DEF Init, Right, Folders, Files
<1>. QED BY <1>1 DEF Init, SearchInv, Follows

(* A request that grows old.                                               *)
LEMMA AgedTask ==
  ASSUME NEW u \in Task, NEW changed
  PROVE  LET v == [u EXCEPT !.docs = Aged(@, changed)] IN
         /\ v.scan = u.scan /\ v.ids = u.ids
         /\ \A i \in Indexed : i \notin changed => v.docs[i] = u.docs[i]
         /\ \A i \in Indexed : v.docs[i] # Keep <=> u.docs[i] # Keep
<1>1. u.docs \in [Indexed -> Doc \cup {Keep}]  BY DEF Task
<1>2. \A i \in Indexed : Aged(u.docs, changed)[i] = IF i \in changed /\ u.docs[i] = "current" THEN "old" ELSE u.docs[i]
  BY DEF Aged
<1>3. LET v == [u EXCEPT !.docs = Aged(@, changed)] IN v.scan = u.scan /\ v.ids = u.ids /\ v.docs = Aged(u.docs, changed)
  BY DEF Task
<1>. QED BY <1>2, <1>3, SpecialsApart

(* Rows change and a request goes out that says what they are now.         *)
LEMMA SendFollows ==
  ASSUME TypeInv, SearchInv, NEW t \in Task, NEW changed, SendFor(t, changed),
         t.ids \subseteq changed, Speaks(t),
         \A i \in t.ids : t.scan = Keep => t.docs[i] = Right(i)',
         \A i \in Indexed : i \notin changed => Right(i)' = Right(i)
  PROVE  SearchInv'
<1>. DEFINE aged(u) == [u EXCEPT !.docs = Aged(@, changed)]
            old == {aged(u) : u \in tasks}
            sent == IF t.ids = {} /\ t.scan = Keep THEN {} ELSE {t}
<1>1. /\ tasks' = old \cup sent
      /\ suspect' = suspect \cup (t.ids \cap InFlight) \cup ((changed \cap Indexed) \ t.ids)
      /\ index' = Aged(index, changed)
  BY DEF SendFor
<1>2. \A u \in tasks : u \in Task  BY InFlightTyped
<1>3. \A u \in tasks : /\ aged(u).scan = u.scan /\ aged(u).ids = u.ids
                       /\ \A i \in Indexed : i \notin changed => aged(u).docs[i] = u.docs[i]
                       /\ \A i \in Indexed : aged(u).docs[i] # Keep <=> u.docs[i] # Keep
  BY <1>2, AgedTask
<1>. HIDE DEF aged
<1>4. ASSUME NEW v \in tasks'  PROVE Speaks(v)
  <2>1. CASE v \in sent  BY <2>1
  <2>2. CASE v \in old
    <3>1. PICK u \in tasks : v = aged(u)  BY <2>2
    <3>2. Speaks(u)  BY DEF SearchInv
    <3>. QED BY <1>3, <3>1, <3>2 DEF Speaks
  <2>. QED BY <1>1, <2>1, <2>2
<1>5. ASSUME NEW i \in Indexed \ suspect'  PROVE Follows(i, tasks', index'[i], Right(i)')
  <2>1. i \in Indexed /\ i \notin suspect  BY <1>1
  <2>2. Follows(i, tasks, index[i], Right(i))  BY <2>1 DEF SearchInv
  <2>3. CASE i \notin changed
    <3>1. i \notin t.ids  BY <2>3
    <3>2. \A v \in tasks' : i \in v.ids => \E u \in tasks : v = aged(u)  BY <1>1, <3>1
    <3>3. \A u \in tasks : aged(u) \in tasks'  BY <1>1
    <3>4. index'[i] = index[i]  BY <1>1, <2>1, <2>3 DEF Aged
    <3>5. Right(i)' = Right(i)  BY <2>1, <2>3
    <3>6. (\A v \in tasks' : i \notin v.ids) => index'[i] = Right(i)'
      <4>. SUFFICES ASSUME \A v \in tasks' : i \notin v.ids  PROVE index'[i] = Right(i)'  OBVIOUS
      <4>1. \A u \in tasks : i \notin u.ids  BY <1>3, <3>3
      <4>. QED BY <2>2, <3>4, <3>5, <4>1 DEF Follows
    <3>7. ASSUME NEW v \in tasks', NEW w \in tasks', i \in v.ids, i \in w.ids  PROVE v = w
      <4>1. PICK u1 \in tasks : v = aged(u1)  BY <3>2, <3>7
      <4>2. PICK u2 \in tasks : w = aged(u2)  BY <3>2, <3>7
      <4>3. i \in u1.ids /\ i \in u2.ids  BY <1>3, <3>7, <4>1, <4>2
      <4>4. u1 = u2  BY <2>2, <4>3 DEF Follows
      <4>. QED BY <4>1, <4>2, <4>4
    <3>8. ASSUME NEW v \in tasks', i \in v.ids, v.scan = Keep  PROVE v.docs[i] = Right(i)'
      <4>1. PICK u \in tasks : v = aged(u)  BY <3>2, <3>8
      <4>2. i \in u.ids /\ u.scan = Keep /\ v.docs[i] = u.docs[i]  BY <1>3, <2>1, <2>3, <3>8, <4>1
      <4>. QED BY <2>2, <3>5, <4>2 DEF Follows
    <3>. QED BY <3>6, <3>7, <3>8 DEF Follows
  <2>4. CASE i \in changed
    <3>1. i \in t.ids /\ i \notin InFlight  BY <1>1, <1>5, <2>1, <2>4
    <3>2. \A u \in tasks : i \notin u.ids  BY <3>1 DEF InFlight
    <3>3. t \in tasks'  BY <1>1, <3>1
    <3>4. \A v \in tasks' : i \in v.ids => v = t
      <4>1. \A v \in old : i \notin v.ids  BY <1>3, <3>2
      <4>. QED BY <1>1, <4>1
    <3>5. t.scan = Keep => t.docs[i] = Right(i)'  BY <3>1
    <3>. QED BY <3>1, <3>3, <3>4, <3>5 DEF Follows
  <2>. QED BY <2>3, <2>4
<1>. QED BY <1>4, <1>5 DEF SearchInv

LEMMA PutSpeaks ==
  ASSUME NEW i, NEW doc \in Doc
  PROVE  /\ Speaks(Put(i, doc)) /\ Put(i, doc).ids \subseteq {i} /\ Put(i, doc).scan = Keep
         /\ \A j \in Put(i, doc).ids : j = i /\ Put(i, doc).docs[j] = doc
<1>1. doc # Keep  BY SpecialAssumption
<1>2. Put(i, doc).ids = {i} \cap Indexed /\ Put(i, doc).scan = Keep
      /\ Put(i, doc).docs = [[j \in Indexed |-> Keep] EXCEPT ![i] = doc]
  BY DEF Put, Silent
<1>3. \A j \in Indexed : Put(i, doc).docs[j] = IF j = i THEN doc ELSE Keep  BY <1>2
<1>. QED BY <1>1, <1>2, <1>3 DEF Speaks

(* What rows there are decides what is right.                              *)
LEMMA RightStays ==
  ASSUME NEW i, i \in Folders' \cup Files' <=> i \in Folders \cup Files
  PROVE  Right(i)' = Right(i)
BY DEF Right

LEMMA RowsStay ==
  ASSUME UNCHANGED rows
  PROVE  \A i : Right(i)' = Right(i)
BY DEF rows, Right, Folders, Files

LEMMA SearchStays ==
  ASSUME SearchInv, UNCHANGED <<rows, search>>
  PROVE  SearchInv'
<1>1. \A i : Right(i)' = Right(i)  BY RowsStay
<1>2. tasks' = tasks /\ index' = index /\ suspect' = suspect  BY DEF search
<1>. QED BY <1>1, <1>2 DEF SearchInv

LEMMA SearchStaysWhenCreated ==
  ASSUME SearchInv, UNCHANGED <<folder, file, search>>
  PROVE  SearchInv'
<1>1. \A i : Right(i)' = Right(i)  BY DEF Right, Folders, Files
<1>2. tasks' = tasks /\ index' = index /\ suspect' = suspect  BY DEF search
<1>. QED BY <1>1, <1>2 DEF SearchInv

LEMMA SearchUpload ==
  ASSUME TypeInv, SearchInv, NEW x, NEW p, NEW n \in Name, NEW tier, Upload(x, p, n, tier)
  PROVE  SearchInv'
<1>. DEFINE to == Append(PathOf(p), n)
            r == [path |-> to, name |-> n, folder |-> p, disk |-> IF tier = "ssd" THEN to ELSE Hdd]
            t == Put(x, "current")
<1>1. /\ x \in File /\ p \in Parents /\ file' = [file EXCEPT ![x] = r] /\ Send(t) /\ folder' = folder
  BY DEF Upload
<1>2. r # Gone
  <2>1. PathOf(p) \in Path /\ p \in Folder \cup {Top}  BY <1>1, ParentPath
  <2>2. to \in Below /\ to \in Path  BY <2>1, Appended, BelowIsPath
  <2>. HIDE DEF to
  <2>3. r \in FileRowBelow  BY <2>1, <2>2 DEF FileRowBelow
  <2>. QED BY <2>3, SpecialsApart
<1>. HIDE DEF r
<1>3. Folders' = Folders /\ Files' = Files \cup {x}
  BY <1>1, <1>2 DEF Folders, Files, TypeInv, RowsTyped
<1>4. "current" \in Doc  BY DEF Doc
<1>5. t \in Task  BY <1>4, PutIsTask
<1>6. /\ Speaks(t) /\ t.ids \subseteq {x} /\ t.scan = Keep /\ \A j \in t.ids : j = x /\ t.docs[j] = "current"
  BY <1>4, PutSpeaks
<1>7. Right(x)' = "current"  BY <1>3 DEF Right
<1>8. \A i \in Indexed : i # x => Right(i)' = Right(i)  BY <1>3, RightStays
<1>9. SendFor(t, t.ids)  BY <1>1 DEF Send
<1>10. \A i \in Indexed : i \notin t.ids => i # x
  BY DEF Put
<1>. HIDE DEF t
<1>. QED BY <1>5, <1>6, <1>7, <1>8, <1>9, <1>10, SendFollows

LEMMA SearchInsertFolder ==
  ASSUME TypeInv, SearchInv, NEW h \in Handler, InsertFolder(h)
  PROVE  SearchInv'
<1>. DEFINE o == op[h]
            r == [path |-> o.to, name |-> o.name, parent |-> o.parent]
            t == Put(o.id, "current")
<1>1. /\ o # NoOp /\ o.kind = "create" /\ folder' = [folder EXCEPT ![o.id] = r] /\ Send(t) /\ file' = file
  BY DEF InsertFolder
<1>2. o.id \in Folder  BY <1>1, OpAt DEF OpShape
<1>3. r # Gone
  <2>1. r \in FolderRowBelow  BY <1>1, OpAt DEF FolderRowBelow
  <2>. QED BY <2>1, SpecialsApart
<1>. HIDE DEF r
<1>4. Folders' = Folders \cup {o.id} /\ Files' = Files
  BY <1>1, <1>2, <1>3 DEF Folders, Files, TypeInv, RowsTyped
<1>5. "current" \in Doc  BY DEF Doc
<1>6. t \in Task  BY <1>5, PutIsTask
<1>7. /\ Speaks(t) /\ t.ids \subseteq {o.id} /\ t.scan = Keep /\ \A j \in t.ids : j = o.id /\ t.docs[j] = "current"
  BY <1>5, PutSpeaks
<1>8. ASSUME NEW i, i = o.id  PROVE Right(i)' = "current"
  <2>1. i \in Folders'  BY <1>4, <1>8
  <2>. QED BY <2>1 DEF Right
<1>9. \A i \in Indexed : i # o.id => Right(i)' = Right(i)  BY <1>4, RightStays
<1>10. SendFor(t, t.ids)  BY <1>1 DEF Send
<1>11. \A i \in Indexed : i \notin t.ids => i # o.id
  BY DEF Put
<1>. HIDE DEF t
<1>. QED BY <1>6, <1>7, <1>8, <1>9, <1>10, <1>11, SendFollows

LEMMA SearchUpdateFolders ==
  ASSUME TypeInv, SearchInv, NEW h \in Handler, UpdateFolders(h)
  PROVE  SearchInv'
<1>. DEFINE o == op[h]
            moved == [f \in Folders |-> MovedFolder(f, o)]
            t == [scan |-> o.to, ids |-> ({o.id} \cup Under(o.from)) \cap Indexed, docs |-> Silent]
<1>1. /\ o # NoOp /\ o.kind = "moveFolder" /\ Send(t)
      /\ folder' = [f \in Folder |-> IF f \in Folders THEN moved[f] ELSE Gone]
      /\ file' = [x \in File |-> IF x \in Files THEN MovedFile(x, o) ELSE Gone]
  BY DEF UpdateFolders
<1>2. OpShape(o) /\ o.to \in Path  BY <1>1, OpAt
<1>3. \A f \in Folders : MovedFolder(f, o) # Gone  BY <1>1, <1>2, MovedFolderTyped, SpecialsApart
<1>4. \A x \in Files : MovedFile(x, o) # Gone  BY <1>1, <1>2, MovedFileTyped, SpecialsApart
<1>5. Folders' = Folders /\ Files' = Files
  BY <1>1, <1>3, <1>4 DEF Folders, Files
<1>6. \A i : Right(i)' = Right(i)  BY <1>5 DEF Right
<1>7. t \in Task  BY <1>2, ScanIsTask
<1>8. t.scan # Keep  BY <1>2, SpecialsApart
<1>9. SendFor(t, t.ids)  BY <1>1 DEF Send
<1>. HIDE DEF t
<1>10. Speaks(t)  BY <1>8 DEF Speaks
<1>. QED BY <1>6, <1>7, <1>8, <1>9, <1>10, SendFollows

LEMMA SearchUpdateFile ==
  ASSUME TypeInv, SearchInv, NEW h \in Handler, UpdateFile(h)
  PROVE  SearchInv'
<1>. DEFINE o == op[h]
            r == [path |-> o.to, name |-> o.name, folder |-> o.parent,
                  disk |-> IF o.from = Hdd THEN Hdd ELSE o.to]
            t == Put(o.id, "current")
<1>1. /\ o # NoOp /\ o.id \in Files /\ file' = [file EXCEPT ![o.id] = r] /\ Send(t) /\ folder' = folder
  BY DEF UpdateFile
<1>2. r # Gone
  <2>1. r \in FileRowBelow  BY <1>1, OpAt DEF FileRowBelow
  <2>. QED BY <2>1, SpecialsApart
<1>. HIDE DEF r
<1>3. Folders' = Folders /\ Files' = Files
  BY <1>1, <1>2 DEF Folders, Files, TypeInv, RowsTyped
<1>4. "current" \in Doc  BY DEF Doc
<1>5. t \in Task  BY <1>4, PutIsTask
<1>6. /\ Speaks(t) /\ t.ids \subseteq {o.id} /\ t.scan = Keep /\ \A j \in t.ids : j = o.id /\ t.docs[j] = "current"
  BY <1>4, PutSpeaks
<1>7. \A i : Right(i)' = Right(i)  BY <1>3 DEF Right
<1>8. Right(o.id) = "current"  BY <1>1 DEF Right
<1>9. \A j \in t.ids : t.docs[j] = Right(j)'  BY <1>6, <1>7, <1>8
<1>10. SendFor(t, t.ids)  BY <1>1 DEF Send
<1>. HIDE DEF t
<1>. QED BY <1>5, <1>6, <1>7, <1>9, <1>10, SendFollows

LEMMA SearchDeleteRow ==
  ASSUME TypeInv, SearchInv, NEW h \in Handler, DeleteRow(h)
  PROVE  SearchInv'
<1>. DEFINE o == op[h]
            cascaded == {x \in Files : file[x].folder = o.id}
            t == Put(o.id, Gone)
            changed == {o.id} \cup cascaded
<1>1. /\ SendFor(t, changed)
      /\ folder' = [f \in Folder |-> IF f = o.id THEN Gone ELSE folder[f]]
      /\ file' = [x \in File |-> IF x = o.id \/ x \in cascaded THEN Gone ELSE file[x]]
  BY DEF DeleteRow
<1>2. Gone \in Doc  BY DEF Doc
<1>3. t \in Task  BY <1>2, PutIsTask
<1>4. /\ Speaks(t) /\ t.ids \subseteq {o.id} /\ t.scan = Keep /\ \A j \in t.ids : j = o.id /\ t.docs[j] = Gone
  BY <1>2, PutSpeaks
<1>5. ASSUME NEW i, i \notin changed  PROVE Right(i)' = Right(i)
  <2>1. i \in Folders' \cup Files' <=> i \in Folders \cup Files  BY <1>1, <1>5 DEF Folders, Files
  <2>. QED BY <2>1, RightStays
<1>6. ASSUME NEW i, i = o.id  PROVE Right(i)' = Gone
  BY <1>1, <1>6 DEF Right, Folders, Files
<1>7. \A j \in t.ids : t.docs[j] = Right(j)'  BY <1>4, <1>6
<1>8. t.ids \subseteq changed  BY <1>4
<1>. HIDE DEF t, changed
<1>. QED BY <1>1, <1>3, <1>4, <1>5, <1>7, <1>8, SendFollows

(* The promise of a move has read the rows.                                *)
LEMMA SearchReadMoved ==
  ASSUME TypeInv, SearchInv, NEW t, ReadMoved(t)
  PROVE  SearchInv'
<1>. DEFINE found == Under(t.scan) \cap Indexed
            new == [scan |-> Keep, ids |-> found, docs |-> [i \in Indexed |-> IF i \in found THEN "current" ELSE Keep]]
            others == UNION {u.ids : u \in tasks \ {t}}
<1>1. /\ t \in tasks /\ t.scan # Keep /\ tasks' = (tasks \ {t}) \cup {new}
      /\ suspect' = (suspect \cup (found \cap others)) \cup (t.ids \ found)
      /\ index' = index /\ UNCHANGED rows
  BY DEF ReadMoved
<1>2. \A i : Right(i)' = Right(i)  BY <1>1, RowsStay
<1>3. \A i \in found : Right(i) = "current"  BY DEF Under, Right
<1>4. new.scan = Keep /\ new.ids = found /\ \A i \in Indexed : new.docs[i] = IF i \in found THEN "current" ELSE Keep
  OBVIOUS
<1>5. Speaks(new)  BY <1>4, SpecialsApart DEF Speaks
<1>6. found \subseteq Indexed  OBVIOUS
<1>. HIDE DEF new, found
<1>7. ASSUME NEW u \in tasks'  PROVE Speaks(u)  BY <1>1, <1>5 DEF SearchInv
<1>8. ASSUME NEW i \in Indexed \ suspect'  PROVE Follows(i, tasks', index'[i], Right(i)')
  <2>1. i \notin suspect /\ (i \in found => i \notin others) /\ (i \in t.ids => i \in found)  BY <1>1
  <2>2. Follows(i, tasks, index[i], Right(i))  BY <2>1 DEF SearchInv
  <2>3. CASE i \in found
    <3>1. \A u \in tasks \ {t} : i \notin u.ids  BY <2>1, <2>3
    <3>2. \A u \in tasks' : i \in u.ids => u = new  BY <1>1, <3>1
    <3>3. new \in tasks' /\ i \in new.ids /\ new.docs[i] = Right(i)'  BY <1>1, <1>2, <1>3, <1>4, <2>3
    <3>. QED BY <3>2, <3>3 DEF Follows
  <2>4. CASE i \notin found
    <3>1. i \notin t.ids /\ i \notin new.ids  BY <1>4, <2>1, <2>4
    <3>2. \A u \in tasks' : i \in u.ids => u \in tasks  BY <1>1, <3>1
    <3>3. (\A u \in tasks' : i \notin u.ids) => \A u \in tasks : i \notin u.ids  BY <1>1, <3>1
    <3>. QED BY <1>1, <1>2, <2>2, <3>2, <3>3 DEF Follows
  <2>. QED BY <2>3, <2>4
<1>. QED BY <1>7, <1>8 DEF SearchInv

LEMMA SearchDeliver ==
  ASSUME TypeInv, SearchInv, NEW t, Deliver(t)
  PROVE  SearchInv'
<1>1. /\ t \in tasks /\ t.scan = Keep /\ tasks' = tasks \ {t} /\ suspect' = suspect /\ UNCHANGED rows
      /\ index' = [i \in Indexed |-> IF t.docs[i] = Keep THEN index[i] ELSE t.docs[i]]
  BY DEF Deliver
<1>2. \A i : Right(i)' = Right(i)  BY <1>1, RowsStay
<1>3. \A i \in Indexed : t.docs[i] # Keep <=> i \in t.ids  BY <1>1 DEF SearchInv, Speaks
<1>4. ASSUME NEW i \in Indexed \ suspect'  PROVE Follows(i, tasks', index'[i], Right(i)')
  <2>1. Follows(i, tasks, index[i], Right(i))  BY <1>1 DEF SearchInv
  <2>2. CASE i \in t.ids
    <3>1. index'[i] = Right(i)  BY <1>1, <1>3, <2>1, <2>2 DEF Follows
    <3>2. \A u \in tasks' : i \notin u.ids  BY <1>1, <2>1, <2>2 DEF Follows
    <3>. QED BY <1>2, <3>1, <3>2 DEF Follows
  <2>3. CASE i \notin t.ids
    <3>1. index'[i] = index[i]  BY <1>1, <1>3, <2>3
    <3>2. (\A u \in tasks' : i \notin u.ids) => \A u \in tasks : i \notin u.ids  BY <1>1, <2>3
    <3>. QED BY <1>1, <1>2, <2>1, <3>1, <3>2 DEF Follows
  <2>. QED BY <2>2, <2>3
<1>. QED BY <1>1, <1>4 DEF SearchInv

LEMMA SearchTaskFails ==
  ASSUME TypeInv, SearchInv, NEW t, TaskFails(t)
  PROVE  SearchInv'
<1>1. /\ t \in tasks /\ tasks' = tasks \ {t} /\ suspect' = suspect \cup t.ids /\ UNCHANGED rows /\ index' = index
  BY DEF TaskFails
<1>2. \A i : Right(i)' = Right(i)  BY <1>1, RowsStay
<1>3. ASSUME NEW i \in Indexed \ suspect'  PROVE Follows(i, tasks', index'[i], Right(i)')
  <2>1. i \notin suspect /\ i \notin t.ids  BY <1>1
  <2>2. Follows(i, tasks, index[i], Right(i))  BY <2>1 DEF SearchInv
  <2>3. (\A u \in tasks' : i \notin u.ids) => \A u \in tasks : i \notin u.ids  BY <1>1, <2>1
  <2>. QED BY <1>1, <1>2, <2>2, <2>3 DEF Follows
<1>. QED BY <1>1, <1>3 DEF SearchInv

LEMMA SearchReindexClear ==
  ASSUME TypeInv, SearchInv, ReindexClear
  PROVE  SearchInv'
BY DEF ReindexClear, SearchInv

(* A reindex settles what was suspect.                                     *)
LEMMA SearchReindexRead ==
  ASSUME TypeInv, SearchInv, ReindexRead
  PROVE  SearchInv'
<1>. DEFINE ids == Folders \cup Files
            new == [scan |-> Keep, ids |-> ids \cap Indexed,
                    docs |-> [i \in Indexed |-> IF i \in ids THEN "current" ELSE Keep]]
<1>1. /\ tasks' = tasks \cup {new} /\ index' = index /\ UNCHANGED rows
      /\ suspect' = InFlight \cup {i \in Indexed \ ids : index[i] # Gone}
  BY DEF ReindexRead
<1>2. \A i : Right(i)' = Right(i)  BY <1>1, RowsStay
<1>3. /\ new.scan = Keep /\ new.ids = ids \cap Indexed
      /\ \A i \in Indexed : new.docs[i] = IF i \in ids THEN "current" ELSE Keep
  OBVIOUS
<1>4. Speaks(new)  BY <1>3, SpecialsApart DEF Speaks
<1>5. \A i : Right(i) = IF i \in ids THEN "current" ELSE Gone  BY DEF Right
<1>. HIDE DEF new, ids
<1>6. ASSUME NEW i \in Indexed \ suspect'  PROVE Follows(i, tasks', index'[i], Right(i)')
  <2>1. \A u \in tasks : i \notin u.ids  BY <1>1 DEF InFlight
  <2>2. i \notin ids => index[i] = Gone  BY <1>1
  <2>3. \A u \in tasks' : i \in u.ids => u = new /\ i \in ids  BY <1>1, <1>3, <2>1
  <2>4. i \in ids => new \in tasks' /\ i \in new.ids /\ new.docs[i] = Right(i)'  BY <1>1, <1>2, <1>3, <1>5
  <2>5. i \notin ids => index'[i] = Right(i)'  BY <1>1, <1>2, <1>5, <2>2
  <2>. QED BY <2>3, <2>4, <2>5 DEF Follows
<1>. QED BY <1>1, <1>4, <1>6 DEF SearchInv

LEMMA SearchCrash ==
  ASSUME TypeInv, SearchInv, Crash
  PROVE  SearchInv'
<1>1. /\ tasks' = {} /\ suspect' = suspect \cup InFlight /\ UNCHANGED rows /\ index' = index
  BY DEF Crash
<1>2. \A i : Right(i)' = Right(i)  BY <1>1, RowsStay
<1>3. ASSUME NEW i \in Indexed \ suspect'  PROVE index'[i] = Right(i)'
  <2>1. i \notin suspect /\ \A u \in tasks : i \notin u.ids  BY <1>1 DEF InFlight
  <2>2. index[i] = Right(i)  BY <2>1 DEF SearchInv, Follows
  <2>. QED BY <1>1, <1>2, <2>2
<1>. QED BY <1>1, <1>3 DEF SearchInv, Follows

LEMMA SearchStep == TypeInv /\ SearchInv /\ [Next]_vars => SearchInv'
<1>. SUFFICES ASSUME TypeInv, SearchInv, [Next]_vars  PROVE SearchInv'  OBVIOUS
<1>1. CASE UNCHANGED vars
  <2>1. UNCHANGED <<rows, search>>  BY <1>1 DEF vars, rows, search
  <2>. QED BY <2>1, SearchStays
<1>2. ASSUME NEW h \in Handler, Request(h)  PROVE SearchInv'
  <2>1. ASSUME NEW f, NEW p, NEW n, StartCreate(h, f, p, n)  PROVE SearchInv'
    BY <2>1, SearchStaysWhenCreated DEF StartCreate
  <2>2. ASSUME NEW f, NEW p, NEW n, StartMoveFolder(h, f, p, n)  PROVE SearchInv'
    BY <2>2, SearchStays DEF StartMoveFolder
  <2>3. ASSUME NEW f, StartDeleteFolder(h, f)  PROVE SearchInv'  BY <2>3, SearchStays DEF StartDeleteFolder
  <2>4. ASSUME NEW x, NEW p, NEW n, StartMoveFile(h, x, p, n)  PROVE SearchInv'
    BY <2>4, SearchStays DEF StartMoveFile
  <2>5. ASSUME NEW x, StartDeleteFile(h, x)  PROVE SearchInv'  BY <2>5, SearchStays DEF StartDeleteFile
  <2>. QED BY <1>2, <2>1, <2>2, <2>3, <2>4, <2>5 DEF Request
<1>3. ASSUME NEW h \in Handler, Proceed(h)  PROVE SearchInv'
  <2>1. CASE MakeDir(h) \/ RenameDir(h) \/ RenameFile(h) \/ RemoveDir(h) \/ RemoveFile(h) \/ RowsFail(h) \/ MoveBack(h)
    <3>1. UNCHANGED <<rows, search>>
      BY <2>1 DEF MakeDir, RenameDir, RenameFile, RemoveDir, RemoveFile, RowsFail, MoveBack
    <3>. QED BY <3>1, SearchStays
  <2>. QED BY <1>3, <2>1, SearchInsertFolder, SearchUpdateFolders, SearchUpdateFile, SearchDeleteRow DEF Proceed
<1>4. ASSUME NEW x \in File, NEW p, NEW n \in Name, NEW tier, Upload(x, p, n, tier)  PROVE SearchInv'
  BY <1>4, SearchUpload
<1>5. CASE Search
  BY <1>5, SearchReadMoved, SearchDeliver, SearchTaskFails, SearchReindexClear, SearchReindexRead DEF Search
<1>6. CASE Crash  BY <1>6, SearchCrash
<1>. QED BY <1>1, <1>2, <1>3, <1>4, <1>5, <1>6 DEF Next

LEMMA SearchAlways == Spec => [](TypeInv /\ SearchInv)
<1>1. Init => TypeInv /\ SearchInv  BY TypeInit, SearchInit
<1>2. TypeInv /\ SearchInv /\ [Next]_vars => (TypeInv /\ SearchInv)'  BY TypeStep, SearchStep
<1>. QED BY <1>1, <1>2, PTL DEF Spec

(* The search index follows the rows: with any number of requests, failing *)
(* calls, restarts and reindexes, a document that no request in flight, no *)
(* failure and no race concerns (indexStorageDocuments after every change, *)
(* search/storage.ts 101-118, POST /reindex) is there exactly when its row *)
(* is, and shows the row as it is.                                         *)
THEOREM IndexFollowsRows == Spec => []SearchFollows
BY SearchAlways, SearchInvImplies, PTL

(***************************************************************************)
(* Rows and disk.  Rows that no failure has torn lie where their parents   *)
(* say; the disk is as the rows have it, but for what a running request    *)
(* has done to it already.                                                 *)
(***************************************************************************)

(* One request at a time.                                                  *)
OneAtATime == \A g, h \in Handler : g = h

PathsUnique ==
  /\ \A f, g \in Folders : folder[f].path = folder[g].path => f = g
  /\ \A x, y \in Files : file[x].path = file[y].path => x = y

FolderPlaced(f) ==
  \A p \in Folder \cup {Top} : folder[f].parent = p =>
    p \in Parents /\ folder[f].path = Append(PathOf(p), folder[f].name)
FilePlaced(x) ==
  /\ \A p \in Folder \cup {Top} : file[x].folder = p =>
       p \in Parents /\ file[x].path = Append(PathOf(p), file[x].name)
  /\ file[x].disk \in {file[x].path, Hdd}
Placed == (\A f \in Folders \ torn : FolderPlaced(f)) /\ (\A x \in Files \ torn : FilePlaced(x))

DiskClean == \A x \in File : bytes[x] \in Path => bytes[x] \notin dirs

(* What a request found when it began, and still finds.                    *)
Target(o) == o.parent \in Parents /\ o.to = Append(PathOf(o.parent), o.name)
Planned(o) ==
  /\ torn \cap Touching(o) = {}
  /\ o.kind = "create" => o.id \notin Folders \cup unused /\ Target(o)
  /\ o.kind = "moveFolder" =>
       /\ o.id \in Folders /\ o.from = folder[o.id].path /\ Target(o)
       /\ ~IsPrefix(o.from, PathOf(o.parent)) /\ \A g \in Folders : folder[g].path # o.to
  /\ o.kind = "deleteFolder" =>
       /\ o.id \in Folders /\ o.from = folder[o.id].path
       /\ \A g \in Folders : folder[g].parent # o.id
       /\ \A x \in Files : file[x].folder # o.id
  /\ o.kind = "moveFile" =>
       /\ o.id \in Files /\ o.from = file[o.id].disk /\ Target(o)
       /\ \A y \in Files : file[y].path # o.to
  /\ o.kind = "deleteFile" => o.id \in Files /\ o.from = file[o.id].disk

(* The disk as a request leaves it.                                        *)
Rest == /\ \A f \in Folders \ torn : folder[f].path \in dirs
        /\ \A x \in Files \ torn : bytes[x] = file[x].disk
FolderMoved(o) ==
  /\ ~IsPrefix(o.from, o.to) /\ ~IsPrefix(o.to, o.from)
  /\ \A d \in dirs : ~IsPrefix(o.from, d)
  /\ \A x \in File : bytes[x] \in Path => ~IsPrefix(o.from, bytes[x])
  /\ \A f \in Folders \ torn :
       ~IsPrefix(o.to, folder[f].path) /\ Renamed(folder[f].path, o.from, o.to) \in dirs
  /\ \A x \in Files \ torn :
       /\ file[x].disk # o.from /\ (file[x].disk \in Path => ~IsPrefix(o.to, file[x].disk))
       /\ bytes[x] = Renamed(file[x].disk, o.from, o.to)
FileMoved(o) ==
  /\ \A f \in Folders \ torn : folder[f].path \in dirs
  /\ o.from \notin dirs /\ bytes[o.id] = o.to
  /\ \A x \in Files \ torn : x # o.id => bytes[x] = file[x].disk
FolderRemoved(o) ==
  /\ \A f \in Folders \ torn : IsPrefix(o.from, folder[f].path) \/ folder[f].path \in dirs
  /\ \A x \in Files \ torn : IsStrictPrefix(o.from, file[x].path) \/ bytes[x] = file[x].disk
FileRemoved(o) ==
  /\ \A f \in Folders \ torn : folder[f].path \in dirs
  /\ \A x \in Files \ torn : x # o.id => bytes[x] = file[x].disk

OnDisk(o) == o.kind = "create" \/ (o.kind = "moveFile" /\ o.from = Hdd)
Stands(o) ==
  /\ o.step = "disk" \/ OnDisk(o) => Rest
  /\ o.step # "disk" /\ o.kind = "create" => o.to \in dirs
  /\ o.step # "disk" /\ o.kind = "moveFolder" => FolderMoved(o)
  /\ o.step # "disk" /\ o.kind = "moveFile" /\ o.from # Hdd => FileMoved(o)
  /\ o.step # "disk" /\ o.kind = "deleteFolder" => FolderRemoved(o)
  /\ o.step # "disk" /\ o.kind = "deleteFile" => FileRemoved(o)

TreeInv ==
  /\ PathsUnique /\ Placed /\ DiskClean /\ unused \cap Folders = {}
  /\ (\A h \in Handler : op[h] = NoOp) => Rest
  /\ \A h \in Handler, o \in Op : op[h] = o => Planned(o) /\ Stands(o)

LEMMA TreeInit == Init => TreeInv
<1>. SUFFICES ASSUME Init  PROVE TreeInv  OBVIOUS
<1>1. Folders = {} /\ Files = {}  BY DEF Init, Folders, Files
<1>2. DiskClean  BY SpecialAssumption DEF Init, DiskClean
<1>3. \A h \in Handler, o \in Op : op[h] # o  BY SpecialAssumption DEF Init, NoOp
<1>. QED BY <1>1, <1>2, <1>3 DEF TreeInv, PathsUnique, Placed, Rest

LEMMA FolderIsPlaced ==
  ASSUME TypeInv, TreeInv, NEW f \in Folders, f \notin torn
  PROVE  /\ folder[f].parent \in Parents /\ PathOf(folder[f].parent) \in Path
         /\ folder[f].path = Append(PathOf(folder[f].parent), folder[f].name)
<1>. PICK p : p = folder[f].parent  OBVIOUS
<1>1. p \in Folder \cup {Top}  BY FolderRows
<1>2. p \in Parents /\ folder[f].path = Append(PathOf(p), folder[f].name)
  BY <1>1 DEF TreeInv, Placed, FolderPlaced
<1>. QED BY <1>2, ParentPath

LEMMA FileIsPlaced ==
  ASSUME TypeInv, TreeInv, NEW x \in Files, x \notin torn
  PROVE  /\ file[x].folder \in Parents /\ PathOf(file[x].folder) \in Path
         /\ file[x].path = Append(PathOf(file[x].folder), file[x].name)
         /\ file[x].disk \in {file[x].path, Hdd}
<1>. PICK p : p = file[x].folder  OBVIOUS
<1>1. p \in Folder \cup {Top}  BY FileRows
<1>2. p \in Parents /\ file[x].path = Append(PathOf(p), file[x].name)
  BY <1>1 DEF TreeInv, Placed, FilePlaced
<1>3. file[x].disk \in {file[x].path, Hdd}  BY DEF TreeInv, Placed, FilePlaced
<1>. QED BY <1>2, <1>3, ParentPath

(* Outside of what a request touches, the disk is as the rows have it.     *)
LEMMA RestApart ==
  ASSUME TypeInv, TreeInv, NEW o \in Op, OpShape(o), Stands(o)
  PROVE  /\ \A f \in Folders : f \notin torn \cup Touching(o) => folder[f].path \in dirs
         /\ \A x \in Files : x \notin torn \cup Touching(o) => bytes[x] = file[x].disk
<1>1. CASE Rest  BY <1>1 DEF Rest
<1>2. CASE o.step # "disk" /\ o.kind = "moveFolder"
  <2>1. FolderMoved(o) /\ o.from \in Path /\ o.from # Hdd  BY <1>2, SpecialAssumption DEF Stands, OpShape
  <2>2. ASSUME NEW f \in Folders, f \notin torn \cup Touching(o)  PROVE folder[f].path \in dirs
    <3>1. ~IsPrefix(o.from, folder[f].path)  BY <2>1, <2>2, FolderRows DEF Touching, Under
    <3>. QED BY <2>1, <2>2, <3>1, RenamedElsewhere DEF FolderMoved
  <2>3. ASSUME NEW x \in Files, x \notin torn \cup Touching(o)  PROVE bytes[x] = file[x].disk
    <3>1. ~IsPrefix(o.from, file[x].path)  BY <2>1, <2>3, FileRows DEF Touching, Under
    <3>2. file[x].disk \in {file[x].path, Hdd}  BY <2>3, FileIsPlaced
    <3>3. file[x].disk \notin Path \/ ~IsPrefix(o.from, file[x].disk)  BY <3>1, <3>2, SpecialAssumption
    <3>. QED BY <2>1, <2>3, <3>3, RenamedElsewhere DEF FolderMoved
  <2>. QED BY <2>2, <2>3
<1>3. CASE o.step # "disk" /\ o.kind = "moveFile" /\ o.from # Hdd
  BY <1>3 DEF Stands, FileMoved, Touching
<1>4. CASE o.step # "disk" /\ o.kind = "deleteFolder"
  <2>1. FolderRemoved(o) /\ o.from \in Path /\ o.from # Hdd  BY <1>4, SpecialAssumption DEF Stands, OpShape
  <2>2. ASSUME NEW f \in Folders, f \notin torn \cup Touching(o)  PROVE folder[f].path \in dirs
    <3>1. ~IsPrefix(o.from, folder[f].path)  BY <2>1, <2>2, FolderRows DEF Touching, Under
    <3>. QED BY <2>1, <2>2, <3>1 DEF FolderRemoved
  <2>3. ASSUME NEW x \in Files, x \notin torn \cup Touching(o)  PROVE bytes[x] = file[x].disk
    <3>1. ~IsPrefix(o.from, file[x].path)  BY <2>1, <2>3, FileRows DEF Touching, Under
    <3>2. ~IsStrictPrefix(o.from, file[x].path)  BY <3>1 DEF IsStrictPrefix
    <3>. QED BY <2>1, <2>3, <3>2 DEF FolderRemoved
  <2>. QED BY <2>2, <2>3
<1>5. CASE o.step # "disk" /\ o.kind = "deleteFile"
  BY <1>5 DEF Stands, FileRemoved, Touching
<1>6. o.kind \in {"create", "moveFolder", "deleteFolder", "moveFile", "deleteFile"}  BY DEF Op
<1>. QED BY <1>1, <1>2, <1>3, <1>4, <1>5, <1>6 DEF Stands, OnDisk

LEMMA TreeInvImplies == TypeInv /\ TreeInv => RowsMatchDisk
<1>. SUFFICES ASSUME TypeInv, TreeInv  PROVE RowsMatchDisk  OBVIOUS
<1>1. /\ \A f \in Folders : f \notin torn \cup Busy => folder[f].path \in dirs
      /\ \A x \in Files : x \notin torn \cup Busy => bytes[x] = file[x].disk
  <2>1. CASE \A h \in Handler : op[h] = NoOp  BY <2>1 DEF TreeInv, Rest
  <2>2. CASE ~\A h \in Handler : op[h] = NoOp
    <3>1. PICK h \in Handler : op[h] # NoOp  BY <2>2
    <3>. PICK o : o = op[h]  OBVIOUS
    <3>2. o \in Op /\ OpShape(o)  BY <3>1, OpAt
    <3>3. Stands(o)  BY <3>2 DEF TreeInv
    <3>4. Touching(o) \subseteq Busy  BY <3>1 DEF Busy
    <3>. QED BY <3>2, <3>3, <3>4, RestApart
  <2>. QED BY <2>1, <2>2
<1>2. ASSUME NEW f \in Folders \ (Busy \cup torn)  PROVE FolderAgrees(f)
  BY <1>1, <1>2, FolderIsPlaced DEF FolderAgrees
<1>3. ASSUME NEW x \in Files \ (Busy \cup torn)  PROVE FileAgrees(x)
  BY <1>1, <1>3, FileIsPlaced DEF FileAgrees
<1>. QED BY <1>2, <1>3 DEF RowsMatchDisk

(* A request that begins.                                                  *)
LEMMA TreeBegins ==
  ASSUME OneAtATime, TypeInv, TreeInv, NEW h \in Handler, NEW o, Start(h, o), OpShape(o), o.step = "disk",
         Planned(o)', UNCHANGED <<folder, file, dirs, bytes, torn>>, unused' \subseteq unused
  PROVE  TreeInv'
<1>1. \A g \in Handler : op[g] = NoOp  BY DEF OneAtATime, Start
<1>2. Rest  BY <1>1 DEF TreeInv
<1>3. Folders' = Folders /\ Files' = Files /\ \A i : PathOf(i)' = PathOf(i)  BY DEF Folders, Files, PathOf
<1>4. Rest'  BY <1>2, <1>3 DEF Rest
<1>5. PathsUnique'  BY <1>3 DEF TreeInv, PathsUnique
<1>6. Placed'
  <2>1. \A f : FolderPlaced(f) => FolderPlaced(f)'  BY <1>3 DEF FolderPlaced, Parents
  <2>2. \A x : FilePlaced(x) => FilePlaced(x)'  BY <1>3 DEF FilePlaced, Parents
  <2>. QED BY <2>1, <2>2, <1>3 DEF TreeInv, Placed
<1>7. DiskClean'  BY DEF TreeInv, DiskClean
<1>8. op'[h] = o /\ \A g \in Handler : g = h  BY OpBegins DEF OneAtATime
<1>9. Stands(o)'  BY <1>4 DEF Stands
<1>10. (unused \cap Folders = {})'  BY <1>3 DEF TreeInv
<1>. QED BY <1>4, <1>5, <1>6, <1>7, <1>8, <1>9, <1>10 DEF TreeInv

(* What was planned stays so while the rows stay.                          *)
LEMMA PlannedStays ==
  ASSUME NEW o, NEW q, Planned(o), UNCHANGED <<folder, file, unused, torn>>,
         q.kind = o.kind, q.id = o.id, q.parent = o.parent, q.from = o.from, q.to = o.to, q.name = o.name
  PROVE  Planned(q)'
<1>1. Folders' = Folders /\ Files' = Files /\ \A i : PathOf(i)' = PathOf(i)  BY DEF Folders, Files, PathOf
<1>2. Parents' = Parents  BY <1>1 DEF Parents
<1>3. \A p : Under(p)' = Under(p)  BY <1>1 DEF Under
<1>4. Touching(q)' = Touching(o)  BY <1>3 DEF Touching
<1>5. Target(o) => Target(q)'  BY <1>1, <1>2 DEF Target
<1>. QED BY <1>1, <1>4, <1>5 DEF Planned

(* A request that goes on, its rows untouched.                             *)
LEMMA TreeGoes ==
  ASSUME OneAtATime, TypeInv, TreeInv, NEW h \in Handler, NEW o \in Op, op[h] = o,
         NEW s \in {"disk", "rows", "back"}, Goto(h, s),
         s = "back" => o.kind = "moveFolder" \/ (o.kind = "moveFile" /\ o.from # Hdd),
         UNCHANGED <<folder, file, unused, torn>>, DiskClean',
         \A q \in Op : q = op'[h] => Stands(q)'
  PROVE  TreeInv'
<1>1. op[h] # NoOp  BY SpecialAssumption DEF NoOp
<1>2. Folders' = Folders /\ Files' = Files /\ \A i : PathOf(i)' = PathOf(i)  BY DEF Folders, Files, PathOf
<1>3. PathsUnique'  BY <1>2 DEF TreeInv, PathsUnique
<1>4. Placed'
  <2>1. \A f : FolderPlaced(f) => FolderPlaced(f)'  BY <1>2 DEF FolderPlaced, Parents
  <2>2. \A x : FilePlaced(x) => FilePlaced(x)'  BY <1>2 DEF FilePlaced, Parents
  <2>. QED BY <2>1, <2>2, <1>2 DEF TreeInv, Placed
<1>5. (unused \cap Folders = {})'  BY <1>2 DEF TreeInv
<1>. PICK q : q = op'[h]  OBVIOUS
<1>6. /\ q # NoOp /\ q.kind = o.kind /\ q.id = o.id /\ q.parent = o.parent
      /\ q.from = o.from /\ q.to = o.to /\ q.name = o.name
  BY <1>1, OpGoes
<1>7. Planned(o)  BY DEF TreeInv
<1>8. Planned(q)'  BY <1>6, <1>7, PlannedStays
<1>9. \A g \in Handler : g = h  BY DEF OneAtATime
<1>. QED BY <1>3, <1>4, <1>5, <1>6, <1>8, <1>9 DEF TreeInv

(* A request that ends.                                                    *)
LEMMA TreeEnds ==
  ASSUME OneAtATime, TypeInv, NEW h \in Handler, End(h),
         PathsUnique', Placed', DiskClean', (unused \cap Folders = {})', Rest'
  PROVE  TreeInv'
<1>1. op'[h] = NoOp /\ \A g \in Handler : g = h  BY OpEnds DEF OneAtATime
<1>2. NoOp \notin Op  BY SpecialAssumption DEF NoOp
<1>. QED BY <1>1, <1>2 DEF TreeInv

(* Rows that stay, stay in their places, whatever else is torn.            *)
LEMMA RowsStayPlaced ==
  ASSUME TreeInv, UNCHANGED rows, torn \subseteq torn'
  PROVE  PathsUnique' /\ Placed' /\ (unused \cap Folders = {})'
<1>1. Folders' = Folders /\ Files' = Files /\ \A i : PathOf(i)' = PathOf(i)  BY DEF rows, Folders, Files, PathOf
<1>2. PathsUnique'  BY <1>1 DEF TreeInv, PathsUnique, rows
<1>3. Placed'
  <2>1. \A f : FolderPlaced(f) => FolderPlaced(f)'  BY <1>1 DEF FolderPlaced, Parents, rows
  <2>2. \A x : FilePlaced(x) => FilePlaced(x)'  BY <1>1 DEF FilePlaced, Parents, rows
  <2>. QED BY <2>1, <2>2, <1>1 DEF TreeInv, Placed
<1>4. (unused \cap Folders = {})'  BY <1>1 DEF TreeInv, rows
<1>. QED BY <1>2, <1>3, <1>4

LEMMA TreeDiskEnds ==
  ASSUME OneAtATime, TypeInv, TreeInv, NEW h \in Handler, End(h), UNCHANGED <<folder, file, unused, torn>>,
         DiskClean', Rest'
  PROVE  TreeInv'
BY TreeEnds, RowsStayPlaced DEF rows

(* What a running request stands on.                                       *)
LEMMA OpStands ==
  ASSUME TypeInv, TreeInv, NEW h \in Handler, op[h] # NoOp
  PROVE  \E o \in Op : /\ o = op[h] /\ OpShape(o) /\ Planned(o) /\ Stands(o)
                       /\ o.id \in Id /\ o.to \in Below /\ o.to \in Path /\ Front(o.to) \in Path
                       /\ o.from \in Path \cup {Hdd}
<1>. PICK o : o = op[h]  OBVIOUS
<1>1. o \in Op /\ OpShape(o) /\ o.id \in Id /\ o.to \in Below /\ o.to \in Path /\ o.from \in Path \cup {Hdd}
  BY OpAt
<1>2. Planned(o) /\ Stands(o)  BY <1>1 DEF TreeInv
<1>. QED BY <1>1, <1>2, FrontIsPath

LEMMA PlannedAhead ==
  ASSUME NEW o, UNCHANGED <<folder, file, torn>>
  PROVE  /\ Touching(o)' = Touching(o) /\ Target(o)' = Target(o)
         /\ Folders' = Folders /\ Files' = Files /\ \A i : PathOf(i)' = PathOf(i)
<1>1. Folders' = Folders /\ Files' = Files /\ \A i : PathOf(i)' = PathOf(i)  BY DEF Folders, Files, PathOf
<1>2. Parents' = Parents  BY <1>1 DEF Parents
<1>3. \A p : Under(p)' = Under(p)  BY <1>1 DEF Under
<1>. QED BY <1>1, <1>2, <1>3 DEF Touching, Target

LEMMA TreeStartCreate ==
  ASSUME OneAtATime, TypeInv, TreeInv, NEW h \in Handler, NEW f, NEW p, NEW n \in Name, StartCreate(h, f, p, n)
  PROVE  TreeInv'
<1>. PICK to : to = Append(PathOf(p), n)  OBVIOUS
<1>. DEFINE o == [kind |-> "create", step |-> "disk", id |-> f, parent |-> p,
                  from |-> Hdd, to |-> to, name |-> n]
<1>1. /\ p \in Parents /\ f \in Folder /\ f \in unused /\ Start(h, o) /\ unused' = unused \ {f}
      /\ UNCHANGED <<folder, file, dirs, bytes, torn>>
  BY DEF StartCreate, disk
<1>2. PathOf(p) \in Path /\ p \in Folder \cup {Top}  BY <1>1, ParentPath
<1>3. to \in Below /\ to \in Path  BY <1>2, Appended, BelowIsPath
<1>4. OpShape(o)  BY <1>1, <1>2, <1>3 DEF OpShape, Op, Id
<1>5. /\ o.kind = "create" /\ o.step = "disk" /\ o.id = f /\ o.parent = p /\ o.to = to /\ o.name = n  OBVIOUS
<1>. HIDE DEF o
<1>6. torn \cap Touching(o) = {}  BY <1>1 DEF Start
<1>7. f \notin Folders  BY <1>1 DEF TreeInv
<1>8. Target(o)  BY <1>1, <1>5 DEF Target
<1>9. Planned(o)'  BY <1>1, <1>5, <1>6, <1>7, <1>8, PlannedAhead DEF Planned
<1>. QED BY <1>1, <1>4, <1>5, <1>9, TreeBegins

(* A path is longer than that of the folder it lies in.                    *)
LEMMA AppendedNotUnder ==
  ASSUME NEW p \in Path, NEW n \in Name
  PROVE  ~IsPrefix(Append(p, n), p)
<1>1. Append(p, n) \in Path /\ Len(Append(p, n)) = Len(p) + 1  BY Appended, BelowIsPath
<1>2. Len(p) \in Nat  BY PathIsSeq
<1>3. ~(Len(Append(p, n)) <= Len(p))  BY <1>1, <1>2
<1>. QED BY <1>1, <1>3, PrefixIs

LEMMA TreeStartMoveFolder ==
  ASSUME OneAtATime, TypeInv, TreeInv, NEW h \in Handler, NEW f, NEW p, NEW n \in Name,
         StartMoveFolder(h, f, p, n)
  PROVE  TreeInv'
<1>. PICK from : from = folder[f].path  OBVIOUS
<1>. PICK to : to = Append(IF p = folder[f].parent THEN Front(from) ELSE PathOf(p), n)  OBVIOUS
<1>. DEFINE o == [kind |-> "moveFolder", step |-> "disk", id |-> f, parent |-> p,
                  from |-> from, to |-> to, name |-> n]
<1>1. /\ f \in Folders /\ p \in Parents /\ Start(h, o)
      /\ p = folder[f].parent \/ ~IsPrefix(from, PathOf(p))
      /\ \A g \in Folders : folder[g].path # to
      /\ UNCHANGED <<folder, file, unused, dirs, bytes, torn>>
  BY DEF StartMoveFolder, rows, disk
<1>2. f \in Folder /\ from \in Below /\ from \in Path /\ folder[f].name \in Name  BY <1>1, FolderRows
<1>3. PathOf(p) \in Path /\ p \in Folder \cup {Top}  BY <1>1, ParentPath
<1>4. /\ o.kind = "moveFolder" /\ o.step = "disk" /\ o.id = f /\ o.parent = p
      /\ o.from = from /\ o.to = to /\ o.name = n
  OBVIOUS
<1>5. torn \cap Touching(o) = {}  BY <1>1 DEF Start
<1>6. f \notin torn  BY <1>4, <1>5 DEF Touching
<1>7. to = Append(PathOf(p), n) /\ ~IsPrefix(from, PathOf(p))
  <2>1. CASE p = folder[f].parent
    <3>1. from = Append(PathOf(p), folder[f].name)  BY <2>1, <1>1, <1>6, FolderIsPlaced
    <3>2. Front(from) = PathOf(p)  BY <3>1, <1>2, <1>3, FrontOfAppend
    <3>. QED BY <2>1, <3>1, <3>2, <1>2, <1>3, AppendedNotUnder
  <2>2. CASE p # folder[f].parent  BY <2>2, <1>1
  <2>. QED BY <2>1, <2>2
<1>8. to \in Below /\ to \in Path  BY <1>3, <1>7, Appended, BelowIsPath
<1>9. OpShape(o)  BY <1>2, <1>3, <1>8 DEF OpShape, Op, Id
<1>. HIDE DEF o
<1>10. Target(o)  BY <1>1, <1>4, <1>7 DEF Target
<1>11. Planned(o)'  BY <1>1, <1>4, <1>5, <1>7, <1>10, PlannedAhead DEF Planned
<1>. QED BY <1>1, <1>4, <1>9, <1>11, TreeBegins

LEMMA TreeStartDeleteFolder ==
  ASSUME OneAtATime, TypeInv, TreeInv, NEW h \in Handler, NEW f, StartDeleteFolder(h, f)
  PROVE  TreeInv'
<1>. PICK o : o = [kind |-> "deleteFolder", step |-> "disk", id |-> f, parent |-> folder[f].parent,
                   from |-> folder[f].path, to |-> folder[f].path, name |-> folder[f].name]
  OBVIOUS
<1>1. /\ f \in Folders /\ Start(h, o) /\ UNCHANGED <<folder, file, unused, dirs, bytes, torn>>
      /\ \A g \in Folders : folder[g].parent # f
      /\ \A x \in Files : file[x].folder # f
  BY DEF StartDeleteFolder, rows, disk
<1>2. /\ f \in Folder /\ folder[f].path \in Below /\ folder[f].path \in Path
      /\ folder[f].name \in Name /\ folder[f].parent \in Folder \cup {Top}
  BY <1>1, FolderRows
<1>3. OpShape(o)  BY <1>2 DEF OpShape, Op, Id
<1>4. o.kind = "deleteFolder" /\ o.step = "disk" /\ o.id = f /\ o.from = folder[f].path  OBVIOUS
<1>5. torn \cap Touching(o) = {}  BY <1>1 DEF Start
<1>6. Planned(o)'  BY <1>1, <1>4, <1>5, PlannedAhead DEF Planned
<1>. QED BY <1>1, <1>3, <1>4, <1>6, TreeBegins

LEMMA TreeStartMoveFile ==
  ASSUME OneAtATime, TypeInv, TreeInv, NEW h \in Handler, NEW x, NEW p, NEW n \in Name,
         StartMoveFile(h, x, p, n)
  PROVE  TreeInv'
<1>. PICK to : to = Append(IF p = file[x].folder THEN Front(file[x].path) ELSE PathOf(p), n)  OBVIOUS
<1>. PICK o : o = [kind |-> "moveFile", step |-> "disk", id |-> x, parent |-> p,
                   from |-> file[x].disk, to |-> to, name |-> n]
  OBVIOUS
<1>1. /\ x \in Files /\ p \in Parents /\ Start(h, o)
      /\ \A y \in Files : file[y].path # to
      /\ UNCHANGED <<folder, file, unused, dirs, bytes, torn>>
  BY DEF StartMoveFile, rows, disk
<1>2. /\ x \in File /\ file[x].path \in Below /\ file[x].disk \in Path \cup {Hdd} /\ file[x].name \in Name
  BY <1>1, FileRows
<1>3. PathOf(p) \in Path /\ p \in Folder \cup {Top}  BY <1>1, ParentPath
<1>4. /\ o.kind = "moveFile" /\ o.step = "disk" /\ o.id = x /\ o.parent = p
      /\ o.from = file[x].disk /\ o.to = to /\ o.name = n
  OBVIOUS
<1>5. torn \cap Touching(o) = {}  BY <1>1 DEF Start
<1>6. x \notin torn  BY <1>4, <1>5 DEF Touching
<1>7. to = Append(PathOf(p), n)
  <2>1. CASE p = file[x].folder
    <3>1. file[x].path = Append(PathOf(p), file[x].name)  BY <2>1, <1>1, <1>6, FileIsPlaced
    <3>2. Front(file[x].path) = PathOf(p)  BY <3>1, <1>2, <1>3, FrontOfAppend
    <3>. QED BY <2>1, <3>2
  <2>2. CASE p # file[x].folder  BY <2>2
  <2>. QED BY <2>1, <2>2
<1>8. to \in Below /\ to \in Path  BY <1>3, <1>7, Appended, BelowIsPath
<1>9. OpShape(o)  BY <1>2, <1>3, <1>8 DEF OpShape, Op, Id
<1>10. Target(o)  BY <1>1, <1>4, <1>7 DEF Target
<1>11. Planned(o)'  BY <1>1, <1>4, <1>5, <1>10, PlannedAhead DEF Planned
<1>. QED BY <1>1, <1>4, <1>9, <1>11, TreeBegins

LEMMA TreeStartDeleteFile ==
  ASSUME OneAtATime, TypeInv, TreeInv, NEW h \in Handler, NEW x, StartDeleteFile(h, x)
  PROVE  TreeInv'
<1>. PICK o : o = [kind |-> "deleteFile", step |-> "disk", id |-> x, parent |-> file[x].folder,
                   from |-> file[x].disk, to |-> file[x].path, name |-> file[x].name]
  OBVIOUS
<1>1. x \in Files /\ Start(h, o) /\ UNCHANGED <<folder, file, unused, dirs, bytes, torn>>
  BY DEF StartDeleteFile, rows, disk
<1>2. /\ x \in File /\ file[x].path \in Below /\ file[x].path \in Path /\ file[x].disk \in Path \cup {Hdd}
      /\ file[x].name \in Name /\ file[x].folder \in Folder \cup {Top}
  BY <1>1, FileRows
<1>3. OpShape(o)  BY <1>2 DEF OpShape, Op, Id
<1>4. o.kind = "deleteFile" /\ o.step = "disk" /\ o.id = x /\ o.from = file[x].disk  OBVIOUS
<1>5. torn \cap Touching(o) = {}  BY <1>1 DEF Start
<1>6. Planned(o)'  BY <1>1, <1>4, <1>5, PlannedAhead DEF Planned
<1>. QED BY <1>1, <1>3, <1>4, <1>6, TreeBegins

(* mkdir -p meets no file.                                                 *)
LEMMA WithDirIs ==
  ASSUME NEW p \in Path
  PROVE  /\ dirs \subseteq WithDir(p) /\ p \in WithDir(p)
         /\ \A d \in WithDir(p) : d \in dirs \/ (d \in Path /\ IsPrefix(d, p))
<1>1. dirs \subseteq WithDir(p)  BY DEF WithDir
<1>2. p \in Seq(Segment) /\ Len(p) \in Nat /\ Len(p) >= 1 /\ p[1] = RootName /\ \A i \in 2 .. Len(p) : p[i] \in Name
  BY PathIsSeq
<1>3. ASSUME NEW n \in 1 .. Len(p)
      PROVE  LET d == SubSeq(p, 1, n) IN d \in Path /\ Len(d) = n /\ IsPrefix(d, p)
  <2>. DEFINE d == SubSeq(p, 1, n)
  <2>1. \A i \in 1 .. n : p[i] \in Segment  BY <1>2, <1>3, SegmentIs
  <2>2. 1 \in Int /\ n \in Int /\ n >= 1 /\ n <= Len(p)  BY <1>2, <1>3
  <2>3. /\ d \in Seq(Segment) /\ Len(d) = (IF 1 <= n THEN n - 1 + 1 ELSE 0)
        /\ \A i \in 1 .. n - 1 + 1 : d[i] = p[1 + i - 1]
    BY <2>1, <2>2, SubSeqProperties
  <2>4. Len(d) = n /\ \A i \in 1 .. n : d[i] = p[i]  BY <2>2, <2>3
  <2>5. d[1] = RootName /\ \A i \in 2 .. Len(d) : d[i] \in Name  BY <1>2, <2>2, <2>4
  <2>6. d \in Path  BY <2>2, <2>3, <2>4, <2>5, PathIs
  <2>. QED BY <2>2, <2>4, <2>6, PrefixIs
<1>4. p \in WithDir(p)
  <2>1. Len(p) \in 1 .. Len(p)  BY <1>2
  <2>2. SubSeq(p, 1, Len(p)) = p
    <3>1. LET d == SubSeq(p, 1, Len(p)) IN d \in Path /\ Len(d) = Len(p) /\ IsPrefix(d, p)  BY <2>1, <1>3
    <3>2. \A i \in 1 .. Len(p) : SubSeq(p, 1, Len(p))[i] = p[i]  BY <3>1, PrefixIs
    <3>. QED BY <3>1, <3>2, PathsEqual
  <2>. QED BY <2>1, <2>2 DEF WithDir
<1>5. \A d \in WithDir(p) : d \in dirs \/ (d \in Path /\ IsPrefix(d, p))  BY <1>3 DEF WithDir
<1>. QED BY <1>1, <1>4, <1>5

LEMMA MkdirClean ==
  ASSUME DiskClean, NEW p \in Path, ~Blocked(p), NEW x \in File, bytes[x] \in Path
  PROVE  bytes[x] \notin WithDir(p)
BY WithDirIs DEF DiskClean, Blocked

LEMMA AppendedNotMade ==
  ASSUME NEW p \in Path, NEW n \in Name, Append(p, n) \notin dirs
  PROVE  Append(p, n) \notin WithDir(p)
BY AppendedNotUnder, WithDirIs

LEMMA TreeUpload ==
  ASSUME OneAtATime, TypeInv, TreeInv, NEW x, NEW p, NEW n \in Name, NEW tier \in {"ssd", "hdd"},
         Upload(x, p, n, tier)
  PROVE  TreeInv'
<1>. PICK to : to = Append(PathOf(p), n)  OBVIOUS
<1>. PICK place : place = IF tier = "ssd" THEN to ELSE Hdd  OBVIOUS
<1>. PICK r : r = [path |-> to, name |-> n, folder |-> p, disk |-> place]  OBVIOUS
<1>1. /\ x \in File /\ p \in Parents /\ \A h \in Handler : op[h] = NoOp
      /\ \A y \in Files : file[y].path # to
      /\ to \notin dirs /\ ~Blocked(to) /\ unused' = unused \ {x}
      /\ file' = [file EXCEPT ![x] = r] /\ dirs' = WithDir(Front(to))
      /\ bytes' = [bytes EXCEPT ![x] = place]
      /\ UNCHANGED <<folder, op, torn>>
  BY DEF Upload
<1>2. PathOf(p) \in Path /\ p \in Folder \cup {Top}  BY <1>1, ParentPath
<1>3. to \in Below /\ to \in Path /\ Front(to) = PathOf(p)  BY <1>2, Appended, FrontOfAppend, BelowIsPath
<1>4. r.path = to /\ r.name = n /\ r.folder = p /\ r.disk = place /\ place \in {to, Hdd}  OBVIOUS
<1>5. r # Gone
  <2>1. r \in FileRowBelow  BY <1>2, <1>3 DEF FileRowBelow
  <2>. QED BY <2>1, SpecialsApart
<1>6. /\ file'[x] = r /\ \A y \in File : y # x => file'[y] = file[y]
      /\ bytes'[x] = place /\ \A y \in File : y # x => bytes'[y] = bytes[y]
  BY <1>1 DEF TypeInv, RowsTyped, DiskTyped
<1>7. Folders' = Folders /\ Files' = Files \cup {x} /\ x \in Files'  BY <1>1, <1>5, <1>6 DEF Folders, Files
<1>8. Parents' = Parents /\ \A i \in Parents : PathOf(i)' = PathOf(i)
  BY <1>1, <1>7 DEF Parents, PathOf, Folders
<1>9. Rest  BY <1>1 DEF TreeInv
<1>10. PathsUnique'
  <2>1. ASSUME NEW y \in Files', NEW z \in Files', file'[y].path = file'[z].path  PROVE y = z
    <3>1. y \in File /\ z \in File /\ (y # x => y \in Files) /\ (z # x => z \in Files)  BY <1>7 DEF Files
    <3>2. CASE y = x /\ z # x
      <4>1. file'[y].path = to /\ file'[z].path = file[z].path /\ z \in Files  BY <3>1, <3>2, <1>4, <1>6
      <4>. QED BY <4>1, <2>1, <1>1
    <3>3. CASE y # x /\ z = x
      <4>1. file'[z].path = to /\ file'[y].path = file[y].path /\ y \in Files  BY <3>1, <3>3, <1>4, <1>6
      <4>. QED BY <4>1, <2>1, <1>1
    <3>4. CASE y # x /\ z # x
      <4>1. file[y].path = file[z].path /\ y \in Files /\ z \in Files  BY <3>4, <2>1, <3>1, <1>6
      <4>. QED BY <4>1 DEF TreeInv, PathsUnique
    <3>. QED BY <3>2, <3>3, <3>4
  <2>. QED BY <2>1, <1>1, <1>7 DEF TreeInv, PathsUnique
<1>11. Placed'
  <2>1. \A f \in Folders \ torn : FolderPlaced(f)'  BY <1>1, <1>8 DEF TreeInv, Placed, FolderPlaced
  <2>2. ASSUME NEW y \in Files' \ torn  PROVE FilePlaced(y)'
    <3>1. CASE y = x
      <4>1. file'[y] = r /\ p \in Parents' /\ to = Append(PathOf(p)', n)  BY <3>1, <1>1, <1>6, <1>8
      <4>. QED BY <4>1, <1>4 DEF FilePlaced
    <3>2. CASE y # x
      <4>1. y \in Files \ torn /\ y \in File /\ file'[y] = file[y]  BY <3>2, <1>6, <1>7 DEF Files
      <4>. QED BY <4>1, <1>8 DEF TreeInv, Placed, FilePlaced
    <3>. QED BY <3>1, <3>2
  <2>. QED BY <2>1, <2>2, <1>1, <1>7 DEF Placed
<1>12. dirs \subseteq dirs' /\ ~Blocked(PathOf(p)) /\ to \notin dirs'
  <2>1. dirs \subseteq dirs'  BY <1>1, <1>2, <1>3, WithDirIs
  <2>2. ~Blocked(PathOf(p))  BY <1>1, <1>2, UnderAppended DEF Blocked
  <2>. QED BY <2>1, <2>2, <1>1, <1>2, <1>3, AppendedNotMade
<1>13. DiskClean'
  <2>1. ASSUME NEW y \in File, bytes'[y] \in Path  PROVE bytes'[y] \notin dirs'
    <3>1. CASE y = x  BY <3>1, <2>1, <1>4, <1>6, <1>12, SpecialAssumption
    <3>2. CASE y # x  BY <3>2, <2>1, <1>1, <1>2, <1>3, <1>6, <1>12, MkdirClean DEF TreeInv
    <3>. QED BY <3>1, <3>2
  <2>. QED BY <2>1 DEF DiskClean
<1>14. Rest'
  <2>1. \A f \in Folders \ torn : folder[f].path \in dirs'  BY <1>9, <1>12 DEF Rest
  <2>2. ASSUME NEW y \in Files' \ torn  PROVE bytes'[y] = file'[y].disk
    <3>1. CASE y = x  BY <3>1, <1>4, <1>6
    <3>2. CASE y # x
      <4>1. y \in Files \ torn /\ y \in File  BY <3>2, <1>7 DEF Files
      <4>. QED BY <3>2, <4>1, <1>6, <1>9 DEF Rest
    <3>. QED BY <3>1, <3>2
  <2>. QED BY <2>1, <2>2, <1>1, <1>7 DEF Rest
<1>15. (unused \cap Folders = {})'  BY <1>1, <1>7 DEF TreeInv
<1>16. \A h \in Handler, o \in Op : op'[h] # o  BY <1>1, SpecialAssumption DEF NoOp
<1>. QED BY <1>10, <1>11, <1>13, <1>14, <1>15, <1>16 DEF TreeInv

(* The disk.  A request at its first step finds it at rest; directories    *)
(* more than the rows have do no harm.                                     *)
LEMMA RestKept ==
  ASSUME Rest, UNCHANGED <<folder, file, torn, bytes>>, dirs \subseteq dirs'
  PROVE  Rest'
<1>1. Folders' = Folders /\ Files' = Files  BY DEF Folders, Files
<1>. QED BY <1>1 DEF Rest

LEMMA OpGoesTo ==
  ASSUME TypeInv, NEW h \in Handler, NEW o \in Op, op[h] = o,
         NEW s \in {"disk", "rows", "back"}, Goto(h, s),
         s = "back" => o.kind = "moveFolder" \/ (o.kind = "moveFile" /\ o.from # Hdd),
         NEW q, q = op'[h]
  PROVE  /\ q.step = s /\ q.kind = o.kind /\ q.id = o.id /\ q.parent = o.parent
         /\ q.from = o.from /\ q.to = o.to /\ q.name = o.name
<1>1. op[h] # NoOp  BY SpecialAssumption DEF NoOp
<1>. QED BY <1>1, OpGoes

LEMMA TreeMakeDir ==
  ASSUME OneAtATime, TypeInv, TreeInv, NEW h \in Handler, MakeDir(h)
  PROVE  TreeInv'
<1>1. op[h] # NoOp  BY DEF MakeDir
<1>2. PICK o \in Op : o = op[h] /\ Stands(o) /\ o.to \in Path  BY <1>1, OpStands
<1>3. /\ o.kind = "create" /\ o.step = "disk" /\ UNCHANGED <<folder, file, unused, torn, bytes>>
      /\ IF Blocked(o.to) THEN End(h) /\ dirs' = dirs ELSE Goto(h, "rows") /\ dirs' = WithDir(o.to)
  BY <1>2 DEF MakeDir, rows
<1>4. Rest  BY <1>2, <1>3 DEF Stands
<1>5. CASE Blocked(o.to)
  <2>1. DiskClean'  BY <1>3, <1>5 DEF TreeInv, DiskClean
  <2>2. Rest'  BY <1>3, <1>4, <1>5, RestKept
  <2>. QED BY <1>3, <1>5, <2>1, <2>2, TreeDiskEnds
<1>6. CASE ~Blocked(o.to)
  <2>1. dirs \subseteq dirs' /\ o.to \in dirs'  BY <1>2, <1>3, <1>6, WithDirIs
  <2>2. DiskClean'  BY <1>2, <1>3, <1>6, MkdirClean DEF TreeInv, DiskClean
  <2>3. Rest'  BY <1>3, <1>4, <2>1, RestKept
  <2>4. ASSUME NEW q \in Op, q = op'[h]  PROVE Stands(q)'
    <3>1. q.kind = "create" /\ q.to = o.to  BY <1>2, <1>3, <1>6, <2>4, OpGoesTo
    <3>. QED BY <3>1, <2>1, <2>3 DEF Stands
  <2>. QED BY <1>2, <1>3, <1>6, <2>2, <2>4, TreeGoes
<1>. QED BY <1>5, <1>6

(* A directory moves with all that is in it, and nothing was where it goes.*)
LEMMA DirMoves ==
  ASSUME TypeInv, TreeInv, Rest, NEW o \in Op, o.from \in Below, o.from \in Path, o.to \in Below, o.to \in Path,
         Planned(o), o.kind = "moveFolder", UNCHANGED <<folder, file, torn>>,
         ~Blocked(Front(o.to)), CanRename(o.from, o.to),
         dirs' = {Renamed(d, o.from, o.to) : d \in WithDir(Front(o.to))},
         bytes' = [x \in File |-> Renamed(bytes[x], o.from, o.to)]
  PROVE  FolderMoved(o)' /\ DiskClean'
<1>. PICK a : a = o.from  OBVIOUS
<1>. PICK b : b = o.to  OBVIOUS
<1>. PICK P : P = Front(b)  OBVIOUS
<1>1. a \in Path /\ b \in Path /\ P \in Path /\ Len(P) = Len(b) - 1 /\ Len(P) \in Nat /\ Len(b) \in Nat
  BY FrontIsPath, PathIsSeq
<1>2. \A d \in WithDir(P) : d \in Path /\ (d \in dirs \/ IsPrefix(d, P))
  BY <1>1, WithDirIs DEF TypeInv, DiskTyped
<1>3. ~IsPrefix(a, b)  BY DEF CanRename
<1>4. ~IsPrefix(b, a)
  <2>1. b # a  BY DEF Planned
  <2>2. a \in dirs /\ ~IsStrictPrefix(b, a)  BY DEF CanRename
  <2>. QED BY <2>1, <2>2 DEF IsStrictPrefix
<1>5. ASSUME NEW d \in WithDir(P)  PROVE ~IsStrictPrefix(b, d)
  <2>1. CASE d \in dirs  BY <2>1 DEF CanRename
  <2>2. CASE IsPrefix(d, P)
    <3>1. Len(d) <= Len(P) /\ Len(d) \in Nat  BY <2>2, <1>1, <1>2, PrefixIs, PathIsSeq
    <3>2. ~(Len(b) < Len(d))  BY <3>1, <1>1
    <3>. QED BY <3>2, <1>1, <1>2, StrictPrefixIs
  <2>. QED BY <2>1, <2>2, <1>2
<1>6. ASSUME NEW d \in Path  PROVE ~IsPrefix(a, Renamed(d, a, b))
  <2>1. CASE IsPrefix(a, d)
    <3>1. IsPrefix(b, Renamed(d, a, b)) /\ Renamed(d, a, b) \in Path  BY <2>1, <1>1, RenamedUnder, RenamedIsPath
    <3>. QED BY <3>1, <1>1, <1>3, <1>4, PrefixesNested
  <2>2. CASE ~IsPrefix(a, d)  BY <2>2, RenamedElsewhere
  <2>. QED BY <2>1, <2>2
<1>7. dirs' = {Renamed(d, a, b) : d \in WithDir(P)} /\ \A x \in File : bytes'[x] = Renamed(bytes[x], a, b)
  OBVIOUS
<1>8. ASSUME NEW x \in File, bytes'[x] \in Path
      PROVE  bytes[x] \in Path /\ ~IsPrefix(b, bytes[x]) /\ bytes[x] \notin WithDir(P) /\ bytes[x] # a
  <2>1. bytes[x] \in Path  BY <1>7, <1>8, RenamedElsewhere
  <2>2. ~IsPrefix(b, bytes[x])  BY <2>1 DEF CanRename
  <2>3. bytes[x] \notin WithDir(P)  BY <2>1, <1>1, MkdirClean DEF TreeInv
  <2>4. bytes[x] # a  BY <2>1 DEF CanRename, TreeInv, DiskClean
  <2>. QED BY <2>1, <2>2, <2>3, <2>4
<1>9. DiskClean'
  <2>1. ASSUME NEW x \in File, bytes'[x] \in Path, NEW d \in WithDir(P), bytes'[x] = Renamed(d, a, b)
        PROVE  FALSE
    <3>. PICK e : e = bytes[x]  OBVIOUS
    <3>1. e \in Path /\ ~IsPrefix(b, e) /\ e \notin WithDir(P) /\ e # a /\ Renamed(e, a, b) = Renamed(d, a, b)
      BY <2>1, <1>7, <1>8
    <3>2. CASE IsPrefix(a, e) /\ IsPrefix(a, d)  BY <3>1, <3>2, <1>1, <1>2, RenamedInjective
    <3>3. CASE IsPrefix(a, e) /\ ~IsPrefix(a, d)
      <4>1. Renamed(e, a, b) = d /\ IsPrefix(b, d)  BY <3>1, <3>3, <1>1, RenamedElsewhere, RenamedUnder
      <4>2. d = b  BY <4>1, <1>5 DEF IsStrictPrefix
      <4>3. Renamed(e, a, b) = Renamed(a, a, b)  BY <4>1, <4>2, <1>1, RenamedItself
      <4>. QED BY <4>3, <3>1, <3>3, <1>1, PrefixOfItself, RenamedInjective
    <3>4. CASE ~IsPrefix(a, e) /\ IsPrefix(a, d)
      <4>1. Renamed(e, a, b) = e /\ IsPrefix(b, Renamed(d, a, b))  BY <3>4, <1>1, <1>2, RenamedElsewhere, RenamedUnder
      <4>. QED BY <4>1, <3>1
    <3>5. CASE ~IsPrefix(a, e) /\ ~IsPrefix(a, d)  BY <3>1, <3>5, RenamedElsewhere
    <3>. QED BY <3>2, <3>3, <3>4, <3>5
  <2>. QED BY <2>1, <1>7 DEF DiskClean
<1>10. FolderMoved(o)'
  <2>1. ASSUME NEW d \in dirs'  PROVE ~IsPrefix(a, d)  BY <2>1, <1>2, <1>6, <1>7
  <2>2. ASSUME NEW x \in File, bytes'[x] \in Path  PROVE ~IsPrefix(a, bytes'[x])  BY <2>2, <1>6, <1>7, <1>8
  <2>3. ASSUME NEW f \in Folders \ torn
        PROVE  ~IsPrefix(b, folder[f].path) /\ Renamed(folder[f].path, a, b) \in dirs'
    <3>1. folder[f].path \in dirs  BY DEF Rest
    <3>2. folder[f].path # b  BY DEF Planned
    <3>3. folder[f].path \in WithDir(P)  BY <3>1, <1>1, WithDirIs
    <3>. QED BY <3>2, <3>3, <1>5, <1>7 DEF IsStrictPrefix
  <2>4. ASSUME NEW x \in Files \ torn
        PROVE  /\ file[x].disk # a /\ (file[x].disk \in Path => ~IsPrefix(b, file[x].disk))
               /\ bytes'[x] = Renamed(file[x].disk, a, b)
    <3>1. bytes[x] = file[x].disk /\ x \in File  BY DEF Rest, Files
    <3>2. bytes[x] # a  BY <1>1, <3>1 DEF CanRename, TreeInv, DiskClean
    <3>. QED BY <3>1, <3>2, <1>7 DEF CanRename
  <2>5. Folders' = Folders /\ Files' = Files  BY DEF Folders, Files
  <2>. QED BY <2>1, <2>2, <2>3, <2>4, <2>5, <1>3, <1>4 DEF FolderMoved
<1>. QED BY <1>9, <1>10

LEMMA TreeRenameDir ==
  ASSUME OneAtATime, TypeInv, TreeInv, NEW h \in Handler, RenameDir(h)
  PROVE  TreeInv'
<1>1. op[h] # NoOp  BY DEF RenameDir
<1>2. PICK o \in Op : o = op[h] /\ OpShape(o) /\ Planned(o) /\ Stands(o) /\ o.to \in Path /\ o.to \in Below /\ Front(o.to) \in Path
  BY <1>1, OpStands
<1>3. /\ o.kind = "moveFolder" /\ o.step = "disk" /\ UNCHANGED <<folder, file, unused, torn>>
      /\ IF Blocked(Front(o.to)) THEN End(h) /\ UNCHANGED <<dirs, bytes>>
         ELSE IF ~CanRename(o.from, o.to)
         THEN End(h) /\ dirs' = WithDir(Front(o.to)) /\ UNCHANGED bytes
         ELSE /\ Goto(h, "rows")
              /\ dirs' = {Renamed(d, o.from, o.to) : d \in WithDir(Front(o.to))}
              /\ bytes' = [x \in File |-> Renamed(bytes[x], o.from, o.to)]
  BY <1>2 DEF RenameDir, rows, disk
<1>4. Rest  BY <1>2, <1>3 DEF Stands
<1>5. o.from \in Below /\ o.from \in Path  BY <1>2, <1>3, FolderRows DEF Planned
<1>6. CASE Blocked(Front(o.to))
  <2>1. DiskClean'  BY <1>3, <1>6 DEF TreeInv, DiskClean
  <2>2. Rest'  BY <1>3, <1>4, <1>6, RestKept
  <2>. QED BY <1>3, <1>6, <2>1, <2>2, TreeDiskEnds
<1>7. CASE ~Blocked(Front(o.to)) /\ ~CanRename(o.from, o.to)
  <2>1. DiskClean'  BY <1>2, <1>3, <1>7, MkdirClean DEF TreeInv, DiskClean
  <2>2. dirs \subseteq dirs'  BY <1>2, <1>3, <1>7, WithDirIs
  <2>3. Rest'  BY <1>3, <1>4, <1>7, <2>2, RestKept
  <2>. QED BY <1>3, <1>7, <2>1, <2>3, TreeDiskEnds
<1>8. CASE ~Blocked(Front(o.to)) /\ CanRename(o.from, o.to)
  <2>1. FolderMoved(o)' /\ DiskClean'  BY <1>2, <1>3, <1>4, <1>5, <1>8, DirMoves
  <2>2. ASSUME NEW q \in Op, q = op'[h]  PROVE Stands(q)'
    <3>1. q.kind = "moveFolder" /\ q.step = "rows" /\ q.from = o.from /\ q.to = o.to
      BY <1>2, <1>3, <1>8, <2>2, OpGoesTo
    <3>2. FolderMoved(q)'  BY <3>1, <2>1 DEF FolderMoved
    <3>. QED BY <3>1, <3>2 DEF Stands, OnDisk
  <2>. QED BY <1>2, <1>3, <1>8, <2>1, <2>2, TreeGoes
<1>. QED BY <1>6, <1>7, <1>8

(* The file of a row that is not torn, if it is on the SSD, is at its path.*)
LEMMA DiskOnce ==
  ASSUME TypeInv, TreeInv, NEW x \in Files \ torn, NEW y \in Files \ torn,
         file[x].disk \in Path, file[x].disk = file[y].disk
  PROVE  x = y
<1>1. file[x].disk = file[x].path /\ file[y].disk = file[y].path  BY FileIsPlaced, SpecialAssumption
<1>. QED BY <1>1 DEF TreeInv, PathsUnique

(* A file goes to a path that no other file has.                           *)
LEMMA FileMoves ==
  ASSUME TypeInv, TreeInv, NEW x \in Files \ torn, NEW a \in Path, NEW b \in Path,
         file[x].disk = a, \A y \in Files : file[y].path # b,
         NEW y \in Files \ torn, y # x
  PROVE  file[y].disk # a /\ file[y].disk # b
<1>1. file[y].disk # a  BY DiskOnce
<1>2. file[y].disk \in {file[y].path, Hdd}  BY FileIsPlaced
<1>. QED BY <1>1, <1>2, SpecialAssumption

LEMMA TreeRenameFile ==
  ASSUME OneAtATime, TypeInv, TreeInv, NEW h \in Handler, RenameFile(h)
  PROVE  TreeInv'
<1>1. op[h] # NoOp  BY DEF RenameFile
<1>2. PICK o \in Op : /\ o = op[h] /\ OpShape(o) /\ Planned(o) /\ Stands(o) /\ o.to \in Path
                      /\ Front(o.to) \in Path /\ o.from \in Path \cup {Hdd}
  BY <1>1, OpStands
<1>. DEFINE found == (\E x \in File : bytes[x] = o.from) /\ o.to \notin dirs
<1>3. /\ o.kind = "moveFile" /\ o.step = "disk" /\ UNCHANGED <<folder, file, unused, torn>>
      /\ IF o.from = Hdd THEN Goto(h, "rows") /\ UNCHANGED <<dirs, bytes>>
         ELSE IF Blocked(Front(o.to)) THEN End(h) /\ UNCHANGED <<dirs, bytes>>
         ELSE /\ dirs' = WithDir(Front(o.to))
              /\ IF found THEN Goto(h, "rows") /\ bytes' = FileRenamed(o.from, o.to)
                 ELSE End(h) /\ UNCHANGED bytes
  BY <1>2 DEF RenameFile, rows, disk
<1>4. Rest  BY <1>2, <1>3 DEF Stands
<1>5. CASE o.from = Hdd
  <2>1. DiskClean'  BY <1>3, <1>5 DEF TreeInv, DiskClean
  <2>2. Rest'  BY <1>3, <1>4, <1>5, RestKept
  <2>3. ASSUME NEW q \in Op, q = op'[h]  PROVE Stands(q)'
    <3>1. q.kind = "moveFile" /\ q.from = Hdd  BY <1>2, <1>3, <1>5, <2>3, OpGoesTo
    <3>. QED BY <3>1, <2>2 DEF Stands
  <2>. QED BY <1>2, <1>3, <1>5, <2>1, <2>3, TreeGoes
<1>6. CASE o.from # Hdd /\ Blocked(Front(o.to))
  <2>1. DiskClean'  BY <1>3, <1>6 DEF TreeInv, DiskClean
  <2>2. Rest'  BY <1>3, <1>4, <1>6, RestKept
  <2>. QED BY <1>3, <1>6, <2>1, <2>2, TreeDiskEnds
<1>7. CASE o.from # Hdd /\ ~Blocked(Front(o.to)) /\ ~found
  <2>1. DiskClean'  BY <1>2, <1>3, <1>7, MkdirClean DEF TreeInv, DiskClean
  <2>2. dirs \subseteq dirs'  BY <1>2, <1>3, <1>7, WithDirIs
  <2>3. Rest'  BY <1>3, <1>4, <1>7, <2>2, RestKept
  <2>. QED BY <1>3, <1>7, <2>1, <2>3, TreeDiskEnds
<1>8. CASE o.from # Hdd /\ ~Blocked(Front(o.to)) /\ found
  <2>1. dirs' = WithDir(Front(o.to)) /\ bytes' = FileRenamed(o.from, o.to) /\ Goto(h, "rows")  BY <1>3, <1>8
  <2>2. /\ o.id \in Files \ torn /\ o.id \in File /\ o.from = file[o.id].disk /\ o.from \in Path
        /\ \A y \in Files : file[y].path # o.to
    BY <1>2, <1>3, <1>8 DEF Planned, Touching, Files
  <2>3. bytes[o.id] = o.from  BY <1>4, <2>2 DEF Rest
  <2>4. \A x \in File : bytes'[x] = IF bytes[x] = o.from THEN o.to
                                    ELSE IF bytes[x] = o.to THEN Nowhere ELSE bytes[x]
    BY <2>1 DEF FileRenamed
  <2>5. dirs \subseteq dirs' /\ o.from \notin dirs'  BY <1>2, <1>8, <2>1, <2>2, <2>3, WithDirIs, MkdirClean DEF TreeInv
  <2>6. o.to \notin dirs'
    <3>1. Target(o)  BY <1>2, <1>3 DEF Planned
    <3>2. PathOf(o.parent) \in Path /\ o.name \in Name  BY <3>1, ParentPath DEF Target, Op
    <3>3. Front(o.to) = PathOf(o.parent)  BY <3>1, <3>2, FrontOfAppend DEF Target
    <3>4. Append(PathOf(o.parent), o.name) \notin dirs  BY <1>8, <3>1 DEF Target
    <3>5. Append(PathOf(o.parent), o.name) \notin WithDir(PathOf(o.parent))  BY <3>2, <3>4, AppendedNotMade
    <3>. QED BY <2>1, <3>1, <3>3, <3>5 DEF Target
  <2>7. ASSUME NEW x \in File, bytes'[x] \in Path  PROVE bytes'[x] \notin dirs'
    <3>1. CASE bytes[x] = o.from  BY <3>1, <2>4, <2>6
    <3>2. CASE bytes[x] # o.from
      <4>1. bytes'[x] = bytes[x]  BY <3>2, <2>4, <2>7, SpecialAssumption
      <4>. QED BY <4>1, <2>7, <1>2, <1>8, <2>1, MkdirClean DEF TreeInv
    <3>. QED BY <3>1, <3>2
  <2>8. DiskClean'  BY <2>7 DEF DiskClean
  <2>9. Folders' = Folders /\ Files' = Files  BY <1>3 DEF Folders, Files
  <2>10. \A f \in Folders \ torn : folder[f].path \in dirs'  BY <1>4, <2>5 DEF Rest
  <2>11. bytes'[o.id] = o.to  BY <2>2, <2>3, <2>4
  <2>12. ASSUME NEW x \in Files \ torn, x # o.id  PROVE bytes'[x] = file[x].disk
    <3>1. bytes[x] = file[x].disk /\ x \in File  BY <1>4 DEF Rest, Files
    <3>2. file[x].disk # o.from /\ file[x].disk # o.to  BY <1>2, <2>2, <2>12, FileMoves
    <3>. QED BY <3>1, <3>2, <2>4
  <2>13. ASSUME NEW q \in Op, q = op'[h]  PROVE Stands(q)'
    <3>1. q.kind = "moveFile" /\ q.step = "rows" /\ q.id = o.id /\ q.from = o.from /\ q.to = o.to
      BY <1>2, <1>3, <2>1, <2>13, OpGoesTo
    <3>2. FileMoved(q)'  BY <1>3, <3>1, <2>5, <2>9, <2>10, <2>11, <2>12 DEF FileMoved
    <3>. QED BY <3>1, <3>2, <1>8 DEF Stands, OnDisk
  <2>. QED BY <1>2, <1>3, <2>1, <2>8, <2>13, TreeGoes
<1>. QED BY <1>5, <1>6, <1>7, <1>8

LEMMA TreeRemoveDir ==
  ASSUME OneAtATime, TypeInv, TreeInv, NEW h \in Handler, RemoveDir(h)
  PROVE  TreeInv'
<1>1. op[h] # NoOp  BY DEF RemoveDir
<1>2. PICK o \in Op : o = op[h] /\ OpShape(o) /\ Planned(o) /\ Stands(o)  BY <1>1, OpStands
<1>3. /\ o.kind = "deleteFolder" /\ o.step = "disk" /\ UNCHANGED <<folder, file, unused, torn>>
      /\ dirs' = {d \in dirs : ~IsPrefix(o.from, d)}
      /\ bytes' = [x \in File |-> IF bytes[x] \in Path /\ IsPrefix(o.from, bytes[x]) THEN Nowhere ELSE bytes[x]]
      /\ Goto(h, "rows")
  BY <1>2 DEF RemoveDir, rows
<1>4. Rest  BY <1>2, <1>3 DEF Stands
<1>5. o.id \in Folders \ torn /\ o.from = folder[o.id].path  BY <1>2, <1>3 DEF Planned, Touching
<1>6. o.from \in dirs  BY <1>4, <1>5 DEF Rest
<1>7. DiskClean'  BY <1>3, SpecialAssumption DEF TreeInv, DiskClean
<1>8. Folders' = Folders /\ Files' = Files  BY <1>3 DEF Folders, Files
<1>9. \A f \in Folders \ torn : IsPrefix(o.from, folder[f].path) \/ folder[f].path \in dirs'
  BY <1>3, <1>4 DEF Rest
<1>10. ASSUME NEW x \in Files \ torn  PROVE IsStrictPrefix(o.from, file[x].path) \/ bytes'[x] = file[x].disk
  <2>1. bytes[x] = file[x].disk /\ x \in File  BY <1>4 DEF Rest, Files
  <2>2. CASE bytes[x] \in Path /\ IsPrefix(o.from, bytes[x])
    <3>1. bytes[x] = file[x].path  BY <2>1, <2>2, FileIsPlaced, SpecialAssumption
    <3>2. bytes[x] # o.from  BY <2>1, <2>2, <1>6 DEF TreeInv, DiskClean
    <3>. QED BY <2>2, <3>1, <3>2 DEF IsStrictPrefix
  <2>3. CASE ~(bytes[x] \in Path /\ IsPrefix(o.from, bytes[x]))  BY <2>1, <2>3, <1>3
  <2>. QED BY <2>2, <2>3
<1>11. ASSUME NEW q \in Op, q = op'[h]  PROVE Stands(q)'
  <2>1. q.kind = "deleteFolder" /\ q.step = "rows" /\ q.from = o.from  BY <1>2, <1>3, <1>11, OpGoesTo
  <2>2. FolderRemoved(q)'  BY <1>3, <2>1, <1>8, <1>9, <1>10 DEF FolderRemoved
  <2>. QED BY <2>1, <2>2 DEF Stands, OnDisk
<1>. QED BY <1>2, <1>3, <1>7, <1>11, TreeGoes

LEMMA TreeRemoveFile ==
  ASSUME OneAtATime, TypeInv, TreeInv, NEW h \in Handler, RemoveFile(h)
  PROVE  TreeInv'
<1>1. op[h] # NoOp  BY DEF RemoveFile
<1>2. PICK o \in Op : o = op[h] /\ OpShape(o) /\ Planned(o) /\ Stands(o) /\ o.from \in Path \cup {Hdd}
  BY <1>1, OpStands
<1>3. /\ o.kind = "deleteFile" /\ o.step = "disk" /\ UNCHANGED <<folder, file, unused, torn, dirs>>
      /\ bytes' = [x \in File |-> IF bytes[x] = o.from /\ (o.from = Hdd => x = o.id) THEN Nowhere ELSE bytes[x]]
      /\ Goto(h, "rows")
  BY <1>2 DEF RemoveFile, rows
<1>4. Rest  BY <1>2, <1>3 DEF Stands
<1>5. o.id \in Files \ torn /\ o.from = file[o.id].disk  BY <1>2, <1>3 DEF Planned, Touching
<1>6. DiskClean'  BY <1>3, SpecialAssumption DEF TreeInv, DiskClean
<1>7. Folders' = Folders /\ Files' = Files  BY <1>3 DEF Folders, Files
<1>8. ASSUME NEW x \in Files \ torn, x # o.id  PROVE bytes'[x] = file[x].disk
  <2>1. bytes[x] = file[x].disk /\ x \in File  BY <1>4 DEF Rest, Files
  <2>2. ~(bytes[x] = o.from /\ (o.from = Hdd => x = o.id))  BY <2>1, <1>2, <1>5, <1>8, DiskOnce
  <2>. QED BY <2>1, <2>2, <1>3
<1>9. ASSUME NEW q \in Op, q = op'[h]  PROVE Stands(q)'
  <2>1. q.kind = "deleteFile" /\ q.step = "rows" /\ q.id = o.id  BY <1>2, <1>3, <1>9, OpGoesTo
  <2>2. FileRemoved(q)'  BY <1>3, <2>1, <1>4, <1>7, <1>8 DEF FileRemoved, Rest
  <2>. QED BY <2>1, <2>2 DEF Stands, OnDisk
<1>. QED BY <1>2, <1>3, <1>6, <1>9, TreeGoes

(* A move undone: everything is where it was.                              *)
LEMMA DirMovesBack ==
  ASSUME TypeInv, TreeInv, NEW o \in Op, o.from \in Path, o.to \in Path, FolderMoved(o),
         UNCHANGED <<folder, file, torn>>,
         dirs' = {Renamed(d, o.to, o.from) : d \in dirs},
         bytes' = [x \in File |-> Renamed(bytes[x], o.to, o.from)]
  PROVE  Rest' /\ DiskClean'
<1>. PICK a : a = o.from  OBVIOUS
<1>. PICK b : b = o.to  OBVIOUS
<1>1. /\ a \in Path /\ b \in Path /\ \A d \in dirs : d \in Path /\ ~IsPrefix(a, d)
      /\ \A x \in File : bytes[x] \in Path => ~IsPrefix(a, bytes[x])
  BY DEF FolderMoved, TypeInv, DiskTyped
<1>2. dirs' = {Renamed(d, b, a) : d \in dirs} /\ \A x \in File : bytes'[x] = Renamed(bytes[x], b, a)
  OBVIOUS
<1>3. Folders' = Folders /\ Files' = Files  BY DEF Folders, Files
<1>4. ASSUME NEW p \in Path, ~IsPrefix(b, p)  PROVE Renamed(Renamed(p, a, b), b, a) = p
  <2>1. CASE IsPrefix(a, p)  BY <2>1, <1>1, RenamedBack
  <2>2. CASE ~IsPrefix(a, p)  BY <2>2, <1>4, RenamedElsewhere
  <2>. QED BY <2>1, <2>2
<1>5. ASSUME NEW f \in Folders \ torn  PROVE folder[f].path \in dirs'
  <2>1. folder[f].path \in Path /\ ~IsPrefix(b, folder[f].path) /\ Renamed(folder[f].path, a, b) \in dirs
    BY FolderRows DEF FolderMoved
  <2>2. Renamed(Renamed(folder[f].path, a, b), b, a) = folder[f].path  BY <2>1, <1>4
  <2>. QED BY <2>1, <2>2, <1>2
<1>6. ASSUME NEW x \in Files \ torn  PROVE bytes'[x] = file[x].disk
  <2>1. /\ x \in File /\ file[x].disk \in Path \cup {Hdd} /\ bytes[x] = Renamed(file[x].disk, a, b)
        /\ file[x].disk \in Path => ~IsPrefix(b, file[x].disk)
    BY FileRows DEF FolderMoved
  <2>2. CASE file[x].disk \in Path  BY <2>1, <2>2, <1>2, <1>4
  <2>3. CASE file[x].disk = Hdd  BY <2>1, <2>3, <1>2, RenamedElsewhere, SpecialAssumption
  <2>. QED BY <2>1, <2>2, <2>3
<1>7. ASSUME NEW x \in File, bytes'[x] \in Path, NEW d \in dirs, bytes'[x] = Renamed(d, b, a)  PROVE FALSE
  <2>. PICK e : e = bytes[x]  OBVIOUS
  <2>1. e \in Path  BY <1>2, <1>7, RenamedElsewhere
  <2>2. e \notin dirs /\ ~IsPrefix(a, e) /\ ~IsPrefix(a, d) /\ Renamed(e, b, a) = Renamed(d, b, a) /\ d \in Path
    BY <2>1, <1>1, <1>2, <1>7 DEF TreeInv, DiskClean
  <2>3. CASE IsPrefix(b, e) /\ IsPrefix(b, d)  BY <2>1, <2>2, <2>3, <1>1, RenamedInjective
  <2>4. CASE IsPrefix(b, e) /\ ~IsPrefix(b, d)
    <3>1. Renamed(d, b, a) = d /\ IsPrefix(a, Renamed(e, b, a))  BY <2>1, <2>4, <1>1, RenamedElsewhere, RenamedUnder
    <3>. QED BY <3>1, <2>2
  <2>5. CASE ~IsPrefix(b, e) /\ IsPrefix(b, d)
    <3>1. Renamed(e, b, a) = e /\ IsPrefix(a, Renamed(d, b, a))  BY <2>2, <2>5, <1>1, RenamedElsewhere, RenamedUnder
    <3>. QED BY <3>1, <2>2
  <2>6. CASE ~IsPrefix(b, e) /\ ~IsPrefix(b, d)  BY <2>2, <2>6, RenamedElsewhere
  <2>. QED BY <2>3, <2>4, <2>5, <2>6
<1>. QED BY <1>2, <1>3, <1>5, <1>6, <1>7 DEF Rest, DiskClean

LEMMA TreeMoveBack ==
  ASSUME OneAtATime, TypeInv, TreeInv, NEW h \in Handler, MoveBack(h)
  PROVE  TreeInv'
<1>1. op[h] # NoOp  BY DEF MoveBack
<1>2. PICK o \in Op : /\ o = op[h] /\ OpShape(o) /\ Planned(o) /\ Stands(o) /\ o.to \in Path
                      /\ o.from \in Path \cup {Hdd}
  BY <1>1, OpStands
<1>3. /\ o.step = "back" /\ End(h) /\ UNCHANGED <<folder, file, unused, torn>>
      /\ IF o.kind = "moveFile" THEN bytes' = FileRenamed(o.to, o.from) /\ UNCHANGED dirs
         ELSE /\ dirs' = {Renamed(d, o.to, o.from) : d \in dirs}
              /\ bytes' = [x \in File |-> Renamed(bytes[x], o.to, o.from)]
  BY <1>2 DEF MoveBack, rows
<1>4. CASE o.kind = "moveFolder"
  <2>1. FolderMoved(o) /\ o.from \in Path  BY <1>2, <1>3, <1>4 DEF Stands, OpShape
  <2>2. Rest' /\ DiskClean'  BY <1>2, <1>3, <1>4, <2>1, DirMovesBack
  <2>. QED BY <1>3, <2>2, TreeDiskEnds
<1>5. CASE o.kind = "moveFile" /\ o.from # Hdd
  <2>1. FileMoved(o)  BY <1>2, <1>3, <1>5 DEF Stands
  <2>2. /\ o.id \in Files \ torn /\ o.id \in File /\ o.from = file[o.id].disk /\ o.from \in Path
        /\ \A y \in Files : file[y].path # o.to
    BY <1>2, <1>5 DEF Planned, Touching, Files
  <2>3. dirs' = dirs /\ \A x \in File : bytes'[x] = IF bytes[x] = o.to THEN o.from
                                       ELSE IF bytes[x] = o.from THEN Nowhere ELSE bytes[x]
    BY <1>3, <1>5 DEF FileRenamed
  <2>4. DiskClean'  BY <2>1, <2>3, SpecialAssumption DEF TreeInv, DiskClean, FileMoved
  <2>5. ASSUME NEW x \in Files \ torn  PROVE bytes'[x] = file[x].disk
    <3>1. CASE x = o.id  BY <3>1, <2>1, <2>2, <2>3 DEF FileMoved
    <3>2. CASE x # o.id
      <4>1. bytes[x] = file[x].disk /\ x \in File  BY <3>2, <2>1 DEF FileMoved, Files
      <4>2. file[x].disk # o.from /\ file[x].disk # o.to  BY <1>2, <2>2, <3>2, FileMoves
      <4>. QED BY <4>1, <4>2, <2>3
    <3>. QED BY <3>1, <3>2
  <2>6. Folders' = Folders /\ Files' = Files  BY <1>3 DEF Folders, Files
  <2>7. Rest'  BY <1>3, <2>1, <2>3, <2>5, <2>6 DEF Rest, FileMoved
  <2>. QED BY <1>3, <2>4, <2>7, TreeDiskEnds
<1>6. o.kind = "moveFolder" \/ (o.kind = "moveFile" /\ o.from # Hdd)  BY <1>2, <1>3 DEF OpShape
<1>. QED BY <1>4, <1>5, <1>6

LEMMA TreeRowsFail ==
  ASSUME OneAtATime, TypeInv, TreeInv, NEW h \in Handler, RowsFail(h)
  PROVE  TreeInv'
<1>1. op[h] # NoOp  BY DEF RowsFail
<1>2. PICK o \in Op : o = op[h] /\ OpShape(o) /\ Planned(o) /\ Stands(o)  BY <1>1, OpStands
<1>. DEFINE moves == o.kind = "moveFolder" \/ (o.kind = "moveFile" /\ o.from # Hdd)
<1>3. /\ o.step = "rows" /\ UNCHANGED <<folder, file, unused, dirs, bytes>>
      /\ IF moves THEN Goto(h, "back") /\ UNCHANGED torn
         ELSE End(h) /\ torn' = IF o.kind \in {"create", "moveFile"} THEN torn ELSE torn \cup Touching(o)
  BY <1>2 DEF RowsFail, rows, disk
<1>4. DiskClean'  BY <1>3 DEF TreeInv, DiskClean
<1>5. Folders' = Folders /\ Files' = Files  BY <1>3 DEF Folders, Files
<1>6. CASE moves
  <2>1. ASSUME NEW q \in Op, q = op'[h]  PROVE Stands(q)'
    <3>1. q.kind = o.kind /\ q.step = "back" /\ q.id = o.id /\ q.from = o.from /\ q.to = o.to
      BY <1>2, <1>3, <1>6, <2>1, OpGoesTo
    <3>2. FolderMoved(o) => FolderMoved(q)'  BY <1>3, <1>5, <1>6, <3>1 DEF FolderMoved
    <3>3. FileMoved(o) => FileMoved(q)'  BY <1>3, <1>5, <1>6, <3>1 DEF FileMoved
    <3>. QED BY <1>2, <1>3, <1>6, <3>1, <3>2, <3>3 DEF Stands, OnDisk
  <2>. QED BY <1>2, <1>3, <1>4, <1>6, <2>1, TreeGoes
<1>7. CASE ~moves /\ o.kind \in {"create", "moveFile"}
  <2>1. torn' = torn /\ End(h) /\ Rest  BY <1>2, <1>3, <1>7 DEF Stands, OnDisk
  <2>2. Rest'  BY <1>3, <2>1, RestKept
  <2>. QED BY <1>3, <1>4, <2>1, <2>2, TreeDiskEnds
<1>8. CASE ~moves /\ o.kind \notin {"create", "moveFile"}
  <2>1. torn' = torn \cup Touching(o) /\ End(h)  BY <1>3, <1>8
  <2>2. Rest'  BY <1>2, <1>3, <1>5, <2>1, RestApart DEF Rest
  <2>3. PathsUnique' /\ Placed' /\ (unused \cap Folders = {})'  BY <1>3, <2>1, RowsStayPlaced DEF rows
  <2>. QED BY <1>4, <2>1, <2>2, <2>3, TreeEnds
<1>. QED BY <1>6, <1>7, <1>8

LEMMA TreeCrash ==
  ASSUME OneAtATime, TypeInv, TreeInv, Crash
  PROVE  TreeInv'
<1>. DEFINE busy == {h \in Handler : op[h] # NoOp /\ op[h].step # "disk"}
<1>1. /\ op' = [h \in Handler |-> NoOp] /\ UNCHANGED <<folder, file, unused, dirs, bytes>>
      /\ torn' = torn \cup UNION {Touching(op[h]) : h \in busy}
  BY DEF Crash, rows, disk
<1>2. Folders' = Folders /\ Files' = Files  BY <1>1 DEF Folders, Files
<1>3. PathsUnique' /\ Placed' /\ (unused \cap Folders = {})'  BY <1>1, RowsStayPlaced DEF rows
<1>4. DiskClean'  BY <1>1 DEF TreeInv, DiskClean
<1>5. Rest'
  <2>1. CASE \A h \in Handler : op[h] = NoOp
    <3>1. Rest  BY <2>1 DEF TreeInv
    <3>. QED BY <3>1, <1>1, <1>2 DEF Rest
  <2>2. CASE ~\A h \in Handler : op[h] = NoOp
    <3>1. PICK h \in Handler : op[h] # NoOp  BY <2>2
    <3>2. PICK o \in Op : o = op[h] /\ OpShape(o) /\ Stands(o)  BY <3>1, OpStands
    <3>3. CASE o.step = "disk"
      <4>1. Rest  BY <3>2, <3>3 DEF Stands
      <4>. QED BY <4>1, <1>1, <1>2 DEF Rest
    <3>4. CASE o.step # "disk"
      <4>1. torn \cup Touching(o) \subseteq torn'  BY <1>1, <3>1, <3>2, <3>4
      <4>. QED BY <4>1, <3>2, <1>1, <1>2, RestApart DEF Rest
    <3>. QED BY <3>3, <3>4
  <2>. QED BY <2>1, <2>2
<1>6. \A h \in Handler, o \in Op : op'[h] # o  BY <1>1, SpecialAssumption DEF NoOp
<1>. QED BY <1>3, <1>4, <1>5, <1>6 DEF TreeInv

(* The rows.                                                               *)
LEMMA TreeInsertFolder ==
  ASSUME OneAtATime, TypeInv, TreeInv, NEW h \in Handler, InsertFolder(h)
  PROVE  TreeInv'
<1>1. op[h] # NoOp  BY DEF InsertFolder
<1>2. PICK o \in Op : /\ o = op[h] /\ OpShape(o) /\ Planned(o) /\ Stands(o) /\ o.to \in Below
  BY <1>1, OpStands
<1>. PICK r : r = [path |-> o.to, name |-> o.name, parent |-> o.parent]  OBVIOUS
<1>3. /\ o.kind = "create" /\ o.step = "rows" /\ End(h) /\ UNCHANGED <<file, unused, dirs, bytes, torn>>
      /\ \A g \in Folders : folder[g].path # o.to
      /\ folder' = [folder EXCEPT ![o.id] = r]
  BY <1>2 DEF InsertFolder, disk
<1>4. /\ o.id \in Folder /\ o.id \notin Folders \cup unused /\ o.id # Top
      /\ o.parent \in Parents /\ o.to = Append(PathOf(o.parent), o.name)
      /\ Rest /\ o.to \in dirs
  BY <1>2, <1>3, ConstantsAssumption DEF OpShape, Planned, Target, Stands, OnDisk
<1>5. r # Gone
  <2>1. r \in FolderRowBelow  BY <1>2 DEF FolderRowBelow, Op
  <2>. QED BY <2>1, SpecialsApart
<1>6. /\ folder'[o.id] = r /\ \A f \in Folder : f # o.id => folder'[f] = folder[f]
      /\ r.path = o.to /\ r.name = o.name /\ r.parent = o.parent
  BY <1>3, <1>4 DEF TypeInv, RowsTyped
<1>7. Folders' = Folders \cup {o.id} /\ Files' = Files  BY <1>3, <1>4, <1>5, <1>6 DEF Folders, Files
<1>8. Parents \subseteq Parents' /\ \A p \in Parents : PathOf(p)' = PathOf(p)
  BY <1>4, <1>6, <1>7 DEF Parents, PathOf, Folders
<1>9. PathsUnique'
  <2>1. ASSUME NEW f \in Folders', NEW g \in Folders', folder'[f].path = folder'[g].path  PROVE f = g
    <3>1. f \in Folder /\ g \in Folder /\ (f # o.id => f \in Folders) /\ (g # o.id => g \in Folders)
      BY <1>7 DEF Folders
    <3>2. CASE f = o.id /\ g # o.id
      <4>1. folder'[f].path = o.to /\ folder'[g].path = folder[g].path /\ g \in Folders  BY <3>1, <3>2, <1>6
      <4>. QED BY <4>1, <2>1, <1>3
    <3>3. CASE f # o.id /\ g = o.id
      <4>1. folder'[g].path = o.to /\ folder'[f].path = folder[f].path /\ f \in Folders  BY <3>1, <3>3, <1>6
      <4>. QED BY <4>1, <2>1, <1>3
    <3>4. CASE f # o.id /\ g # o.id
      <4>1. folder[f].path = folder[g].path /\ f \in Folders /\ g \in Folders  BY <3>1, <3>4, <2>1, <1>6
      <4>. QED BY <4>1 DEF TreeInv, PathsUnique
    <3>. QED BY <3>2, <3>3, <3>4
  <2>. QED BY <2>1, <1>3, <1>7 DEF TreeInv, PathsUnique
<1>10. Placed'
  <2>1. ASSUME NEW f \in Folders' \ torn  PROVE FolderPlaced(f)'
    <3>1. CASE f = o.id
      <4>1. folder'[f] = r /\ o.parent \in Parents' /\ o.to = Append(PathOf(o.parent)', o.name)
        <5>. PICK p : p = o.parent  OBVIOUS
        <5>. QED BY <3>1, <1>4, <1>6, <1>8
      <4>. QED BY <4>1, <1>6 DEF FolderPlaced
    <3>2. CASE f # o.id
      <4>1. f \in Folders \ torn /\ f \in Folder /\ folder'[f] = folder[f]  BY <3>2, <1>6, <1>7 DEF Folders
      <4>. QED BY <4>1, <1>8 DEF TreeInv, Placed, FolderPlaced
    <3>. QED BY <3>1, <3>2
  <2>2. \A x \in Files \ torn : FilePlaced(x)'  BY <1>3, <1>8 DEF TreeInv, Placed, FilePlaced
  <2>. QED BY <2>1, <2>2, <1>3, <1>7 DEF Placed
<1>11. DiskClean'  BY <1>3 DEF TreeInv, DiskClean
<1>12. Rest'
  <2>1. ASSUME NEW f \in Folders' \ torn  PROVE folder'[f].path \in dirs
    <3>1. CASE f = o.id  BY <3>1, <1>4, <1>6
    <3>2. CASE f # o.id
      <4>1. f \in Folders \ torn /\ f \in Folder  BY <3>2, <1>7 DEF Folders
      <4>. QED BY <4>1, <3>2, <1>4, <1>6 DEF Rest
    <3>. QED BY <3>1, <3>2
  <2>. QED BY <2>1, <1>3, <1>4, <1>7 DEF Rest
<1>13. (unused \cap Folders = {})'  BY <1>3, <1>4, <1>7 DEF TreeInv
<1>. QED BY <1>3, <1>9, <1>10, <1>11, <1>12, <1>13, TreeEnds

LEMMA TreeUpdateFile ==
  ASSUME OneAtATime, TypeInv, TreeInv, NEW h \in Handler, UpdateFile(h)
  PROVE  TreeInv'
<1>1. op[h] # NoOp  BY DEF UpdateFile
<1>2. PICK o \in Op : o = op[h] /\ OpShape(o) /\ Planned(o) /\ Stands(o) /\ o.to \in Below /\ o.to \in Path
  BY <1>1, OpStands
<1>. PICK place : place = IF o.from = Hdd THEN Hdd ELSE o.to  OBVIOUS
<1>. PICK r : r = [path |-> o.to, name |-> o.name, folder |-> o.parent, disk |-> place]  OBVIOUS
<1>3. /\ o.kind = "moveFile" /\ o.step = "rows" /\ End(h) /\ UNCHANGED <<folder, unused, dirs, bytes, torn>>
      /\ \A y \in Files \ {o.id} : file[y].path # o.to
      /\ file' = [file EXCEPT ![o.id] = r] /\ o.id \in Files
  BY <1>2 DEF UpdateFile, disk
<1>4. /\ o.id \in File /\ o.id \notin torn /\ o.from = file[o.id].disk
      /\ o.parent \in Parents /\ o.to = Append(PathOf(o.parent), o.name)
  BY <1>2, <1>3 DEF Planned, Target, Touching, Files
<1>5. r # Gone
  <2>1. r \in FileRowBelow  BY <1>2 DEF FileRowBelow, Op
  <2>. QED BY <2>1, SpecialsApart
<1>6. /\ file'[o.id] = r /\ \A y \in File : y # o.id => file'[y] = file[y]
      /\ r.path = o.to /\ r.name = o.name /\ r.folder = o.parent /\ r.disk = place /\ place \in {o.to, Hdd}
  BY <1>3, <1>4 DEF TypeInv, RowsTyped
<1>7. Folders' = Folders /\ Files' = Files  BY <1>3, <1>4, <1>5, <1>6 DEF Folders, Files
<1>8. Parents' = Parents /\ \A p \in Parents : PathOf(p)' = PathOf(p)
  BY <1>3, <1>7 DEF Parents, PathOf, Folders
<1>9. PathsUnique'
  <2>1. ASSUME NEW y \in Files', NEW z \in Files', file'[y].path = file'[z].path  PROVE y = z
    <3>1. y \in File /\ z \in File /\ y \in Files /\ z \in Files  BY <1>7 DEF Files
    <3>2. CASE y = o.id /\ z # o.id
      <4>1. file'[y].path = o.to /\ file'[z].path = file[z].path  BY <3>1, <3>2, <1>6
      <4>. QED BY <4>1, <3>1, <3>2, <2>1, <1>3
    <3>3. CASE y # o.id /\ z = o.id
      <4>1. file'[z].path = o.to /\ file'[y].path = file[y].path  BY <3>1, <3>3, <1>6
      <4>. QED BY <4>1, <3>1, <3>3, <2>1, <1>3
    <3>4. CASE y # o.id /\ z # o.id
      <4>1. file[y].path = file[z].path  BY <3>1, <3>4, <2>1, <1>6
      <4>. QED BY <3>1, <4>1 DEF TreeInv, PathsUnique
    <3>. QED BY <3>2, <3>3, <3>4
  <2>. QED BY <2>1, <1>3, <1>7 DEF TreeInv, PathsUnique
<1>10. Placed'
  <2>1. \A f \in Folders \ torn : FolderPlaced(f)'  BY <1>3, <1>8 DEF TreeInv, Placed, FolderPlaced
  <2>2. ASSUME NEW x \in Files \ torn  PROVE FilePlaced(x)'
    <3>1. CASE x = o.id
      <4>1. file'[x] = r /\ o.parent \in Parents' /\ o.to = Append(PathOf(o.parent)', o.name)
        BY <3>1, <1>4, <1>6, <1>8
      <4>. QED BY <4>1, <1>6 DEF FilePlaced
    <3>2. CASE x # o.id
      <4>1. x \in File /\ file'[x] = file[x]  BY <3>2, <1>6 DEF Files
      <4>. QED BY <4>1, <1>8 DEF TreeInv, Placed, FilePlaced
    <3>. QED BY <3>1, <3>2
  <2>. QED BY <2>1, <2>2, <1>3, <1>7 DEF Placed
<1>11. DiskClean'  BY <1>3 DEF TreeInv, DiskClean
<1>12. Rest'
  <2>1. CASE o.from = Hdd
    <3>1. Rest  BY <2>1, <1>2, <1>3 DEF Stands, OnDisk
    <3>2. ASSUME NEW x \in Files \ torn  PROVE bytes[x] = file'[x].disk
      <4>1. bytes[x] = file[x].disk /\ x \in File  BY <3>1 DEF Rest, Files
      <4>. QED BY <4>1, <2>1, <1>4, <1>6
    <3>. QED BY <3>1, <3>2, <1>3, <1>7 DEF Rest
  <2>2. CASE o.from # Hdd
    <3>1. FileMoved(o)  BY <2>2, <1>2, <1>3 DEF Stands
    <3>2. ASSUME NEW x \in Files \ torn  PROVE bytes[x] = file'[x].disk
      <4>1. x \in File /\ (x = o.id => bytes[x] = o.to) /\ (x # o.id => bytes[x] = file[x].disk)
        BY <3>1 DEF FileMoved, Files
      <4>. QED BY <4>1, <2>2, <1>6
    <3>. QED BY <3>1, <3>2, <1>3, <1>7 DEF Rest, FileMoved
  <2>. QED BY <2>1, <2>2
<1>13. (unused \cap Folders = {})'  BY <1>3, <1>7 DEF TreeInv
<1>. QED BY <1>3, <1>9, <1>10, <1>11, <1>12, <1>13, TreeEnds

(* A folder that is no row's parent has no row below it, however deep: of  *)
(* the folders below it the one with the shortest path would have its      *)
(* parent below it too.                                                    *)
LEMMA NothingBelow ==
  ASSUME TypeInv, TreeInv, NEW f \in Folders, torn \cap Under(folder[f].path) = {},
         \A g \in Folders : folder[g].parent # f, \A x \in Files : file[x].folder # f
  PROVE  \A i \in Folders \cup Files : ~IsStrictPrefix(folder[f].path, PathOf(i))
<1>. PICK a : a = folder[f].path  OBVIOUS
<1>1. a \in Path /\ Len(a) >= 2 /\ Len(a) \in Nat  BY FolderRows, PathIsSeq DEF Below
<1>2. ~IsPrefix(a, Root)
  <2>1. Root \in Path /\ ~(Len(a) <= Len(Root))  BY <1>1, RootIsPath
  <2>. QED BY <2>1, <1>1, PrefixIs
<1>3. ASSUME NEW p \in Parents, IsPrefix(a, PathOf(p)), p # f
      PROVE  p \in Folders /\ IsStrictPrefix(a, folder[p].path)
  <2>1. p # Top  BY <1>2, <1>3, TopPath
  <2>2. p \in Folders /\ PathOf(p) = folder[p].path  BY <2>1, FolderRows DEF Parents
  <2>3. folder[p].path # a  BY <2>2, <1>3 DEF TreeInv, PathsUnique
  <2>. QED BY <1>3, <2>2, <2>3 DEF IsStrictPrefix
<1>4. ASSUME NEW g \in Folders, IsStrictPrefix(a, folder[g].path)  PROVE FALSE
  <2>. DEFINE below == {g2 \in Folders : IsStrictPrefix(a, folder[g2].path)}
              lengths == {Len(folder[g2].path) : g2 \in below}
  <2>1. lengths \subseteq Nat /\ lengths # {}  BY <1>4, FolderRows, PathIsSeq
  <2>2. \E n \in lengths : \A m \in lengths : n <= m
    <3>. HIDE DEF lengths
    <3>. QED BY <2>1, LeastNumber, Zenon
  <2>3. PICK k \in below : \A j \in below : Len(folder[k].path) <= Len(folder[j].path)  BY <2>2
  <2>4. k \in Folders /\ IsStrictPrefix(a, folder[k].path)  OBVIOUS
  <2>5. k \notin torn
    <3>1. k \in Under(a)  BY <2>4, FolderRows DEF Under, IsStrictPrefix
    <3>. QED BY <3>1
  <2>. PICK p : p = folder[k].parent  OBVIOUS
  <2>6. p \in Parents /\ p # f /\ PathOf(p) \in Path /\ folder[k].path = Append(PathOf(p), folder[k].name)
        /\ folder[k].name \in Name
    BY <2>4, <2>5, FolderIsPlaced, FolderRows
  <2>7. IsPrefix(a, PathOf(p))  BY <2>4, <2>6, <1>1, StrictlyUnderAppended
  <2>8. p \in below /\ PathOf(p) = folder[p].path  BY <2>6, <2>7, <1>3, FolderRows
  <2>9. Len(folder[k].path) = Len(folder[p].path) + 1 /\ Len(folder[p].path) \in Nat
    BY <2>6, <2>8, Appended, PathIsSeq
  <2>. QED BY <2>3, <2>8, <2>9
<1>5. ASSUME NEW x \in Files, IsStrictPrefix(a, file[x].path)  PROVE FALSE
  <2>1. x \notin torn
    <3>1. x \in Under(a)  BY <1>5, FileRows DEF Under, IsStrictPrefix
    <3>. QED BY <3>1
  <2>. PICK p : p = file[x].folder  OBVIOUS
  <2>2. p \in Parents /\ p # f /\ PathOf(p) \in Path /\ file[x].path = Append(PathOf(p), file[x].name)
        /\ file[x].name \in Name
    BY <2>1, FileIsPlaced, FileRows
  <2>3. IsPrefix(a, PathOf(p))  BY <1>5, <2>2, <1>1, StrictlyUnderAppended
  <2>. QED BY <2>2, <2>3, <1>3, <1>4
<1>. QED BY <1>4, <1>5, FolderRows, FileRows

LEMMA TreeDeleteRow ==
  ASSUME OneAtATime, TypeInv, TreeInv, NEW h \in Handler, DeleteRow(h)
  PROVE  TreeInv'
<1>1. op[h] # NoOp  BY DEF DeleteRow
<1>2. PICK o \in Op : o = op[h] /\ OpShape(o) /\ Planned(o) /\ Stands(o)  BY <1>1, OpStands
<1>3. /\ o.kind \in {"deleteFolder", "deleteFile"} /\ o.step = "rows" /\ End(h)
      /\ UNCHANGED <<unused, dirs, bytes, torn>>
      /\ folder' = [f \in Folder |-> IF f = o.id THEN Gone ELSE folder[f]]
      /\ file' = [x \in File |-> IF x = o.id \/ x \in {y \in Files : file[y].folder = o.id}
                                 THEN Gone ELSE file[x]]
  BY <1>2 DEF DeleteRow, disk
<1>4. \A g \in Folders : folder[g].parent # o.id
  <2>1. CASE o.kind = "deleteFolder"  BY <2>1, <1>2 DEF Planned
  <2>2. CASE o.kind = "deleteFile"
    <3>1. o.id \in File  BY <2>2, <1>2 DEF OpShape
    <3>. QED BY <3>1, FolderRows, ConstantsAssumption
  <2>. QED BY <2>1, <2>2, <1>3
<1>5. \A x \in Files : file[x].folder # o.id
  <2>1. CASE o.kind = "deleteFolder"  BY <2>1, <1>2 DEF Planned
  <2>2. CASE o.kind = "deleteFile"
    <3>1. o.id \in File  BY <2>2, <1>2 DEF OpShape
    <3>. QED BY <3>1, FileRows, ConstantsAssumption
  <2>. QED BY <2>1, <2>2, <1>3
<1>6. /\ \A f \in Folder : f # o.id => folder'[f] = folder[f]
      /\ \A x \in File : x # o.id => file'[x] = file[x]
  BY <1>3, <1>5
<1>7. Folders' = Folders \ {o.id} /\ Files' = Files \ {o.id}  BY <1>3, <1>5, <1>6 DEF Folders, Files
<1>8. \A p \in Parents : p # o.id => p \in Parents' /\ PathOf(p)' = PathOf(p)
  BY <1>6, <1>7 DEF Parents, PathOf, Folders
<1>9. \A f \in Folders' : f \in Folders /\ f \in Folder /\ f # o.id /\ folder'[f] = folder[f]
  BY <1>6, <1>7 DEF Folders
<1>10. \A x \in Files' : x \in Files /\ x \in File /\ x # o.id /\ file'[x] = file[x]
  BY <1>6, <1>7 DEF Files
<1>11. PathsUnique'  BY <1>9, <1>10 DEF TreeInv, PathsUnique
<1>12. Placed'
  <2>1. ASSUME NEW f \in Folders' \ torn  PROVE FolderPlaced(f)'
    BY <1>4, <1>8, <1>9 DEF TreeInv, Placed, FolderPlaced
  <2>2. ASSUME NEW x \in Files' \ torn  PROVE FilePlaced(x)'
    BY <1>5, <1>8, <1>10 DEF TreeInv, Placed, FilePlaced
  <2>. QED BY <2>1, <2>2, <1>3 DEF Placed
<1>13. DiskClean'  BY <1>3 DEF TreeInv, DiskClean
<1>14. (unused \cap Folders = {})'  BY <1>3, <1>7 DEF TreeInv
<1>15. /\ \A f \in Folders \ torn : f # o.id => folder[f].path \in dirs
       /\ \A x \in Files \ torn : x # o.id => bytes[x] = file[x].disk
  <2>1. CASE o.kind = "deleteFolder"
    <3>1. FolderRemoved(o) /\ o.id \in Folders /\ o.from = folder[o.id].path /\ o.from \in Path
      BY <2>1, <1>2, <1>3 DEF Stands, OpShape, Planned
    <3>2. torn \cap Under(o.from) = {}  BY <3>1, <1>2, SpecialAssumption DEF Planned, Touching
    <3>3. \A i \in Folders \cup Files : ~IsStrictPrefix(o.from, PathOf(i))
      BY <3>1, <3>2, <1>4, <1>5, NothingBelow
    <3>4. ASSUME NEW f \in Folders \ torn, f # o.id  PROVE folder[f].path \in dirs
      <4>1. ~IsStrictPrefix(o.from, folder[f].path)  BY <3>3, FolderRows
      <4>2. folder[f].path # o.from  BY <3>1, <3>4 DEF TreeInv, PathsUnique
      <4>. QED BY <3>1, <4>1, <4>2 DEF FolderRemoved, IsStrictPrefix
    <3>5. ASSUME NEW x \in Files \ torn  PROVE bytes[x] = file[x].disk
      BY <3>1, <3>3, FileRows DEF FolderRemoved
    <3>. QED BY <3>4, <3>5
  <2>2. CASE o.kind = "deleteFile"
    <3>1. FileRemoved(o)  BY <2>2, <1>2, <1>3 DEF Stands
    <3>. QED BY <3>1 DEF FileRemoved
  <2>. QED BY <2>1, <2>2, <1>3
<1>16. Rest'  BY <1>3, <1>9, <1>10, <1>15 DEF Rest
<1>. QED BY <1>3, <1>11, <1>12, <1>13, <1>14, <1>16, TreeEnds

(* The transaction of a folder move.  With a root that no folder is named  *)
(* after, REPLACE does to the rows what the rename did to the disk.        *)
LEMMA TreeUpdateFolders ==
  ASSUME RootName \notin Name, OneAtATime, TypeInv, TreeInv, NEW h \in Handler, UpdateFolders(h)
  PROVE  TreeInv'
<1>1. op[h] # NoOp  BY DEF UpdateFolders
<1>2. PICK o \in Op : o = op[h] /\ OpShape(o) /\ Planned(o) /\ Stands(o) /\ o.to \in Below /\ o.to \in Path
  BY <1>1, OpStands
<1>3. /\ o.kind = "moveFolder" /\ o.step = "rows" /\ End(h) /\ UNCHANGED <<unused, dirs, bytes, torn>>
      /\ \A f, g \in Folders : MovedFolder(f, o).path = MovedFolder(g, o).path => f = g
      /\ folder' = [f \in Folder |-> IF f \in Folders THEN MovedFolder(f, o) ELSE Gone]
      /\ file' = [x \in File |-> IF x \in Files THEN MovedFile(x, o) ELSE Gone]
  <2>. DEFINE moved == [f \in Folders |-> MovedFolder(f, o)]
  <2>1. /\ o.kind = "moveFolder" /\ o.step = "rows" /\ End(h) /\ UNCHANGED <<unused, dirs, bytes, torn>>
        /\ \A f, g \in Folders : moved[f].path = moved[g].path => f = g
        /\ folder' = [f \in Folder |-> IF f \in Folders THEN moved[f] ELSE Gone]
        /\ file' = [x \in File |-> IF x \in Files THEN MovedFile(x, o) ELSE Gone]
    BY <1>2 DEF UpdateFolders, disk
  <2>2. \A f \in Folders : moved[f] = MovedFolder(f, o)  OBVIOUS
  <2>. QED BY <2>1, <2>2
<1>. PICK a : a = o.from  OBVIOUS
<1>. PICK b : b = o.to  OBVIOUS
<1>4. /\ o.id \in Folders /\ a = folder[o.id].path /\ o.parent \in Parents
      /\ b = Append(PathOf(o.parent), o.name) /\ ~IsPrefix(a, PathOf(o.parent))
      /\ \A g \in Folders : folder[g].path # b
      /\ FolderMoved(o) /\ torn \cap Under(b) = {}
  BY <1>2, <1>3 DEF Planned, Target, Stands, Touching
<1>5. /\ a \in Path /\ b \in Path /\ Len(a) >= 2 /\ Len(b) >= 2 /\ Len(a) \in Nat /\ Len(b) \in Nat /\ a # Hdd
  BY <1>2, <1>4, FolderRows, PathIsSeq, SpecialAssumption DEF Below
<1>6. ~IsPrefix(a, Root) /\ ~IsPrefix(b, Root)
  <2>1. Root \in Path /\ ~(Len(a) <= Len(Root)) /\ ~(Len(b) <= Len(Root))  BY <1>5, RootIsPath
  <2>. QED BY <2>1, <1>5, PrefixIs
<1>7. ASSUME NEW f \in Folders
      PROVE  /\ f \in Folder /\ folder'[f].path = Renamed(folder[f].path, a, b)
             /\ f # o.id => folder'[f].parent = folder[f].parent /\ folder'[f].name = folder[f].name
             /\ f # o.id => folder[f].path # a
             /\ f = o.id => folder'[f].path = b /\ folder'[f].parent = o.parent /\ folder'[f].name = o.name
  <2>1. f \in Folder /\ folder'[f] = MovedFolder(f, o) /\ folder[f].path \in Path /\ folder[f] \in FolderRowBelow
    BY <1>3, FolderRows
  <2>2. CASE f = o.id
    <3>1. folder'[f] = [path |-> b, name |-> o.name, parent |-> o.parent]  BY <2>1, <2>2 DEF MovedFolder
    <3>2. Renamed(a, a, b) = b  BY <1>5, RenamedItself
    <3>. QED BY <2>1, <2>2, <3>1, <3>2, <1>4, SMTT(30)
  <2>3. CASE f # o.id
    <3>1. folder[f].path # a  BY <2>3, <1>4 DEF TreeInv, PathsUnique
    <3>2. folder'[f] = [folder[f] EXCEPT !.path = IF IsStrictPrefix(a, @) THEN Replaced(@, a, b) ELSE @]
      BY <2>1, <2>3 DEF MovedFolder
    <3>3. /\ folder'[f].path = IF IsStrictPrefix(a, folder[f].path) THEN Replaced(folder[f].path, a, b)
                               ELSE folder[f].path
          /\ folder'[f].parent = folder[f].parent /\ folder'[f].name = folder[f].name
      BY <2>1, <3>2 DEF FolderRowBelow
    <3>4. CASE IsPrefix(a, folder[f].path)
      <4>1. folder'[f].path = Replaced(folder[f].path, a, b)  BY <3>1, <3>3, <3>4 DEF IsStrictPrefix
      <4>2. Replaced(folder[f].path, a, b) = Renamed(folder[f].path, a, b)
        BY <2>1, <3>4, <1>5, ReplacedIsRenamed
      <4>. QED BY <2>1, <2>3, <3>1, <3>3, <4>1, <4>2
    <3>5. CASE ~IsPrefix(a, folder[f].path)
      <4>1. folder'[f].path = folder[f].path  BY <3>3, <3>5 DEF IsStrictPrefix
      <4>2. Renamed(folder[f].path, a, b) = folder[f].path  BY <3>5, RenamedElsewhere
      <4>. QED BY <2>1, <2>3, <3>1, <3>3, <4>1, <4>2
    <3>. QED BY <3>4, <3>5
  <2>. QED BY <2>2, <2>3
<1>8. ASSUME NEW x \in Files
      PROVE  /\ x \in File /\ file'[x].folder = file[x].folder /\ file'[x].name = file[x].name
             /\ IsStrictPrefix(a, file[x].path) =>
                  /\ file'[x].path = Renamed(file[x].path, a, b)
                  /\ file'[x].disk = Renamed(file[x].disk, a, b)
             /\ ~IsStrictPrefix(a, file[x].path) => file'[x].path = file[x].path /\ file'[x].disk = file[x].disk
  <2>1. x \in File /\ file'[x] = MovedFile(x, o) /\ file[x].path \in Path /\ file[x] \in FileRowBelow
    BY <1>3, FileRows
  <2>2. CASE IsStrictPrefix(a, file[x].path)
    <3>1. file'[x] = [file[x] EXCEPT !.path = Replaced(@, a, b), !.disk = IF @ = Hdd THEN Hdd ELSE Renamed(@, a, b)]
      BY <2>1, <2>2 DEF MovedFile
    <3>2. /\ file'[x].path = Replaced(file[x].path, a, b)
          /\ file'[x].disk = IF file[x].disk = Hdd THEN Hdd ELSE Renamed(file[x].disk, a, b)
          /\ file'[x].folder = file[x].folder /\ file'[x].name = file[x].name
      BY <2>1, <3>1 DEF FileRowBelow
    <3>3. Replaced(file[x].path, a, b) = Renamed(file[x].path, a, b)
      BY <2>1, <2>2, <1>5, ReplacedIsRenamed DEF IsStrictPrefix
    <3>4. Renamed(Hdd, a, b) = Hdd  BY RenamedElsewhere, SpecialAssumption
    <3>. QED BY <2>1, <2>2, <3>2, <3>3, <3>4
  <2>3. CASE ~IsStrictPrefix(a, file[x].path)
    <3>1. file'[x] = file[x]  BY <2>1, <2>3 DEF MovedFile
    <3>. QED BY <2>1, <2>3, <3>1
  <2>. QED BY <2>2, <2>3
<1>9. Folders' = Folders /\ Files' = Files
  <2>1. \A f \in Folders : folder'[f] # Gone
    BY <1>2, <1>3, MovedFolderTyped, SpecialsApart DEF Folders
  <2>2. \A x \in Files : file'[x] # Gone
    BY <1>2, <1>3, MovedFileTyped, SpecialsApart DEF Files
  <2>. QED BY <2>1, <2>2, <1>3 DEF Folders, Files
<1>10. /\ Parents' = Parents
       /\ \A p \in Parents : PathOf(p)' = Renamed(PathOf(p), a, b)
  <2>1. Parents' = Parents  BY <1>9 DEF Parents
  <2>2. ASSUME NEW p \in Parents  PROVE PathOf(p)' = Renamed(PathOf(p), a, b)
    <3>1. CASE p = Top
      <4>1. PathOf(p)' = Root /\ PathOf(p) = Root  BY <3>1 DEF PathOf
      <4>. QED BY <4>1, <1>6, RenamedElsewhere
    <3>2. CASE p # Top
      <4>1. p \in Folders  BY <3>2 DEF Parents
      <4>2. PathOf(p) = folder[p].path /\ PathOf(p)' = folder'[p].path
        BY <3>2, <4>1 DEF PathOf, Folders
      <4>. QED BY <4>1, <4>2, <1>7
    <3>. QED BY <3>1, <3>2
  <2>. QED BY <2>1, <2>2
<1>11. ASSUME NEW p \in Path, NEW n \in Name, IsPrefix(a, Append(p, n)) => IsPrefix(a, p)
       PROVE  Renamed(Append(p, n), a, b) = Append(Renamed(p, a, b), n)
  <2>1. CASE IsPrefix(a, p)  BY <2>1, <1>5, RenamedAppended
  <2>2. CASE ~IsPrefix(a, p)
    <3>1. Renamed(p, a, b) = p /\ Renamed(Append(p, n), a, b) = Append(p, n)
      BY <2>2, <1>11, RenamedElsewhere
    <3>. QED BY <3>1
  <2>. QED BY <2>1, <2>2
<1>12. ASSUME NEW f \in Folders \ torn  PROVE FolderPlaced(f)'
  <2>1. CASE f = o.id
    <3>. PICK p : p = o.parent  OBVIOUS
    <3>1. PathOf(p)' = PathOf(p)  BY <1>4, <1>10, RenamedElsewhere
    <3>2. folder'[f].parent = p /\ folder'[f].name = o.name /\ folder'[f].path = b  BY <2>1, <1>7
    <3>3. p \in Parents' /\ b = Append(PathOf(p)', o.name)  BY <3>1, <1>4, <1>10
    <3>. QED BY <3>2, <3>3 DEF FolderPlaced
  <2>2. CASE f # o.id
    <3>. PICK p : p = folder[f].parent  OBVIOUS
    <3>. PICK n : n = folder[f].name  OBVIOUS
    <3>1. p \in Parents /\ PathOf(p) \in Path /\ n \in Name /\ folder[f].path = Append(PathOf(p), n)
      BY FolderIsPlaced, FolderRows
    <3>2. folder[f].path # a  BY <2>2, <1>7
    <3>3. IsPrefix(a, Append(PathOf(p), n)) => IsPrefix(a, PathOf(p))  BY <3>1, <3>2, <1>5, UnderAppended
    <3>4. Renamed(folder[f].path, a, b) = Append(PathOf(p)', n)  BY <3>1, <3>3, <1>10, <1>11
    <3>5. folder'[f].parent = p /\ folder'[f].name = n /\ folder'[f].path = Append(PathOf(p)', n)
      BY <2>2, <3>4, <1>7
    <3>. QED BY <3>1, <3>5, <1>10 DEF FolderPlaced
  <2>. QED BY <2>1, <2>2
<1>13. ASSUME NEW x \in Files \ torn
       PROVE  FilePlaced(x)' /\ bytes[x] = file'[x].disk
  <2>. PICK p : p = file[x].folder  OBVIOUS
  <2>. PICK n : n = file[x].name  OBVIOUS
  <2>1. /\ p \in Parents /\ PathOf(p) \in Path /\ n \in Name /\ file[x].path = Append(PathOf(p), n)
        /\ file[x].disk \in {file[x].path, Hdd} /\ file[x].path \in Path
    BY FileIsPlaced, FileRows
  <2>2. file'[x].folder = p /\ file'[x].name = n  BY <1>8
  <2>3. bytes[x] = Renamed(file[x].disk, a, b) /\ file[x].disk # a  BY <1>4 DEF FolderMoved
  <2>4. Renamed(Hdd, a, b) = Hdd  BY RenamedElsewhere, SpecialAssumption
  <2>5. CASE IsStrictPrefix(a, file[x].path)
    <3>1. IsPrefix(a, PathOf(p))  BY <2>1, <2>5, <1>5, StrictlyUnderAppended
    <3>2. file'[x].path = Renamed(file[x].path, a, b) /\ file'[x].disk = Renamed(file[x].disk, a, b)
      BY <2>5, <1>8
    <3>3. file'[x].path = Append(PathOf(p)', n)  BY <2>1, <3>1, <3>2, <1>10, <1>11
    <3>4. file'[x].disk \in {file'[x].path, Hdd}  BY <2>1, <2>4, <3>2
    <3>. QED BY <2>1, <2>2, <2>3, <3>2, <3>3, <3>4, <1>10 DEF FilePlaced
  <2>6. CASE ~IsStrictPrefix(a, file[x].path)
    <3>1. ~IsPrefix(a, PathOf(p))  BY <2>1, <2>6, <1>5, StrictlyUnderAppended
    <3>2. file'[x].path = file[x].path /\ file'[x].disk = file[x].disk  BY <2>6, <1>8
    <3>3. PathOf(p)' = PathOf(p)  BY <2>1, <3>1, <1>10, RenamedElsewhere
    <3>4. file[x].disk = file[x].path => ~IsPrefix(a, file[x].disk)  BY <2>3, <2>6 DEF IsStrictPrefix
    <3>5. Renamed(file[x].disk, a, b) = file[x].disk  BY <2>1, <2>4, <3>4, RenamedElsewhere
    <3>. QED BY <2>1, <2>2, <2>3, <3>2, <3>3, <3>5, <1>10 DEF FilePlaced
  <2>. QED BY <2>5, <2>6
(* Nothing was where the files go: its folder would have been there.       *)
<1>14. ASSUME NEW x \in Files, IsStrictPrefix(b, file[x].path)  PROVE FALSE
  <2>1. x \notin torn
    <3>1. x \in Under(b)  BY <1>14, FileRows DEF Under, IsStrictPrefix
    <3>. QED BY <3>1, <1>4
  <2>. PICK p : p = file[x].folder  OBVIOUS
  <2>2. p \in Parents /\ PathOf(p) \in Path /\ file[x].name \in Name /\ file[x].path = Append(PathOf(p), file[x].name)
    BY <2>1, FileIsPlaced, FileRows
  <2>3. IsPrefix(b, PathOf(p))  BY <2>2, <1>5, <1>14, StrictlyUnderAppended
  <2>4. p # Top  BY <2>3, <1>6, TopPath
  <2>5. p \in Folders /\ PathOf(p) = folder[p].path  BY <2>2, <2>4, FolderRows DEF Parents
  <2>6. p \in Under(b)  BY <2>3, <2>5 DEF Under
  <2>. QED BY <2>3, <2>5, <2>6, <1>4 DEF FolderMoved
<1>15. PathsUnique'
  <2>1. ASSUME NEW f \in Folders, NEW g \in Folders, folder'[f].path = folder'[g].path  PROVE f = g
    <3>1. folder'[f] = MovedFolder(f, o) /\ folder'[g] = MovedFolder(g, o)  BY <1>3, <1>7
    <3>. QED BY <2>1, <3>1, <1>3
  <2>2. ASSUME NEW x \in Files, NEW y \in Files, file'[x].path = file'[y].path,
               IsStrictPrefix(a, file[x].path)
        PROVE  x = y
    <3>1. file'[x].path = Renamed(file[x].path, a, b) /\ file[x].path \in Path /\ file[y].path \in Path
      BY <2>2, <1>8, FileRows
    <3>2. CASE IsStrictPrefix(a, file[y].path)
      <4>1. Renamed(file[x].path, a, b) = Renamed(file[y].path, a, b)  BY <2>2, <3>1, <3>2, <1>8
      <4>2. file[x].path = file[y].path
        BY <2>2, <3>1, <3>2, <4>1, <1>5, RenamedInjective DEF IsStrictPrefix
      <4>. QED BY <4>2 DEF TreeInv, PathsUnique
    <3>3. CASE ~IsStrictPrefix(a, file[y].path)
      <4>1. file[y].path = Renamed(file[x].path, a, b)  BY <2>2, <3>1, <3>3, <1>8
      <4>2. IsStrictPrefix(b, file[y].path)  BY <2>2, <3>1, <4>1, <1>5, RenamedStrictlyUnder
      <4>. QED BY <4>2, <1>14
    <3>. QED BY <3>2, <3>3
  <2>3. ASSUME NEW x \in Files, NEW y \in Files, file'[x].path = file'[y].path,
               ~IsStrictPrefix(a, file[x].path), ~IsStrictPrefix(a, file[y].path)
        PROVE  x = y
    <3>1. file[x].path = file[y].path  BY <2>3, <1>8
    <3>. QED BY <3>1 DEF TreeInv, PathsUnique
  <2>. QED BY <2>1, <2>2, <2>3, <1>9 DEF PathsUnique
<1>16. Placed'  BY <1>3, <1>9, <1>12, <1>13 DEF Placed
<1>17. DiskClean'  BY <1>3 DEF TreeInv, DiskClean
<1>18. Rest'
  <2>1. \A f \in Folders \ torn : folder'[f].path \in dirs  BY <1>4, <1>7 DEF FolderMoved
  <2>. QED BY <2>1, <1>3, <1>9, <1>13 DEF Rest
<1>19. (unused \cap Folders = {})'  BY <1>3, <1>9 DEF TreeInv
<1>. QED BY <1>3, <1>15, <1>16, <1>17, <1>18, <1>19, TreeEnds

(* What the index does, does not matter to rows and disk.                  *)
LEMMA TreeStays ==
  ASSUME TypeInv, TreeInv, UNCHANGED <<rows, disk, op, torn>>
  PROVE  TreeInv'
<1>1. UNCHANGED <<folder, file, unused, dirs, bytes, torn>>  BY DEF rows, disk
<1>2. Folders' = Folders /\ Files' = Files  BY <1>1 DEF Folders, Files
<1>3. PathsUnique' /\ Placed' /\ (unused \cap Folders = {})'  BY <1>1, RowsStayPlaced
<1>4. DiskClean'  BY <1>1 DEF TreeInv, DiskClean
<1>5. Rest' = Rest  BY <1>1, <1>2 DEF Rest
<1>6. ASSUME NEW o \in Op, Planned(o), Stands(o)  PROVE Planned(o)' /\ Stands(o)'
  <2>1. Planned(o)'  BY <1>1, <1>6, PlannedStays
  <2>2. FolderMoved(o) => FolderMoved(o)'  BY <1>1, <1>2 DEF FolderMoved
  <2>3. FileMoved(o) => FileMoved(o)'  BY <1>1, <1>2 DEF FileMoved
  <2>4. FolderRemoved(o) => FolderRemoved(o)'  BY <1>1, <1>2 DEF FolderRemoved
  <2>5. FileRemoved(o) => FileRemoved(o)'  BY <1>1, <1>2 DEF FileRemoved
  <2>. QED BY <2>1, <2>2, <2>3, <2>4, <2>5, <1>1, <1>5, <1>6 DEF Stands
<1>. QED BY <1>3, <1>4, <1>5, <1>6 DEF TreeInv

LEMMA TreeStep ==
  ASSUME OneAtATime, RootName \notin Name
  PROVE  TypeInv /\ TreeInv /\ [Next]_vars => TreeInv'
<1>. SUFFICES ASSUME TypeInv, TreeInv, [Next]_vars  PROVE TreeInv'  OBVIOUS
<1>1. CASE UNCHANGED vars
  <2>1. UNCHANGED <<rows, disk, op, torn>>  BY <1>1 DEF vars, rows, disk
  <2>. QED BY <2>1, TreeStays
<1>2. ASSUME NEW h \in Handler, Request(h)  PROVE TreeInv'
  <2>1. ASSUME NEW f \in Folder, NEW p \in Folder \cup {Top}, NEW n \in Name,
               StartCreate(h, f, p, n) \/ StartMoveFolder(h, f, p, n)
        PROVE  TreeInv'
    BY <2>1, TreeStartCreate, TreeStartMoveFolder
  <2>2. ASSUME NEW f \in Folder, StartDeleteFolder(h, f)  PROVE TreeInv'  BY <2>2, TreeStartDeleteFolder
  <2>3. ASSUME NEW x \in File, NEW p \in Folder \cup {Top}, NEW n \in Name, StartMoveFile(h, x, p, n)
        PROVE  TreeInv'
    BY <2>3, TreeStartMoveFile
  <2>4. ASSUME NEW x \in File, StartDeleteFile(h, x)  PROVE TreeInv'  BY <2>4, TreeStartDeleteFile
  <2>. QED BY <1>2, <2>1, <2>2, <2>3, <2>4 DEF Request
<1>3. ASSUME NEW h \in Handler, Proceed(h)  PROVE TreeInv'
  BY <1>3, TreeMakeDir, TreeRenameDir, TreeRenameFile, TreeRemoveDir, TreeRemoveFile, TreeInsertFolder,
     TreeUpdateFolders, TreeUpdateFile, TreeDeleteRow, TreeRowsFail, TreeMoveBack DEF Proceed
<1>4. ASSUME NEW x \in File, NEW p \in Folder \cup {Top}, NEW n \in Name, NEW tier \in {"ssd", "hdd"},
             Upload(x, p, n, tier)
      PROVE  TreeInv'
  BY <1>4, TreeUpload
<1>5. CASE Search
  <2>1. UNCHANGED <<rows, disk, op, torn>>
    BY <1>5 DEF Search, ReadMoved, Deliver, TaskFails, ReindexClear, ReindexRead
  <2>. QED BY <2>1, TreeStays
<1>6. CASE Crash  BY <1>6, TreeCrash
<1>. QED BY <1>1, <1>2, <1>3, <1>4, <1>5, <1>6 DEF Next

(* One request at a time and a root that no folder is named after: rows,   *)
(* paths and disk agree, between requests and, for what a running request  *)
(* does not touch, during them; however deep the tree is.                  *)
THEOREM RowsFollowDisk ==
  ASSUME OneAtATime, RootName \notin Name
  PROVE  Spec => []RowsMatchDisk
<1>1. Init => TypeInv /\ TreeInv  BY TypeInit, TreeInit
<1>2. TypeInv /\ TreeInv /\ [Next]_vars => (TypeInv /\ TreeInv)'  BY TypeStep, TreeStep
<1>3. TypeInv /\ TreeInv => RowsMatchDisk  BY TreeInvImplies
<1>. QED BY <1>1, <1>2, <1>3, PTL DEF Spec
==============================================================================
