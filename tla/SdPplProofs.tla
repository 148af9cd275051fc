---------------------------- MODULE SdPplProofs ----------------------------
(***************************************************************************)
(* Proofs about SdPplLvcli, for every set of runs, clones and options; and   *)
(* about the development-mode scripts it calls, the module DevMode, whose    *)
(* outcomes it counts on.                                                    *)
(***************************************************************************)
EXTENDS SdPplLvcli, DevModePromises, SequenceTheorems, FiniteSetTheorems,
        WellFoundedInduction, TLAPS

-----------------------------------------------------------------------------
(***************************************************************************)
(* The development-mode scripts                                              *)
(*                                                                           *)
(* The state of the scripts and what they promise are those of               *)
(* DevModePromises; DevMode, the machine itself, is the instance Dev.        *)
(***************************************************************************)

Dev == INSTANCE DevMode

\* What the module assumes of its constants.
DevAssumption == Dev!PathsAssumption /\ Dev!ArchsAssumption /\ Dev!CallsAssumption

-----------------------------------------------------------------------------
(* The words of the instance are those of DevModePromises. *)

\* The instance has its own copy of FiniteSets.
LEMMA SameCardinality ==
    ASSUME NEW S
    PROVE  Dev!Cardinality(S) = Cardinality(S)
BY Zenon DEF Dev!Cardinality, Cardinality

\* Paths, entries and selections mean the same in both.
LEMMA SameWords ==
    /\ Dev!Paths = Paths
    /\ \A t : Dev!Target(t) = Target(t)
    /\ \A s : Dev!Entries(s) = Entries(s) /\ Dev!First(s) = First(s)
    /\ \A s, ps : Dev!Distinct(s, ps) = Distinct(s, ps)
<1>1. \A S, n : Dev!Nth(S, n) = Nth(S, n)
  BY SameCardinality, Zenon DEF Dev!Nth, Nth
<1>2. \A s, S : Dev!Picked(s, S) = Picked(s, S)
  BY SameCardinality, <1>1, Zenon DEF Dev!Picked, Picked
<1>3. \A s, ps : Dev!Distinct(s, ps) = Distinct(s, ps)
  BY <1>2, Zenon DEF Dev!Distinct, Distinct
<1>4. QED
  BY <1>3, Zenon DEF Dev!Paths, Paths, Dev!Target, Target, Dev!Entries, Entries, Dev!First, First

\* TLC evaluates the assumptions on the constants in the runs of DevMode.
LEMMA AssumptionHolds == DevAssumption
<1>1. \A S : Dev!Cardinality(S) = Cardinality(S)
  BY SameCardinality
<1>2. \A S : Dev!IsFiniteSet(S) <=> IsFiniteSet(S)
  BY Zenon DEF Dev!IsFiniteSet, IsFiniteSet
<1>3. Dev!PathsAssumption
  BY PathsAssumption, SameWords, Zenon DEF Dev!PathsAssumption
<1>4. Dev!ArchsAssumption
  BY ArchsAssumption, <1>2, Zenon DEF Dev!ArchsAssumption
<1>5. Dev!CallsAssumption
  BY CallsAssumption, <1>1, Zenon DEF Dev!CallsAssumption
<1>6. QED
  BY <1>3, <1>4, <1>5 DEF DevAssumption

-----------------------------------------------------------------------------
(* Entries of a file picked by their position. *)

\* The positions of an instance's entries, and what is picked at them.
LEMMA NthIs ==
    ASSUME NEW places, NEW n
    PROVE  Dev!Nth(places, n) =
               CHOOSE i \in places : Cardinality({j \in places : j < i}) = n - 1
<1> DEFINE A == {i \in places : Dev!Cardinality({j \in places : j < i}) = n - 1}
           B == {i \in places : Cardinality({j \in places : j < i}) = n - 1}
<1>1. A = B
  BY SameCardinality
<1>2. Dev!Nth(places, n) = CHOOSE i : i \in A
  BY Zenon DEF Dev!Nth
<1>3. (CHOOSE i \in places : Cardinality({j \in places : j < i}) = n - 1) = CHOOSE i : i \in B
  BY Zenon
<1>4. QED
  BY <1>1, <1>2, <1>3, Zenon

LEMMA PickedIs ==
    ASSUME NEW s, NEW places
    PROVE  Dev!Picked(s, places) = [n \in 1..Cardinality(places) |-> s[Dev!Nth(places, n)]]
BY SameCardinality DEF Dev!Picked

\* A set of sequences that has the empty one, and with every one its extensions,
\* has all.
LEMMA SeqByAppend ==
    ASSUME NEW D, NEW G, <<>> \in G, \A s \in G \cap Seq(D) : \A x \in D : Append(s, x) \in G
    PROVE  Seq(D) \subseteq G
<1> DEFINE Missed == {n \in Nat : \E s \in Seq(D) : Len(s) = n /\ s \notin G}
<1>1. ASSUME NEW n \in Missed PROVE \E m \in Missed : m < n
  <2>1. PICK s \in Seq(D) : Len(s) = n /\ s \notin G
    BY <1>1
  <2>2. s # <<>>
    BY <2>1
  <2>3. PICK r \in Seq(D), x \in D : s = Append(r, x)
    BY <2>2, SequenceEmptyOrAppend
  <2>4. r \notin G
    BY <2>1, <2>3
  <2>5. Len(r) \in Nat /\ Len(s) = Len(r) + 1
    BY <2>3, AppendProperties, LenProperties
  <2>6. QED
    BY <2>1, <2>4, <2>5
<1>2. Missed = {}
  <2> SUFFICES ASSUME Missed # {} PROVE FALSE
    OBVIOUS
  <2>1. Missed \subseteq Nat
    OBVIOUS
  <2> HIDE DEF Missed
  <2>2. PICK n \in Missed : \A m \in Missed : ~ (<<m, n>> \in OpToRel(<, Nat))
    BY <2>1, WFMin, NatLessThanWellFounded
  <2>3. \A m \in Missed : ~ (m < n)
    BY <2>1, <2>2, Zenon DEF OpToRel
  <2>4. QED
    BY <2>3, <1>1
<1>3. ASSUME NEW s \in Seq(D) PROVE s \in G
  BY <1>2, <1>3, LenProperties
<1>4. QED
  BY <1>3

\* The same for the natural numbers.
LEMMA NatBySucc ==
    ASSUME NEW G, 0 \in G, \A n \in G \cap Nat : n + 1 \in G
    PROVE  Nat \subseteq G
<1> DEFINE Missed == Nat \ G
<1>1. ASSUME NEW n \in Missed PROVE \E m \in Missed : m < n
  <2>1. n - 1 \in Nat /\ n - 1 < n /\ n = (n - 1) + 1
    BY <1>1
  <2>2. n - 1 \notin G
    BY <1>1, <2>1
  <2>3. QED
    BY <2>1, <2>2
<1>2. Missed = {}
  <2> SUFFICES ASSUME Missed # {} PROVE FALSE
    OBVIOUS
  <2>1. Missed \subseteq Nat
    OBVIOUS
  <2> HIDE DEF Missed
  <2>2. PICK n \in Missed : \A m \in Missed : ~ (<<m, n>> \in OpToRel(<, Nat))
    BY <2>1, WFMin, NatLessThanWellFounded
  <2>3. \A m \in Missed : ~ (m < n)
    BY <2>1, <2>2, Zenon DEF OpToRel
  <2>4. QED
    BY <2>3, <1>1
<1>3. QED
  BY <1>2

\* A set of positions up to m is finite.
LEMMA PositionsFinite ==
    ASSUME NEW m \in Nat, NEW H \in SUBSET (1..m)
    PROVE  IsFiniteSet(H) /\ Cardinality(H) \in Nat
<1>1. IsFiniteSet(1..m)
  BY FS_Interval
<1>2. IsFiniteSet(H)
  BY <1>1, FS_Subset
<1>3. QED
  BY <1>2, FS_CardinalityType

\* All positions so far are below the next one.
LEMMA PositionsBelow ==
    ASSUME NEW m \in Nat, NEW H \in SUBSET (1..m)
    PROVE  {j \in H \cup {m + 1} : j < m + 1} = H
<1>1. ASSUME NEW j \in H PROVE j \in 1..m
  OBVIOUS
<1>2. ASSUME NEW j \in H PROVE j < m + 1
  BY <1>1
<1>3. ~ (m + 1 < m + 1)
  OBVIOUS
<1>4. QED
  BY <1>2, <1>3

\* A larger position comes last and does not disturb the others.
LEMMA NthOld ==
    ASSUME NEW m \in Nat, NEW H \in SUBSET (1..m), NEW n \in 1..Cardinality(H)
    PROVE  Dev!Nth(H \cup {m + 1}, n) = Dev!Nth(H, n)
<1>1. Cardinality(H) \in Nat
  BY PositionsFinite
<1>2. {j \in H \cup {m + 1} : j < m + 1} = H
  BY PositionsBelow
<1>3. \A i \in H : {j \in H \cup {m + 1} : j < i} = {j \in H : j < i}
  OBVIOUS
<1>4. m + 1 \notin H
  OBVIOUS
<1> DEFINE A == {i \in H \cup {m + 1} : Cardinality({j \in H \cup {m + 1} : j < i}) = n - 1}
           B == {i \in H : Cardinality({j \in H : j < i}) = n - 1}
<1>5. Cardinality(H) # n - 1
  BY <1>1
<1>6. ASSUME NEW i PROVE i \in A <=> i \in B
  BY <1>2, <1>3, <1>4, <1>5
<1>7. A = B
  BY <1>6
<1>8. Dev!Nth(H \cup {m + 1}, n) = CHOOSE i : i \in A
  BY NthIs, Zenon
<1>9. Dev!Nth(H, n) = CHOOSE i : i \in B
  BY NthIs, Zenon
<1>10. QED
  BY <1>7, <1>8, <1>9, Zenon

\* The next position, once it is added, is the last.
LEMMA NthNew ==
    ASSUME NEW m \in Nat, NEW H \in SUBSET (1..m)
    PROVE  /\ Cardinality(H \cup {m + 1}) = Cardinality(H) + 1
           /\ Dev!Nth(H \cup {m + 1}, Cardinality(H) + 1) = m + 1
<1>1. IsFiniteSet(H) /\ Cardinality(H) \in Nat
  BY PositionsFinite
<1> m + 1 \notin H
  OBVIOUS
<1>2. Cardinality(H \cup {m + 1}) = Cardinality(H) + 1
  BY <1>1, FS_AddElement
<1>3. {j \in H \cup {m + 1} : j < m + 1} = H
  BY PositionsBelow
<1>4. ASSUME NEW i \in H PROVE Cardinality({j \in H \cup {m + 1} : j < i}) # Cardinality(H)
  <2>1. {j \in H \cup {m + 1} : j < i} \in SUBSET H /\ i \notin {j \in H \cup {m + 1} : j < i}
    OBVIOUS
  <2>2. {j \in H \cup {m + 1} : j < i} # H
    BY <2>1
  <2>3. QED
    BY <1>1, <2>1, <2>2, FS_Subset
<1> DEFINE K == H \cup {m + 1}
           k == Cardinality(H) + 1
<1>5. ASSUME NEW i \in K PROVE Cardinality({j \in K : j < i}) = k - 1 <=> i = m + 1
  <2>1. k - 1 = Cardinality(H)
    BY <1>1
  <2>2. CASE i \in H
    BY <2>1, <2>2, <1>4
  <2>3. CASE i = m + 1
    BY <2>1, <2>3, <1>3
  <2>4. QED
    BY <2>2, <2>3
<1>6. m + 1 \in K
  OBVIOUS
<1> HIDE DEF K, k
<1>7. Dev!Nth(K, k) = m + 1
  <2>1. (CHOOSE i \in K : Cardinality({j \in K : j < i}) = k - 1) = m + 1
    BY <1>5, <1>6, Zenon
  <2>2. QED
    BY <2>1, NthIs, Zenon
<1>8. QED
  BY <1>2, <1>7 DEF K, k

\* Every position that counts is one of the positions.
LEMMA NthIn ==
    ASSUME NEW m \in Nat, NEW H \in SUBSET (1..m), NEW n \in 1..Cardinality(H)
    PROVE  Dev!Nth(H, n) \in H
<1> DEFINE G == {k \in Nat : \A I \in SUBSET (1..k) : \A i \in 1..Cardinality(I) : Dev!Nth(I, i) \in I}
<1>1. 0 \in G
  <2>1. ASSUME NEW I \in SUBSET (1..0) PROVE Cardinality(I) = 0
    <3>1. I = {}
      OBVIOUS
    <3>2. QED
      BY <3>1, FS_EmptySet
  <2>2. QED
    BY <2>1
<1>2. ASSUME NEW k \in G \cap Nat PROVE k + 1 \in G
  <2> SUFFICES ASSUME NEW I \in SUBSET (1..(k + 1)), NEW i \in 1..Cardinality(I)
               PROVE  Dev!Nth(I, i) \in I
    OBVIOUS
  <2>1. CASE k + 1 \notin I
    <3>1. I \in SUBSET (1..k)
      BY <2>1
    <3>2. QED
      BY <3>1
  <2>2. CASE k + 1 \in I
    <3> DEFINE J == I \ {k + 1}
    <3>1. J \in SUBSET (1..k) /\ I = J \cup {k + 1}
      BY <2>2
    <3> HIDE DEF J
    <3>2. Cardinality(J) \in Nat
      BY <3>1, PositionsFinite
    <3>3. Cardinality(I) = Cardinality(J) + 1 /\ Dev!Nth(I, Cardinality(J) + 1) = k + 1
      BY <3>1, NthNew
    <3>4. CASE i \in 1..Cardinality(J)
      <4>1. Dev!Nth(J, i) \in J
        BY <3>1, <3>4
      <4>2. Dev!Nth(I, i) = Dev!Nth(J, i)
        BY <3>1, <3>4, NthOld
      <4>3. QED
        BY <3>1, <4>1, <4>2
    <3>5. CASE i = Cardinality(J) + 1
      BY <3>3, <3>5, <2>2
    <3>6. QED
      BY <3>2, <3>3, <3>4, <3>5
  <2>3. QED
    BY <2>1, <2>2
<1>3. m \in G
  BY <1>1, <1>2, NatBySucc
<1>4. QED
  BY <1>3

\* What is picked is a sequence of the same kind.
LEMMA PickedType ==
    ASSUME NEW D, NEW s \in Seq(D), NEW H \in SUBSET (1..Len(s))
    PROVE  /\ Dev!Picked(s, H) \in Seq(D)
           /\ Len(Dev!Picked(s, H)) = Cardinality(H)
           /\ \A n \in 1..Cardinality(H) : Dev!Nth(H, n) \in H /\ Dev!Picked(s, H)[n] = s[Dev!Nth(H, n)]
<1>1. Len(s) \in Nat /\ Cardinality(H) \in Nat
  BY LenProperties, PositionsFinite
<1>2. \A n \in 1..Cardinality(H) : Dev!Nth(H, n) \in H
  BY <1>1, NthIn
<1>3. \A n \in 1..Cardinality(H) : s[Dev!Nth(H, n)] \in D
  BY <1>2, ElementOfSeq
<1>4. QED
  BY <1>1, <1>2, <1>3, PickedIs

\* Picking from a file with one entry more.
LEMMA PickedAppend ==
    ASSUME NEW D, NEW s \in Seq(D), NEW x \in D, NEW H \in SUBSET (1..Len(s))
    PROVE  /\ Dev!Picked(Append(s, x), H) = Dev!Picked(s, H)
           /\ Dev!Picked(Append(s, x), H \cup {Len(s) + 1}) = Append(Dev!Picked(s, H), x)
<1> DEFINE m == Len(s)
           r == Append(s, x)
           K == H \cup {m + 1}
           q == Append(Dev!Picked(s, H), x)
<1>1. m \in Nat /\ Cardinality(H) \in Nat
  BY LenProperties, PositionsFinite
<1>2. r \in Seq(D) /\ Len(r) = m + 1 /\ r[m + 1] = x /\ \A i \in 1..m : r[i] = s[i]
  BY AppendProperties
<1>3. Dev!Picked(s, H) \in Seq(D) /\ Len(Dev!Picked(s, H)) = Cardinality(H)
      /\ \A n \in 1..Cardinality(H) : Dev!Nth(H, n) \in H /\ Dev!Picked(s, H)[n] = s[Dev!Nth(H, n)]
  BY PickedType
<1> HIDE DEF r
<1>4. H \in SUBSET (1..Len(r)) /\ K \in SUBSET (1..Len(r))
  <2>1. 1..Len(r) = 1..m \cup {m + 1}
    BY <1>1, <1>2
  <2>2. QED
    BY <2>1
<1>5. Dev!Picked(r, H) \in Seq(D) /\ Len(Dev!Picked(r, H)) = Cardinality(H)
      /\ \A n \in 1..Cardinality(H) : Dev!Picked(r, H)[n] = r[Dev!Nth(H, n)]
  BY <1>2, <1>4, PickedType
<1>6. Dev!Picked(r, H) = Dev!Picked(s, H)
  <2>1. \A n \in 1..Cardinality(H) : r[Dev!Nth(H, n)] = s[Dev!Nth(H, n)]
    BY <1>2, <1>3
  <2>2. QED
    BY <2>1, <1>3, <1>5, SeqEqual
<1>7. Cardinality(K) = Cardinality(H) + 1 /\ Dev!Nth(K, Cardinality(H) + 1) = m + 1
  BY <1>1, NthNew
<1>8. \A n \in 1..Cardinality(H) : Dev!Nth(K, n) = Dev!Nth(H, n)
  BY <1>1, NthOld
<1> HIDE DEF K
<1>9. Dev!Picked(r, K) \in Seq(D) /\ Len(Dev!Picked(r, K)) = Cardinality(K)
      /\ \A n \in 1..Cardinality(K) : Dev!Picked(r, K)[n] = r[Dev!Nth(K, n)]
  BY <1>2, <1>4, PickedType
<1>10. /\ q \in Seq(D) /\ Len(q) = Cardinality(H) + 1
       /\ \A n \in 1..Cardinality(H) : q[n] = Dev!Picked(s, H)[n]
       /\ q[Cardinality(H) + 1] = x
  BY <1>3, AppendProperties
<1> HIDE DEF q
<1>11. ASSUME NEW n \in 1..Cardinality(K) PROVE Dev!Picked(r, K)[n] = q[n]
  <2>1. CASE n \in 1..Cardinality(H)
    BY <2>1, <1>2, <1>3, <1>8, <1>9, <1>10
  <2>2. CASE n = Cardinality(H) + 1
    BY <2>2, <1>2, <1>7, <1>9, <1>10
  <2>3. QED
    BY <1>1, <1>7, <2>1, <2>2
<1>12. Dev!Picked(r, K) = q
  <2>1. Len(Dev!Picked(r, K)) = Len(q)
    BY <1>7, <1>9, <1>10
  <2>2. QED
    BY <2>1, <1>9, <1>10, <1>11, SeqEqual
<1>13. QED
  BY <1>6, <1>12 DEF r, K, q

-----------------------------------------------------------------------------
(* What the edits make of the entries. *)

\* Nothing is picked from an empty file.
LEMMA EmptyFile ==
    ASSUME NEW p, NEW ps
    PROVE  Dev!Without(<<>>, p) = <<>> /\ Dev!Distinct(<<>>, ps) = <<>> /\ Dev!Entries(<<>>) = {}
<1>1. <<>> \in Seq({}) /\ Len(<<>>) = 0
  BY EmptySeq
<1>2. Dev!Picked(<<>>, {}) = <<>>
  <2>1. {} \in SUBSET (1..Len(<<>>))
    OBVIOUS
  <2>2. Dev!Picked(<<>>, {}) \in Seq({}) /\ Len(Dev!Picked(<<>>, {})) = Cardinality({})
    BY <1>1, <2>1, PickedType
  <2>3. Len(Dev!Picked(<<>>, {})) = 0
    BY <2>2, FS_EmptySet
  <2>4. QED
    BY <2>2, <2>3, EmptySeq
<1>3. 1..Len(<<>>) = {}
  BY <1>1
<1>4. QED
  BY <1>2, <1>3, Zenon DEF Dev!Without, Dev!Distinct, Dev!Entries

LEMMA EntriesAppend ==
    ASSUME NEW D, NEW s \in Seq(D), NEW x \in D
    PROVE  Dev!Entries(Append(s, x)) = Dev!Entries(s) \cup {x}
<1>1. /\ Len(s) \in Nat
      /\ Append(s, x) \in Seq(D) /\ Len(Append(s, x)) = Len(s) + 1
      /\ \A i \in 1..Len(s) : Append(s, x)[i] = s[i]
      /\ Append(s, x)[Len(s) + 1] = x
  BY AppendProperties, LenProperties
<1>2. 1..(Len(s) + 1) = 1..Len(s) \cup {Len(s) + 1}
  BY <1>1
<1>3. QED
  BY <1>1, <1>2 DEF Dev!Entries

\* The edits of a file with one entry more.
LEMMA WithoutAppend ==
    ASSUME NEW D, NEW s \in Seq(D), NEW x \in D, NEW p
    PROVE  Dev!Without(Append(s, x), p) = IF x = p THEN Dev!Without(s, p) ELSE Append(Dev!Without(s, p), x)
<1> DEFINE m == Len(s)
           r == Append(s, x)
           H == {i \in 1..m : s[i] # p}
           K == {i \in 1..Len(r) : r[i] # p}
<1>1. m \in Nat /\ Len(r) = m + 1 /\ r[m + 1] = x /\ \A i \in 1..m : r[i] = s[i]
  BY AppendProperties, LenProperties
<1>2. 1..Len(r) = 1..m \cup {m + 1}
  BY <1>1
<1>3. K = IF x = p THEN H ELSE H \cup {m + 1}
  BY <1>1, <1>2
<1>4. H \in SUBSET (1..m)
  OBVIOUS
<1>5. Dev!Picked(r, H) = Dev!Picked(s, H) /\ Dev!Picked(r, H \cup {m + 1}) = Append(Dev!Picked(s, H), x)
  BY <1>4, PickedAppend
<1>6. Dev!Without(r, p) = Dev!Picked(r, K) /\ Dev!Without(s, p) = Dev!Picked(s, H)
  BY Zenon DEF Dev!Without
<1> HIDE DEF r, H, K
<1>7. QED
  BY <1>3, <1>5, <1>6 DEF r

LEMMA DistinctAppend ==
    ASSUME NEW D, NEW s \in Seq(D), NEW x \in D, NEW ps
    PROVE  Dev!Distinct(Append(s, x), ps) =
               IF x \in ps \ Dev!Entries(s) THEN Append(Dev!Distinct(s, ps), x) ELSE Dev!Distinct(s, ps)
<1> DEFINE m == Len(s)
           r == Append(s, x)
           H == {i \in 1..m : s[i] \in ps /\ \A j \in 1..(i - 1) : s[j] # s[i]}
           K == {i \in 1..Len(r) : r[i] \in ps /\ \A j \in 1..(i - 1) : r[j] # r[i]}
<1>1. m \in Nat /\ Len(r) = m + 1 /\ r[m + 1] = x /\ \A i \in 1..m : r[i] = s[i]
  BY AppendProperties, LenProperties
<1>2. 1..Len(r) = 1..m \cup {m + 1} /\ m + 1 - 1 = m /\ m + 1 \notin 1..m
  BY <1>1
<1>3. K = IF x \in ps \ Dev!Entries(s) THEN H \cup {m + 1} ELSE H
  <2>1. ASSUME NEW i \in 1..m PROVE i \in K <=> i \in H
    <3>1. i \in 1..Len(r) /\ \A j \in 1..(i - 1) : j \in 1..m
      BY <1>1, <1>2
    <3>2. QED
      BY <1>1, <3>1
  <2>2. m + 1 \in K <=> x \in ps \ Dev!Entries(s)
    BY <1>1, <1>2 DEF Dev!Entries
  <2>3. QED
    BY <1>2, <2>1, <2>2
<1>4. H \in SUBSET (1..m)
  OBVIOUS
<1>5. Dev!Distinct(r, ps) = Dev!Picked(r, K) /\ Dev!Distinct(s, ps) = Dev!Picked(s, H)
  BY Zenon DEF Dev!Distinct
<1> HIDE DEF H, K
<1>6. Dev!Picked(r, H) = Dev!Picked(s, H) /\ Dev!Picked(r, H \cup {m + 1}) = Append(Dev!Picked(s, H), x)
  BY <1>4, PickedAppend
<1> HIDE DEF r
<1>7. QED
  BY <1>3, <1>5, <1>6 DEF r

\* The edits leave sequences of the entries that were there.
LEMMA EditType ==
    ASSUME NEW D, NEW s \in Seq(D), NEW p, NEW ps
    PROVE  Dev!Without(s, p) \in Seq(D) /\ Dev!Distinct(s, ps) \in Seq(D)
BY PickedType DEF Dev!Without, Dev!Distinct

\* The first entries of the paths in ps name those of them that the file names.
LEMMA DistinctEntries ==
    ASSUME NEW D, NEW s \in Seq(D), NEW ps
    PROVE  Dev!Entries(Dev!Distinct(s, ps)) = Dev!Entries(s) \cap ps
<1> DEFINE G == {q \in Seq(D) : Dev!Entries(Dev!Distinct(q, ps)) = Dev!Entries(q) \cap ps}
<1>1. <<>> \in G
  BY EmptySeq, EmptyFile
<1>2. ASSUME NEW q \in G, NEW x \in D PROVE Append(q, x) \in G
  <2>1. Append(q, x) \in Seq(D) /\ Dev!Distinct(q, ps) \in Seq(D)
    BY AppendProperties, EditType
  <2>2. Dev!Entries(Append(q, x)) = Dev!Entries(q) \cup {x}
        /\ Dev!Entries(Append(Dev!Distinct(q, ps), x)) = Dev!Entries(Dev!Distinct(q, ps)) \cup {x}
    BY <2>1, EntriesAppend
  <2>3. Dev!Distinct(Append(q, x), ps) =
            IF x \in ps \ Dev!Entries(q) THEN Append(Dev!Distinct(q, ps), x) ELSE Dev!Distinct(q, ps)
    BY DistinctAppend
  <2>4. QED
    BY <2>1, <2>2, <2>3
<1>3. s \in G
  BY <1>1, <1>2, SeqByAppend
<1>4. QED
  BY <1>3

\* One selection after another is the selection of what both let through.
LEMMA DistinctTwice ==
    ASSUME NEW D, NEW s \in Seq(D), NEW ps, NEW qs
    PROVE  Dev!Distinct(Dev!Distinct(s, ps), qs) = Dev!Distinct(s, ps \cap qs)
<1> DEFINE G == {q \in Seq(D) : Dev!Distinct(Dev!Distinct(q, ps), qs) = Dev!Distinct(q, ps \cap qs)}
<1>1. <<>> \in G
  BY EmptySeq, EmptyFile
<1>2. ASSUME NEW q \in G, NEW x \in D PROVE Append(q, x) \in G
  <2> DEFINE d == Dev!Distinct(q, ps)
  <2>1. Append(q, x) \in Seq(D) /\ d \in Seq(D)
    BY AppendProperties, EditType
  <2>2. Dev!Distinct(Append(q, x), ps) = IF x \in ps \ Dev!Entries(q) THEN Append(d, x) ELSE d
    BY DistinctAppend
  <2>3. Dev!Distinct(Append(q, x), ps \cap qs) =
            IF x \in (ps \cap qs) \ Dev!Entries(q) THEN Append(Dev!Distinct(q, ps \cap qs), x)
                                               ELSE Dev!Distinct(q, ps \cap qs)
    BY DistinctAppend
  <2>4. Dev!Entries(d) = Dev!Entries(q) \cap ps
    BY DistinctEntries
  <2>5. Dev!Distinct(d, qs) = Dev!Distinct(q, ps \cap qs)
    OBVIOUS
  <2> HIDE DEF d
  <2>6. Dev!Distinct(Append(d, x), qs) = IF x \in qs \ Dev!Entries(d) THEN Append(Dev!Distinct(d, qs), x)
                                                              ELSE Dev!Distinct(d, qs)
    BY <2>1, DistinctAppend
  <2>7. Dev!Distinct(Dev!Distinct(Append(q, x), ps), qs) = Dev!Distinct(Append(q, x), ps \cap qs)
    <3>1. CASE x \in ps \ Dev!Entries(q)
      <4>1. x \in qs \ Dev!Entries(d) <=> x \in (ps \cap qs) \ Dev!Entries(q)
        BY <3>1, <2>4
      <4>2. QED
        BY <3>1, <4>1, <2>2, <2>3, <2>5, <2>6
    <3>2. CASE x \notin ps \ Dev!Entries(q)
      BY <3>2, <2>2, <2>3, <2>5
    <3>3. QED
      BY <3>1, <3>2
  <2>8. QED
    BY <2>1, <2>7
<1>3. s \in G
  BY <1>1, <1>2, SeqByAppend
<1>4. QED
  BY <1>3

\* Removing a path does not disturb a selection it is not in.
LEMMA DistinctWithout ==
    ASSUME NEW D, NEW s \in Seq(D), NEW ps, NEW p, p \notin ps
    PROVE  Dev!Distinct(Dev!Without(s, p), ps) = Dev!Distinct(s, ps)
<1> DEFINE G == {q \in Seq(D) : /\ Dev!Distinct(Dev!Without(q, p), ps) = Dev!Distinct(q, ps)
                                /\ Dev!Entries(Dev!Without(q, p)) = Dev!Entries(q) \ {p}}
<1>1. <<>> \in G
  BY EmptySeq, EmptyFile
<1>2. ASSUME NEW q \in G, NEW x \in D PROVE Append(q, x) \in G
  <2> DEFINE w == Dev!Without(q, p)
  <2>1. Append(q, x) \in Seq(D) /\ w \in Seq(D)
    BY AppendProperties, EditType
  <2>2. Dev!Without(Append(q, x), p) = IF x = p THEN w ELSE Append(w, x)
    BY WithoutAppend
  <2>3. Dev!Distinct(Append(q, x), ps) =
            IF x \in ps \ Dev!Entries(q) THEN Append(Dev!Distinct(q, ps), x) ELSE Dev!Distinct(q, ps)
    BY DistinctAppend
  <2>4. Dev!Distinct(Append(w, x), ps) =
            IF x \in ps \ Dev!Entries(w) THEN Append(Dev!Distinct(w, ps), x) ELSE Dev!Distinct(w, ps)
    BY <2>1, DistinctAppend
  <2>5. Dev!Entries(Append(q, x)) = Dev!Entries(q) \cup {x} /\ Dev!Entries(Append(w, x)) = Dev!Entries(w) \cup {x}
    BY <2>1, EntriesAppend
  <2>6. Dev!Distinct(w, ps) = Dev!Distinct(q, ps) /\ Dev!Entries(w) = Dev!Entries(q) \ {p}
    OBVIOUS
  <2> HIDE DEF w
  <2>7. Dev!Distinct(Dev!Without(Append(q, x), p), ps) = Dev!Distinct(Append(q, x), ps)
    <3>1. x # p => (x \in ps \ Dev!Entries(w) <=> x \in ps \ Dev!Entries(q))
      BY <2>6
    <3>2. CASE x = p
      BY <3>2, <2>2, <2>3, <2>6
    <3>3. CASE x # p
      BY <3>1, <3>3, <2>2, <2>3, <2>4, <2>6
    <3>4. QED
      BY <3>2, <3>3
  <2>8. Dev!Entries(Dev!Without(Append(q, x), p)) = Dev!Entries(Append(q, x)) \ {p}
    BY <2>2, <2>5, <2>6
  <2>9. QED
    BY <2>1, <2>7, <2>8
<1>3. s \in G
  BY <1>1, <1>2, SeqByAppend
<1>4. QED
  BY <1>3

\* On a file of one entry.
LEMMA OneEntry ==
    ASSUME NEW x, NEW p, NEW ps
    PROVE  /\ Dev!Without(<<x>>, p) = IF x = p THEN <<>> ELSE <<x>>
           /\ Dev!Distinct(<<x>>, ps) = IF x \in ps THEN <<x>> ELSE <<>>
           /\ Dev!Entries(<<x>>) = {x}
<1>1. <<>> \in Seq({x}) /\ x \in {x}
  BY EmptySeq
<1>2. Append(<<>>, x) = <<x>>
  BY <1>1, AppendIsConcat, ConcatEmptySeq
<1>3. /\ Dev!Without(<<x>>, p) = IF x = p THEN Dev!Without(<<>>, p) ELSE Append(Dev!Without(<<>>, p), x)
      /\ Dev!Distinct(<<x>>, ps) =
             IF x \in ps \ Dev!Entries(<<>>) THEN Append(Dev!Distinct(<<>>, ps), x) ELSE Dev!Distinct(<<>>, ps)
      /\ Dev!Entries(<<x>>) = Dev!Entries(<<>>) \cup {x}
  <2>1. Dev!Without(Append(<<>>, x), p) = IF x = p THEN Dev!Without(<<>>, p) ELSE Append(Dev!Without(<<>>, p), x)
    BY <1>1, WithoutAppend, Zenon
  <2>2. Dev!Distinct(Append(<<>>, x), ps) =
            IF x \in ps \ Dev!Entries(<<>>) THEN Append(Dev!Distinct(<<>>, ps), x) ELSE Dev!Distinct(<<>>, ps)
    <3> DEFINE e == <<>>
    <3>1. e \in Seq({x})
      BY <1>1
    <3> HIDE DEF e
    <3>2. Dev!Distinct(Append(e, x), ps) =
              IF x \in ps \ Dev!Entries(e) THEN Append(Dev!Distinct(e, ps), x) ELSE Dev!Distinct(e, ps)
      BY <1>1, <3>1, DistinctAppend
    <3>3. QED
      BY <3>2, Zenon DEF e
  <2>3. Dev!Entries(Append(<<>>, x)) = Dev!Entries(<<>>) \cup {x}
    BY <1>1, EntriesAppend, Zenon
  <2>4. QED
    BY <1>2, <2>1, <2>2, <2>3
<1>4. QED
  BY <1>2, <1>3, EmptyFile

-----------------------------------------------------------------------------
(* The inductive invariant. *)

AtWork == Dev!Running \ {"report"}
Early == {"plan", "start", "state"}
Reverting == {"revert", "restore", "close-revert"}
PackedGone == {"set-clear", "add", "prepare", "close-set", "verify", "fix", "reverify"}
BindSteps == PackedGone \cup {"pre-clear", "remove", "set"}

Status(t, a) == results[t][a].status

\* The kind of call that gets to a place, and that the bind has no packed library left.
PlaceInv(t) ==
    LET c == call[t] IN
    /\ where[t] \in Dev!Running => at[t] \in c.archs
    /\ loaded[t] => where[t] \in Dev!Edits
    /\ where[t] = "plan" => c.by = "agent"
    /\ where[t] \in Dev!Running \ Reverting => c.mode # "revert"
    /\ where[t] \in BindSteps => c.mode = "bind"
    /\ where[t] \in BindSteps /\ c.dry => where[t] = "pre-clear"
    /\ where[t] \in PackedGone => c.target \notin packed
    /\ where[t] \in {"tidy", "force-remove", "unbound"} => c.mode = "unbind"
    /\ where[t] = "force-remove" => c.force
    /\ where[t] = "cleanup" => c.mode = "cleanup"
    /\ where[t] \in Reverting => c.mode \in {"bind", "unbind", "revert"}

\* The bitnesses are processed in order, and the exit status sums the results up.
Concluded(t, a) ==
    Status(t, a) \in {"success", "fail"} \/ (Status(t, a) = "dry-run" /\ call[t].dry)
ResultInv(t) ==
    LET c == call[t] IN
    /\ where[t] \in AtWork => \A a \in c.archs :
           /\ a < at[t] => Concluded(t, a)
           /\ ~ (a < at[t]) => Status(t, a) \in {"none", "pending"}
    /\ where[t] = "report" => \A a \in c.archs : Concluded(t, a)
    /\ ended[t] # "none" <=> where[t] = "ended"
    /\ ended[t] = "success" /\ c.mode # "revert" =>
           \A a \in c.archs : Status(t, a) = "success" \/ c.dry
    /\ ended[t] \in {"skip", "blocked"} => c.by = "agent"

\* When the last call of every terminal was a bind that concluded a bitness with
\* success, its file names the checkout of one of them.
SomeInv ==
    \A a \in Archs :
        (\A t \in Terminals : call[t].mode = "bind" /\ a \in call[t].archs /\ Status(t, a) = "success")
        => \E t \in Terminals : Dev!Target(t) \in Dev!Entries(ini[a])

Guarded(t, a) ==
    ~call[t].force /\ ~call[t].autoFix
    /\ Dev!First(before[t][a]) \notin {NoPath, Dev!Target(t)} \cup Worktrees

\* What a call that is alone has made of the entries of a bitness, at any time.
FileOK(t, a, s) ==
    LET c == call[t]  old == before[t][a] IN
    /\ c.mode = "bind" => s \in {old, Dev!Distinct(old, {c.target}), <<>>, <<c.target>>}
    /\ c.mode = "revert" => s \in {old, Dev!Without(old, c.target)}
    /\ c.mode = "unbind" /\ ~c.force => Dev!Foreign(t, s) = Dev!Foreign(t, old)
    /\ c.mode # "revert" /\ Guarded(t, a) => s = old

\* ... and of those of the bitness at hand when it is at a place.
HereOK(t, place, s) ==
    LET c == call[t]  old == before[t][at[t]] IN
    /\ place \in Early \cup {"pre-clear"} => s = old
    /\ place \in {"set", "set-clear", "add"} => s = <<>>
    /\ place \in {"prepare", "close-set", "verify"} => s = <<c.target>>
    /\ place \notin {"fix", "reverify"}
    /\ place \in Reverting /\ c.mode = "bind" => s \in {<<>>, <<c.target>>}
    /\ place \in {"revert", "restore"} /\ c.mode = "revert" => s = old
    /\ c.mode # "revert" /\ Guarded(t, at[t]) => place \in Early

\* What it has achieved for a bitness it reports as done.
DoneOK(t, a) ==
    LET c == call[t] IN
    /\ c.mode = "bind" => /\ c.target \in Dev!Entries(ini[a])
                          /\ ini[a] \in {<<c.target>>, before[t][a]}
                          /\ c.target \notin packed
    /\ c.mode = "unbind" => c.target \notin Dev!Entries(ini[a])

SoloInv(t) ==
    /\ \A u \in Terminals \ {t} : where[u] \notin Dev!Running
    /\ loaded[t] => snap[t] = ini[at[t]]
    /\ where[t] \in AtWork => HereOK(t, where[t], ini[at[t]])
    /\ \A a \in Archs :
         /\ a \notin call[t].archs \/ (where[t] \in AtWork /\ at[t] < a) => ini[a] = before[t][a]
         /\ FileOK(t, a, ini[a])
         /\ a \in call[t].archs /\ Status(t, a) = "success" => DoneOK(t, a)

DevInv ==
    /\ Dev!StateTypes /\ SomeInv
    /\ \A t \in Terminals : PlaceInv(t) /\ ResultInv(t) /\ (solo[t] => SoloInv(t))

-----------------------------------------------------------------------------
(* Constants and types. *)

\* A set of bitnesses has a lowest one.
LEMMA LowestIs ==
    ASSUME DevAssumption, NEW as \in SUBSET Archs, as # {}
    PROVE  Dev!Lowest(as) \in as /\ \A b \in as : Dev!Lowest(as) <= b
<1>1. as \subseteq Nat
  BY DEF DevAssumption, Dev!ArchsAssumption
<1>2. PICK a \in as : \A b \in as : ~ (<<b, a>> \in OpToRel(<, Nat))
  BY <1>1, WFMin, NatLessThanWellFounded
<1>3. \A b \in as : ~ (b < a)
  BY <1>1, <1>2, Zenon DEF OpToRel
<1>4. ASSUME NEW b \in as PROVE a <= b
  <2>1. a \in Nat /\ b \in Nat /\ ~ (b < a)
    BY <1>1, <1>3
  <2>2. QED
    BY <2>1
<1>5. QED
  BY <1>4 DEF Dev!Lowest

\* What a call may be.
LEMMA CallType ==
    ASSUME DevAssumption, NEW c \in Calls
    PROVE  /\ c.by \in {"script", "agent"}
           /\ c.mode \in {"bind", "unbind", "cleanup", "status", "revert"}
           /\ c.force \in BOOLEAN /\ c.autoFix \in BOOLEAN /\ c.dry \in BOOLEAN
           /\ c.target \in Repositories /\ c.target \in Dev!Paths
           /\ c.target \notin {NoPath, Doubled}
           /\ c.archs \in SUBSET Archs /\ c.archs # {}
           /\ Dev!Lowest(c.archs) \in c.archs /\ \A b \in c.archs : Dev!Lowest(c.archs) <= b
           /\ c.by = "agent" => c.mode \in {"bind", "unbind"}
           /\ c.mode = "revert" => Cardinality(c.archs) = 1
<1>1. c \in [by : {"script", "agent"}, mode : {"bind", "unbind", "cleanup", "status", "revert"},
             force : BOOLEAN, autoFix : BOOLEAN, dry : BOOLEAN,
             target : Repositories, archs : (SUBSET Archs) \ {{}}]
  BY DEF DevAssumption, Dev!CallsAssumption
<1>2. c.target \in Repositories /\ c.archs \in SUBSET Archs /\ c.archs # {}
  BY <1>1
<1>3. Dev!Lowest(c.archs) \in c.archs /\ \A b \in c.archs : Dev!Lowest(c.archs) <= b
  BY <1>2, LowestIs
<1>4. c.target \in Dev!Paths /\ c.target \notin {NoPath, Doubled}
  BY <1>2 DEF DevAssumption, Dev!PathsAssumption, Dev!Paths
<1>5. /\ c.by = "agent" => c.mode \in {"bind", "unbind"}
      /\ c.mode = "revert" => Cardinality(c.archs) = 1
  BY SameCardinality DEF DevAssumption, Dev!CallsAssumption
<1>6. QED
  BY <1>1, <1>2, <1>3, <1>4, <1>5

LEMMA ArchsAreNumbers ==
    ASSUME DevAssumption
    PROVE  Archs \subseteq Nat
BY DEF DevAssumption, Dev!ArchsAssumption

LEMMA FirstType ==
    ASSUME NEW s \in Seq(Dev!Paths)
    PROVE  Dev!First(s) \in Dev!Paths \cup {NoPath}
<1>1. CASE s = <<>>
  BY <1>1 DEF Dev!First
<1>2. CASE s # <<>>
  <2>1. Len(s) \in Nat \ {0}
    BY <1>2, EmptySeq
  <2>2. 1 \in 1..Len(s)
    BY <2>1
  <2>3. s[1] \in Dev!Paths
    BY <2>2, ElementOfSeq
  <2>4. QED
    BY <1>2, <2>3 DEF Dev!First
<1>3. QED
  BY <1>1, <1>2

\* The edits keep the type of a file.
LEMMA AddType ==
    ASSUME NEW s \in Seq(Dev!Paths), NEW p \in Dev!Paths
    PROVE  <<p>> \o Dev!Without(s, p) \in Seq(Dev!Paths)
<1>1. Dev!Without(s, p) \in Seq(Dev!Paths)
  BY EditType
<1>2. <<p>> \in Seq(Dev!Paths)
  <2>1. <<>> \in Seq(Dev!Paths)
    BY EmptySeq
  <2>2. Append(<<>>, p) \in Seq(Dev!Paths) /\ Append(<<>>, p) = <<>> \o <<p>>
    BY <2>1, AppendProperties, AppendIsConcat
  <2>3. <<>> \o <<p>> = <<p>>
    OBVIOUS
  <2>4. QED
    BY <2>2, <2>3
<1>3. QED
  BY <1>1, <1>2, ConcatProperties

LEMMA EditedType ==
    ASSUME DevAssumption, Dev!StateTypes, NEW t \in Terminals, where[t] \in Dev!Edits, NEW s \in Seq(Dev!Paths)
    PROVE  Dev!Edited(t, s) \in Seq(Dev!Paths)
<1>1. Dev!Target(t) \in Dev!Paths
  BY CallType DEF Dev!StateTypes, Dev!Target
<1>2. <<>> \in Seq(Dev!Paths)
  BY EmptySeq
<1>3. /\ Dev!Distinct(s, {Dev!Target(t)}) \in Seq(Dev!Paths)
      /\ Dev!Distinct(s, Dev!Paths \ {Doubled}) \in Seq(Dev!Paths)
      /\ <<Dev!Target(t)>> \o Dev!Without(s, Dev!Target(t)) \in Seq(Dev!Paths)
  BY <1>1, EditType, AddType
<1>4. CASE where[t] \in {"pre-clear", "set-clear"}
  BY <1>3, <1>4 DEF Dev!Edited
<1>5. CASE where[t] = "tidy"
  BY <1>3, <1>5 DEF Dev!Edited
<1>6. CASE where[t] \in {"remove", "force-remove", "cleanup"}
  BY <1>2, <1>6 DEF Dev!Edited
<1>7. CASE where[t] \in {"add", "fix"}
  BY <1>3, <1>7 DEF Dev!Edited
<1>8. QED
  BY <1>4, <1>5, <1>6, <1>7 DEF Dev!Edits

\* Steps keep the program counter and the results well typed.
LEMMA GotoPlace ==
    ASSUME Dev!StateTypes, NEW t \in Terminals, NEW place \in Dev!CallPlaces, Dev!Goto(t, place)
    PROVE  /\ where' \in [Terminals -> Dev!CallPlaces]
           /\ where'[t] = place
           /\ \A u \in Terminals \ {t} : where'[u] = where[u]
BY DEF Dev!StateTypes, Dev!Goto

Result == [status : Dev!Statuses, current : Dev!Paths \cup {NoPath}]

\* A bitness gets its result; then comes the next one, or the report.
LEMMA ConcludeEffect ==
    ASSUME DevAssumption, Dev!StateTypes, NEW t \in Terminals, at[t] \in call[t].archs,
           NEW status \in Dev!Statuses, NEW current \in Dev!Paths \cup {NoPath},
           Dev!ConcludeWith(t, status, current)
    PROVE  /\ where' \in [Terminals -> Dev!CallPlaces]
           /\ at' \in [Terminals -> Archs \cup {0}]
           /\ results' \in [Terminals -> [Archs -> Result]]
           /\ \A u \in Terminals \ {t} : where'[u] = where[u] /\ at'[u] = at[u] /\ results'[u] = results[u]
           /\ \A b \in Archs : results'[t][b].status = IF b = at[t] THEN status ELSE Status(t, b)
           /\ at'[t] \in call[t].archs
           /\ \/ where'[t] = "report" /\ \A b \in call[t].archs : ~ (at[t] < b)
              \/ /\ where'[t] = "state" /\ at'[t] \in call[t].archs /\ at[t] < at'[t]
                 /\ \A b \in call[t].archs : b < at'[t] => ~ (at[t] < b)
<1> DEFINE as == call[t].archs
           rest == {a \in as : a > at[t]}
           new == [status |-> status, current |-> current]
<1>1. as \in SUBSET Archs /\ Archs \subseteq Nat
  BY CallType, ArchsAreNumbers DEF Dev!StateTypes
<1>2. /\ results' = [results EXCEPT ![t][at[t]] = new]
      /\ IF rest = {} THEN Dev!Goto(t, "report") /\ UNCHANGED at
         ELSE Dev!Goto(t, "state") /\ at' = [at EXCEPT ![t] = Dev!Lowest(rest)]
  BY DEF Dev!ConcludeWith
<1>3. new \in Result /\ new.status = status
  BY DEF Result
<1>4. results \in [Terminals -> [Archs -> Result]]
  BY DEF Dev!StateTypes, Result
<1> HIDE DEF new
<1>5. /\ results' \in [Terminals -> [Archs -> Result]]
      /\ \A u \in Terminals \ {t} : results'[u] = results[u]
      /\ \A b \in Archs : results'[t][b] = IF b = at[t] THEN new ELSE results[t][b]
  BY <1>1, <1>2, <1>3, <1>4
<1>6. \A b \in Archs : results'[t][b].status = IF b = at[t] THEN status ELSE Status(t, b)
  BY <1>3, <1>5 DEF Status
<1>7. CASE rest = {}
  <2>1. Dev!Goto(t, "report") /\ at' = at
    BY <1>2, <1>7
  <2>2. \A b \in as : ~ (at[t] < b)
    BY <1>1, <1>7
  <2>3. "report" \in Dev!CallPlaces
    BY DEF Dev!CallPlaces, Dev!Running
  <2>4. QED
    BY <1>5, <1>6, <2>1, <2>2, <2>3, GotoPlace DEF Dev!StateTypes
<1>8. CASE rest # {}
  <2>1. Dev!Goto(t, "state") /\ at' = [at EXCEPT ![t] = Dev!Lowest(rest)]
    BY <1>2, <1>8
  <2>2. Dev!Lowest(rest) \in rest /\ \A b \in rest : Dev!Lowest(rest) <= b
    BY <1>1, <1>8, LowestIs
  <2>3. /\ at' \in [Terminals -> Archs \cup {0}]
        /\ at'[t] = Dev!Lowest(rest)
        /\ \A u \in Terminals \ {t} : at'[u] = at[u]
    BY <1>1, <2>1, <2>2 DEF Dev!StateTypes
  <2>4. at'[t] \in as /\ at[t] < at'[t]
    BY <1>1, <2>2, <2>3
  <2>5. ASSUME NEW b \in as, b < at'[t] PROVE ~ (at[t] < b)
    <3>1. b \in Nat /\ at[t] \in Nat /\ at'[t] \in Nat
      BY <1>1, <2>4
    <3>2. b \in rest => at'[t] <= b
      BY <2>2, <2>3
    <3>3. QED
      BY <3>1, <3>2, <2>5
  <2>6. "state" \in Dev!CallPlaces
    BY DEF Dev!CallPlaces, Dev!Running
  <2>7. QED
    BY <1>5, <1>6, <2>1, <2>3, <2>4, <2>5, <2>6, GotoPlace
<1>9. QED
  BY <1>7, <1>8

-----------------------------------------------------------------------------
(* What a step of a call may do, and that the invariant outlives it. *)

\* The step of t is about the bitness at hand, and nothing of another call.
Frame(t) ==
    /\ call' = call /\ before' = before /\ solo' = solo
    /\ \A u \in Terminals \ {t} :
           /\ where'[u] = where[u] /\ at'[u] = at[u] /\ loaded'[u] = loaded[u]
           /\ snap'[u] = snap[u] /\ results'[u] = results[u] /\ ended'[u] = ended[u]
    /\ packed' \subseteq packed
    /\ \A b \in Archs \ {at[t]} : ini'[b] = ini[b]

\* It goes on with the bitness at hand.
Stays(t) ==
    /\ Frame(t)
    /\ where'[t] \in AtWork /\ at'[t] = at[t] /\ ended'[t] = ended[t]
    /\ \A b \in Archs : \/ results'[t][b].status = Status(t, b)
                        \/ b = at[t] /\ results'[t][b].status = "pending"
    /\ solo[t] => /\ loaded'[t] => snap'[t] = ini'[at[t]]
                  /\ HereOK(t, where'[t], ini'[at[t]])
                  /\ FileOK(t, at[t], ini'[at[t]])

\* It concludes the bitness at hand with a status.
Concludes(t, status) ==
    /\ Frame(t)
    /\ ended'[t] = ended[t] /\ ~loaded'[t]
    /\ call[t].mode # "revert"
    /\ \A b \in Archs : results'[t][b].status = IF b = at[t] THEN status ELSE Status(t, b)
    /\ \/ where'[t] = "report" /\ \A b \in call[t].archs : ~ (at[t] < b)
       \/ /\ where'[t] = "state" /\ at'[t] \in call[t].archs /\ at[t] < at'[t]
          /\ \A b \in call[t].archs : b < at'[t] => ~ (at[t] < b)
    /\ status \in {"success", "fail"} \/ (status = "dry-run" /\ call[t].dry)
    /\ status = "success" /\ call[t].mode = "bind" => Dev!Target(t) \in Dev!Entries(ini'[at[t]])
    /\ solo[t] => /\ FileOK(t, at[t], ini'[at[t]])
                  /\ status = "success" => \A a \in {at[t]} : DoneOK(t, a)'

\* It ends the call; the file may have changed by a restore that failed.
Ends(t) ==
    /\ Frame(t)
    /\ where'[t] = "ended" /\ ended'[t] # "none" /\ ~loaded'[t]
    /\ results'[t] = results[t]
    /\ where[t] \in AtWork \/ ini' = ini
    /\ ended'[t] = "success" /\ call[t].mode # "revert" =>
           \A a \in call[t].archs : Status(t, a) = "success" \/ call[t].dry
    /\ ended'[t] \in {"skip", "blocked"} => call[t].by = "agent"
    /\ solo[t] => FileOK(t, at[t], ini'[at[t]])

\* The invariant of the other calls outlives a step: one that is alone has ended.
LEMMA OtherCallsKeep ==
    ASSUME DevInv, NEW t \in Terminals, where[t] \in Dev!Running, Frame(t),
           NEW u \in Terminals \ {t}
    PROVE  (PlaceInv(u) /\ ResultInv(u) /\ (solo[u] => SoloInv(u)))'
<1>1. PlaceInv(u) /\ ResultInv(u) /\ (solo[u] => SoloInv(u))
  BY DEF DevInv
<1>2. /\ call'[u] = call[u] /\ solo'[u] = solo[u] /\ packed' \subseteq packed
      /\ where'[u] = where[u] /\ at'[u] = at[u] /\ loaded'[u] = loaded[u]
      /\ snap'[u] = snap[u] /\ results'[u] = results[u] /\ ended'[u] = ended[u]
  BY DEF Frame
<1>3. PlaceInv(u)'
  BY <1>1, <1>2 DEF PlaceInv
<1>4. ResultInv(u)'
  BY <1>1, <1>2 DEF ResultInv, Concluded, Status
<1>5. ~solo[u]
  BY <1>1 DEF SoloInv
<1>6. QED
  BY <1>2, <1>3, <1>4, <1>5

\* A file that a call has not touched yet is fine.
LEMMA OldFileOK ==
    ASSUME NEW t \in Terminals, NEW a \in Archs
    PROVE  FileOK(t, a, before[t][a])
BY DEF FileOK

\* The conjuncts of SoloInv about the other bitnesses.
LEMMA OtherFilesKeep ==
    ASSUME NEW t \in Terminals, NEW a \in Archs, a # at[t], Frame(t),
           FileOK(t, a, ini[a])
    PROVE  FileOK(t, a, ini[a])' /\ (DoneOK(t, a) => DoneOK(t, a)')
<1>1. call'[t] = call[t] /\ before'[t] = before[t] /\ ini'[a] = ini[a] /\ packed' \subseteq packed
      /\ before' = before /\ call' = call
  BY DEF Frame
<1>2. FileOK(t, a, ini[a])'
  BY <1>1 DEF FileOK, Guarded, Dev!Foreign, Dev!Target
<1>3. DoneOK(t, a) => DoneOK(t, a)'
  BY <1>1 DEF DoneOK
<1>4. QED
  BY <1>2, <1>3

\* The invariant outlives a step that stays with its bitness, ...
LEMMA StaysKeeps ==
    ASSUME DevAssumption, DevInv, Dev!StateTypes', NEW t \in Terminals, where[t] \in AtWork,
           Stays(t), PlaceInv(t)'
    PROVE  DevInv'
<1>1. PlaceInv(t) /\ ResultInv(t) /\ (solo[t] => SoloInv(t)) /\ SomeInv /\ Dev!StateTypes
  BY DEF DevInv
<1>2. where[t] \in Dev!Running /\ at[t] \in call[t].archs /\ call[t].archs \in SUBSET Archs
  BY <1>1, CallType DEF AtWork, PlaceInv, Dev!StateTypes
<1>3. /\ Frame(t) /\ call'[t] = call[t] /\ before'[t] = before[t] /\ solo'[t] = solo[t]
      /\ call' = call /\ before' = before
      /\ where'[t] \in AtWork /\ at'[t] = at[t] /\ ended'[t] = ended[t]
  BY DEF Stays, Frame
<1>4. /\ Status(t, at[t]) \in {"none", "pending"}
      /\ \A b \in Archs : IF b = at[t] THEN Status(t, b)' \in {"none", "pending"}
                                     ELSE Status(t, b)' = Status(t, b)
  <2>1. ~ (at[t] < at[t])
    BY <1>2, ArchsAreNumbers
  <2>2. Status(t, at[t]) \in {"none", "pending"}
    BY <1>1, <1>2, <2>1 DEF ResultInv
  <2>3. QED
    BY <1>2, <2>2 DEF Stays, Status
<1>5. ended[t] = "none" /\ where'[t] # "ended" /\ where'[t] # "report"
  <2>1. where[t] # "ended" /\ where'[t] # "ended" /\ where'[t] # "report"
    BY <1>3 DEF AtWork, Dev!Running, Dev!Edits
  <2>2. QED
    BY <1>1, <2>1 DEF ResultInv
<1>6. ResultInv(t)'
  <2>1. ASSUME NEW a \in call[t].archs
        PROVE  /\ a < at[t] => Concluded(t, a)'
               /\ ~ (a < at[t]) => Status(t, a)' \in {"none", "pending"}
    <3>1. a < at[t] => a # at[t]
      BY <1>2, ArchsAreNumbers
    <3>2. QED
      BY <1>1, <1>2, <1>3, <1>4, <3>1 DEF ResultInv, Concluded
  <2>2. QED
    BY <1>3, <1>5, <2>1 DEF ResultInv
<1>7. SomeInv'
  <2> SUFFICES ASSUME NEW a \in Archs,
                      \A u \in Terminals : /\ call'[u].mode = "bind" /\ a \in call'[u].archs
                                           /\ Status(u, a)' = "success"
               PROVE  \E u \in Terminals : Dev!Target(u)' \in Dev!Entries(ini'[a])
    BY DEF SomeInv
  <2>1. a # at[t]
    BY <1>4
  <2>2. ini'[a] = ini[a]
    BY <1>3, <2>1 DEF Frame
  <2>3. \A u \in Terminals : Status(u, a) = "success"
    BY <1>3, <1>4, <2>1 DEF Frame, Status
  <2>4. \E u \in Terminals : Dev!Target(u) \in Dev!Entries(ini[a])
    BY <1>1, <1>3, <2>3 DEF SomeInv
  <2>5. QED
    BY <1>3, <2>2, <2>4 DEF Dev!Target
<1>8. ASSUME solo[t] PROVE SoloInv(t)'
  <2>1. SoloInv(t)
    BY <1>1, <1>8
  <2>2. \A u \in Terminals \ {t} : where'[u] \notin Dev!Running
    BY <1>3, <2>1 DEF Frame, SoloInv
  <2>3. /\ loaded'[t] => snap'[t] = ini'[at'[t]]
        /\ HereOK(t, where[t], ini[at[t]])'
        /\ FileOK(t, at[t], ini[at[t]])'
    BY <1>3, <1>8 DEF Stays, HereOK, FileOK, Guarded, Dev!Foreign, Dev!Target
  <2>4. ASSUME NEW a \in Archs
        PROVE  /\ a \notin call'[t].archs \/ (where'[t] \in AtWork /\ at'[t] < a) => ini'[a] = before'[t][a]
               /\ FileOK(t, a, ini[a])'
               /\ a \in call'[t].archs /\ Status(t, a)' = "success" => DoneOK(t, a)'
    <3>1. CASE a = at[t]
      <4>1. ~ (at[t] < a)
        BY <1>2, <3>1, ArchsAreNumbers
      <4>2. QED
        BY <1>2, <1>3, <1>4, <2>3, <3>1, <4>1
    <3>2. CASE a # at[t]
      <4>1. ini'[a] = ini[a]
        BY <1>3, <3>2 DEF Frame
      <4>2. FileOK(t, a, ini[a])
        BY <2>1 DEF SoloInv
      <4>3. FileOK(t, a, ini[a])' /\ (DoneOK(t, a) => DoneOK(t, a)')
        BY <1>3, <3>2, <4>2, OtherFilesKeep
      <4>4. QED
        BY <1>3, <1>4, <2>1, <3>2, <4>1, <4>3 DEF SoloInv
    <3>3. QED
      BY <3>1, <3>2
  <2>5. QED
    BY <2>2, <2>3, <2>4 DEF SoloInv
<1>9. ASSUME NEW u \in Terminals
      PROVE  (PlaceInv(u) /\ ResultInv(u) /\ (solo[u] => SoloInv(u)))'
  <2>1. CASE u = t
    BY <1>3, <1>6, <1>8, <2>1
  <2>2. CASE u # t
    BY <1>2, <1>3, <2>2, OtherCallsKeep
  <2>3. QED
    BY <2>1, <2>2
<1>10. QED
  BY <1>7, <1>9 DEF DevInv

\* ... one that concludes it, ...
LEMMA ConcludesKeeps ==
    ASSUME DevAssumption, DevInv, Dev!StateTypes', NEW t \in Terminals, where[t] \in AtWork,
           NEW status, Concludes(t, status), PlaceInv(t)'
    PROVE  DevInv'
<1>1. PlaceInv(t) /\ ResultInv(t) /\ (solo[t] => SoloInv(t)) /\ SomeInv /\ Dev!StateTypes
  BY DEF DevInv
<1>2. where[t] \in Dev!Running /\ at[t] \in call[t].archs /\ call[t].archs \in SUBSET Archs
  BY <1>1, CallType DEF AtWork, PlaceInv, Dev!StateTypes
<1>3. /\ Frame(t) /\ call'[t] = call[t] /\ before'[t] = before[t] /\ solo'[t] = solo[t]
      /\ call' = call /\ before' = before
      /\ ended'[t] = ended[t] /\ ~loaded'[t]
      /\ where'[t] \in {"report", "state"}
  BY DEF Concludes, Frame
<1>4. /\ status \in {"success", "fail"} \/ (status = "dry-run" /\ call[t].dry)
      /\ \A b \in Archs : Status(t, b)' = IF b = at[t] THEN status ELSE Status(t, b)
  BY <1>2 DEF Concludes, Status
<1>5. ended[t] = "none" /\ where'[t] # "ended"
  <2>1. where[t] # "ended" /\ where'[t] # "ended"
    BY <1>3 DEF AtWork, Dev!Running, Dev!Edits
  <2>2. QED
    BY <1>1, <2>1 DEF ResultInv
<1>6. ASSUME NEW a \in call[t].archs, ~ (at[t] < a) PROVE Concluded(t, a)'
  <2>1. CASE a = at[t]
    BY <1>2, <1>3, <1>4, <2>1 DEF Concluded
  <2>2. CASE a # at[t]
    <3>1. a < at[t]
      BY <1>2, <1>6, <2>2, ArchsAreNumbers
    <3>2. QED
      BY <1>1, <1>2, <1>3, <1>4, <2>2, <3>1 DEF ResultInv, Concluded
  <2>3. QED
    BY <2>1, <2>2
<1>7. ASSUME NEW a \in call[t].archs, at[t] < a PROVE Status(t, a)' \in {"none", "pending"}
  <2>1. ~ (a < at[t]) /\ a # at[t]
    BY <1>2, <1>7, ArchsAreNumbers
  <2>2. QED
    BY <1>1, <1>2, <1>4, <2>1 DEF ResultInv
<1>8. ResultInv(t)'
  <2>1. CASE where'[t] = "report"
    <3>1. \A a \in call[t].archs : Concluded(t, a)'
      BY <1>6, <2>1 DEF Concludes
    <3>2. where'[t] \notin AtWork
      BY <2>1 DEF AtWork
    <3>3. QED
      BY <1>3, <1>5, <3>1, <3>2 DEF ResultInv
  <2>2. CASE where'[t] = "state"
    <3>1. /\ at'[t] \in call[t].archs /\ at[t] < at'[t]
          /\ \A b \in call[t].archs : b < at'[t] => ~ (at[t] < b)
      BY <2>2 DEF Concludes
    <3>2. ASSUME NEW a \in call[t].archs
          PROVE  /\ a < at'[t] => Concluded(t, a)'
                 /\ ~ (a < at'[t]) => Status(t, a)' \in {"none", "pending"}
      <4>1. ~ (a < at'[t]) => at[t] < a
        BY <1>2, <3>1, ArchsAreNumbers
      <4>2. QED
        BY <1>6, <1>7, <3>1, <4>1
    <3>3. QED
      BY <1>3, <1>5, <2>2, <3>2 DEF ResultInv
  <2>3. QED
    BY <1>3, <2>1, <2>2
<1>9. SomeInv'
  <2> SUFFICES ASSUME NEW a \in Archs,
                      \A u \in Terminals : /\ call'[u].mode = "bind" /\ a \in call'[u].archs
                                           /\ Status(u, a)' = "success"
               PROVE  \E u \in Terminals : Dev!Target(u)' \in Dev!Entries(ini'[a])
    BY DEF SomeInv
  <2>1. CASE a = at[t]
    <3>1. status = "success" /\ call[t].mode = "bind"
      BY <1>3, <1>4, <2>1
    <3>2. Dev!Target(t) \in Dev!Entries(ini'[at[t]])
      BY <3>1 DEF Concludes
    <3>3. Dev!Target(t)' = Dev!Target(t)
      BY <1>3 DEF Dev!Target
    <3>4. QED
      BY <2>1, <3>2, <3>3
  <2>2. CASE a # at[t]
    <3>1. ini'[a] = ini[a]
      BY <1>3, <2>2 DEF Frame
    <3>2. \A u \in Terminals : Status(u, a) = "success"
      BY <1>3, <1>4, <2>2 DEF Frame, Status
    <3>3. \E u \in Terminals : Dev!Target(u) \in Dev!Entries(ini[a])
      BY <1>1, <1>3, <3>2 DEF SomeInv
    <3>4. QED
      BY <1>3, <3>1, <3>3 DEF Dev!Target
  <2>3. QED
    BY <2>1, <2>2
<1>10. ASSUME solo[t] PROVE SoloInv(t)'
  <2>1. SoloInv(t)
    BY <1>1, <1>10
  <2>2. \A u \in Terminals \ {t} : where'[u] \notin Dev!Running
    BY <1>3, <2>1 DEF Frame, SoloInv
  <2>3. /\ FileOK(t, at[t], ini'[at[t]])
        /\ status = "success" => \A a \in {at[t]} : DoneOK(t, a)'
    BY <1>10 DEF Concludes
  <2>4. ASSUME NEW a \in Archs
        PROVE  /\ a \notin call'[t].archs \/ (where'[t] \in AtWork /\ at'[t] < a) => ini'[a] = before'[t][a]
               /\ FileOK(t, a, ini[a])'
               /\ a \in call'[t].archs /\ Status(t, a)' = "success" => DoneOK(t, a)'
    <3>1. where'[t] \in AtWork => at[t] < at'[t] /\ at'[t] \in Archs
      BY <1>2 DEF Concludes, AtWork
    <3>2. CASE a = at[t]
      <4>1. ~ (where'[t] \in AtWork /\ at'[t] < a)
        BY <1>2, <3>1, <3>2, ArchsAreNumbers
      <4>2. FileOK(t, a, ini[a])'
        BY <1>3, <2>3, <3>2 DEF FileOK, Guarded, Dev!Foreign, Dev!Target
      <4>3. Status(t, a)' = "success" => DoneOK(t, a)'
        BY <1>4, <2>3, <3>2
      <4>4. QED
        BY <1>2, <1>3, <3>2, <4>1, <4>2, <4>3
    <3>3. CASE a # at[t]
      <4>1. ini'[a] = ini[a]
        BY <1>3, <3>3 DEF Frame
      <4>2. FileOK(t, a, ini[a])
        BY <2>1 DEF SoloInv
      <4>3. FileOK(t, a, ini[a])' /\ (DoneOK(t, a) => DoneOK(t, a)')
        BY <1>3, <3>3, <4>2, OtherFilesKeep
      <4>4. where'[t] \in AtWork /\ at'[t] < a => where[t] \in AtWork /\ at[t] < a
        BY <1>2, <3>1, ArchsAreNumbers
      <4>5. QED
        BY <1>3, <1>4, <2>1, <3>3, <4>1, <4>3, <4>4 DEF SoloInv
    <3>4. QED
      BY <3>2, <3>3
  <2>5. where'[t] \in AtWork => HereOK(t, where[t], ini[at[t]])'
    <3> SUFFICES ASSUME where'[t] \in AtWork PROVE HereOK(t, where[t], ini[at[t]])'
      OBVIOUS
    <3>1. where'[t] = "state" /\ at'[t] \in Archs /\ at[t] < at'[t]
      BY <1>2, <1>3 DEF Concludes, AtWork
    <3>2. at'[t] # at[t]
      BY <1>2, <3>1, ArchsAreNumbers
    <3>3. ini'[at'[t]] = before'[t][at'[t]]
      BY <1>3, <2>1, <3>1, <3>2 DEF Frame, SoloInv
    <3>4. QED
      BY <3>1, <3>3 DEF HereOK, Early, Reverting
  <2>6. QED
    BY <1>3, <2>2, <2>4, <2>5 DEF SoloInv
<1>11. ASSUME NEW u \in Terminals
       PROVE  (PlaceInv(u) /\ ResultInv(u) /\ (solo[u] => SoloInv(u)))'
  <2>1. CASE u = t
    BY <1>3, <1>8, <1>10, <2>1
  <2>2. CASE u # t
    BY <1>2, <1>3, <2>2, OtherCallsKeep
  <2>3. QED
    BY <2>1, <2>2
<1>12. QED
  BY <1>9, <1>11 DEF DevInv

\* ... and one that ends the call.
LEMMA EndsKeeps ==
    ASSUME DevAssumption, DevInv, Dev!StateTypes', NEW t \in Terminals, where[t] \in Dev!Running, Ends(t)
    PROVE  DevInv'
<1>1. PlaceInv(t) /\ ResultInv(t) /\ (solo[t] => SoloInv(t)) /\ SomeInv /\ Dev!StateTypes
  BY DEF DevInv
<1>2. at[t] \in call[t].archs /\ call[t].archs \in SUBSET Archs
  BY <1>1, CallType DEF PlaceInv, Dev!StateTypes
<1>3. /\ Frame(t) /\ call'[t] = call[t] /\ before'[t] = before[t] /\ solo'[t] = solo[t]
      /\ call' = call /\ before' = before
      /\ ended'[t] # "none" /\ ~loaded'[t] /\ where'[t] = "ended" /\ results'[t] = results[t]
      /\ \A b \in Archs : Status(t, b)' = Status(t, b)
  BY DEF Ends, Frame, Status
<1>4. "ended" \notin Dev!Running /\ "ended" \notin AtWork
  BY DEF Dev!Running, AtWork, Dev!Edits
<1>5. PlaceInv(t)'
  BY <1>3, <1>4 DEF PlaceInv, Reverting, BindSteps, PackedGone
<1>6. ResultInv(t)'
  BY <1>3, <1>4 DEF ResultInv, Ends, Status
<1>7. where[t] \in AtWork => Status(t, at[t]) \in {"none", "pending"}
  <2>1. ~ (at[t] < at[t])
    BY <1>2, ArchsAreNumbers
  <2>2. QED
    BY <1>1, <1>2, <2>1 DEF ResultInv
<1>8. \A a \in Archs : a # at[t] \/ where[t] \notin AtWork => ini'[a] = ini[a]
  BY <1>3 DEF Ends, Frame
<1>9. SomeInv'
  <2> SUFFICES ASSUME NEW a \in Archs,
                      \A u \in Terminals : /\ call'[u].mode = "bind" /\ a \in call'[u].archs
                                           /\ Status(u, a)' = "success"
               PROVE  \E u \in Terminals : Dev!Target(u)' \in Dev!Entries(ini'[a])
    BY DEF SomeInv
  <2>1. \A u \in Terminals : Status(u, a) = "success"
    BY <1>3 DEF Frame, Status
  <2>2. ini'[a] = ini[a]
    BY <1>7, <1>8, <2>1
  <2>3. \E u \in Terminals : Dev!Target(u) \in Dev!Entries(ini[a])
    BY <1>1, <1>3, <2>1 DEF SomeInv
  <2>4. QED
    BY <1>3, <2>2, <2>3 DEF Dev!Target
<1>10. ASSUME solo[t] PROVE SoloInv(t)'
  <2>1. SoloInv(t)
    BY <1>1, <1>10
  <2>2. \A u \in Terminals \ {t} : where'[u] \notin Dev!Running
    BY <1>3, <2>1 DEF Frame, SoloInv
  <2>3. FileOK(t, at[t], ini'[at[t]])
    BY <1>10 DEF Ends
  <2>4. ASSUME NEW a \in Archs
        PROVE  /\ a \notin call'[t].archs => ini'[a] = before'[t][a]
               /\ FileOK(t, a, ini[a])'
               /\ a \in call'[t].archs /\ Status(t, a)' = "success" => DoneOK(t, a)'
    <3>1. a \notin call'[t].archs => ini'[a] = before'[t][a]
      BY <1>2, <1>3, <1>8, <2>1 DEF SoloInv
    <3>2. FileOK(t, a, ini[a])'
      <4>1. FileOK(t, a, ini'[a])
        BY <1>8, <2>1, <2>3 DEF SoloInv
      <4>2. QED
        BY <1>3, <4>1 DEF FileOK, Guarded, Dev!Foreign, Dev!Target
    <3>3. ASSUME a \in call'[t].archs, Status(t, a)' = "success" PROVE DoneOK(t, a)'
      <4>1. Status(t, a) = "success" /\ a \in call[t].archs
        BY <1>3, <3>3
      <4>2. ini'[a] = ini[a]
        BY <1>7, <1>8, <4>1
      <4>3. DoneOK(t, a)
        BY <2>1, <4>1 DEF SoloInv
      <4>4. packed' \subseteq packed
        BY <1>3 DEF Frame
      <4>5. QED
        BY <1>3, <4>2, <4>3, <4>4 DEF DoneOK
    <3>4. QED
      BY <3>1, <3>2, <3>3
  <2>5. QED
    BY <1>3, <1>4, <2>2, <2>4 DEF SoloInv
<1>11. ASSUME NEW u \in Terminals
       PROVE  (PlaceInv(u) /\ ResultInv(u) /\ (solo[u] => SoloInv(u)))'
  <2>1. CASE u = t
    BY <1>3, <1>5, <1>6, <1>10, <2>1
  <2>2. CASE u # t
    BY <1>3, <2>2, OtherCallsKeep
  <2>3. QED
    BY <2>1, <2>2
<1>12. QED
  BY <1>9, <1>11 DEF DevInv

-----------------------------------------------------------------------------
(* The three kinds of steps, as the actions take them. *)

\* What a step leaves alone, and that it touches one file of the file's type.
OneFile(t) ==
    /\ call' = call /\ before' = before /\ solo' = solo /\ started' = started
    /\ snap' \in [Terminals -> Seq(Dev!Paths)] /\ \A u \in Terminals \ {t} : snap'[u] = snap[u]
    /\ loaded' \in [Terminals -> BOOLEAN] /\ \A u \in Terminals \ {t} : loaded'[u] = loaded[u]
    /\ ini' \in [Archs -> Seq(Dev!Paths)] /\ \A b \in Archs \ {at[t]} : ini'[b] = ini[b]
    /\ packed' \subseteq packed /\ prepared' \subseteq Repositories
    /\ summary' \in [Repositories -> [Archs -> Dev!Paths \cup {NoPath}] \cup {NoSummary}]

\* An action that stays with the bitness at hand keeps the invariant.
LEMMA StayStep ==
    ASSUME DevAssumption, DevInv, NEW t \in Terminals, where[t] \in AtWork,
           NEW place \in AtWork, Dev!Goto(t, place), at' = at, ended' = ended, OneFile(t),
           results' = results \/ \E current \in Dev!Paths \cup {NoPath} :
               results' = [results EXCEPT ![t][at[t]] = [status |-> "pending", current |-> current]],
           PlaceInv(t)',
           solo[t] => /\ loaded'[t] => snap'[t] = ini'[at[t]]
                      /\ HereOK(t, place, ini'[at[t]]) /\ FileOK(t, at[t], ini'[at[t]])
    PROVE  DevInv'
<1>1. Dev!StateTypes /\ PlaceInv(t)
  BY DEF DevInv
<1>2. at[t] \in Archs
  BY <1>1, CallType DEF PlaceInv, Dev!StateTypes, AtWork
<1>3. place \in Dev!CallPlaces
  BY DEF AtWork, Dev!CallPlaces
<1>4. where' \in [Terminals -> Dev!CallPlaces] /\ where'[t] = place /\ \A u \in Terminals \ {t} : where'[u] = where[u]
  BY <1>1, <1>3, GotoPlace
<1>5. /\ results' \in [Terminals -> [Archs -> Result]]
      /\ \A u \in Terminals \ {t} : results'[u] = results[u]
      /\ \A b \in Archs : \/ results'[t][b].status = Status(t, b)
                          \/ b = at[t] /\ results'[t][b].status = "pending"
  <2>1. results \in [Terminals -> [Archs -> Result]]
    BY <1>1 DEF Dev!StateTypes, Result
  <2>2. CASE results' = results
    BY <2>1, <2>2 DEF Status
  <2>3. CASE results' # results
    <3>1. PICK current \in Dev!Paths \cup {NoPath} :
              results' = [results EXCEPT ![t][at[t]] = [status |-> "pending", current |-> current]]
      BY <2>3
    <3> DEFINE new == [status |-> "pending", current |-> current]
    <3>2. new \in Result /\ new.status = "pending"
      BY DEF Result, Dev!Statuses
    <3> HIDE DEF new
    <3>3. results' = [results EXCEPT ![t][at[t]] = new]
      BY <3>1 DEF new
    <3>4. QED
      BY <1>2, <2>1, <3>2, <3>3 DEF Status
  <2>4. QED
    BY <2>2, <2>3
<1>6. Dev!StateTypes'
  BY <1>1, <1>4, <1>5 DEF Dev!StateTypes, OneFile, Result
<1>7. Frame(t)
  BY <1>4, <1>5 DEF Frame, OneFile
<1>8. Stays(t)
  BY <1>4, <1>5, <1>7 DEF Stays
<1>9. QED
  BY <1>6, <1>8, StaysKeeps

\* So does one that concludes the bitness, ...
LEMMA ConcludeStep ==
    ASSUME DevAssumption, DevInv, NEW t \in Terminals, where[t] \in AtWork, call[t].mode # "revert",
           NEW status \in {"success", "fail", "dry-run"}, NEW current \in Dev!Paths \cup {NoPath},
           Dev!ConcludeWith(t, status, current), status = "dry-run" => call[t].dry,
           ended' = ended, OneFile(t), packed' = packed, ~loaded'[t],
           status = "success" /\ call[t].mode = "bind" => Dev!Target(t) \in Dev!Entries(ini'[at[t]]),
           solo[t] => /\ FileOK(t, at[t], ini'[at[t]])
                      /\ status = "success" /\ call[t].mode = "bind" =>
                             /\ ini'[at[t]] \in {<<Dev!Target(t)>>, before[t][at[t]]}
                             /\ Dev!Target(t) \notin packed
                      /\ status = "success" /\ call[t].mode = "unbind" =>
                             Dev!Target(t) \notin Dev!Entries(ini'[at[t]])
    PROVE  DevInv'
<1>1. Dev!StateTypes /\ PlaceInv(t)
  BY DEF DevInv
<1>2. at[t] \in call[t].archs
  BY <1>1 DEF PlaceInv, AtWork
<1>3. status \in Dev!Statuses
  BY DEF Dev!Statuses
<1>4. /\ where' \in [Terminals -> Dev!CallPlaces]
      /\ at' \in [Terminals -> Archs \cup {0}]
      /\ results' \in [Terminals -> [Archs -> Result]]
      /\ \A u \in Terminals \ {t} : where'[u] = where[u] /\ at'[u] = at[u] /\ results'[u] = results[u]
      /\ \A b \in Archs : results'[t][b].status = IF b = at[t] THEN status ELSE Status(t, b)
      /\ at'[t] \in call[t].archs
      /\ \/ where'[t] = "report" /\ \A b \in call[t].archs : ~ (at[t] < b)
         \/ /\ where'[t] = "state" /\ at'[t] \in call[t].archs /\ at[t] < at'[t]
            /\ \A b \in call[t].archs : b < at'[t] => ~ (at[t] < b)
  BY <1>1, <1>2, <1>3, ConcludeEffect
<1>5. Dev!StateTypes'
  BY <1>1, <1>4 DEF Dev!StateTypes, OneFile, Result
<1>6. Frame(t)
  BY <1>4 DEF Frame, OneFile
<1>7. call' = call
  BY DEF OneFile
<1>8. PlaceInv(t)'
  BY <1>4, <1>7 DEF PlaceInv, Reverting, BindSteps, PackedGone
<1>9. ASSUME solo[t], status = "success", NEW a \in {at[t]} PROVE DoneOK(t, a)'
  BY <1>7, <1>9 DEF DoneOK, Dev!Target, OneFile
<1>10. Concludes(t, status)
  BY <1>4, <1>6, <1>9 DEF Concludes
<1>11. QED
  BY <1>5, <1>8, <1>10, ConcludesKeeps

\* ... and one that ends the call.
LEMMA EndStep ==
    ASSUME DevAssumption, DevInv, NEW t \in Terminals, where[t] \in Dev!Running,
           NEW how \in Dev!Outcomes \ {"none"}, Dev!End(t, how), at' = at, results' = results,
           OneFile(t), ~loaded'[t],
           where[t] \in AtWork \/ ini' = ini,
           how = "success" /\ call[t].mode # "revert" =>
               \A a \in call[t].archs : Status(t, a) = "success" \/ call[t].dry,
           how \in {"skip", "blocked"} => call[t].by = "agent",
           solo[t] => FileOK(t, at[t], ini'[at[t]])
    PROVE  DevInv'
<1>1. Dev!StateTypes /\ PlaceInv(t)
  BY DEF DevInv
<1>2. "ended" \in Dev!CallPlaces
  BY DEF Dev!CallPlaces
<1>3. /\ where' \in [Terminals -> Dev!CallPlaces] /\ where'[t] = "ended" /\ \A u \in Terminals \ {t} : where'[u] = where[u]
      /\ ended' = [ended EXCEPT ![t] = how]
  BY <1>1, <1>2, GotoPlace DEF Dev!End
<1>4. /\ ended' \in [Terminals -> Dev!Outcomes]
      /\ ended'[t] = how /\ \A u \in Terminals \ {t} : ended'[u] = ended[u]
  BY <1>1, <1>3 DEF Dev!StateTypes
<1>5. Dev!StateTypes'
  BY <1>1, <1>3, <1>4 DEF Dev!StateTypes, OneFile
<1>6. Frame(t)
  BY <1>3, <1>4 DEF Frame, OneFile
<1>7. Ends(t)
  BY <1>3, <1>4, <1>6 DEF Ends
<1>8. QED
  BY <1>5, <1>7, EndsKeeps

-----------------------------------------------------------------------------
(* The actions, one by one. *)

\* What the invariant says of a call at work.
LEMMA Working ==
    ASSUME DevAssumption, DevInv, NEW t \in Terminals, where[t] \in Dev!Running
    PROVE  /\ Dev!StateTypes /\ PlaceInv(t) /\ ResultInv(t) /\ call[t] \in Calls
           /\ at[t] \in call[t].archs /\ at[t] \in Archs
           /\ Dev!Target(t) = call[t].target /\ Dev!Target(t) \in Repositories
           /\ Dev!Target(t) \in Dev!Paths /\ Dev!Target(t) \notin {NoPath, Doubled}
           /\ ini[at[t]] \in Seq(Dev!Paths) /\ before[t][at[t]] \in Seq(Dev!Paths)
           /\ results[t][at[t]].current \in Dev!Paths \cup {NoPath}
           /\ solo[t] => SoloInv(t) /\ FileOK(t, at[t], ini[at[t]])
           /\ solo[t] /\ where[t] \in AtWork => HereOK(t, where[t], ini[at[t]])
<1>1. Dev!StateTypes /\ PlaceInv(t) /\ ResultInv(t) /\ (solo[t] => SoloInv(t))
  BY DEF DevInv
<1>2. call[t] \in Calls /\ at[t] \in call[t].archs
  BY <1>1 DEF Dev!StateTypes, PlaceInv
<1>3. at[t] \in Archs /\ Dev!Target(t) = call[t].target /\ Dev!Target(t) \in Repositories
      /\ Dev!Target(t) \in Dev!Paths /\ Dev!Target(t) \notin {NoPath, Doubled}
  BY <1>2, CallType DEF Dev!Target
<1>4. /\ ini[at[t]] \in Seq(Dev!Paths) /\ before[t][at[t]] \in Seq(Dev!Paths)
      /\ results[t][at[t]].current \in Dev!Paths \cup {NoPath}
  BY <1>1, <1>3 DEF Dev!StateTypes
<1>5. /\ solo[t] => SoloInv(t) /\ FileOK(t, at[t], ini[at[t]])
      /\ solo[t] /\ where[t] \in AtWork => HereOK(t, where[t], ini[at[t]])
  BY <1>1, <1>3 DEF SoloInv
<1>6. QED
  BY <1>1, <1>2, <1>3, <1>4, <1>5

\* A step that touches neither a file nor a checkout.
LEMMA Unedited ==
    ASSUME Dev!StateTypes, NEW t \in Terminals,
           call' = call, before' = before, solo' = solo, started' = started,
           snap' = snap, loaded' = loaded \/ loaded' = [loaded EXCEPT ![t] = FALSE],
           ini' = ini, packed' = packed, prepared' = prepared, summary' = summary
    PROVE  OneFile(t)
BY DEF Dev!StateTypes, OneFile

\* Only an edit has read a file it has not written.
LEMMA NotLoaded ==
    ASSUME DevInv, NEW t \in Terminals, where[t] \notin Dev!Edits
    PROVE  ~ loaded[t]
BY DEF DevInv, PlaceInv

LEMMA PlanKeeps ==
    ASSUME DevAssumption, DevInv, NEW t \in Terminals, Dev!Plan(t)
    PROVE  DevInv'
<1>1. /\ where[t] = "plan" /\ call' = call /\ at' = at /\ loaded' = loaded /\ snap' = snap
      /\ results' = results /\ ini' = ini /\ packed' = packed /\ prepared' = prepared
      /\ summary' = summary /\ started' = started /\ before' = before /\ solo' = solo
  BY DEF Dev!Plan, Dev!checkoutState, Dev!history
<1>2. where[t] \in Dev!Running /\ where[t] \in AtWork /\ ~ loaded[t]
  BY <1>1, NotLoaded DEF Dev!Running, AtWork, Dev!Edits
<1>3. /\ Dev!StateTypes /\ PlaceInv(t)
      /\ solo[t] => FileOK(t, at[t], ini[at[t]]) /\ HereOK(t, where[t], ini[at[t]])
  BY <1>2, Working
<1>4. OneFile(t) /\ ~ loaded'[t]
  BY <1>1, <1>2, <1>3, Unedited
<1>5. call[t].by = "agent"
  BY <1>1, <1>3 DEF PlaceInv
<1>6. ASSUME NEW how \in {"fail", "blocked", "skip"}, Dev!End(t, how) PROVE DevInv'
  <2>1. how \in Dev!Outcomes \ {"none"} /\ how # "success"
    BY DEF Dev!Outcomes
  <2>2. QED
    BY <1>1, <1>2, <1>3, <1>4, <1>5, <1>6, <2>1, EndStep
<1>7. CASE Dev!Goto(t, "start") /\ ended' = ended
  <2>1. "start" \in AtWork /\ "start" \in Dev!CallPlaces
    BY DEF AtWork, Dev!Running, Dev!CallPlaces
  <2>2. where'[t] = "start"
    BY <1>3, <1>7, <2>1, GotoPlace
  <2>3. PlaceInv(t)'
    BY <1>1, <1>2, <1>3, <1>4, <2>2 DEF PlaceInv, Dev!Running, Reverting, BindSteps, PackedGone
  <2>4. solo[t] => HereOK(t, "start", ini'[at[t]]) /\ FileOK(t, at[t], ini'[at[t]])
    BY <1>1, <1>3 DEF HereOK, Early, Reverting
  <2>5. QED
    BY <1>1, <1>2, <1>4, <1>7, <2>1, <2>3, <2>4, StayStep
<1>8. \/ Dev!End(t, "fail") \/ Dev!End(t, "blocked") \/ Dev!End(t, "skip")
      \/ Dev!Goto(t, "start") /\ ended' = ended
  BY DEF Dev!Plan
<1>9. QED
  BY <1>6, <1>7, <1>8

LEMMA StartKeeps ==
    ASSUME DevAssumption, DevInv, NEW t \in Terminals, Dev!Start(t)
    PROVE  DevInv'
<1>1. /\ where[t] = "start" /\ call' = call /\ at' = at /\ loaded' = loaded /\ snap' = snap
      /\ ended' = ended /\ ini' = ini /\ packed' = packed /\ prepared' = prepared
      /\ summary' = summary /\ started' = started /\ before' = before /\ solo' = solo
  BY DEF Dev!Start, Dev!checkoutState, Dev!history
<1>2. where[t] \in Dev!Running /\ where[t] \in AtWork /\ ~ loaded[t]
  BY <1>1, NotLoaded DEF Dev!Running, AtWork, Dev!Edits
<1>3. /\ Dev!StateTypes /\ PlaceInv(t) /\ ResultInv(t) /\ call[t] \in Calls
      /\ solo[t] => SoloInv(t) /\ FileOK(t, at[t], ini[at[t]]) /\ HereOK(t, where[t], ini[at[t]])
  BY <1>2, Working
<1>4. OneFile(t) /\ ~ loaded'[t]
  BY <1>1, <1>2, <1>3, Unedited
<1>5. CASE Dev!Goto(t, "state") /\ results' = results
  <2>1. "state" \in AtWork /\ "state" \in Dev!CallPlaces
    BY DEF AtWork, Dev!Running, Dev!CallPlaces
  <2>2. where'[t] = "state"
    BY <1>3, <1>5, <2>1, GotoPlace
  <2>3. PlaceInv(t)'
    BY <1>1, <1>2, <1>3, <1>4, <2>2 DEF PlaceInv, Dev!Running, Reverting, BindSteps, PackedGone
  <2>4. solo[t] => HereOK(t, "state", ini'[at[t]]) /\ FileOK(t, at[t], ini'[at[t]])
    BY <1>1, <1>3 DEF HereOK, Early, Reverting
  <2>5. QED
    BY <1>1, <1>2, <1>4, <1>5, <2>1, <2>3, <2>4, StayStep
<1>6. CASE /\ Dev!Goto(t, "report")
           /\ results' = [results EXCEPT ![t] = [a \in Archs |->
                 IF a \in call[t].archs THEN [status |-> "fail", current |-> NoPath]
                                        ELSE Dev!NoResult]]
  <2> DEFINE failed == [status |-> "fail", current |-> NoPath]
             new == [a \in Archs |-> IF a \in call[t].archs THEN failed ELSE Dev!NoResult]
  <2>1. failed \in Result /\ Dev!NoResult \in Result /\ failed.status = "fail"
    BY DEF Result, Dev!NoResult, Dev!Statuses
  <2> HIDE DEF failed
  <2>2. new \in [Archs -> Result] /\ \A a \in call[t].archs : a \in Archs => new[a].status = "fail"
    BY <2>1
  <2>3. results' = [results EXCEPT ![t] = new]
    BY <1>6 DEF failed
  <2> HIDE DEF new
  <2>4. results \in [Terminals -> [Archs -> Result]]
    BY <1>3 DEF Dev!StateTypes, Result
  <2>5. /\ results' \in [Terminals -> [Archs -> Result]] /\ results'[t] = new
        /\ \A u \in Terminals \ {t} : results'[u] = results[u]
    BY <2>2, <2>3, <2>4
  <2>6. \A a \in call[t].archs : results'[t][a].status = "fail"
    <3>1. call[t].archs \in SUBSET Archs
      BY <1>3, CallType
    <3>2. QED
      BY <2>2, <2>5, <3>1
  <2>7. "report" \in Dev!CallPlaces /\ "report" \in Dev!Running /\ "report" \notin AtWork
    BY DEF Dev!CallPlaces, Dev!Running, AtWork
  <2>8. where' \in [Terminals -> Dev!CallPlaces] /\ where'[t] = "report" /\ \A u \in Terminals \ {t} : where'[u] = where[u]
    BY <1>3, <1>6, <2>7, GotoPlace
  <2>9. Dev!StateTypes'
    BY <1>1, <1>3, <2>5, <2>8 DEF Dev!StateTypes, Result
  <2>10. Frame(t)
    BY <1>1, <2>5, <2>8 DEF Frame
  <2>11. PlaceInv(t)'
    BY <1>1, <1>2, <1>3, <2>8 DEF PlaceInv, Dev!Running, Reverting, BindSteps, PackedGone
  <2>12. ended[t] = "none" /\ where'[t] # "ended"
    BY <1>1, <1>3, <2>8 DEF ResultInv
  <2>13. ResultInv(t)'
    BY <1>1, <2>6, <2>7, <2>8, <2>12 DEF ResultInv, Concluded, Status
  <2>14. SomeInv'
    <3> SUFFICES ASSUME NEW a \in Archs,
                        \A u \in Terminals : /\ call'[u].mode = "bind" /\ a \in call'[u].archs
                                             /\ Status(u, a)' = "success"
                 PROVE  FALSE
      BY DEF SomeInv
    <3>1. a \in call[t].archs /\ results'[t][a].status = "success"
      BY <1>1 DEF Status
    <3>2. QED
      BY <2>6, <3>1
  <2>15. ASSUME solo[t] PROVE SoloInv(t)'
    <3>1. SoloInv(t)
      BY <1>3, <2>15
    <3>2. \A u \in Terminals \ {t} : where'[u] \notin Dev!Running
      BY <2>8, <3>1 DEF SoloInv
    <3>3. ASSUME NEW a \in Archs
          PROVE  /\ a \notin call[t].archs => ini[a] = before[t][a]
                 /\ FileOK(t, a, ini[a])
      BY <3>1 DEF SoloInv
    <3>4. ASSUME NEW a \in Archs PROVE FileOK(t, a, ini[a])'
      BY <1>1, <3>3 DEF FileOK, Guarded, Dev!Foreign, Dev!Target
    <3>5. \A a \in call'[t].archs : Status(t, a)' # "success"
      BY <1>1, <2>6 DEF Status
    <3>6. QED
      BY <1>1, <1>4, <2>7, <2>8, <3>2, <3>3, <3>4, <3>5 DEF SoloInv
  <2>16. ASSUME NEW u \in Terminals
         PROVE  (PlaceInv(u) /\ ResultInv(u) /\ (solo[u] => SoloInv(u)))'
    <3>1. CASE u = t
      BY <1>1, <2>11, <2>13, <2>15, <3>1
    <3>2. CASE u # t
      BY <1>2, <2>10, <3>2, OtherCallsKeep
    <3>3. QED
      BY <3>1, <3>2
  <2>17. QED
    BY <2>9, <2>14, <2>16 DEF DevInv
<1>7. QED
  BY <1>5, <1>6 DEF Dev!Start

\* What the binder decides, and on what grounds: a guarded file makes it stop.
LEMMA DecisionIs ==
    ASSUME DevAssumption, DevInv, NEW t \in Terminals, where[t] = "state"
    PROVE  /\ Dev!Decision(t) \in {"success", "fail", "dry-run", "cleanup", "pre-clear", "remove",
                               "force-remove", "tidy"}
           /\ Dev!Decision(t) = "success" /\ call[t].mode = "bind" => Dev!AlreadyBound(t)
           /\ Dev!Decision(t) = "success" /\ call[t].mode = "unbind" => ini[at[t]] = <<>>
           /\ Dev!Decision(t) = "dry-run" => call[t].dry
           /\ Dev!Decision(t) = "cleanup" => call[t].mode = "cleanup"
           /\ Dev!Decision(t) \in {"pre-clear", "remove"} => call[t].mode = "bind"
           /\ Dev!Decision(t) = "remove" => ~ call[t].dry
           /\ Dev!Decision(t) \in {"force-remove", "tidy"} => call[t].mode = "unbind"
           /\ Dev!Decision(t) = "force-remove" => call[t].force
           /\ Guarded(t, at[t]) /\ ini[at[t]] = before[t][at[t]] =>
                  Dev!Decision(t) \in {"success", "fail"}
<1>1. where[t] \in Dev!Running \ Reverting
  BY DEF Dev!Running, Reverting
<1>2. PlaceInv(t) /\ call[t] \in Calls /\ Dev!Target(t) = call[t].target
  BY <1>1, Working
<1>3. call[t].mode \in {"bind", "unbind", "cleanup", "status"}
  BY <1>1, <1>2, CallType DEF PlaceInv
<1> DEFINE blocked == Dev!Elsewhere(t) /\ ~ Dev!ForceApplied(t)
<1>4. Guarded(t, at[t]) /\ ini[at[t]] = before[t][at[t]] => blocked
  BY <1>2, Zenon DEF Guarded, Dev!Elsewhere, Dev!ForceApplied, Dev!StaleWorktree
<1>5. CASE call[t].mode = "status"
  BY <1>5 DEF Dev!Decision
<1>6. CASE call[t].mode # "status" /\ blocked
  BY <1>6 DEF Dev!Decision
<1>7. CASE call[t].mode = "cleanup" /\ ~ blocked
  BY <1>4, <1>7 DEF Dev!Decision
<1>8. CASE call[t].mode = "bind" /\ ~ blocked
  BY <1>4, <1>8 DEF Dev!Decision
<1>9. CASE call[t].mode = "unbind" /\ ~ blocked
  BY <1>4, <1>9 DEF Dev!Decision
<1>10. QED
  BY <1>3, <1>5, <1>6, <1>7, <1>8, <1>9

LEMMA InspectKeeps ==
    ASSUME DevAssumption, DevInv, NEW t \in Terminals, Dev!Inspect(t)
    PROVE  DevInv'
<1> DEFINE place == Dev!Decision(t)
           current == Dev!First(ini[at[t]])
<1>1. /\ where[t] = "state" /\ call' = call /\ loaded' = loaded /\ snap' = snap
      /\ ended' = ended /\ ini' = ini /\ packed' = packed /\ prepared' = prepared
      /\ summary' = summary /\ started' = started /\ before' = before /\ solo' = solo
      /\ IF place \in Dev!Statuses
           THEN Dev!ConcludeWith(t, place, current)
           ELSE /\ Dev!Goto(t, place)
                /\ results' = [results EXCEPT ![t][at[t]] =
                                  [status |-> "pending", current |-> current]]
                /\ at' = at
  BY DEF Dev!Inspect, Dev!checkoutState, Dev!history
<1>2. where[t] \in Dev!Running \ Reverting /\ where[t] \in AtWork /\ ~ loaded[t]
  BY <1>1, NotLoaded DEF Dev!Running, AtWork, Dev!Edits, Reverting
<1>3. /\ Dev!StateTypes /\ PlaceInv(t) /\ ini[at[t]] \in Seq(Dev!Paths) /\ Dev!Target(t) = call[t].target
      /\ solo[t] => FileOK(t, at[t], ini[at[t]]) /\ HereOK(t, where[t], ini[at[t]])
  BY <1>2, Working
<1>4. OneFile(t) /\ ~ loaded'[t]
  BY <1>1, <1>2, <1>3, Unedited
<1>5. current \in Dev!Paths \cup {NoPath}
  BY <1>3, FirstType
<1>6. call[t].mode # "revert"
  BY <1>2, <1>3 DEF PlaceInv
<1>7. solo[t] => ini[at[t]] = before[t][at[t]]
  BY <1>1, <1>3 DEF HereOK, Early
<1>8. /\ place \in {"success", "fail", "dry-run", "cleanup", "pre-clear", "remove",
                    "force-remove", "tidy"}
      /\ place = "success" /\ call[t].mode = "bind" => Dev!AlreadyBound(t)
      /\ place = "success" /\ call[t].mode = "unbind" => ini[at[t]] = <<>>
      /\ place = "dry-run" => call[t].dry
      /\ place = "cleanup" => call[t].mode = "cleanup"
      /\ place \in {"pre-clear", "remove"} => call[t].mode = "bind"
      /\ place = "remove" => ~ call[t].dry
      /\ place \in {"force-remove", "tidy"} => call[t].mode = "unbind"
      /\ place = "force-remove" => call[t].force
      /\ Guarded(t, at[t]) /\ ini[at[t]] = before[t][at[t]] => place \in {"success", "fail"}
  BY <1>1, DecisionIs
<1> HIDE DEF place, current
<1>9. CASE place \in {"success", "fail", "dry-run"}
  <2>1. Dev!ConcludeWith(t, place, current)
    BY <1>1, <1>9 DEF Dev!Statuses
  <2>2. place = "success" /\ call[t].mode = "bind" =>
            Dev!Target(t) \in Dev!Entries(ini[at[t]]) /\ Dev!Target(t) \notin packed
    BY <1>8 DEF Dev!AlreadyBound, Dev!Known
  <2>3. place = "success" /\ call[t].mode = "unbind" => Dev!Target(t) \notin Dev!Entries(ini[at[t]])
    BY <1>8, EmptyFile
  <2>4. solo[t] => FileOK(t, at[t], ini'[at[t]])
    BY <1>1, <1>3
  <2>5. QED
    BY <1>1, <1>2, <1>4, <1>5, <1>6, <1>7, <1>8, <1>9, <2>1, <2>2, <2>3, <2>4, ConcludeStep
<1>10. CASE place \in {"cleanup", "pre-clear", "remove", "force-remove", "tidy"}
  <2>1. place \in AtWork /\ place \in Dev!CallPlaces /\ place \notin Dev!Statuses
    BY <1>10 DEF AtWork, Dev!Running, Dev!Edits, Dev!CallPlaces, Dev!Statuses
  <2>2. /\ Dev!Goto(t, place) /\ at' = at
        /\ results' = [results EXCEPT ![t][at[t]] = [status |-> "pending", current |-> current]]
    BY <1>1, <2>1
  <2>3. where'[t] = place
    BY <1>3, <2>1, <2>2, GotoPlace
  <2>4. PlaceInv(t)'
    BY <1>1, <1>2, <1>3, <1>4, <1>6, <1>8, <1>10, <2>1, <2>2, <2>3
    DEF PlaceInv, Reverting, BindSteps, PackedGone
  <2>5. solo[t] => ~ Guarded(t, at[t])
    BY <1>7, <1>8, <1>10
  <2>6. solo[t] => HereOK(t, place, ini'[at[t]]) /\ FileOK(t, at[t], ini'[at[t]])
    BY <1>1, <1>3, <1>7, <1>10, <2>5 DEF HereOK, Early, Reverting
  <2>7. QED
    BY <1>1, <1>2, <1>4, <1>5, <2>1, <2>2, <2>4, <2>6, StayStep
<1>11. QED
  BY <1>8, <1>9, <1>10

LEMMA InspectFailsKeeps ==
    ASSUME DevAssumption, DevInv, NEW t \in Terminals, Dev!InspectFails(t)
    PROVE  DevInv'
<1>1. /\ where[t] = "state" /\ call' = call /\ loaded' = loaded /\ snap' = snap
      /\ ended' = ended /\ ini' = ini /\ packed' = packed /\ prepared' = prepared
      /\ summary' = summary /\ started' = started /\ before' = before /\ solo' = solo
      /\ Dev!ConcludeWith(t, "fail", NoPath)
  BY DEF Dev!InspectFails, Dev!checkoutState, Dev!history
<1>2. where[t] \in Dev!Running \ Reverting /\ where[t] \in AtWork /\ ~ loaded[t]
  BY <1>1, NotLoaded DEF Dev!Running, AtWork, Dev!Edits, Reverting
<1>3. Dev!StateTypes /\ PlaceInv(t) /\ (solo[t] => FileOK(t, at[t], ini[at[t]]))
  BY <1>2, Working
<1>4. OneFile(t) /\ ~ loaded'[t] /\ call[t].mode # "revert"
  BY <1>1, <1>2, <1>3, Unedited DEF PlaceInv
<1>5. solo[t] => FileOK(t, at[t], ini'[at[t]])
  BY <1>1, <1>3
<1>6. QED
  BY <1>1, <1>2, <1>4, <1>5, ConcludeStep

LEMMA ReadIniKeeps ==
    ASSUME DevAssumption, DevInv, NEW t \in Terminals, Dev!ReadIni(t)
    PROVE  DevInv'
<1>1. /\ where[t] \in Dev!Edits /\ loaded' = [loaded EXCEPT ![t] = TRUE]
      /\ snap' = [snap EXCEPT ![t] = ini[at[t]]]
      /\ call' = call /\ where' = where /\ at' = at /\ results' = results
      /\ ended' = ended /\ ini' = ini /\ packed' = packed /\ prepared' = prepared
      /\ summary' = summary /\ started' = started /\ before' = before /\ solo' = solo
  BY DEF Dev!ReadIni, Dev!checkoutState, Dev!history
<1>2. where[t] \in Dev!Running /\ where[t] \in AtWork
  BY <1>1 DEF Dev!Running, AtWork, Dev!Edits
<1>3. /\ Dev!StateTypes /\ PlaceInv(t) /\ ini[at[t]] \in Seq(Dev!Paths)
      /\ solo[t] => FileOK(t, at[t], ini[at[t]]) /\ HereOK(t, where[t], ini[at[t]])
  BY <1>2, Working
<1>4. OneFile(t) /\ snap'[t] = ini[at[t]]
  BY <1>1, <1>3 DEF OneFile, Dev!StateTypes
<1>5. Dev!Goto(t, where[t])
  BY <1>1, <1>3 DEF Dev!Goto, Dev!StateTypes
<1>6. PlaceInv(t)'
  BY <1>1, <1>3 DEF PlaceInv
<1>7. QED
  BY <1>1, <1>2, <1>3, <1>4, <1>5, <1>6, StayStep

\* The step after an edit, or after one that failed: another place, or a result.
LEMMA ProceedStep ==
    ASSUME DevAssumption, DevInv, NEW t \in Terminals, where[t] \in AtWork, call[t].mode # "revert",
           NEW next \in AtWork \cup {"success", "fail", "dry-run"}, Dev!Proceed(t, next),
           OneFile(t), packed' = packed, ~ loaded'[t], ended' = ended,
           next = "dry-run" => call[t].dry,
           next = "success" /\ call[t].mode = "bind" => Dev!Target(t) \in Dev!Entries(ini'[at[t]]),
           next \in AtWork => PlaceInv(t)',
           solo[t] => /\ FileOK(t, at[t], ini'[at[t]])
                      /\ next \in AtWork => HereOK(t, next, ini'[at[t]])
                      /\ next = "success" /\ call[t].mode = "bind" =>
                             /\ ini'[at[t]] \in {<<Dev!Target(t)>>, before[t][at[t]]}
                             /\ Dev!Target(t) \notin packed
                      /\ next = "success" /\ call[t].mode = "unbind" =>
                             Dev!Target(t) \notin Dev!Entries(ini'[at[t]])
    PROVE  DevInv'
<1>1. results[t][at[t]].current \in Dev!Paths \cup {NoPath}
  BY Working DEF AtWork
<1>2. CASE next \in {"success", "fail", "dry-run"}
  <2>1. Dev!ConcludeWith(t, next, results[t][at[t]].current)
    BY <1>2 DEF Dev!Proceed, Dev!Conclude, Dev!Statuses
  <2>2. QED
    BY <1>1, <1>2, <2>1, ConcludeStep
<1>3. CASE next \in AtWork
  <2>1. next \notin Dev!Statuses
    BY <1>3 DEF AtWork, Dev!Running, Dev!Edits, Dev!Statuses
  <2>2. Dev!Goto(t, next) /\ at' = at /\ results' = results
    BY <2>1 DEF Dev!Proceed
  <2>3. QED
    BY <1>3, <2>2, StayStep
<1>4. QED
  BY <1>2, <1>3

\* Where an edit leads.
LEMMA AfterEditIs ==
    ASSUME NEW t \in Terminals, where[t] \in Dev!Edits
    PROVE  /\ Dev!AfterEdit(t) \in AtWork \cup {"success", "dry-run"}
           /\ Dev!AfterFailedEdit(t) \in AtWork \cup {"fail", "dry-run"}
           /\ \A next \in {Dev!AfterEdit(t), Dev!AfterFailedEdit(t)} :
                /\ next = "dry-run" => call[t].dry /\ where[t] = "pre-clear"
                /\ next = "success" => where[t] = "cleanup"
                /\ next \in AtWork =>
                     \/ next = "remove" /\ where[t] = "pre-clear" /\ ~ call[t].dry
                     \/ next = "set" /\ where[t] = "remove"
                     \/ next = "add" /\ where[t] = "set-clear"
                     \/ next = "prepare" /\ where[t] = "add"
                     \/ next = "reverify" /\ where[t] = "fix"
                     \/ next = "revert" /\ where[t] \in {"tidy", "force-remove", "set-clear", "add"}
<1>1. CASE where[t] = "pre-clear"
  BY <1>1 DEF Dev!AfterEdit, Dev!AfterFailedEdit, AtWork, Dev!Running, Dev!Edits
<1>2. CASE where[t] \in {"remove", "set-clear", "add", "fix"}
  BY <1>2 DEF Dev!AfterEdit, Dev!AfterFailedEdit, AtWork, Dev!Running, Dev!Edits
<1>3. CASE where[t] \in {"tidy", "force-remove", "cleanup"}
  BY <1>3 DEF Dev!AfterEdit, Dev!AfterFailedEdit, AtWork, Dev!Running, Dev!Edits
<1>4. QED
  BY <1>1, <1>2, <1>3 DEF Dev!Edits

\* The new place suits the call that gets there.
LEMMA NextPlaceInv ==
    ASSUME DevInv, NEW t \in Terminals, where[t] \in Dev!Edits,
           call' = call, at' = at, packed' = packed, ~ loaded'[t],
           NEW next \in {Dev!AfterEdit(t), Dev!AfterFailedEdit(t)}, next \in AtWork, where'[t] = next
    PROVE  PlaceInv(t)'
<1>1. PlaceInv(t) /\ where[t] \in Dev!Running
  BY DEF DevInv, Dev!Running
<1>2. \/ next = "remove" /\ where[t] = "pre-clear" /\ ~ call[t].dry
      \/ next = "set" /\ where[t] = "remove"
      \/ next = "add" /\ where[t] = "set-clear"
      \/ next = "prepare" /\ where[t] = "add"
      \/ next = "reverify" /\ where[t] = "fix"
      \/ next = "revert" /\ where[t] \in {"tidy", "force-remove", "set-clear", "add"}
  BY AfterEditIs
<1>3. QED
  BY <1>1, <1>2 DEF PlaceInv, Dev!Running, Dev!Edits, Reverting, BindSteps, PackedGone

\* What an edit makes of the file of a call that is alone.
LEMMA EditIsOK ==
    ASSUME DevAssumption, DevInv, NEW t \in Terminals, where[t] \in Dev!Edits, solo[t]
    PROVE  LET s == Dev!Edited(t, ini[at[t]])
           IN  /\ FileOK(t, at[t], s)
               /\ Dev!AfterEdit(t) \in AtWork => HereOK(t, Dev!AfterEdit(t), s)
               /\ Dev!AfterFailedEdit(t) \in AtWork => HereOK(t, Dev!AfterFailedEdit(t), ini[at[t]])
<1> DEFINE f == ini[at[t]]
           s == Dev!Edited(t, f)
           old == before[t][at[t]]
           T == Dev!Target(t)
<1>1. where[t] \in Dev!Running /\ where[t] \in AtWork /\ where[t] \notin Early /\ where[t] \notin Reverting
  BY DEF Dev!Running, AtWork, Dev!Edits, Early, Reverting
<1>2. /\ PlaceInv(t) /\ FileOK(t, at[t], f) /\ HereOK(t, where[t], f) /\ f \in Seq(Dev!Paths)
      /\ T = call[t].target /\ T \in Dev!Paths
  BY <1>1, Working
<1>3. call[t].mode # "revert" /\ ~ Guarded(t, at[t])
  BY <1>1, <1>2 DEF PlaceInv, HereOK
<1>4. \A next \in {Dev!AfterEdit(t), Dev!AfterFailedEdit(t)} : next \in AtWork =>
          \/ next = "remove" /\ where[t] = "pre-clear" /\ ~ call[t].dry
          \/ next = "set" /\ where[t] = "remove"
          \/ next = "add" /\ where[t] = "set-clear"
          \/ next = "prepare" /\ where[t] = "add"
          \/ next = "reverify" /\ where[t] = "fix"
          \/ next = "revert" /\ where[t] \in {"tidy", "force-remove", "set-clear", "add"}
  BY AfterEditIs
<1>5. CASE where[t] = "pre-clear"
  <2>1. f = old /\ s = Dev!Distinct(f, {T}) /\ call[t].mode = "bind"
    BY <1>2, <1>5 DEF HereOK, Dev!Edited, PlaceInv, BindSteps
  <2>2. FileOK(t, at[t], s)
    BY <1>2, <1>3, <2>1 DEF FileOK
  <2>3. \A next \in {Dev!AfterEdit(t), Dev!AfterFailedEdit(t)} : next \in AtWork => next = "remove"
    BY <1>4, <1>5
  <2>4. HereOK(t, "remove", s) /\ HereOK(t, "remove", f)
    BY <1>3 DEF HereOK, Early, Reverting
  <2>5. QED
    BY <2>2, <2>3, <2>4
<1>6. CASE where[t] = "remove"
  <2>1. s = <<>> /\ call[t].mode = "bind"
    BY <1>2, <1>6 DEF Dev!Edited, PlaceInv, BindSteps
  <2>2. FileOK(t, at[t], s)
    BY <1>3, <2>1 DEF FileOK
  <2>3. /\ Dev!AfterEdit(t) \in AtWork => Dev!AfterEdit(t) = "set"
        /\ Dev!AfterFailedEdit(t) \notin AtWork
    BY <1>4, <1>6 DEF Dev!AfterFailedEdit, AtWork, Dev!Running, Dev!Edits
  <2>4. HereOK(t, "set", s)
    BY <1>3, <2>1 DEF HereOK, Early, Reverting
  <2>5. QED
    BY <2>2, <2>3, <2>4
<1>7. CASE where[t] \in {"set-clear", "add"}
  <2>1. f = <<>> /\ call[t].mode = "bind"
    BY <1>2, <1>7 DEF HereOK, PlaceInv, BindSteps, PackedGone
  <2>2. s = IF where[t] = "add" THEN <<T>> ELSE <<>>
    <3>1. Dev!Distinct(<<>>, {T}) = <<>> /\ Dev!Without(<<>>, T) = <<>>
      BY EmptyFile
    <3>2. <<T>> \o <<>> = <<T>>
      BY ConcatEmptySeq, <1>2
    <3>3. s = IF where[t] = "add" THEN <<T>> \o Dev!Without(<<>>, T) ELSE Dev!Distinct(<<>>, {T})
      BY <1>7, <2>1 DEF Dev!Edited
    <3>4. QED
      BY <3>1, <3>2, <3>3
  <2>3. FileOK(t, at[t], s)
    BY <1>2, <1>3, <2>1, <2>2 DEF FileOK
  <2>4. \A next \in {Dev!AfterEdit(t), Dev!AfterFailedEdit(t)} : next \in AtWork =>
            \/ next = "add" /\ where[t] = "set-clear"
            \/ next = "prepare" /\ where[t] = "add"
            \/ next = "revert"
    BY <1>4, <1>7
  <2>5. HereOK(t, "revert", s) /\ HereOK(t, "revert", f)
    BY <1>2, <1>3, <2>1, <2>2 DEF HereOK, Early, Reverting
  <2>6. where[t] = "set-clear" => HereOK(t, "add", s)
    BY <1>3, <2>1, <2>2 DEF HereOK, Early, Reverting
  <2>7. where[t] = "add" => HereOK(t, "prepare", s)
    BY <1>2, <1>3, <2>1, <2>2 DEF HereOK, Early, Reverting
  <2>8. Dev!AfterEdit(t) \in AtWork => HereOK(t, Dev!AfterEdit(t), s)
    BY <2>4, <2>5, <2>6, <2>7
  <2>9. Dev!AfterFailedEdit(t) = "revert"
    BY <1>7 DEF Dev!AfterFailedEdit
  <2>10. QED
    BY <2>3, <2>5, <2>8, <2>9
<1>8. CASE where[t] = "fix"
  BY <1>2, <1>8 DEF HereOK
<1>9. CASE where[t] \in {"tidy", "force-remove"}
  <2>1. call[t].mode = "unbind"
    BY <1>2, <1>9 DEF PlaceInv
  <2>2. ~ call[t].force => Dev!Foreign(t, s) = Dev!Foreign(t, f)
    <3> SUFFICES ASSUME ~ call[t].force PROVE Dev!Foreign(t, s) = Dev!Foreign(t, f)
      OBVIOUS
    <3>1. s = Dev!Distinct(f, Dev!Paths \ {Doubled})
      BY <1>2, <1>9 DEF PlaceInv, Dev!Edited
    <3>2. (Dev!Paths \ {Doubled}) \cap (Dev!Paths \ {T, Doubled}) = Dev!Paths \ {T, Doubled}
      OBVIOUS
    <3>3. Dev!Distinct(s, Dev!Paths \ {T, Doubled}) = Dev!Distinct(f, Dev!Paths \ {T, Doubled})
      BY <1>2, <3>1, <3>2, DistinctTwice
    <3>4. QED
      BY <3>3 DEF Dev!Foreign
  <2>3. FileOK(t, at[t], s)
    BY <1>2, <1>3, <2>1, <2>2 DEF FileOK
  <2>4. \A next \in {Dev!AfterEdit(t), Dev!AfterFailedEdit(t)} : next \in AtWork => next = "revert"
    BY <1>4, <1>9
  <2>5. HereOK(t, "revert", s) /\ HereOK(t, "revert", f)
    BY <1>3, <2>1 DEF HereOK, Early, Reverting
  <2>6. QED
    BY <2>3, <2>4, <2>5
<1>10. CASE where[t] = "cleanup"
  <2>1. call[t].mode = "cleanup"
    BY <1>2, <1>10 DEF PlaceInv
  <2>2. FileOK(t, at[t], s)
    BY <1>3, <2>1 DEF FileOK
  <2>3. Dev!AfterEdit(t) \notin AtWork /\ Dev!AfterFailedEdit(t) \notin AtWork
    BY <1>4, <1>10
  <2>4. QED
    BY <2>2, <2>3
<1>11. QED
  BY <1>5, <1>6, <1>7, <1>8, <1>9, <1>10 DEF Dev!Edits

LEMMA WriteIniKeeps ==
    ASSUME DevAssumption, DevInv, NEW t \in Terminals, Dev!WriteIni(t)
    PROVE  DevInv'
<1> DEFINE next == Dev!AfterEdit(t)
           s == Dev!Edited(t, snap[t])
<1>1. /\ where[t] \in Dev!Edits /\ loaded[t] /\ loaded' = [loaded EXCEPT ![t] = FALSE]
      /\ Dev!Proceed(t, next)
      /\ ini' = ini \/ ini' = [ini EXCEPT ![at[t]] = s]
      /\ s = snap[t] \/ ini' = [ini EXCEPT ![at[t]] = s]
      /\ call' = call /\ snap' = snap
      /\ ended' = ended /\ packed' = packed /\ prepared' = prepared
      /\ summary' = summary /\ started' = started /\ before' = before /\ solo' = solo
  BY DEF Dev!WriteIni, Dev!checkoutState, Dev!history
<1>2. where[t] \in Dev!Running /\ where[t] \in AtWork /\ where[t] \notin Reverting
  BY <1>1 DEF Dev!Running, AtWork, Dev!Edits, Reverting
<1>3. Dev!StateTypes /\ PlaceInv(t) /\ at[t] \in Archs /\ (solo[t] => SoloInv(t))
  BY <1>2, Working
<1>4. s \in Seq(Dev!Paths)
  BY <1>1, <1>3, EditedType DEF Dev!StateTypes
<1>5. solo[t] => snap[t] = ini[at[t]]
  BY <1>1, <1>3 DEF SoloInv
<1>6. solo[t] => /\ FileOK(t, at[t], s)
                 /\ next \in AtWork => HereOK(t, next, s)
  BY <1>1, <1>5, EditIsOK
<1> HIDE DEF s
<1>7. ini' \in [Archs -> Seq(Dev!Paths)] /\ \A b \in Archs \ {at[t]} : ini'[b] = ini[b]
  BY <1>1, <1>3, <1>4 DEF Dev!StateTypes
<1>8. solo[t] => ini'[at[t]] = s
  BY <1>1, <1>3, <1>4, <1>5 DEF Dev!StateTypes
<1>9. OneFile(t) /\ ~ loaded'[t]
  BY <1>1, <1>3, <1>7 DEF OneFile, Dev!StateTypes
<1>10. /\ next \in AtWork \cup {"success", "dry-run"}
       /\ next = "dry-run" => call[t].dry
       /\ next = "success" => where[t] = "cleanup"
  BY <1>1, AfterEditIs
<1>11. call[t].mode # "revert" /\ (next = "success" => call[t].mode = "cleanup")
  BY <1>2, <1>3, <1>10 DEF PlaceInv
<1>12. next \in AtWork => PlaceInv(t)'
  <2> SUFFICES ASSUME next \in AtWork PROVE PlaceInv(t)'
    OBVIOUS
  <2>1. next \in Dev!CallPlaces /\ next \notin Dev!Statuses
    BY DEF AtWork, Dev!Running, Dev!Edits, Dev!Statuses, Dev!CallPlaces
  <2>2. Dev!Goto(t, next) /\ at' = at
    BY <1>1, <2>1 DEF Dev!Proceed
  <2>3. where'[t] = next
    BY <1>3, <2>1, <2>2, GotoPlace
  <2>4. QED
    BY <1>1, <1>9, <2>2, <2>3, NextPlaceInv
<1> HIDE DEF next
<1>13. QED
  BY <1>1, <1>2, <1>6, <1>8, <1>9, <1>10, <1>11, <1>12, ProceedStep

LEMMA EditFailsKeeps ==
    ASSUME DevAssumption, DevInv, NEW t \in Terminals, Dev!EditFails(t)
    PROVE  DevInv'
<1> DEFINE next == Dev!AfterFailedEdit(t)
<1>1. /\ where[t] \in Dev!Edits /\ loaded' = [loaded EXCEPT ![t] = FALSE]
      /\ Dev!Proceed(t, next) /\ ini' = ini /\ call' = call /\ snap' = snap
      /\ ended' = ended /\ packed' = packed /\ prepared' = prepared
      /\ summary' = summary /\ started' = started /\ before' = before /\ solo' = solo
  BY DEF Dev!EditFails, Dev!checkoutState, Dev!history
<1>2. where[t] \in Dev!Running /\ where[t] \in AtWork /\ where[t] \notin Reverting
  BY <1>1 DEF Dev!Running, AtWork, Dev!Edits, Reverting
<1>3. Dev!StateTypes /\ PlaceInv(t) /\ (solo[t] => FileOK(t, at[t], ini[at[t]]))
  BY <1>2, Working
<1>4. solo[t] /\ next \in AtWork => HereOK(t, next, ini[at[t]])
  BY <1>1, EditIsOK
<1>5. OneFile(t) /\ ~ loaded'[t]
  BY <1>1, <1>3, Unedited DEF Dev!StateTypes
<1>6. /\ next \in AtWork \cup {"fail", "dry-run"}
      /\ next = "dry-run" => call[t].dry
  BY <1>1, AfterEditIs
<1>7. call[t].mode # "revert" /\ next # "success"
  BY <1>2, <1>3, <1>6 DEF PlaceInv, AtWork, Dev!Running, Dev!Edits
<1>8. next \in AtWork => PlaceInv(t)'
  <2> SUFFICES ASSUME next \in AtWork PROVE PlaceInv(t)'
    OBVIOUS
  <2>1. next \in Dev!CallPlaces /\ next \notin Dev!Statuses
    BY DEF AtWork, Dev!Running, Dev!Edits, Dev!Statuses, Dev!CallPlaces
  <2>2. Dev!Goto(t, next) /\ at' = at
    BY <1>1, <2>1 DEF Dev!Proceed
  <2>3. where'[t] = next
    BY <1>3, <2>1, <2>2, GotoPlace
  <2>4. QED
    BY <1>1, <1>5, <2>2, <2>3, NextPlaceInv
<1> HIDE DEF next
<1>9. QED
  BY <1>1, <1>2, <1>3, <1>4, <1>5, <1>6, <1>7, <1>8, ProceedStep

LEMMA SetDevelopmentModeKeeps ==
    ASSUME DevAssumption, DevInv, NEW t \in Terminals, Dev!SetDevelopmentMode(t)
    PROVE  DevInv'
<1>1. /\ where[t] = "set" /\ call' = call /\ at' = at /\ loaded' = loaded /\ snap' = snap
      /\ results' = results /\ ended' = ended /\ ini' = ini /\ prepared' = prepared
      /\ summary' = summary /\ started' = started /\ before' = before /\ solo' = solo
  BY DEF Dev!SetDevelopmentMode, Dev!history
<1>2. PICK next \in {"set-clear", "revert"} :
          /\ Dev!Goto(t, next) /\ packed' \in {packed, packed \ {Dev!Target(t)}}
          /\ next = "set-clear" => packed' = packed \ {Dev!Target(t)}
  BY DEF Dev!SetDevelopmentMode
<1>3. where[t] \in Dev!Running /\ where[t] \in AtWork /\ ~ loaded[t]
      /\ next \in AtWork /\ next \in Dev!CallPlaces
  BY <1>1, <1>2, NotLoaded DEF Dev!Running, AtWork, Dev!Edits, Dev!CallPlaces
<1>4. /\ Dev!StateTypes /\ PlaceInv(t) /\ Dev!Target(t) = call[t].target
      /\ solo[t] => FileOK(t, at[t], ini[at[t]]) /\ HereOK(t, where[t], ini[at[t]])
  BY <1>3, Working
<1>5. OneFile(t) /\ ~ loaded'[t]
  BY <1>1, <1>2, <1>3, <1>4 DEF OneFile, Dev!StateTypes
<1>6. where'[t] = next
  BY <1>2, <1>3, <1>4, GotoPlace
<1>7. call[t].mode = "bind" /\ ~ call[t].dry
  BY <1>1, <1>4 DEF PlaceInv, BindSteps
<1>8. PlaceInv(t)'
  BY <1>1, <1>2, <1>3, <1>4, <1>5, <1>6, <1>7 DEF PlaceInv, Reverting, BindSteps, PackedGone
<1>9. solo[t] => HereOK(t, next, ini'[at[t]]) /\ FileOK(t, at[t], ini'[at[t]])
  BY <1>1, <1>2, <1>4, <1>7 DEF HereOK, Early, Reverting
<1>10. QED
  BY <1>1, <1>2, <1>3, <1>5, <1>8, <1>9, StayStep

LEMMA PrepareKeeps ==
    ASSUME DevAssumption, DevInv, NEW t \in Terminals, Dev!Prepare(t)
    PROVE  DevInv'
<1> DEFINE s == <<Dev!Target(t)>> \o Dev!Without(ini[at[t]], Dev!Target(t))
<1>1. /\ where[t] = "prepare" /\ call' = call /\ at' = at /\ loaded' = loaded /\ snap' = snap
      /\ results' = results /\ ended' = ended /\ packed' = packed
      /\ summary' = summary /\ started' = started /\ before' = before /\ solo' = solo
      /\ prepared' \in {prepared, prepared \cup {Dev!Target(t)}}
      /\ ini' = ini \/ ini' = [ini EXCEPT ![at[t]] = s]
  BY DEF Dev!Prepare, Dev!history
<1>2. PICK next \in {"close-set", "revert"} : Dev!Goto(t, next)
  BY DEF Dev!Prepare
<1>3. where[t] \in Dev!Running /\ where[t] \in AtWork /\ ~ loaded[t]
      /\ next \in AtWork /\ next \in Dev!CallPlaces
  BY <1>1, <1>2, NotLoaded DEF Dev!Running, AtWork, Dev!Edits, Dev!CallPlaces
<1>4. /\ Dev!StateTypes /\ PlaceInv(t) /\ Dev!Target(t) = call[t].target /\ at[t] \in Archs
      /\ Dev!Target(t) \in Repositories /\ Dev!Target(t) \in Dev!Paths /\ ini[at[t]] \in Seq(Dev!Paths)
      /\ solo[t] => FileOK(t, at[t], ini[at[t]]) /\ HereOK(t, where[t], ini[at[t]])
  BY <1>3, Working
<1>5. s \in Seq(Dev!Paths)
  BY <1>4, AddType
<1>6. solo[t] => ini[at[t]] = <<Dev!Target(t)>> /\ s = <<Dev!Target(t)>>
  <2> SUFFICES ASSUME solo[t] PROVE ini[at[t]] = <<Dev!Target(t)>> /\ s = <<Dev!Target(t)>>
    OBVIOUS
  <2>1. ini[at[t]] = <<Dev!Target(t)>>
    BY <1>1, <1>4 DEF HereOK
  <2>2. Dev!Without(<<Dev!Target(t)>>, Dev!Target(t)) = <<>>
    BY OneEntry
  <2>3. s = <<Dev!Target(t)>> \o <<>>
    BY <2>1, <2>2
  <2>4. <<Dev!Target(t)>> \o <<>> = <<Dev!Target(t)>>
    BY <1>4, <2>1, ConcatEmptySeq
  <2>5. QED
    BY <2>1, <2>3, <2>4
<1> HIDE DEF s
<1>7. ini' \in [Archs -> Seq(Dev!Paths)] /\ \A b \in Archs \ {at[t]} : ini'[b] = ini[b]
  BY <1>1, <1>4, <1>5 DEF Dev!StateTypes
<1>8. solo[t] => ini'[at[t]] = ini[at[t]] /\ ini[at[t]] = <<call[t].target>>
  BY <1>1, <1>4, <1>6 DEF Dev!StateTypes
<1>9. OneFile(t) /\ ~ loaded'[t]
  BY <1>1, <1>3, <1>4, <1>7 DEF OneFile, Dev!StateTypes
<1>10. where'[t] = next
  BY <1>2, <1>3, <1>4, GotoPlace
<1>11. call[t].mode = "bind" /\ ~ call[t].dry
  BY <1>1, <1>4 DEF PlaceInv, BindSteps, PackedGone
<1>12. PlaceInv(t)'
  BY <1>1, <1>2, <1>3, <1>4, <1>9, <1>10, <1>11 DEF PlaceInv, Reverting, BindSteps, PackedGone
<1>13. solo[t] => HereOK(t, next, ini'[at[t]]) /\ FileOK(t, at[t], ini'[at[t]])
  BY <1>1, <1>2, <1>4, <1>8, <1>11 DEF HereOK, Early, Reverting
<1>14. QED
  BY <1>1, <1>2, <1>3, <1>9, <1>12, <1>13, StayStep

LEMMA CloseAfterSetKeeps ==
    ASSUME DevAssumption, DevInv, NEW t \in Terminals, Dev!CloseAfterSet(t)
    PROVE  DevInv'
<1>1. /\ where[t] = "close-set" /\ call' = call /\ at' = at /\ loaded' = loaded /\ snap' = snap
      /\ results' = results /\ ended' = ended /\ ini' = ini /\ packed' = packed
      /\ prepared' = prepared
      /\ summary' = summary /\ started' = started /\ before' = before /\ solo' = solo
  BY DEF Dev!CloseAfterSet, Dev!checkoutState, Dev!history
<1>2. PICK next \in {"verify", "revert"} : Dev!Goto(t, next)
  BY DEF Dev!CloseAfterSet
<1>3. where[t] \in Dev!Running /\ where[t] \in AtWork /\ ~ loaded[t]
      /\ next \in AtWork /\ next \in Dev!CallPlaces
  BY <1>1, <1>2, NotLoaded DEF Dev!Running, AtWork, Dev!Edits, Dev!CallPlaces
<1>4. /\ Dev!StateTypes /\ PlaceInv(t)
      /\ solo[t] => FileOK(t, at[t], ini[at[t]]) /\ HereOK(t, where[t], ini[at[t]])
  BY <1>3, Working
<1>5. OneFile(t) /\ ~ loaded'[t]
  BY <1>1, <1>3, <1>4, Unedited
<1>6. where'[t] = next
  BY <1>2, <1>3, <1>4, GotoPlace
<1>7. call[t].mode = "bind" /\ ~ call[t].dry
  BY <1>1, <1>4 DEF PlaceInv, BindSteps, PackedGone
<1>8. PlaceInv(t)'
  BY <1>1, <1>2, <1>3, <1>4, <1>5, <1>6, <1>7 DEF PlaceInv, Reverting, BindSteps, PackedGone
<1>9. solo[t] => HereOK(t, next, ini'[at[t]]) /\ FileOK(t, at[t], ini'[at[t]])
  BY <1>1, <1>2, <1>4, <1>7 DEF HereOK, Early, Reverting
<1>10. QED
  BY <1>1, <1>2, <1>3, <1>5, <1>8, <1>9, StayStep

LEMMA VerifyKeeps ==
    ASSUME DevAssumption, DevInv, NEW t \in Terminals, Dev!Verify(t)
    PROVE  DevInv'
<1>1. /\ where[t] = "verify" /\ call' = call /\ loaded' = loaded /\ snap' = snap
      /\ ended' = ended /\ ini' = ini /\ packed' = packed /\ prepared' = prepared
      /\ summary' = summary /\ started' = started /\ before' = before /\ solo' = solo
  BY DEF Dev!Verify, Dev!checkoutState, Dev!history
<1>2. PICK next \in {"success", "fix", "fail"} :
          Dev!Proceed(t, next) /\ (next = "success" <=> Dev!Known(t))
  BY DEF Dev!Verify
<1>3. where[t] \in Dev!Running /\ where[t] \in AtWork /\ ~ loaded[t] /\ "fix" \in AtWork
      /\ "fix" \in Dev!CallPlaces /\ "fix" \notin Dev!Statuses
  BY <1>1, NotLoaded DEF Dev!Running, AtWork, Dev!Edits, Dev!CallPlaces, Dev!Statuses
<1>4. /\ Dev!StateTypes /\ PlaceInv(t) /\ Dev!Target(t) = call[t].target
      /\ solo[t] => FileOK(t, at[t], ini[at[t]]) /\ HereOK(t, where[t], ini[at[t]])
  BY <1>3, Working
<1>5. OneFile(t) /\ ~ loaded'[t]
  BY <1>1, <1>3, <1>4, Unedited
<1>6. call[t].mode = "bind" /\ ~ call[t].dry /\ Dev!Target(t) \notin packed
  BY <1>1, <1>4 DEF PlaceInv, BindSteps, PackedGone
<1>7. next = "fix" => PlaceInv(t)'
  <2> SUFFICES ASSUME next = "fix" PROVE PlaceInv(t)'
    OBVIOUS
  <2>1. Dev!Goto(t, "fix") /\ at' = at
    BY <1>2, <1>3 DEF Dev!Proceed
  <2>2. where'[t] = "fix"
    BY <1>3, <1>4, <2>1, GotoPlace
  <2>3. QED
    BY <1>1, <1>3, <1>4, <1>5, <1>6, <2>1, <2>2
    DEF PlaceInv, Dev!Running, Dev!Edits, Reverting, BindSteps, PackedGone
<1>8. solo[t] => ini[at[t]] = <<Dev!Target(t)>> /\ next # "fix"
  <2> SUFFICES ASSUME solo[t] PROVE ini[at[t]] = <<Dev!Target(t)>> /\ Dev!Known(t)
    BY <1>2
  <2>1. ini[at[t]] = <<Dev!Target(t)>>
    BY <1>1, <1>4 DEF HereOK
  <2>2. QED
    BY <2>1, OneEntry DEF Dev!Known
<1>9. next = "success" => Dev!Target(t) \in Dev!Entries(ini'[at[t]])
  BY <1>1, <1>2 DEF Dev!Known
<1>10. next \in AtWork \cup {"success", "fail", "dry-run"} /\ next # "dry-run"
       /\ (next \in AtWork => next = "fix")
  BY <1>2, <1>3 DEF AtWork, Dev!Running, Dev!Edits
<1>11. solo[t] => FileOK(t, at[t], ini'[at[t]]) /\ ini'[at[t]] = <<Dev!Target(t)>>
  BY <1>1, <1>4, <1>8
<1>12. QED
  BY <1>1, <1>2, <1>3, <1>5, <1>6, <1>7, <1>8, <1>9, <1>10, <1>11, ProceedStep

LEMMA ReverifyKeeps ==
    ASSUME DevAssumption, DevInv, NEW t \in Terminals, Dev!Reverify(t)
    PROVE  DevInv'
<1>1. /\ where[t] = "reverify" /\ call' = call /\ loaded' = loaded /\ snap' = snap
      /\ ended' = ended /\ ini' = ini /\ packed' = packed /\ prepared' = prepared
      /\ summary' = summary /\ started' = started /\ before' = before /\ solo' = solo
  BY DEF Dev!Reverify, Dev!checkoutState, Dev!history
<1>2. PICK status \in {"success", "fail"} :
          Dev!Conclude(t, status) /\ (status = "success" => Dev!Known(t))
  BY DEF Dev!Reverify
<1>3. where[t] \in Dev!Running /\ where[t] \in AtWork /\ ~ loaded[t]
  BY <1>1, NotLoaded DEF Dev!Running, AtWork, Dev!Edits
<1>4. /\ Dev!StateTypes /\ PlaceInv(t) /\ results[t][at[t]].current \in Dev!Paths \cup {NoPath}
      /\ solo[t] => HereOK(t, where[t], ini[at[t]])
  BY <1>3, Working
<1>5. OneFile(t) /\ ~ loaded'[t]
  BY <1>1, <1>3, <1>4, Unedited
<1>6. call[t].mode = "bind" /\ ~ solo[t]
  BY <1>1, <1>4 DEF PlaceInv, BindSteps, PackedGone, HereOK
<1>7. status = "success" => Dev!Target(t) \in Dev!Entries(ini'[at[t]])
  BY <1>1, <1>2 DEF Dev!Known
<1>8. Dev!ConcludeWith(t, status, results[t][at[t]].current)
  BY <1>2 DEF Dev!Conclude
<1>9. QED
  BY <1>1, <1>2, <1>3, <1>4, <1>5, <1>6, <1>7, <1>8, ConcludeStep

LEMMA ShouldRestoreKeeps ==
    ASSUME DevAssumption, DevInv, NEW t \in Terminals, Dev!ShouldRestore(t)
    PROVE  DevInv'
<1>1. /\ where[t] = "revert" /\ call' = call /\ at' = at /\ loaded' = loaded /\ snap' = snap
      /\ results' = results /\ ended' = ended /\ ini' = ini /\ packed' = packed
      /\ prepared' = prepared
      /\ summary' = summary /\ started' = started /\ before' = before /\ solo' = solo
  BY DEF Dev!ShouldRestore, Dev!checkoutState, Dev!history
<1>2. PICK next \in {"restore", "close-revert"} : Dev!Goto(t, next)
  BY DEF Dev!ShouldRestore
<1>3. where[t] \in Dev!Running /\ where[t] \in AtWork /\ ~ loaded[t]
      /\ next \in AtWork /\ next \in Dev!CallPlaces
  BY <1>1, <1>2, NotLoaded DEF Dev!Running, AtWork, Dev!Edits, Dev!CallPlaces
<1>4. /\ Dev!StateTypes /\ PlaceInv(t)
      /\ solo[t] => FileOK(t, at[t], ini[at[t]]) /\ HereOK(t, where[t], ini[at[t]])
  BY <1>3, Working
<1>5. OneFile(t) /\ ~ loaded'[t]
  BY <1>1, <1>3, <1>4, Unedited
<1>6. where'[t] = next
  BY <1>2, <1>3, <1>4, GotoPlace
<1>7. PlaceInv(t)'
  BY <1>1, <1>2, <1>3, <1>4, <1>5, <1>6 DEF PlaceInv, Reverting, BindSteps, PackedGone
<1>8. solo[t] => HereOK(t, next, ini'[at[t]]) /\ FileOK(t, at[t], ini'[at[t]])
  BY <1>1, <1>2, <1>4 DEF HereOK, Early, Reverting
<1>9. QED
  BY <1>1, <1>2, <1>3, <1>5, <1>7, <1>8, StayStep

\* The revert script has returned, whatever it did to the file on the way.
LEMMA RevertReturnsKeeps ==
    ASSUME DevAssumption, DevInv, NEW t \in Terminals, where[t] \in Reverting,
           NEW good \in BOOLEAN, Dev!RevertReturns(t, good),
           OneFile(t), packed' = packed, ~ loaded'[t],
           solo[t] => FileOK(t, at[t], ini'[at[t]])
    PROVE  DevInv'
<1>1. where[t] \in Dev!Running /\ where[t] \in AtWork /\ "unbound" \in AtWork
      /\ "unbound" \in Dev!CallPlaces /\ "unbound" \notin Dev!Statuses
  BY DEF Dev!Running, AtWork, Reverting, Dev!Edits, Dev!CallPlaces, Dev!Statuses
<1>2. /\ Dev!StateTypes /\ PlaceInv(t) /\ results[t][at[t]].current \in Dev!Paths \cup {NoPath}
      /\ solo[t] => HereOK(t, where[t], ini[at[t]])
  BY <1>1, Working
<1>3. call[t].mode \in {"bind", "unbind", "revert"}
  BY <1>2 DEF PlaceInv
<1>4. call' = call
  BY DEF OneFile
<1>5. CASE call[t].mode = "bind"
  <2>1. Dev!ConcludeWith(t, "fail", results[t][at[t]].current) /\ ended' = ended
    BY <1>5 DEF Dev!RevertReturns, Dev!Conclude
  <2>2. QED
    BY <1>1, <1>2, <1>5, <2>1, ConcludeStep
<1>6. CASE call[t].mode = "unbind"
  <2>1. PICK next \in {"unbound", "fail"} : Dev!Proceed(t, next) /\ ended' = ended
    BY <1>6 DEF Dev!RevertReturns
  <2>2. solo[t] => ~ Guarded(t, at[t])
    BY <1>2, <1>6 DEF HereOK, Early, Reverting
  <2>3. next = "unbound" => PlaceInv(t)'
    <3> SUFFICES ASSUME next = "unbound" PROVE PlaceInv(t)'
      OBVIOUS
    <3>1. Dev!Goto(t, "unbound") /\ at' = at
      BY <1>1, <2>1 DEF Dev!Proceed
    <3>2. where'[t] = "unbound"
      BY <1>1, <1>2, <3>1, GotoPlace
    <3>3. QED
      BY <1>1, <1>2, <1>4, <1>6, <3>1, <3>2 DEF PlaceInv, Reverting, BindSteps, PackedGone
  <2>4. solo[t] => HereOK(t, "unbound", ini'[at[t]])
    BY <1>6, <2>2 DEF HereOK, Early, Reverting
  <2>5. /\ next \in AtWork \cup {"success", "fail", "dry-run"} /\ next \notin {"dry-run", "success"}
        /\ (next \in AtWork => next = "unbound")
    BY <1>1, <2>1 DEF AtWork, Dev!Running, Dev!Edits
  <2>6. QED
    BY <1>1, <1>6, <2>1, <2>3, <2>4, <2>5, ProceedStep
<1>7. CASE call[t].mode = "revert"
  <2>1. PICK how \in {"success", "fail"} : Dev!End(t, how) /\ at' = at /\ results' = results
    BY <1>7 DEF Dev!RevertReturns
  <2>2. how \in Dev!Outcomes \ {"none"} /\ how \notin {"skip", "blocked"}
    BY <2>1 DEF Dev!Outcomes
  <2>3. QED
    BY <1>1, <1>7, <2>1, <2>2, EndStep
<1>8. QED
  BY <1>3, <1>5, <1>6, <1>7

\* The restore takes the token out, or nothing.
LEMMA RestoredIsOK ==
    ASSUME DevAssumption, DevInv, NEW t \in Terminals, where[t] = "restore", solo[t],
           NEW s \in {ini[at[t]], Dev!Without(ini[at[t]], Dev!Target(t))}
    PROVE  FileOK(t, at[t], s) /\ HereOK(t, "close-revert", s)
<1> DEFINE f == ini[at[t]]
           old == before[t][at[t]]
           T == Dev!Target(t)
<1>1. where[t] \in Dev!Running /\ where[t] \in AtWork /\ where[t] \in Reverting /\ where[t] \notin Early
  BY DEF Dev!Running, AtWork, Reverting, Early
<1>2. /\ PlaceInv(t) /\ FileOK(t, at[t], f) /\ HereOK(t, where[t], f) /\ f \in Seq(Dev!Paths)
      /\ T = call[t].target
  BY <1>1, Working
<1>3. call[t].mode \in {"bind", "unbind", "revert"}
  BY <1>1, <1>2 DEF PlaceInv
<1>4. call[t].mode # "revert" => ~ Guarded(t, at[t])
  BY <1>1, <1>2 DEF HereOK
<1>5. CASE call[t].mode = "bind"
  <2>1. f \in {<<>>, <<T>>}
    BY <1>1, <1>2, <1>5 DEF HereOK
  <2>2. Dev!Without(<<>>, T) = <<>> /\ Dev!Without(<<T>>, T) = <<>>
    BY EmptyFile, OneEntry
  <2>3. s \in {<<>>, <<T>>}
    BY <2>1, <2>2
  <2>4. QED
    BY <1>2, <1>4, <1>5, <2>3 DEF FileOK, HereOK, Early, Reverting
<1>6. CASE call[t].mode = "unbind"
  <2>1. Dev!Foreign(t, Dev!Without(f, T)) = Dev!Foreign(t, f)
    BY <1>2, DistinctWithout DEF Dev!Foreign
  <2>2. FileOK(t, at[t], s)
    BY <1>2, <1>4, <1>6, <2>1 DEF FileOK
  <2>3. QED
    BY <1>4, <1>6, <2>2 DEF HereOK, Early, Reverting
<1>7. CASE call[t].mode = "revert"
  <2>1. f = old
    BY <1>1, <1>2, <1>7 DEF HereOK
  <2>2. s \in {old, Dev!Without(old, call[t].target)}
    BY <1>2, <2>1
  <2>3. QED
    BY <1>7, <2>2 DEF FileOK, HereOK, Early, Reverting
<1>8. QED
  BY <1>3, <1>5, <1>6, <1>7

LEMMA RestoreKeeps ==
    ASSUME DevAssumption, DevInv, NEW t \in Terminals, Dev!Restore(t)
    PROVE  DevInv'
<1> DEFINE s == Dev!Without(ini[at[t]], Dev!Target(t))
<1>1. /\ where[t] = "restore" /\ call' = call /\ loaded' = loaded /\ snap' = snap
      /\ packed' = packed
      /\ summary' = summary /\ started' = started /\ before' = before /\ solo' = solo
      /\ ini' = ini \/ ini' = [ini EXCEPT ![at[t]] = s]
      /\ prepared' = prepared \/ prepared' = prepared \ {Dev!Target(t)}
  BY DEF Dev!Restore, Dev!history
<1>2. where[t] \in Dev!Running /\ where[t] \in AtWork /\ where[t] \in Reverting /\ ~ loaded[t]
      /\ "close-revert" \in AtWork /\ "close-revert" \in Dev!CallPlaces
  BY <1>1, NotLoaded DEF Dev!Running, AtWork, Dev!Edits, Reverting, Dev!CallPlaces
<1>3. Dev!StateTypes /\ PlaceInv(t) /\ at[t] \in Archs /\ ini[at[t]] \in Seq(Dev!Paths)
  BY <1>2, Working
<1>4. s \in Seq(Dev!Paths)
  BY <1>3, EditType
<1>5. /\ ini' \in [Archs -> Seq(Dev!Paths)]
      /\ \A b \in Archs \ {at[t]} : ini'[b] = ini[b]
      /\ ini'[at[t]] \in {ini[at[t]], s}
  BY <1>1, <1>3, <1>4 DEF Dev!StateTypes
<1>6. OneFile(t) /\ ~ loaded'[t]
  BY <1>1, <1>2, <1>3, <1>5 DEF OneFile, Dev!StateTypes
<1>7. solo[t] => FileOK(t, at[t], ini'[at[t]]) /\ HereOK(t, "close-revert", ini'[at[t]])
  <2>1. ASSUME solo[t], NEW q \in {ini[at[t]], s}
        PROVE  FileOK(t, at[t], q) /\ HereOK(t, "close-revert", q)
    BY <1>1, <2>1, RestoredIsOK
  <2>2. QED
    BY <1>5, <2>1
<1> HIDE DEF s
<1>8. CASE Dev!Goto(t, "close-revert") /\ UNCHANGED <<at, results, ended>>
  <2>1. where'[t] = "close-revert"
    BY <1>2, <1>3, <1>8, GotoPlace
  <2>2. PlaceInv(t)'
    BY <1>1, <1>2, <1>3, <1>6, <1>8, <2>1 DEF PlaceInv, Reverting, BindSteps, PackedGone
  <2>3. QED
    BY <1>2, <1>6, <1>7, <1>8, <2>2, StayStep
<1>9. CASE Dev!RevertReturns(t, FALSE)
  BY <1>1, <1>2, <1>6, <1>7, <1>9, RevertReturnsKeeps
<1>10. QED
  BY <1>8, <1>9 DEF Dev!Restore

LEMMA CloseAfterRevertKeeps ==
    ASSUME DevAssumption, DevInv, NEW t \in Terminals, Dev!CloseAfterRevert(t)
    PROVE  DevInv'
<1>1. /\ where[t] = "close-revert" /\ call' = call /\ loaded' = loaded /\ snap' = snap
      /\ ini' = ini /\ packed' = packed /\ prepared' = prepared
      /\ summary' = summary /\ started' = started /\ before' = before /\ solo' = solo
  BY DEF Dev!CloseAfterRevert, Dev!checkoutState, Dev!history
<1>2. PICK good \in BOOLEAN : Dev!RevertReturns(t, good)
  BY DEF Dev!CloseAfterRevert
<1>3. where[t] \in Dev!Running /\ where[t] \in Reverting /\ ~ loaded[t]
  BY <1>1, NotLoaded DEF Dev!Running, Dev!Edits, Reverting
<1>4. Dev!StateTypes /\ (solo[t] => FileOK(t, at[t], ini[at[t]]))
  BY <1>3, Working
<1>5. OneFile(t) /\ ~ loaded'[t]
  BY <1>1, <1>3, <1>4, Unedited
<1>6. solo[t] => FileOK(t, at[t], ini'[at[t]])
  BY <1>1, <1>4
<1>7. QED
  BY <1>1, <1>2, <1>3, <1>5, <1>6, RevertReturnsKeeps

LEMMA UnboundKeeps ==
    ASSUME DevAssumption, DevInv, NEW t \in Terminals, Dev!Unbound(t)
    PROVE  DevInv'
<1>1. /\ where[t] = "unbound" /\ call' = call /\ loaded' = loaded /\ snap' = snap
      /\ ended' = ended /\ ini' = ini /\ packed' = packed /\ prepared' = prepared
      /\ summary' = summary /\ started' = started /\ before' = before /\ solo' = solo
  BY DEF Dev!Unbound, Dev!checkoutState, Dev!history
<1>2. PICK status \in {"success", "fail"} :
          Dev!Conclude(t, status) /\ (status = "success" => ~ Dev!Known(t))
  BY DEF Dev!Unbound
<1>3. where[t] \in Dev!Running /\ where[t] \in AtWork /\ ~ loaded[t]
  BY <1>1, NotLoaded DEF Dev!Running, AtWork, Dev!Edits
<1>4. /\ Dev!StateTypes /\ PlaceInv(t) /\ results[t][at[t]].current \in Dev!Paths \cup {NoPath}
      /\ solo[t] => FileOK(t, at[t], ini[at[t]])
  BY <1>3, Working
<1>5. OneFile(t) /\ ~ loaded'[t]
  BY <1>1, <1>3, <1>4, Unedited
<1>6. call[t].mode = "unbind"
  BY <1>1, <1>4 DEF PlaceInv
<1>7. status = "success" => Dev!Target(t) \notin Dev!Entries(ini'[at[t]])
  BY <1>1, <1>2 DEF Dev!Known
<1>8. Dev!ConcludeWith(t, status, results[t][at[t]].current)
  BY <1>2 DEF Dev!Conclude
<1>9. solo[t] => FileOK(t, at[t], ini'[at[t]])
  BY <1>1, <1>4
<1>10. QED
  BY <1>1, <1>2, <1>3, <1>4, <1>5, <1>6, <1>7, <1>8, <1>9, ConcludeStep

LEMMA ReportKeeps ==
    ASSUME DevAssumption, DevInv, NEW t \in Terminals, Dev!Report(t)
    PROVE  DevInv'
<1> DEFINE new == [a \in Archs |-> results[t][a].current]
<1>1. /\ where[t] = "report" /\ call' = call /\ at' = at /\ loaded' = loaded /\ snap' = snap
      /\ results' = results /\ ini' = ini /\ packed' = packed /\ prepared' = prepared
      /\ started' = started /\ before' = before /\ solo' = solo
      /\ summary' = [summary EXCEPT ![Dev!Target(t)] = new] /\ Dev!End(t, Dev!ExitOf(t))
  BY DEF Dev!Report, Dev!history
<1>2. where[t] \in Dev!Running /\ ~ loaded[t]
  BY <1>1, NotLoaded DEF Dev!Running, Dev!Edits
<1>3. /\ Dev!StateTypes /\ PlaceInv(t) /\ ResultInv(t) /\ Dev!Target(t) \in Repositories
      /\ solo[t] => FileOK(t, at[t], ini[at[t]])
  BY <1>2, Working
<1>4. new \in [Archs -> Dev!Paths \cup {NoPath}]
  BY <1>3 DEF Dev!StateTypes
<1> HIDE DEF new
<1>5. summary' \in [Repositories -> [Archs -> Dev!Paths \cup {NoPath}] \cup {NoSummary}]
  BY <1>1, <1>3, <1>4 DEF Dev!StateTypes
<1>6. OneFile(t) /\ ~ loaded'[t]
  BY <1>1, <1>2, <1>3, <1>5 DEF OneFile, Dev!StateTypes
<1>7. Dev!ExitOf(t) \in Dev!Outcomes \ {"none"} /\ Dev!ExitOf(t) \notin {"skip", "blocked"}
  BY DEF Dev!ExitOf, Dev!Outcomes
<1>8. Dev!ExitOf(t) = "success" => \A a \in call[t].archs : Status(t, a) = "success" \/ call[t].dry
  BY <1>1, <1>3 DEF Dev!ExitOf, ResultInv, Concluded, Status
<1>9. solo[t] => FileOK(t, at[t], ini'[at[t]])
  BY <1>1, <1>3
<1>10. QED
  BY <1>1, <1>2, <1>6, <1>7, <1>8, <1>9, EndStep

\* An error, or the end of the process, at any place.
LEMMA BreakKeeps ==
    ASSUME DevAssumption, DevInv, NEW t \in Terminals, Dev!Aborts(t) \/ Dev!Kill(t)
    PROVE  DevInv'
<1>1. /\ call' = call /\ at' = at /\ snap' = snap
      /\ loaded' = loaded \/ loaded' = [loaded EXCEPT ![t] = FALSE]
      /\ results' = results /\ ini' = ini /\ packed' = packed /\ prepared' = prepared
      /\ summary' = summary /\ started' = started /\ before' = before /\ solo' = solo
      /\ where[t] \in Dev!Running
      /\ where[t] \in {"start", "verify", "unbound", "report"} \/ loaded' = [loaded EXCEPT ![t] = FALSE]
  BY DEF Dev!Aborts, Dev!Kill, Dev!checkoutState, Dev!history, Dev!Running
<1>2. PICK how \in {"fail", "killed"} : Dev!End(t, how)
  BY DEF Dev!Aborts, Dev!Kill
<1>3. Dev!StateTypes /\ PlaceInv(t) /\ (solo[t] => FileOK(t, at[t], ini[at[t]]))
  BY <1>1, Working
<1>4. OneFile(t)
  BY <1>1, <1>3, Unedited
<1>5. ~ loaded'[t]
  <2>1. CASE loaded' = [loaded EXCEPT ![t] = FALSE]
    BY <1>3, <2>1 DEF Dev!StateTypes
  <2>2. CASE loaded' # [loaded EXCEPT ![t] = FALSE]
    <3>1. where[t] \notin Dev!Edits /\ loaded' = loaded
      BY <1>1, <2>2 DEF Dev!Edits
    <3>2. QED
      BY <3>1, NotLoaded
  <2>3. QED
    BY <2>1, <2>2
<1>6. how \in Dev!Outcomes \ {"none"} /\ how \notin {"skip", "blocked", "success"}
  BY <1>2 DEF Dev!Outcomes
<1>7. solo[t] => FileOK(t, at[t], ini'[at[t]])
  BY <1>1, <1>3
<1>8. QED
  BY <1>1, <1>2, <1>4, <1>5, <1>6, <1>7, EndStep

\* A new call: it is alone if nobody else is at work.
LEMMA BeginKeeps ==
    ASSUME DevAssumption, DevInv, NEW t \in Terminals, Dev!Begin(t)
    PROVE  DevInv'
<1>1. PICK c \in Calls :
          /\ call' = [call EXCEPT ![t] = c]
          /\ at' = [at EXCEPT ![t] = Dev!Lowest(c.archs)]
          /\ Dev!Goto(t, IF c.by = "agent" THEN "plan"
                     ELSE IF c.mode = "revert" THEN "revert" ELSE "start")
  BY DEF Dev!Begin
<1> DEFINE empty == [a \in Archs |-> Dev!NoResult]
           next == IF c.by = "agent" THEN "plan"
                   ELSE IF c.mode = "revert" THEN "revert" ELSE "start"
<1>2. /\ where[t] \in {"idle", "ended"} /\ started < MaxCalls /\ started' = started + 1
      /\ before' = [before EXCEPT ![t] = ini]
      /\ solo' = [s \in Terminals |->
                    s = t /\ \A u \in Terminals \ {t} : where[u] \notin Dev!Running]
      /\ results' = [results EXCEPT ![t] = empty]
      /\ ended' = [ended EXCEPT ![t] = "none"]
      /\ loaded' = loaded /\ snap' = snap /\ ini' = ini /\ packed' = packed
      /\ prepared' = prepared /\ summary' = summary
  BY DEF Dev!Begin, Dev!checkoutState
<1>3. Dev!StateTypes /\ SomeInv /\ \A u \in Terminals : PlaceInv(u) /\ ResultInv(u)
  BY DEF DevInv
<1>4. /\ c.archs \in SUBSET Archs /\ c.archs # {} /\ Dev!Lowest(c.archs) \in c.archs
      /\ \A b \in c.archs : Dev!Lowest(c.archs) <= b
      /\ c.by = "agent" => c.mode \in {"bind", "unbind"}
  BY CallType
<1>5. next \in {"plan", "revert", "start"} /\ next \in Dev!CallPlaces /\ next \in Dev!Running /\ next \in AtWork
      /\ next # "ended" /\ next # "report" /\ next \notin Dev!Edits
  BY DEF Dev!CallPlaces, Dev!Running, AtWork, Dev!Edits
<1>6. (next = "plan" => c.by = "agent") /\ (next = "revert" <=> c.mode = "revert")
  BY <1>4
<1> HIDE DEF next
<1>7. Dev!Goto(t, next)
  BY <1>1 DEF next
<1>8. where' \in [Terminals -> Dev!CallPlaces] /\ where'[t] = next /\ \A u \in Terminals \ {t} : where'[u] = where[u]
  BY <1>3, <1>5, <1>7, GotoPlace
<1>9. Dev!NoResult \in Result /\ Dev!NoResult.status = "none"
  BY DEF Dev!NoResult, Result, Dev!Statuses
<1>10. empty \in [Archs -> Result] /\ \A a \in Archs : empty[a].status = "none"
  BY <1>9
<1> HIDE DEF empty
<1>11. /\ results' \in [Terminals -> [Archs -> Result]] /\ results'[t] = empty
       /\ \A u \in Terminals \ {t} : results'[u] = results[u]
  BY <1>2, <1>3, <1>10 DEF Dev!StateTypes, Result
<1>12. /\ call' \in [Terminals -> Calls] /\ call'[t] = c
       /\ at' \in [Terminals -> Archs \cup {0}] /\ at'[t] = Dev!Lowest(c.archs)
       /\ ended' \in [Terminals -> Dev!Outcomes] /\ ended'[t] = "none"
       /\ before' \in [Terminals -> [Archs -> Seq(Dev!Paths)]] /\ before'[t] = ini
       /\ \A u \in Terminals \ {t} : /\ call'[u] = call[u] /\ at'[u] = at[u]
                                     /\ ended'[u] = ended[u]
  BY <1>1, <1>2, <1>3, <1>4 DEF Dev!StateTypes, Dev!Outcomes
<1>13. solo' \in [Terminals -> BOOLEAN]
       /\ \A u \in Terminals : solo'[u] <=> (u = t /\ \A v \in Terminals \ {t} : where[v] \notin Dev!Running)
  BY <1>2
<1>14. started' \in 0..MaxCalls
  <2>1. MaxCalls \in Nat /\ started \in Nat
    BY <1>3 DEF Dev!StateTypes, DevAssumption, Dev!CallsAssumption
  <2>2. QED
    BY <1>2, <2>1
<1>15. Dev!StateTypes'
  BY <1>2, <1>3, <1>8, <1>11, <1>12, <1>13, <1>14 DEF Dev!StateTypes, Result
<1>16. ~ loaded'[t]
  <2>1. where[t] \notin Dev!Edits
    BY <1>2 DEF Dev!Edits
  <2>2. QED
    BY <1>2, <2>1, NotLoaded
<1>17. \A a \in Archs : Status(t, a)' = "none"
  BY <1>10, <1>11 DEF Status
<1>18. PlaceInv(t)'
  BY <1>4, <1>5, <1>6, <1>8, <1>12, <1>16 DEF PlaceInv, Reverting, BindSteps, PackedGone
<1>19. ResultInv(t)'
  <2>1. \A a \in c.archs : ~ (a < Dev!Lowest(c.archs))
    BY <1>4, ArchsAreNumbers
  <2>2. QED
    BY <1>4, <1>5, <1>8, <1>12, <1>17, <2>1 DEF ResultInv
<1>20. SomeInv'
  <2> SUFFICES ASSUME NEW a \in Archs,
                      \A u \in Terminals : Status(u, a)' = "success"
               PROVE  FALSE
    BY DEF SomeInv
  <2>1. QED
    BY <1>17
<1>21. ASSUME solo'[t] PROVE SoloInv(t)'
  <2>1. \A u \in Terminals \ {t} : where'[u] \notin Dev!Running
    BY <1>8, <1>13, <1>21
  <2>2. ASSUME NEW a \in Archs PROVE FileOK(t, a, ini[a])' /\ ini'[a] = before'[t][a]
    <3>1. ini'[a] = before'[t][a]
      BY <1>2, <1>12
    <3>2. QED
      BY <3>1 DEF FileOK
  <2>3. HereOK(t, where[t], ini[at[t]])'
    <3>1. at'[t] \in Archs /\ ini'[at'[t]] = before'[t][at'[t]]
      BY <1>4, <1>12, <2>2
    <3>2. call'[t].mode # "revert" => where'[t] \in {"plan", "start"}
      BY <1>5, <1>6, <1>8, <1>12
    <3>3. where'[t] \in {"plan", "revert", "start"} /\ (where'[t] = "revert" => call'[t].mode = "revert")
      BY <1>5, <1>6, <1>8, <1>12
    <3>4. QED
      BY <3>1, <3>2, <3>3 DEF HereOK, Early, Reverting
  <2>4. QED
    BY <1>16, <1>17, <2>1, <2>2, <2>3 DEF SoloInv
<1>22. ASSUME NEW u \in Terminals
       PROVE  (PlaceInv(u) /\ ResultInv(u) /\ (solo[u] => SoloInv(u)))'
  <2>1. CASE u = t
    BY <1>18, <1>19, <1>21, <2>1
  <2>2. CASE u # t
    <3>1. /\ PlaceInv(u) /\ ResultInv(u) /\ call'[u] = call[u] /\ at'[u] = at[u] /\ where'[u] = where[u]
          /\ ended'[u] = ended[u] /\ results'[u] = results[u] /\ loaded'[u] = loaded[u]
          /\ packed' = packed /\ ~ solo'[u]
      BY <1>2, <1>3, <1>8, <1>11, <1>12, <1>13, <2>2
    <3>2. PlaceInv(u)'
      BY <3>1 DEF PlaceInv
    <3>3. ResultInv(u)'
      BY <3>1 DEF ResultInv, Concluded, Status
    <3>4. QED
      BY <3>1, <3>2, <3>3
  <2>3. QED
    BY <2>1, <2>2
<1>23. QED
  BY <1>15, <1>20, <1>22 DEF DevInv

LEMMA DevInvInit ==
    ASSUME DevAssumption, Dev!Init
    PROVE  DevInv
<1> DEFINE c0 == CHOOSE c \in Calls : TRUE
<1>1. c0 \in Calls /\ Terminals # {}
  BY DEF DevAssumption, Dev!CallsAssumption
<1>2. call = [t \in Terminals |-> c0]
  BY DEF Dev!Init
<1> HIDE DEF c0
<1>3. Dev!NoResult \in Result /\ Dev!NoResult.status = "none"
  BY DEF Dev!NoResult, Result, Dev!Statuses
<1>4. results = [t \in Terminals |-> [a \in Archs |-> Dev!NoResult]]
  BY DEF Dev!Init
<1>5. results \in [Terminals -> [Archs -> Result]]
      /\ \A t \in Terminals, a \in Archs : Status(t, a) = "none"
  BY <1>3, <1>4 DEF Status
<1>6. ini \in [Archs -> Seq(Dev!Paths)]
  BY DEF Dev!Init, DevAssumption, Dev!PathsAssumption
<1>7. <<>> \in Seq(Dev!Paths) /\ "idle" \in Dev!CallPlaces /\ "none" \in Dev!Outcomes /\ 0 \in 0..MaxCalls
  BY EmptySeq DEF Dev!CallPlaces, Dev!Outcomes, DevAssumption, Dev!CallsAssumption
<1>8. call \in [Terminals -> Calls] /\ where \in [Terminals -> Dev!CallPlaces] /\ at \in [Terminals -> Archs \cup {0}]
      /\ loaded \in [Terminals -> BOOLEAN] /\ snap \in [Terminals -> Seq(Dev!Paths)]
      /\ ended \in [Terminals -> Dev!Outcomes] /\ started \in 0..MaxCalls
      /\ before \in [Terminals -> [Archs -> Seq(Dev!Paths)]] /\ solo \in [Terminals -> BOOLEAN]
  BY <1>1, <1>2, <1>6, <1>7 DEF Dev!Init
<1>9. packed \subseteq Repositories /\ prepared \subseteq Repositories
      /\ summary \in [Repositories -> [Archs -> Dev!Paths \cup {NoPath}] \cup {NoSummary}]
  BY DEF Dev!Init
<1>10. Dev!StateTypes
  BY <1>5, <1>6, <1>8, <1>9 DEF Dev!StateTypes, Result
<1>11. SomeInv
  BY <1>1, <1>5 DEF SomeInv
<1>12. ASSUME NEW t \in Terminals PROVE PlaceInv(t) /\ ResultInv(t) /\ ~ solo[t]
  <2>1. where[t] = "idle" /\ ~ loaded[t] /\ ended[t] = "none" /\ ~ solo[t]
    BY DEF Dev!Init
  <2>2. PlaceInv(t)
    BY <2>1 DEF PlaceInv, Dev!Running, Dev!Edits, Reverting, BindSteps, PackedGone
  <2>3. ResultInv(t)
    BY <2>1 DEF ResultInv, AtWork, Dev!Running, Dev!Edits
  <2>4. QED
    BY <2>1, <2>2, <2>3
<1>13. QED
  BY <1>10, <1>11, <1>12 DEF DevInv

LEMMA DevStutterKeeps ==
    ASSUME DevInv, UNCHANGED Dev!vars
    PROVE  DevInv'
<1>1. /\ call' = call /\ where' = where /\ at' = at /\ loaded' = loaded /\ snap' = snap
      /\ results' = results /\ ended' = ended /\ ini' = ini /\ packed' = packed
      /\ prepared' = prepared /\ summary' = summary /\ started' = started
      /\ before' = before /\ solo' = solo
  BY DEF Dev!vars
<1>2. Dev!StateTypes'
  BY <1>1 DEF DevInv, Dev!StateTypes
<1>3. SomeInv'
  BY <1>1 DEF DevInv, SomeInv, Status, Dev!Target
<1>4. ASSUME NEW t \in Terminals
      PROVE  (PlaceInv(t) /\ ResultInv(t) /\ (solo[t] => SoloInv(t)))'
  <2>1. PlaceInv(t) /\ ResultInv(t) /\ (solo[t] => SoloInv(t))
    BY DEF DevInv
  <2>2. PlaceInv(t)'
    BY <1>1, <2>1 DEF PlaceInv
  <2>3. ResultInv(t)'
    BY <1>1, <2>1 DEF ResultInv, Concluded, Status
  <2>4. ASSUME solo[t] PROVE SoloInv(t)'
    <3>1. SoloInv(t)
      BY <2>1, <2>4
    <3>2. \A a \in Archs : FileOK(t, a, ini[a]) => FileOK(t, a, ini[a])'
      BY <1>1 DEF FileOK, Guarded, Dev!Foreign, Dev!Target
    <3>3. \A a \in Archs : DoneOK(t, a) => DoneOK(t, a)'
      BY <1>1 DEF DoneOK
    <3>4. HereOK(t, where[t], ini[at[t]]) => HereOK(t, where[t], ini[at[t]])'
      BY <1>1 DEF HereOK, Guarded, Dev!Target
    <3>5. QED
      BY <1>1, <3>1, <3>2, <3>3, <3>4 DEF SoloInv, Status
  <2>5. QED
    BY <1>1, <2>2, <2>3, <2>4
<1>5. QED
  BY <1>2, <1>3, <1>4 DEF DevInv

LEMMA DevNextKeeps ==
    ASSUME DevAssumption, DevInv, [Dev!Next]_Dev!vars
    PROVE  DevInv'
<1>1. CASE UNCHANGED Dev!vars
  BY <1>1, DevStutterKeeps
<1>2. CASE Dev!Next
  <2>1. PICK t \in Terminals : Dev!Begin(t) \/ Dev!Step(t) \/ Dev!Kill(t)
    BY <1>2 DEF Dev!Next
  <2>2. CASE Dev!Begin(t)
    BY <2>2, BeginKeeps
  <2>3. CASE Dev!Aborts(t) \/ Dev!Kill(t)
    BY <2>3, BreakKeeps
  <2>4. CASE Dev!Plan(t) \/ Dev!Start(t) \/ Dev!Inspect(t) \/ Dev!InspectFails(t)
    BY <2>4, PlanKeeps, StartKeeps, InspectKeeps, InspectFailsKeeps
  <2>5. CASE Dev!ReadIni(t) \/ Dev!WriteIni(t) \/ Dev!EditFails(t)
    BY <2>5, ReadIniKeeps, WriteIniKeeps, EditFailsKeeps
  <2>6. CASE Dev!SetDevelopmentMode(t) \/ Dev!Prepare(t) \/ Dev!CloseAfterSet(t) \/ Dev!Verify(t) \/ Dev!Reverify(t)
    BY <2>6, SetDevelopmentModeKeeps, PrepareKeeps, CloseAfterSetKeeps, VerifyKeeps, ReverifyKeeps
  <2>7. CASE Dev!ShouldRestore(t) \/ Dev!Restore(t) \/ Dev!CloseAfterRevert(t) \/ Dev!Unbound(t) \/ Dev!Report(t)
    BY <2>7, ShouldRestoreKeeps, RestoreKeeps, CloseAfterRevertKeeps, UnboundKeeps, ReportKeeps
  <2>8. QED
    BY <2>1, <2>2, <2>3, <2>4, <2>5, <2>6, <2>7 DEF Dev!Step
<1>3. QED
  BY <1>1, <1>2

-----------------------------------------------------------------------------
(* What the invariant says of the four properties. *)

\* A bind or an unbind that exited with zero has succeeded for all its bitnesses.
LEMMA ExitSums ==
    ASSUME DevInv, NEW t \in Terminals, NEW a \in call[t].archs,
           ended[t] = "success", ~ call[t].dry, call[t].mode # "revert"
    PROVE  Status(t, a) = "success"
BY DEF DevInv, ResultInv

LEMMA ReportedIsSoHolds ==
    ASSUME DevAssumption, DevInv
    PROVE  Dev!ReportedIsSo
<1> SUFFICES ASSUME NEW t \in Terminals, NEW a \in call[t].archs, solo[t], Dev!ToldDone(t, a)
             PROVE  /\ call[t].mode = "bind" =>
                           /\ Dev!Target(t) \in Dev!Entries(ini[a])
                           /\ ini[a] \in {<<Dev!Target(t)>>, before[t][a]}
                           /\ Dev!Target(t) \notin packed
                    /\ call[t].mode = "unbind" => Dev!Target(t) \notin Dev!Entries(ini[a])
  BY DEF DevInv, Dev!ReportedIsSo
<1>1. call[t] \in Calls /\ a \in Archs
  BY CallType DEF DevInv, Dev!StateTypes
<1>2. SoloInv(t)
  BY DEF DevInv
<1>3. call[t].mode # "revert" => Status(t, a) = "success"
  BY ExitSums DEF Dev!ToldDone, Dev!Succeeded, Status
<1>4. call[t].mode # "revert" => DoneOK(t, a)
  BY <1>1, <1>2, <1>3 DEF SoloInv
<1>5. QED
  BY <1>4 DEF DoneOK, Dev!Target

\* A file of at most one entry.
LEMMA ShortFile ==
    ASSUME NEW s \in Seq(Dev!Paths), Len(s) <= 1
    PROVE  s = <<>> \/ \E x \in Dev!Paths : s = <<x>>
<1>1. Len(s) \in Nat
  BY LenProperties
<1>2. CASE Len(s) = 0
  BY <1>2, EmptySeq
<1>3. CASE Len(s) = 1
  <2>1. s[1] \in Dev!Paths /\ s = [i \in 1..1 |-> s[i]]
    BY <1>3, LenProperties, ElementOfSeq
  <2>2. <<s[1]>> = [i \in 1..1 |-> s[1]]
    OBVIOUS
  <2>3. s = <<s[1]>>
    BY <2>1, <2>2
  <2>4. QED
    BY <2>1, <2>3
<1>4. \A n \in Nat : n <= 1 => n = 0 \/ n = 1
  OBVIOUS
<1>5. QED
  BY <1>1, <1>2, <1>3, <1>4

\* The fate of a file of at most one entry.
LEMMA OutcomesCoveredHolds ==
    ASSUME DevAssumption, DevInv
    PROVE  Dev!OutcomesCovered
<1> SUFFICES ASSUME NEW t \in Terminals, NEW a \in call[t].archs, solo[t], where[t] = "ended",
                    call[t].archs = {a}, Len(before[t][a]) <= 1,
                    call[t].mode = "revert" \/
                    (call[t].mode = "bind" /\ call[t].force /\ call[t].by = "script" /\ ~call[t].dry)
             PROVE  LET c == call[t]
                        old == Dev!First(before[t][a])
                        covered == IF c.mode = "revert" THEN Dev!UnbindOutcomes(c.target, NoPath, old)
                                                        ELSE Dev!BindOutcomes(c.target, NoPath, old)
                    IN  /\ Len(ini[a]) <= 1
                        /\ \E res \in covered : /\ res.token = Dev!First(ini[a])
                                                /\ ended[t] \in {res.status, "killed"}
  BY DEF Dev!OutcomesCovered
<1> DEFINE T == call[t].target
           f == before[t][a]
           s == ini[a]
           old == Dev!First(f)
<1>1. Dev!StateTypes /\ PlaceInv(t) /\ ResultInv(t) /\ SoloInv(t)
  BY DEF DevInv
<1>2. call[t] \in Calls
  BY <1>1 DEF Dev!StateTypes
<1>3. a \in Archs /\ T \in Dev!Paths /\ T # NoPath /\ (call[t].by = "agent" => call[t].mode # "revert")
  BY <1>2, CallType
<1>4. f \in Seq(Dev!Paths) /\ FileOK(t, a, s)
  BY <1>1, <1>3 DEF Dev!StateTypes, SoloInv
<1>5. ended[t] \in {"success", "fail", "killed"}
  <2>1. call[t].by # "agent"
    BY <1>2, <1>3, CallType
  <2>2. ended[t] \in Dev!Outcomes /\ ended[t] \notin {"none", "skip", "blocked"}
    BY <1>1, <2>1 DEF ResultInv, Dev!StateTypes
  <2>3. QED
    BY <2>2 DEF Dev!Outcomes
<1>6. f = <<>> \/ \E x \in Dev!Paths : f = <<x>>
  BY <1>4, ShortFile
<1>7. Dev!First(<<>>) = NoPath /\ Len(<<>>) = 0
      /\ \A x \in Dev!Paths : Dev!First(<<x>>) = x /\ Len(<<x>>) = 1
  BY DEF Dev!First
<1>8. CASE call[t].mode = "revert"
  <2>1. s \in {f, Dev!Without(f, T)}
    BY <1>4, <1>8 DEF FileOK
  <2>2. Dev!Without(<<>>, T) = <<>> /\ \A x \in Dev!Paths : Dev!Without(<<x>>, T) = IF x = T THEN <<>> ELSE <<x>>
    BY EmptyFile, OneEntry
  <2>3. Len(s) <= 1 /\ (Dev!First(s) = old \/ (old = T /\ Dev!First(s) = NoPath))
    <3>1. CASE f = <<>>
      <4>1. s = <<>>
        BY <2>1, <2>2, <3>1
      <4>2. QED
        BY <1>7, <3>1, <4>1
    <3>2. CASE f # <<>>
      <4>1. PICK x \in Dev!Paths : f = <<x>>
        BY <1>6, <3>2
      <4>2. Dev!First(<<x>>) = x /\ Len(<<x>>) = 1
        BY <1>7
      <4>3. Dev!Without(<<x>>, T) = IF x = T THEN <<>> ELSE <<x>>
        BY <2>2
      <4>4. s = <<x>> \/ (x = T /\ s = <<>>)
        BY <2>1, <4>1, <4>3, Zenon
      <4>5. CASE s = <<x>>
        BY <4>1, <4>2, <4>5
      <4>6. CASE x = T /\ s = <<>>
        BY <1>7, <4>1, <4>2, <4>6
      <4>7. QED
        BY <4>4, <4>5, <4>6
    <3>3. QED
      BY <3>1, <3>2
  <2>4. PICK how \in {"success", "fail"} : ended[t] \in {how, "killed"}
    BY <1>5
  <2> DEFINE res == [status |-> how, token |-> Dev!First(s)]
  <2>5. res \in Dev!UnbindOutcomes(T, NoPath, old)
    BY <2>3 DEF Dev!UnbindOutcomes
  <2>6. QED
    BY <1>8, <2>3, <2>4, <2>5
<1>9. CASE call[t].mode = "bind" /\ ~ call[t].dry
  <2>1. s \in {f, Dev!Distinct(f, {T}), <<>>, <<T>>}
    BY <1>4, <1>9 DEF FileOK
  <2>2. Dev!Distinct(<<>>, {T}) = <<>> /\ \A x \in Dev!Paths : Dev!Distinct(<<x>>, {T}) \in {<<>>, <<x>>}
    BY EmptyFile, OneEntry
  <2>3. Len(s) <= 1 /\ Dev!First(s) \in {old, NoPath, T}
    <3>1. s = <<>> \/ s = <<T>> \/ s = f
      <4>1. CASE f = <<>>
        BY <2>1, <2>2, <4>1
      <4>2. CASE f # <<>>
        <5>1. PICK x \in Dev!Paths : f = <<x>>
          BY <1>6, <4>2
        <5>2. Dev!Distinct(f, {T}) = <<>> \/ Dev!Distinct(f, {T}) = f
          BY <2>2, <5>1
        <5>3. QED
          BY <2>1, <5>2, Zenon
      <4>3. QED
        BY <4>1, <4>2
    <3>2. Len(f) <= 1 /\ Len(<<>>) <= 1 /\ Len(<<T>>) <= 1
      BY <1>3, <1>7
    <3>3. Dev!First(<<>>) = NoPath /\ Dev!First(<<T>>) = T
      BY <1>3, <1>7
    <3>4. CASE s = <<>>
      BY <3>2, <3>3, <3>4
    <3>5. CASE s = <<T>>
      BY <3>2, <3>3, <3>5
    <3>6. CASE s = f
      BY <3>2, <3>6
    <3>7. QED
      BY <3>1, <3>4, <3>5, <3>6
  <2>4. ended[t] = "success" => Dev!First(s) = T
    <3> SUFFICES ASSUME ended[t] = "success" PROVE Dev!First(s) = T
      OBVIOUS
    <3>1. Status(t, a) = "success"
      BY <1>9, ExitSums
    <3>2. DoneOK(t, a)
      BY <1>1, <1>3, <3>1 DEF SoloInv
    <3>3. s \in {<<T>>, f} /\ T \in Dev!Entries(s)
      BY <1>9, <3>2 DEF DoneOK
    <3>4. Dev!First(<<T>>) = T
      BY <1>3, <1>7
    <3>5. CASE s = <<T>>
      BY <3>4, <3>5
    <3>6. CASE s = f
      <4>1. f # <<>>
        BY <3>3, <3>6, EmptyFile
      <4>2. PICK x \in Dev!Paths : f = <<x>>
        BY <1>6, <4>1
      <4>3. Dev!Entries(<<x>>) = {x} /\ Dev!First(<<x>>) = x
        BY <1>7, OneEntry
      <4>4. T = x
        BY <3>3, <3>6, <4>2, <4>3
      <4>5. QED
        BY <3>4, <3>6, <4>2, <4>4
    <3>7. QED
      BY <3>3, <3>5, <3>6
  <2>5. CASE ended[t] = "success"
    <3> DEFINE res == [status |-> "success", token |-> T]
    <3>1. res \in Dev!BindOutcomes(T, NoPath, old)
      BY DEF Dev!BindOutcomes
    <3>2. res.token = Dev!First(s) /\ ended[t] \in {res.status, "killed"}
      BY <2>4, <2>5
    <3>3. QED
      BY <1>9, <2>3, <3>1, <3>2
  <2>6. CASE ended[t] # "success"
    <3> DEFINE res == [status |-> "fail", token |-> Dev!First(s)]
    <3>1. res \in Dev!BindOutcomes(T, NoPath, old)
      BY <2>3 DEF Dev!BindOutcomes
    <3>2. res.token = Dev!First(s) /\ ended[t] \in {res.status, "killed"}
      BY <1>5, <2>6
    <3>3. QED
      BY <1>9, <2>3, <3>1, <3>2
  <2>7. QED
    BY <2>5, <2>6
<1>10. QED
  BY <1>8, <1>9

LEMMA ForeignSparedHolds ==
    ASSUME DevAssumption, DevInv
    PROVE  Dev!ForeignSpared
<1> SUFFICES ASSUME NEW t \in Terminals, NEW a \in Archs, solo[t], ~call[t].force,
                    \/ call[t].mode = "unbind"
                    \/ /\ ~call[t].autoFix
                       /\ Dev!First(before[t][a]) \notin {NoPath, Dev!Target(t)} \cup Worktrees
             PROVE  Dev!Foreign(t, ini[a]) = Dev!Foreign(t, before[t][a])
  BY DEF Dev!ForeignSpared
<1>1. Dev!StateTypes /\ SoloInv(t)
  BY DEF DevInv
<1>2. FileOK(t, a, ini[a]) /\ before[t][a] \in Seq(Dev!Paths)
  BY <1>1 DEF SoloInv, Dev!StateTypes
<1>3. CASE call[t].mode = "unbind"
  BY <1>2, <1>3 DEF FileOK
<1>4. CASE call[t].mode = "revert"
  <2>1. ini[a] \in {before[t][a], Dev!Without(before[t][a], Dev!Target(t))}
    BY <1>2, <1>4 DEF FileOK, Dev!Target
  <2>2. Dev!Foreign(t, Dev!Without(before[t][a], Dev!Target(t))) = Dev!Foreign(t, before[t][a])
    BY <1>2, DistinctWithout DEF Dev!Foreign
  <2>3. QED
    BY <2>1, <2>2
<1>5. CASE call[t].mode \notin {"unbind", "revert"}
  <2>1. ini[a] = before[t][a]
    BY <1>2, <1>5 DEF FileOK, Guarded
  <2>2. QED
    BY <2>1
<1>6. QED
  BY <1>3, <1>4, <1>5

LEMMA SomeBindHoldsHolds ==
    ASSUME DevAssumption, DevInv
    PROVE  Dev!SomeBindHolds
<1> SUFFICES ASSUME NEW a \in Archs,
                    \A t \in Terminals : /\ where[t] = "ended" /\ ended[t] = "success"
                                         /\ call[t].mode = "bind" /\ ~call[t].dry /\ a \in call[t].archs
             PROVE  \E t \in Terminals : Dev!Target(t) \in Dev!Entries(ini[a])
  BY DEF Dev!SomeBindHolds
<1>1. \A t \in Terminals : Status(t, a) = "success"
  BY ExitSums
<1>2. SomeInv
  BY DEF DevInv
<1>3. QED
  BY <1>1, <1>2 DEF SomeInv

LEMMA DevInvHolds == Dev!Spec => []DevInv
<1>1. Dev!Init => DevInv
  BY AssumptionHolds, DevInvInit
<1>2. DevInv /\ [Dev!Next]_Dev!vars => DevInv'
  BY AssumptionHolds, DevNextKeeps
<1>3. QED
  BY <1>1, <1>2, PTL DEF Dev!Spec

-----------------------------------------------------------------------------
(* The properties that the runs check. *)

\* What the instance promises is what DevModePromises says.
LEMMA SamePromises ==
    /\ Dev!ReportedIsSo <=> ReportedIsSo
    /\ Dev!OutcomesCovered <=> OutcomesCovered
    /\ Dev!ForeignSpared <=> ForeignSpared
    /\ Dev!SomeBindHolds <=> SomeBindHolds
<1>1. Dev!StateTypes <=> StateTypes
  BY SameWords, Zenon DEF Dev!StateTypes, StateTypes, Dev!CallPlaces, CallPlaces,
     Dev!Running, Running, Dev!Edits, Edits, Dev!Statuses, Statuses, Dev!Outcomes, Outcomes
<1>2. Dev!ReportedIsSo <=> ReportedIsSo
  BY <1>1, SameWords, Zenon DEF Dev!ReportedIsSo, ReportedIsSo, Dev!ToldDone, ToldDone,
     Dev!Succeeded, Succeeded
<1>3. Dev!OutcomesCovered <=> OutcomesCovered
  <2>1. \A p, q, r : /\ Dev!BindOutcomes(p, q, r) = BindOutcomes(p, q, r)
                     /\ Dev!UnbindOutcomes(p, q, r) = UnbindOutcomes(p, q, r)
    BY Zenon DEF Dev!BindOutcomes, BindOutcomes, Dev!UnbindOutcomes, UnbindOutcomes
  <2>2. QED
    BY <2>1, SameWords, Zenon DEF Dev!OutcomesCovered, OutcomesCovered
<1>4. Dev!ForeignSpared <=> ForeignSpared
  BY SameWords, Zenon DEF Dev!ForeignSpared, ForeignSpared, Dev!Foreign, Foreign
<1>5. Dev!SomeBindHolds <=> SomeBindHolds
  BY SameWords, Zenon DEF Dev!SomeBindHolds, SomeBindHolds
<1>6. QED
  BY <1>2, <1>3, <1>4, <1>5

\* Every variable keeps its type, and what a call that nobody interfered with
\* reports is so (BindDevelopmentMode.ps1): a successful bind is in LabVIEW.ini,
\* alone unless it changed nothing, without packed libraries in the checkout; a
\* successful unbind is not in it.
THEOREM ReportsAreSo == Dev!Spec => []ReportedIsSo
<1>1. DevInv => ReportedIsSo
  BY AssumptionHolds, ReportedIsSoHolds, SamePromises
<1>2. QED
  BY <1>1, DevInvHolds, PTL

\* A forced bind or a revert of a file of at most one entry comes to one of the
\* outcomes that the pipeline counts on (BindOutcomes and UnbindOutcomes).
THEOREM PipelineOutcomesCovered == Dev!Spec => []OutcomesCovered
<1>1. DevInv => OutcomesCovered
  BY AssumptionHolds, OutcomesCoveredHolds, SamePromises
<1>2. QED
  BY <1>1, DevInvHolds, PTL

\* An unforced unbind, and an unforced call that may not fix and meets the token
\* of another repository first, leaves the other repositories named in LabVIEW.ini
\* in place and in order, also when it stops half-way.
THEOREM OthersAreSpared == Dev!Spec => []ForeignSpared
<1>1. DevInv => ForeignSpared
  BY AssumptionHolds, ForeignSparedHolds, SamePromises
<1>2. QED
  BY <1>1, DevInvHolds, PTL

\* However binds overlap: if all the last calls were binds that exited with zero,
\* each file they all edited names the checkout of one of them.
THEOREM ABindHolds == Dev!Spec => []SomeBindHolds
<1>1. DevInv => SomeBindHolds
  BY AssumptionHolds, SomeBindHoldsHolds, SamePromises
<1>2. QED
  BY <1>1, DevInvHolds, PTL

-----------------------------------------------------------------------------
(***************************************************************************)
(* The pipeline                                                             *)
(***************************************************************************)

USE NamesAssumption, CloneAssumption, OptionsAssumption

-----------------------------------------------------------------------------
(***************************************************************************)
(* Types                                                                    *)
(***************************************************************************)

\* A step of one run keeps every program counter at a place.
LEMMA GotoType ==
    ASSUME pc \in [Runs -> Places], NEW r \in Runs, NEW place \in Places, Goto(r, place)
    PROVE  pc' \in [Runs -> Places]
BY DEF Goto

\* Recording a phase keeps the results well typed, and a phase that affects the
\* outcome leaves the run going only if it succeeded.
LEMMA RecordType ==
    ASSUME TypeOK, NEW r \in Runs, NEW status \in {"success", "skip", "fail"},
           NEW affects \in BOOLEAN, Record(r, status, affects)
    PROVE  /\ ok' \in [Runs -> BOOLEAN]
           /\ clean' \in [Runs -> BOOLEAN]
           /\ affects /\ ok'[r] => status = "success"
           /\ ok'[r] => ok[r]
BY DEF TypeOK, Record

\* The dev-mode scripts leave a token, and Unbind a well typed result.
LEMMA UnbindType ==
    ASSUME TypeOK, NEW r \in Runs, NEW target \in Checkouts, NEW affects \in BOOLEAN,
           Unbind(r, target, affects)
    PROVE  /\ ok' \in [Runs -> BOOLEAN]
           /\ clean' \in [Runs -> BOOLEAN]
           /\ token' \in {token, NoToken}
           /\ token' \in Tokens
           /\ left' \in SUBSET Runs
           /\ left \subseteq left'
           /\ target \in {r, Extract} /\ token' = target => r \in left'
<1>1. PICK res \in UnbindResults(target) :
          Record(r, res.status, affects) /\ token' = res.token /\ NoteLeft(r, target, res.token)
  BY DEF Unbind
<1>2. res.status \in {"success", "skip", "fail"} /\ res.token \in {token, NoToken}
  BY DEF UnbindResults, UnbindOutcomes
<1>3. /\ ok' \in [Runs -> BOOLEAN]
      /\ clean' \in [Runs -> BOOLEAN]
  BY <1>1, <1>2, RecordType
<1>4. token' \in {token, NoToken} /\ token' \in Tokens
  BY <1>1, <1>2 DEF TypeOK, Tokens
<1>5. /\ left' \in SUBSET Runs
      /\ left \subseteq left'
      /\ target \in {r, Extract} /\ token' = target => r \in left'
  BY <1>1 DEF NoteLeft, TypeOK
<1>6. QED
  BY <1>3, <1>4, <1>5

LEMMA CloseType ==
    ASSUME TypeOK, NEW r \in Runs, Close(r)
    PROVE  /\ ok' \in [Runs -> BOOLEAN]
           /\ clean' \in [Runs -> BOOLEAN]
<1>1. PICK status \in {"success", "skip", "fail"} : Record(r, status, FALSE)
  BY DEF Close
<1>2. QED
  BY <1>1, RecordType

LEMMA BindTokens ==
    ASSUME TypeOK, NEW target \in Checkouts, NEW res \in BindResults(target)
    PROVE  /\ res.status \in {"success", "skip", "fail"}
           /\ res.token \in {token, NoToken, target}
           /\ res.token \in Tokens
           /\ res.status = "success" => res.token = target
BY DEF BindResults, BindOutcomes, TypeOK, Tokens

LEMMA CheckoutsOf ==
    ASSUME NEW r \in Runs
    PROVE  r \in Checkouts /\ Extract \in Checkouts /\ CloneOf[r] \in Checkouts
           /\ CloneOf[r] # r /\ CloneOf[r] # Extract /\ Extract # r /\ CloneOf[r] \in Clones
BY DEF Checkouts

LEMMA ZipType ==
    ASSUME TypeOK, NEW r \in Runs
    PROVE  /\ Zip(r) \in Runs \cup {Shared}
           /\ zip[Zip(r)] \in Writers
           /\ Zip(r) = Shared \/ Zip(r) = r
           /\ ~opts[r].sharedZip => Zip(r) = r
BY DEF Zip, TypeOK

\* Begin and the lock keep every type.
LEMMA EnterType ==
    ASSUME TypeOK, NEW r \in Runs,
           Begin(r) \/ Acquire(r) \/ AcquireFails(r) \/ ChecksPass(r) \/ ChecksFail(r)
    PROVE  TypeOK'
<1>1. PICK place \in {"acquire", "fail", "checks", "unbind-current"} : Goto(r, place)
  BY DEF Begin, Acquire, AcquireFails, ChecksPass, ChecksFail
<1>2. place \in Places
  BY DEF Places, Locked, ToolPhases
<1>3. pc' \in [Runs -> Places]
  BY <1>1, <1>2, GotoType DEF TypeOK
<1>4. lock' \in [Clones -> Writers]
  BY DEF TypeOK, Begin, Acquire, AcquireFails, ChecksPass, ChecksFail, Writers
<1>5. overlap' \in BOOLEAN
  BY DEF TypeOK, Begin, Acquire, AcquireFails, ChecksPass, ChecksFail, OthersAtWork, steady
<1>6. UNCHANGED <<opts, orphan, ok, clean, repoBound, extractedBound, thrown, created,
                  token, left, dir, sdFrom, zip, extract, plugins, pplFrom, out>>
  BY DEF Begin, Acquire, AcquireFails, ChecksPass, ChecksFail, steady, outcome, bound,
         bindings, data
<1>7. QED
  BY <1>3, <1>4, <1>5, <1>6 DEF TypeOK

\* The steps inside the locked section.
Phase(r) ==
    \/ Pipeline(r) \/ FinalClose(r) \/ FinalUnbindExtracted(r) \/ FinalUnbindRepo(r)
    \/ Throw(r)

\* The phases, and the finally block up to the release of the lock, keep every type.
LEMMA PhaseType ==
    ASSUME TypeOK, NEW r \in Runs, Phase(r)
    PROVE  TypeOK'
<1>1. ASSUME UnbindCurrent(r) PROVE TypeOK'
  <2>1. PICK place \in {"worktree-check", "dispose"} : Goto(r, place)
    BY <1>1 DEF UnbindCurrent
  <2>2. pc' \in [Runs -> Places]
    BY <2>1, GotoType DEF TypeOK, Places, Locked, ToolPhases, After
  <2>3. Unbind(r, CloneOf[r], TRUE)
    BY <1>1 DEF UnbindCurrent
  <2>4. /\ ok' \in [Runs -> BOOLEAN]
        /\ clean' \in [Runs -> BOOLEAN]
        /\ token' \in Tokens
        /\ left' \in SUBSET Runs
    BY <2>3, UnbindType, CheckoutsOf DEF TypeOK
  <2>5. UNCHANGED <<opts, repoBound, extractedBound, thrown, created, orphan, lock, dir,
                   sdFrom, zip, extract, plugins, pplFrom, out, overlap>>
    BY <1>1 DEF UnbindCurrent, steady, bound, data
  <2>6. QED
    BY <2>2, <2>4, <2>5 DEF TypeOK
<1>2. ASSUME WorktreeCheck(r) PROVE TypeOK'
  <2>1. PICK place \in {"worktree-add"} : Goto(r, place)
    BY <1>2 DEF WorktreeCheck
  <2>2. pc' \in [Runs -> Places]
    BY <2>1, GotoType DEF TypeOK, Places, Locked, ToolPhases, After
  <2>3. (\E status \in {"success", "skip", "fail"} : Record(r, status, TRUE)) \/ UNCHANGED <<ok, clean>>
    BY <1>2 DEF WorktreeCheck, outcome
  <2>4. ok \in [Runs -> BOOLEAN] /\ clean \in [Runs -> BOOLEAN]
    BY DEF TypeOK
  <2>5. /\ ok' \in [Runs -> BOOLEAN]
        /\ clean' \in [Runs -> BOOLEAN]
    BY <2>3, <2>4, RecordType
  <2>6. dir \in [Runs -> {"absent", "leftover", "worktree"}]
    BY DEF TypeOK
  <2>7. dir' \in [Runs -> {"absent", "leftover", "worktree"}]
    BY <1>2, <2>6 DEF WorktreeCheck
  <2>8. UNCHANGED <<opts, repoBound, extractedBound, thrown, created, orphan, lock,
                   token, sdFrom, zip, extract, plugins, pplFrom, out, overlap, left>>
    BY <1>2 DEF WorktreeCheck, steady, bound, bindings, data
  <2>9. QED
    BY <2>2, <2>5, <2>7, <2>8 DEF TypeOK
<1>3. ASSUME WorktreeAdd(r) PROVE TypeOK'
  <2>1. PICK place \in {"bind-repo", "dispose"} : Goto(r, place)
    BY <1>3 DEF WorktreeAdd
  <2>2. pc' \in [Runs -> Places]
    BY <2>1, GotoType DEF TypeOK, Places, Locked, ToolPhases, After
  <2>3. (\E status \in {"success", "skip", "fail"} : Record(r, status, TRUE))
    BY <1>3 DEF WorktreeAdd
  <2>4. /\ ok' \in [Runs -> BOOLEAN]
        /\ clean' \in [Runs -> BOOLEAN]
    BY <2>3, RecordType
  <2>5. /\ dir' \in [Runs -> {"absent", "leftover", "worktree"}]
        /\ created' \in [Runs -> BOOLEAN]
    BY <1>3 DEF WorktreeAdd, TypeOK
  <2>6. UNCHANGED <<opts, repoBound, extractedBound, thrown, orphan, lock, token,
                   sdFrom, zip, extract, plugins, pplFrom, out, overlap, left>>
    BY <1>3 DEF WorktreeAdd, steady, bound, bindings, data
  <2>7. QED
    BY <2>2, <2>4, <2>5, <2>6 DEF TypeOK
<1>4. ASSUME BindRepo(r) PROVE TypeOK'
  <2>1. PICK place \in {"build-sd", "dispose"} : Goto(r, place)
    BY <1>4 DEF BindRepo
  <2>2. pc' \in [Runs -> Places]
    BY <2>1, GotoType DEF TypeOK, Places, Locked, ToolPhases, After
  <2>3. PICK res \in BindResults(r) :
            Record(r, res.status, TRUE) /\ token' = res.token
    BY <1>4 DEF BindRepo
  <2>4. res.status \in {"success", "skip", "fail"} /\ res.token \in Tokens
    BY BindTokens, CheckoutsOf
  <2>5. /\ ok' \in [Runs -> BOOLEAN]
        /\ clean' \in [Runs -> BOOLEAN]
    BY <2>3, <2>4, RecordType
  <2>6. token' \in Tokens
    BY <2>3, <2>4
  <2>7. repoBound' \in [Runs -> BOOLEAN] /\ left' \in SUBSET Runs
    BY <1>4 DEF BindRepo, TypeOK
  <2>8. UNCHANGED <<opts, extractedBound, thrown, created, orphan, lock, dir, sdFrom,
                   zip, extract, plugins, pplFrom, out, overlap>>
    BY <1>4 DEF BindRepo, steady, bound, data
  <2>9. QED
    BY <2>2, <2>5, <2>6, <2>7, <2>8 DEF TypeOK
<1>5. ASSUME BuildSd(r) PROVE TypeOK'
  <2>1. PICK place \in {"close-sd", "unbind-repo"} : Goto(r, place)
    BY <1>5 DEF BuildSd
  <2>2. pc' \in [Runs -> Places]
    BY <2>1, GotoType DEF TypeOK, Places, Locked, ToolPhases, After
  <2>3. (\E status \in {"success", "skip", "fail"} : Record(r, status, TRUE))
    BY <1>5 DEF BuildSd
  <2>4. /\ ok' \in [Runs -> BOOLEAN]
        /\ clean' \in [Runs -> BOOLEAN]
    BY <2>3, RecordType
  <2>5. sdFrom \in [Runs -> Tokens \cup {NoRun}] /\ token \in Tokens
    BY DEF TypeOK
  <2>6. sdFrom' \in [Runs -> Tokens \cup {NoRun}]
    BY <1>5, <2>5 DEF BuildSd
  <2>7. UNCHANGED <<opts, repoBound, extractedBound, thrown, created, orphan, lock,
                   token, dir, zip, extract, plugins, pplFrom, out, overlap, left>>
    BY <1>5 DEF BuildSd, steady, bound, bindings, data
  <2>8. QED
    BY <2>2, <2>4, <2>6, <2>7 DEF TypeOK
<1>6. ASSUME CloseAfterSd(r) PROVE TypeOK'
  <2>1. PICK place \in {"unbind-repo"} : Goto(r, place)
    BY <1>6 DEF CloseAfterSd
  <2>2. pc' \in [Runs -> Places]
    BY <2>1, GotoType DEF TypeOK, Places, Locked, ToolPhases, After
  <2>3. /\ ok' \in [Runs -> BOOLEAN]
        /\ clean' \in [Runs -> BOOLEAN]
    BY <1>6, CloseType DEF CloseAfterSd
  <2>4. UNCHANGED <<opts, repoBound, extractedBound, thrown, created, orphan, lock,
                   token, dir, sdFrom, zip, extract, plugins, pplFrom, out, overlap,
                   left>>
    BY <1>6 DEF CloseAfterSd, steady, bound, bindings, data
  <2>5. QED
    BY <2>2, <2>3, <2>4 DEF TypeOK
<1>7. ASSUME UnbindRepo(r) PROVE TypeOK'
  <2>1. PICK place \in {"bundle", "dispose"} : Goto(r, place)
    BY <1>7 DEF UnbindRepo
  <2>2. pc' \in [Runs -> Places]
    BY <2>1, GotoType DEF TypeOK, Places, Locked, ToolPhases, After
  <2>3. Unbind(r, r, ok[r])
    BY <1>7 DEF UnbindRepo
  <2>4. /\ ok' \in [Runs -> BOOLEAN]
        /\ clean' \in [Runs -> BOOLEAN]
        /\ token' \in Tokens
        /\ left' \in SUBSET Runs
    BY <2>3, UnbindType, CheckoutsOf DEF TypeOK
  <2>5. repoBound' \in [Runs -> BOOLEAN]
    BY <1>7 DEF UnbindRepo, TypeOK
  <2>6. UNCHANGED <<opts, extractedBound, thrown, created, orphan, lock, dir, sdFrom,
                   zip, extract, plugins, pplFrom, out, overlap>>
    BY <1>7 DEF UnbindRepo, steady, bound, data
  <2>7. QED
    BY <2>2, <2>4, <2>5, <2>6 DEF TypeOK
<1>8. ASSUME Bundle(r) PROVE TypeOK'
  <2>1. PICK place \in {"extract", "dispose"} : Goto(r, place)
    BY <1>8 DEF Bundle
  <2>2. pc' \in [Runs -> Places]
    BY <2>1, GotoType DEF TypeOK, Places, Locked, ToolPhases, After
  <2>3. /\ ok' \in [Runs -> BOOLEAN]
        /\ clean' \in [Runs -> BOOLEAN]
    BY <1>8 DEF Bundle, TypeOK
  <2>4. zip' \in [Runs \cup {Shared} -> Writers]
    BY <1>8, ZipType DEF Bundle, TypeOK, Writers
  <2>5. UNCHANGED <<opts, repoBound, extractedBound, thrown, created, orphan, lock,
                   token, dir, sdFrom, extract, plugins, pplFrom, out, overlap, left>>
    BY <1>8 DEF Bundle, steady, bound, bindings, data
  <2>6. QED
    BY <2>2, <2>3, <2>4, <2>5 DEF TypeOK
<1>9. ASSUME ExtractZip(r) PROVE TypeOK'
  <2>1. PICK place \in {"bind-extracted", "dispose"} : Goto(r, place)
    BY <1>9 DEF ExtractZip
  <2>2. pc' \in [Runs -> Places]
    BY <2>1, GotoType DEF TypeOK, Places, Locked, ToolPhases, After
  <2>3. (\E status \in {"success", "skip", "fail"} : Record(r, status, TRUE))
    BY <1>9 DEF ExtractZip
  <2>4. /\ ok' \in [Runs -> BOOLEAN]
        /\ clean' \in [Runs -> BOOLEAN]
    BY <2>3, RecordType
  <2>5. extract \in Writers
    BY DEF TypeOK
  <2>6. extract' \in Writers
    BY <1>9, ZipType, <2>5 DEF ExtractZip, Writers
  <2>7. plugins' \in [Runs \cup {Extract} -> Writers]
    BY <1>9 DEF ExtractZip, TypeOK, Writers
  <2>8. UNCHANGED <<opts, repoBound, extractedBound, thrown, created, orphan, lock,
                   token, dir, sdFrom, zip, pplFrom, out, overlap, left>>
    BY <1>9 DEF ExtractZip, steady, bound, bindings, data
  <2>9. QED
    BY <2>2, <2>4, <2>6, <2>7, <2>8 DEF TypeOK
<1>10. ASSUME BindExtracted(r) PROVE TypeOK'
  <2>1. PICK place \in {"build-ppl", "dispose"} : Goto(r, place)
    BY <1>10 DEF BindExtracted
  <2>2. pc' \in [Runs -> Places]
    BY <2>1, GotoType DEF TypeOK, Places, Locked, ToolPhases, After
  <2>3. PICK res \in BindResults(Extract) :
            Record(r, res.status, TRUE) /\ token' = res.token
    BY <1>10 DEF BindExtracted
  <2>4. res.status \in {"success", "skip", "fail"} /\ res.token \in Tokens
    BY BindTokens, CheckoutsOf
  <2>5. /\ ok' \in [Runs -> BOOLEAN]
        /\ clean' \in [Runs -> BOOLEAN]
    BY <2>3, <2>4, RecordType
  <2>6. token' \in Tokens
    BY <2>3, <2>4
  <2>7. extractedBound' \in [Runs -> BOOLEAN] /\ left' \in SUBSET Runs
    BY <1>10 DEF BindExtracted, TypeOK
  <2>8. UNCHANGED <<opts, repoBound, thrown, created, orphan, lock, dir, sdFrom, zip,
                   extract, plugins, pplFrom, out, overlap>>
    BY <1>10 DEF BindExtracted, steady, bound, data
  <2>9. QED
    BY <2>2, <2>5, <2>6, <2>7, <2>8 DEF TypeOK
<1>11. ASSUME BuildPpl(r) PROVE TypeOK'
  <2>1. PICK place \in {"close-ppl"} : Goto(r, place)
    BY <1>11 DEF BuildPpl
  <2>2. pc' \in [Runs -> Places]
    BY <2>1, GotoType DEF TypeOK, Places, Locked, ToolPhases, After
  <2>3. (\E status \in {"success", "skip", "fail"} : Record(r, status, TRUE))
    BY <1>11 DEF BuildPpl
  <2>4. /\ ok' \in [Runs -> BOOLEAN]
        /\ clean' \in [Runs -> BOOLEAN]
    BY <2>3, RecordType
  <2>5. plugins \in [Runs \cup {Extract} -> Writers]
    BY DEF TypeOK
  <2>6. plugins' \in [Runs \cup {Extract} -> Writers]
    BY <1>11, <2>5 DEF BuildPpl, Writers
  <2>7. pplFrom \in [Runs -> Writers] /\ extract \in Writers
    BY DEF TypeOK
  <2>8. pplFrom' \in [Runs -> Writers]
    BY <1>11, <2>7 DEF BuildPpl
  <2>9. UNCHANGED <<opts, repoBound, extractedBound, thrown, created, orphan, lock,
                   token, dir, sdFrom, zip, extract, out, overlap, left>>
    BY <1>11 DEF BuildPpl, steady, bound, bindings, data
  <2>10. QED
    BY <2>2, <2>4, <2>6, <2>8, <2>9 DEF TypeOK
<1>12. ASSUME CloseAfterPpl(r) PROVE TypeOK'
  <2>1. PICK place \in {"unbind-extracted"} : Goto(r, place)
    BY <1>12 DEF CloseAfterPpl
  <2>2. pc' \in [Runs -> Places]
    BY <2>1, GotoType DEF TypeOK, Places, Locked, ToolPhases, After
  <2>3. /\ ok' \in [Runs -> BOOLEAN]
        /\ clean' \in [Runs -> BOOLEAN]
    BY <1>12, CloseType DEF CloseAfterPpl
  <2>4. UNCHANGED <<opts, repoBound, extractedBound, thrown, created, orphan, lock,
                   token, dir, sdFrom, zip, extract, plugins, pplFrom, out, overlap,
                   left>>
    BY <1>12 DEF CloseAfterPpl, steady, bound, bindings, data
  <2>5. QED
    BY <2>2, <2>3, <2>4 DEF TypeOK
<1>13. ASSUME UnbindExtracted(r) PROVE TypeOK'
  <2>1. PICK place \in {"dispose"} : Goto(r, place)
    BY <1>13 DEF UnbindExtracted
  <2>2. pc' \in [Runs -> Places]
    BY <2>1, GotoType DEF TypeOK, Places, Locked, ToolPhases, After
  <2>3. Unbind(r, Extract, ok[r])
    BY <1>13 DEF UnbindExtracted
  <2>4. /\ ok' \in [Runs -> BOOLEAN]
        /\ clean' \in [Runs -> BOOLEAN]
        /\ token' \in Tokens
        /\ left' \in SUBSET Runs
    BY <2>3, UnbindType, CheckoutsOf DEF TypeOK
  <2>5. extractedBound' \in [Runs -> BOOLEAN]
    BY <1>13 DEF UnbindExtracted, TypeOK
  <2>6. UNCHANGED <<opts, repoBound, thrown, created, orphan, lock, dir, sdFrom, zip,
                   extract, plugins, pplFrom, out, overlap>>
    BY <1>13 DEF UnbindExtracted, steady, bound, data
  <2>7. QED
    BY <2>2, <2>4, <2>5, <2>6 DEF TypeOK
<1>14. ASSUME FinalUnbindExtracted(r) PROVE TypeOK'
  <2>1. PICK place \in {"final-close-repo", "dispose"} : Goto(r, place)
    BY <1>14 DEF FinalUnbindExtracted, Finally
  <2>2. pc' \in [Runs -> Places]
    BY <2>1, GotoType DEF TypeOK, Places, Locked, ToolPhases, After
  <2>3. Unbind(r, Extract, FALSE)
    BY <1>14 DEF FinalUnbindExtracted
  <2>4. /\ ok' \in [Runs -> BOOLEAN]
        /\ clean' \in [Runs -> BOOLEAN]
        /\ token' \in Tokens
        /\ left' \in SUBSET Runs
    BY <2>3, UnbindType, CheckoutsOf DEF TypeOK
  <2>5. extractedBound' \in [Runs -> BOOLEAN]
    BY <1>14 DEF FinalUnbindExtracted, TypeOK
  <2>6. UNCHANGED <<opts, repoBound, thrown, created, orphan, lock, dir, sdFrom, zip,
                   extract, plugins, pplFrom, out, overlap>>
    BY <1>14 DEF FinalUnbindExtracted, steady, bound, data
  <2>7. QED
    BY <2>2, <2>4, <2>5, <2>6 DEF TypeOK
<1>15. ASSUME FinalUnbindRepo(r) PROVE TypeOK'
  <2>1. PICK place \in {"dispose"} : Goto(r, place)
    BY <1>15 DEF FinalUnbindRepo
  <2>2. pc' \in [Runs -> Places]
    BY <2>1, GotoType DEF TypeOK, Places, Locked, ToolPhases, After
  <2>3. Unbind(r, r, FALSE)
    BY <1>15 DEF FinalUnbindRepo
  <2>4. /\ ok' \in [Runs -> BOOLEAN]
        /\ clean' \in [Runs -> BOOLEAN]
        /\ token' \in Tokens
        /\ left' \in SUBSET Runs
    BY <2>3, UnbindType, CheckoutsOf DEF TypeOK
  <2>5. repoBound' \in [Runs -> BOOLEAN]
    BY <1>15 DEF FinalUnbindRepo, TypeOK
  <2>6. UNCHANGED <<opts, extractedBound, thrown, created, orphan, lock, dir, sdFrom,
                   zip, extract, plugins, pplFrom, out, overlap>>
    BY <1>15 DEF FinalUnbindRepo, steady, bound, data
  <2>7. QED
    BY <2>2, <2>4, <2>5, <2>6 DEF TypeOK
<1>16. ASSUME FinalClose(r) PROVE TypeOK'
  <2>1. PICK place \in {"final-unbind-extracted", "final-unbind-repo"} : Goto(r, place)
    BY <1>16 DEF FinalClose
  <2>2. pc' \in [Runs -> Places]
    BY <2>1, GotoType DEF TypeOK, Places, Locked, ToolPhases, After
  <2>3. /\ ok' \in [Runs -> BOOLEAN]
        /\ clean' \in [Runs -> BOOLEAN]
    BY <1>16, CloseType DEF FinalClose
  <2>4. UNCHANGED <<opts, repoBound, extractedBound, thrown, created, orphan, lock,
                   token, dir, sdFrom, zip, extract, plugins, pplFrom, out, overlap,
                   left>>
    BY <1>16 DEF FinalClose, steady, bound, bindings, data
  <2>5. QED
    BY <2>2, <2>3, <2>4 DEF TypeOK
<1>17. ASSUME Throw(r) PROVE TypeOK'
  <2>1. PICK place \in {"final-close-extracted", "final-close-repo", "dispose"} : Goto(r, place)
    BY <1>17 DEF Throw, Finally
  <2>2. pc' \in [Runs -> Places]
    BY <2>1, GotoType DEF TypeOK, Places, Locked, ToolPhases, After
  <2>3. thrown' \in [Runs -> BOOLEAN]
    BY <1>17 DEF Throw, TypeOK
  <2>4. UNCHANGED <<opts, ok, clean, repoBound, extractedBound, created, orphan, lock,
                   token, dir, sdFrom, zip, extract, plugins, pplFrom, out, overlap,
                   left>>
    BY <1>17 DEF Throw, steady, outcome, bound, bindings, data
  <2>5. QED
    BY <2>2, <2>3, <2>4 DEF TypeOK
<1>18. QED
  BY <1>1, <1>2, <1>3, <1>4, <1>5, <1>6, <1>7, <1>8, <1>9, <1>10, <1>11, <1>12, <1>13, <1>14, <1>15, <1>16, <1>17 DEF Phase, Pipeline

\* The release of the lock and everything after it keep every type.
LEMMA EpilogueType ==
    ASSUME TypeOK, NEW r \in Runs, Dispose(r) \/ Epilogue(r)
    PROVE  TypeOK'
<1>1. ASSUME Dispose(r) PROVE TypeOK'
  <2>1. PICK place \in {"exception", "copy-sd", "stash"} : Goto(r, place)
    BY <1>1 DEF Dispose
  <2>2. pc' \in [Runs -> Places]
    BY <2>1, GotoType DEF TypeOK, Places, After
  <2>3. lock' \in [Clones -> Writers]
    BY <1>1 DEF Dispose, TypeOK, Writers
  <2>4. UNCHANGED <<opts, orphan, overlap, ok, clean, repoBound, extractedBound, thrown,
                    created, token, left, dir, sdFrom, zip, extract, plugins, pplFrom,
                    out>>
    BY <1>1 DEF Dispose, steady, outcome, bound, bindings, data
  <2>5. QED
    BY <2>2, <2>3, <2>4 DEF TypeOK
<1>2. ASSUME NEW from, NEW to \in {"copy-artifacts", "copy-ppl", "stash"},
             NEW part \in {"sd", "zip", "ppl"}, NEW writer \in Writers,
             Copy(r, from, to, part, writer)
      PROVE  TypeOK'
  <2>1. PICK place \in {"copy-artifacts", "copy-ppl", "stash"} : Goto(r, place)
    BY <1>2 DEF Copy
  <2>2. pc' \in [Runs -> Places]
    BY <2>1, GotoType DEF TypeOK, Places, After
  <2>3. out \in [Clones -> [sd : Writers, zip : Writers, ppl : Writers]]
    BY DEF TypeOK
  <2>4. out' \in [Clones -> [sd : Writers, zip : Writers, ppl : Writers]]
    BY <1>2, <2>3 DEF Copy
  <2>5. UNCHANGED <<opts, orphan, overlap, ok, clean, repoBound, extractedBound, thrown,
                    created, lock, token, left, dir, sdFrom, zip, extract, plugins,
                    pplFrom>>
    BY <1>2 DEF Copy, steady, outcome, bound, bindings
  <2>6. QED
    BY <2>2, <2>4, <2>5 DEF TypeOK
<1>3. NoRun \in Writers /\ r \in Writers /\ zip[r] \in Writers /\ plugins[r] \in Writers
  BY DEF TypeOK, Writers
<1>4. ASSUME CopySd(r) \/ CopyArtifacts(r) \/ CopyPpl(r) PROVE TypeOK'
  BY <1>2, <1>3, <1>4 DEF CopySd, CopyArtifacts, CopyPpl
<1>5. ASSUME Stash(r) \/ Remove(r) PROVE TypeOK'
  <2>1. PICK place \in {"remove", "success", "fail"} : Goto(r, place)
    BY <1>5 DEF Stash, Remove
  <2>2. pc' \in [Runs -> Places]
    BY <2>1, GotoType DEF TypeOK, Places, After
  <2>3. dir \in [Runs -> {"absent", "leftover", "worktree"}]
    BY DEF TypeOK
  <2>4. dir' \in [Runs -> {"absent", "leftover", "worktree"}]
    BY <1>5, <2>3 DEF Stash, Remove, data
  <2>5. UNCHANGED <<opts, orphan, overlap, ok, clean, repoBound, extractedBound, thrown,
                    created, lock, token, left, sdFrom, zip, extract, plugins, pplFrom,
                    out>>
    BY <1>5 DEF Stash, Remove, steady, outcome, bound, bindings, data
  <2>6. QED
    BY <2>2, <2>4, <2>5 DEF TypeOK
<1>6. QED
  BY <1>1, <1>4, <1>5 DEF Epilogue

\* A bind or unbind that outlives its run leaves a token.
LEMMA OrphanTokenType ==
    ASSUME TypeOK, NEW r \in Runs, NEW t \in OrphanTokens(r)
    PROVE  /\ t \in Tokens
           /\ t \in {token, NoToken, Extract, r}
<1>1. token \in Tokens
  BY DEF TypeOK
<1>2. ASSUME NEW target \in Checkouts, NEW res \in UnbindResults(target)
      PROVE  res.token \in {token, NoToken}
  BY DEF UnbindResults, UnbindOutcomes
<1>3. CASE orphan[r] = "bind-repo"
  BY <1>3, BindTokens, CheckoutsOf DEF OrphanTokens
<1>4. CASE orphan[r] = "bind-extracted"
  BY <1>4, BindTokens, CheckoutsOf DEF OrphanTokens
<1>5. CASE orphan[r] \notin {"bind-repo", "bind-extracted"}
  <2>1. t \in {token, NoToken}
    BY <1>2, <1>5, CheckoutsOf DEF OrphanTokens
  <2>2. QED
    BY <1>1, <2>1 DEF Tokens
<1>6. QED
  BY <1>3, <1>4, <1>5

\* A killed run, and the tool that survives it, keep every type.
LEMMA KilledType ==
    ASSUME TypeOK, NEW r \in Runs, Crash(r) \/ OrphanEnds(r)
    PROVE  TypeOK'
<1>1. ASSUME Crash(r) PROVE TypeOK'
  <2>1. pc' \in [Runs -> Places]
    BY <1>1, GotoType DEF Crash, TypeOK, Places
  <2>2. lock' \in [Clones -> Writers]
    BY <1>1 DEF Crash, TypeOK, Writers
  <2>3. orphan \in [Runs -> ToolPhases \cup {"none"}]
    BY DEF TypeOK
  <2>4. orphan' \in [Runs -> ToolPhases \cup {"none"}]
    BY <1>1, <2>3 DEF Crash
  <2>5. UNCHANGED <<opts, overlap, ok, clean, repoBound, extractedBound, thrown, created,
                    token, left, dir, sdFrom, zip, extract, plugins, pplFrom, out>>
    BY <1>1 DEF Crash, outcome, bound, bindings, data
  <2>6. QED
    BY <2>1, <2>2, <2>4, <2>5 DEF TypeOK
<1>2. ASSUME OrphanEnds(r) PROVE TypeOK'
  <2>1. token' \in Tokens
    BY <1>2, OrphanTokenType DEF OrphanEnds
  <2>2. /\ orphan \in [Runs -> ToolPhases \cup {"none"}]
        /\ sdFrom \in [Runs -> Tokens \cup {NoRun}]
        /\ token \in Tokens
        /\ plugins \in [Runs \cup {Extract} -> Writers]
        /\ pplFrom \in [Runs -> Writers]
        /\ extract \in Writers
    BY DEF TypeOK
  <2>3. orphan' \in [Runs -> ToolPhases \cup {"none"}]
    BY <1>2, <2>2 DEF OrphanEnds
  <2>4. sdFrom' \in [Runs -> Tokens \cup {NoRun}]
    BY <1>2, <2>2 DEF OrphanEnds
  <2>5. plugins' \in [Runs \cup {Extract} -> Writers]
    BY <1>2, <2>2 DEF OrphanEnds, Writers
  <2>6. pplFrom' \in [Runs -> Writers]
    BY <1>2, <2>2 DEF OrphanEnds
  <2>7. UNCHANGED <<opts, pc, ok, clean, repoBound, extractedBound, thrown, created, lock,
                    dir, zip, extract, out, overlap, left>>
    BY <1>2 DEF OrphanEnds, outcome, bound
  <2>8. QED
    BY <2>1, <2>3, <2>4, <2>5, <2>6, <2>7 DEF TypeOK
<1>3. QED
  BY <1>1, <1>2

\* Next, by the part of the program that takes the step.
LEMMA StepOf ==
    ASSUME Next
    PROVE  \E r \in Runs :
               \/ Begin(r) \/ Acquire(r) \/ AcquireFails(r) \/ ChecksPass(r) \/ ChecksFail(r)
               \/ Phase(r)
               \/ Dispose(r) \/ Epilogue(r)
               \/ Crash(r) \/ OrphanEnds(r)
BY DEF Next, Process, FinallyBlock, Phase

\* Every variable keeps its type.
THEOREM TypeCorrect == Spec => []TypeOK
<1>1. Init => TypeOK
  <2> SUFFICES ASSUME Init PROVE TypeOK
    OBVIOUS
  <2>1. /\ pc \in [Runs -> Places]
        /\ orphan \in [Runs -> ToolPhases \cup {"none"}]
    BY DEF Init, Places
  <2>2. token \in Tokens /\ sdFrom \in [Runs -> Tokens \cup {NoRun}]
    BY DEF Init, Tokens, Checkouts
  <2>3. /\ lock \in [Clones -> Writers]
        /\ zip \in [Runs \cup {Shared} -> Writers]
        /\ extract \in Writers
        /\ plugins \in [Runs \cup {Extract} -> Writers]
        /\ pplFrom \in [Runs -> Writers]
        /\ out \in [Clones -> [sd : Writers, zip : Writers, ppl : Writers]]
    BY DEF Init, Writers
  <2>4. /\ ok \in [Runs -> BOOLEAN] /\ clean \in [Runs -> BOOLEAN]
        /\ repoBound \in [Runs -> BOOLEAN] /\ extractedBound \in [Runs -> BOOLEAN]
        /\ thrown \in [Runs -> BOOLEAN] /\ created \in [Runs -> BOOLEAN]
        /\ dir \in [Runs -> {"absent", "leftover", "worktree"}]
    BY DEF Init
  <2>5. opts \in [Runs -> Options] /\ overlap \in BOOLEAN /\ left \subseteq Runs
    BY DEF Init
  <2>6. QED
    BY <2>1, <2>2, <2>3, <2>4, <2>5 DEF TypeOK
<1>2. TypeOK /\ [Next]_vars => TypeOK'
  <2> SUFFICES ASSUME TypeOK, [Next]_vars PROVE TypeOK'
    OBVIOUS
  <2>1. CASE Next
    BY <2>1, StepOf, EnterType, PhaseType, EpilogueType, KilledType
  <2>2. CASE UNCHANGED vars
    BY <2>2 DEF vars, TypeOK
  <2>3. QED
    BY <2>1, <2>2
<1>3. QED
  BY <1>1, <1>2, PTL DEF Spec

-----------------------------------------------------------------------------
(***************************************************************************)
(* The lock                                                                 *)
(***************************************************************************)

\* A phase starts and ends inside the locked section, and moves nobody else.
LEMMA PhaseStays ==
    ASSUME TypeOK, NEW r \in Runs, Phase(r)
    PROVE  /\ pc[r] \in Locked
           /\ pc'[r] \in Locked
           /\ \A s \in Runs \ {r} : pc'[s] = pc[s]
           /\ UNCHANGED <<opts, orphan, overlap, lock, out>>
<1>1. pc \in [Runs -> Places]
  BY DEF TypeOK
<1>2. ASSUME Pipeline(r) PROVE pc[r] \in ToolPhases \cup {"worktree-check", "worktree-add",
                                                           "bundle", "extract"}
  BY <1>2 DEF Pipeline, UnbindCurrent, WorktreeCheck, WorktreeAdd, BindRepo, BuildSd,
     CloseAfterSd, UnbindRepo, Bundle, ExtractZip, BindExtracted, BuildPpl, CloseAfterPpl,
     UnbindExtracted, ToolPhases
<1>3. ASSUME Pipeline(r)
      PROVE  \E place \in Locked : Goto(r, place)
  BY <1>3 DEF Pipeline, UnbindCurrent, WorktreeCheck, WorktreeAdd, BindRepo, BuildSd,
     CloseAfterSd, UnbindRepo, Bundle, ExtractZip, BindExtracted, BuildPpl, CloseAfterPpl,
     UnbindExtracted, Locked, ToolPhases
<1>4. ASSUME FinalClose(r) \/ FinalUnbindExtracted(r) \/ FinalUnbindRepo(r) \/ Throw(r)
      PROVE  pc[r] \in Locked /\ \E place \in Locked : Goto(r, place)
  BY <1>4 DEF FinalClose, FinalUnbindExtracted, FinalUnbindRepo, Throw, Finally, Locked,
     ToolPhases
<1>5. pc[r] \in Locked /\ \E place \in Locked : Goto(r, place)
  BY <1>2, <1>3, <1>4 DEF Phase, Locked
<1>6. UNCHANGED <<opts, orphan, overlap, lock, out>>
  BY DEF Phase, Pipeline, UnbindCurrent, WorktreeCheck, WorktreeAdd, BindRepo, BuildSd,
     CloseAfterSd, UnbindRepo, Bundle, ExtractZip, BindExtracted, BuildPpl, CloseAfterPpl,
     UnbindExtracted, FinalClose, FinalUnbindExtracted, FinalUnbindRepo, Throw, steady, data
<1>7. QED
  BY <1>1, <1>5, <1>6 DEF Goto

\* What comes after the lock moves nobody else, and nobody back into the section.
LEMMA EpilogueStays ==
    ASSUME TypeOK, NEW r \in Runs, Epilogue(r)
    PROVE  /\ pc[r] \in After
           /\ pc'[r] \in After \cup {"success", "fail"}
           /\ \A s \in Runs \ {r} : pc'[s] = pc[s]
           /\ UNCHANGED <<opts, orphan, overlap, lock, token, ok, clean, repoBound,
                          extractedBound, left, sdFrom, zip, extract, pplFrom>>
<1>1. pc \in [Runs -> Places]
  BY DEF TypeOK
<1>2. pc[r] \in After /\ \E place \in After \cup {"success", "fail"} : Goto(r, place)
  BY DEF Epilogue, CopySd, CopyArtifacts, CopyPpl, Copy, Stash, Remove, After
<1>3. UNCHANGED <<opts, orphan, overlap, lock, token, ok, clean, repoBound,
                  extractedBound, left, sdFrom, zip, extract, pplFrom>>
  BY DEF Epilogue, CopySd, CopyArtifacts, CopyPpl, Copy, Stash, Remove, steady, outcome,
     bound, bindings, data
<1>4. QED
  BY <1>1, <1>2, <1>3 DEF Goto

\* The places inside and outside the locked section.
LEMMA OutsidePlaces ==
    \A place \in After \cup {"idle", "acquire", "success", "fail", "exception", "crashed"} :
        place \notin Locked
BY DEF After, Locked, ToolPhases

\* The effect of the remaining steps of r on the lock.
LEMMA LockSteps ==
    ASSUME TypeOK, NEW r \in Runs
    PROVE  /\ Begin(r) \/ AcquireFails(r) =>
                  pc[r] \notin Locked /\ pc'[r] \notin Locked /\ lock' = lock
           /\ ChecksPass(r) => pc[r] \in Locked /\ pc'[r] \in Locked /\ lock' = lock
           /\ Acquire(r) => /\ pc[r] \notin Locked /\ pc'[r] \in Locked
                            /\ lock[CloneOf[r]] = NoRun
                            /\ lock' = [lock EXCEPT ![CloneOf[r]] = r]
           /\ ChecksFail(r) \/ Dispose(r) =>
                  /\ pc[r] \in Locked /\ pc'[r] \notin Locked
                  /\ lock' = [lock EXCEPT ![CloneOf[r]] = NoRun]
           /\ Crash(r) => pc'[r] \notin Locked
           /\ Begin(r) \/ AcquireFails(r) \/ ChecksPass(r) \/ Acquire(r) \/ ChecksFail(r)
              \/ Dispose(r) \/ Crash(r) => \A s \in Runs \ {r} : pc'[s] = pc[s]
<1>1. pc \in [Runs -> Places]
  BY DEF TypeOK
<1>2. Begin(r) \/ AcquireFails(r) =>
          pc[r] \notin Locked /\ pc'[r] \notin Locked /\ lock' = lock
  BY <1>1 DEF Begin, AcquireFails, Goto, Locked, ToolPhases
<1>3. ChecksPass(r) => pc[r] \in Locked /\ pc'[r] \in Locked /\ lock' = lock
  BY <1>1 DEF ChecksPass, Goto, Locked, ToolPhases
<1>4. Acquire(r) => /\ pc[r] \notin Locked /\ pc'[r] \in Locked
                    /\ lock[CloneOf[r]] = NoRun
                    /\ lock' = [lock EXCEPT ![CloneOf[r]] = r]
  BY <1>1 DEF Acquire, Goto, Locked, ToolPhases
<1>5. ChecksFail(r) \/ Dispose(r) =>
          /\ pc[r] \in Locked /\ pc'[r] \notin Locked
          /\ lock' = [lock EXCEPT ![CloneOf[r]] = NoRun]
  BY <1>1 DEF ChecksFail, Dispose, Goto, Locked, ToolPhases
<1>6. Crash(r) => pc'[r] \notin Locked
  BY <1>1 DEF Crash, Goto, Locked, ToolPhases
<1>7. Begin(r) \/ AcquireFails(r) \/ ChecksPass(r) \/ Acquire(r) \/ ChecksFail(r)
      \/ Dispose(r) \/ Crash(r) => \A s \in Runs \ {r} : pc'[s] = pc[s]
  BY <1>1 DEF Begin, AcquireFails, ChecksPass, Acquire, ChecksFail, Dispose, Crash, Goto
<1>8. QED
  BY <1>2, <1>3, <1>4, <1>5, <1>6, <1>7

\* A step keeps the lock and the locked sections in agreement.
LEMMA LockStep ==
    ASSUME TypeOK, LockExcludes, [Next]_vars
    PROVE  LockExcludes'
<1> SUFFICES ASSUME NEW s \in Runs
             PROVE  pc'[s] \in Locked <=> lock'[CloneOf[s]] = s
  BY DEF LockExcludes
<1>1. /\ lock \in [Clones -> Writers]
      /\ CloneOf[s] \in Clones
      /\ NoRun # s
      /\ pc[s] \in Locked <=> lock[CloneOf[s]] = s
  BY DEF TypeOK, LockExcludes
<1>2. CASE UNCHANGED vars
  BY <1>1, <1>2 DEF vars
<1>3. ASSUME NEW r \in Runs,
             \/ Begin(r) \/ Acquire(r) \/ AcquireFails(r) \/ ChecksPass(r) \/ ChecksFail(r)
             \/ Phase(r)
             \/ Dispose(r) \/ Epilogue(r)
             \/ Crash(r) \/ OrphanEnds(r)
      PROVE  pc'[s] \in Locked <=> lock'[CloneOf[s]] = s
  <2>1. CloneOf[r] \in Clones /\ (pc[r] \in Locked <=> lock[CloneOf[r]] = r)
    BY DEF LockExcludes
  <2>2. CASE Begin(r) \/ AcquireFails(r) \/ ChecksPass(r)
    BY <1>1, <2>2, LockSteps
  <2>3. CASE Acquire(r)
    BY <1>1, <2>1, <2>3, LockSteps
  <2>4. CASE ChecksFail(r) \/ Dispose(r)
    BY <1>1, <2>1, <2>4, LockSteps
  <2>5. CASE Phase(r)
    BY <1>1, <2>5, PhaseStays
  <2>6. CASE Epilogue(r)
    BY <1>1, <2>6, EpilogueStays, OutsidePlaces
  <2>7. CASE Crash(r)
    <3>1. lock' = [c \in Clones |-> IF lock[c] = r THEN NoRun ELSE lock[c]]
      BY <2>7 DEF Crash
    <3>2. QED
      BY <1>1, <2>7, <3>1, LockSteps
  <2>8. CASE OrphanEnds(r)
    BY <1>1, <2>8 DEF OrphanEnds
  <2>9. QED
    BY <1>3, <2>2, <2>3, <2>4, <2>5, <2>6, <2>7, <2>8
<1>4. QED
  BY <1>2, <1>3, StepOf

\* A run is in the locked section exactly while it holds the lock of its clone.
THEOREM LockHolds == Spec => []LockExcludes
<1>1. Init => LockExcludes
  <2>1. \A r \in Runs : CloneOf[r] \in Clones /\ NoRun # r /\ "idle" \notin Locked
    BY OutsidePlaces
  <2>2. QED
    BY <2>1 DEF Init, LockExcludes
<1>2. TypeOK /\ LockExcludes /\ [Next]_vars => LockExcludes'
  BY LockStep
<1>3. QED
  BY <1>1, <1>2, TypeCorrect, PTL DEF Spec

-----------------------------------------------------------------------------
(***************************************************************************)
(* What a run builds from                                                   *)
(***************************************************************************)

\* r, or a tool it left behind, is at work.
Active(r) == pc[r] \in Locked \/ orphan[r] # "none"

\* r, or a tool it left behind, is in one of these phases.
In(r, phases) == pc[r] \in phases \/ orphan[r] \in phases

\* Without overlap only one run is at work; tools are left behind by killed runs.
Alone ==
    /\ \A r \in Runs : orphan[r] # "none" => pc[r] = "crashed"
    /\ ~overlap => \A r, s \in Runs : Active(r) /\ Active(s) => r = s

\* A zip in a worktree is its own run's, and the run has one before it extracts.
ZipOwn ==
    \A r \in Runs :
        /\ zip[r] \in {NoRun, r}
        /\ pc[r] = "extract" => zip[Zip(r)] # NoRun

\* What r builds from is its own.
InputsOf(r) ==
    /\ In(r, {"build-sd", "close-sd"}) => token = r
    /\ pc[r] \in {"build-ppl", "close-ppl"} => token = Extract
    /\ sdFrom[r] \in {NoRun, r}
    /\ ~opts[r].sharedZip /\ In(r, {"bind-extracted", "build-ppl"}) => extract = r
    /\ ~opts[r].sharedZip => pplFrom[r] \in {NoRun, r}

\* Strong enough to survive every step, unlike the two properties it implies.
BuildInv == ZipOwn /\ Alone /\ (~overlap => \A r \in Runs : InputsOf(r))

\* Killing r leaves its clone, and moves nobody else.
LEMMA CrashStays ==
    ASSUME TypeOK, NEW r \in Runs, Crash(r)
    PROVE  /\ pc'[r] = "crashed"
           /\ \A s \in Runs \ {r} : pc'[s] = pc[s] /\ orphan'[s] = orphan[s]
           /\ orphan'[r] # "none" => pc[r] \in Locked /\ orphan'[r] = pc[r]
           /\ UNCHANGED <<opts, overlap, token, sdFrom, zip, extract, pplFrom, out, clean>>
<1>1. pc \in [Runs -> Places] /\ orphan \in [Runs -> ToolPhases \cup {"none"}]
  BY DEF TypeOK
<1>2. pc'[r] = "crashed" /\ \A s \in Runs \ {r} : pc'[s] = pc[s]
  BY <1>1 DEF Crash, Goto
<1>3. PICK o \in {"none"} \cup ({pc[r]} \cap ToolPhases) : orphan' = [orphan EXCEPT ![r] = o]
  BY DEF Crash
<1>4. /\ \A s \in Runs \ {r} : orphan'[s] = orphan[s]
      /\ orphan'[r] # "none" => pc[r] \in Locked /\ orphan'[r] = pc[r]
  BY <1>1, <1>3 DEF Locked
<1>5. UNCHANGED <<opts, overlap, token, sdFrom, zip, extract, pplFrom, out, clean>>
  BY DEF Crash, bindings, data, outcome
<1>6. QED
  BY <1>2, <1>4, <1>5

\* The steps of r outside the phases, and what they leave alone.
LEMMA QuietSteps ==
    ASSUME TypeOK, NEW r \in Runs,
           \/ Begin(r) \/ Acquire(r) \/ AcquireFails(r) \/ ChecksPass(r) \/ ChecksFail(r)
           \/ Dispose(r) \/ Epilogue(r)
    PROVE  /\ pc[r] # "crashed"
           /\ pc'[r] \notin {"crashed", "extract", "bind-extracted", "build-sd", "close-sd",
                             "build-ppl", "close-ppl"}
           /\ \A s \in Runs \ {r} : pc'[s] = pc[s]
           /\ UNCHANGED <<opts, orphan, token, sdFrom, zip, extract, pplFrom>>
           /\ overlap => overlap'
<1>1. CASE Begin(r) \/ AcquireFails(r) \/ ChecksPass(r) \/ ChecksFail(r)
  BY <1>1 DEF TypeOK, Begin, AcquireFails, ChecksPass, ChecksFail, Goto, steady, bindings, data
<1>2. CASE Acquire(r)
  BY <1>2 DEF TypeOK, Acquire, Goto, bindings, data
<1>3. CASE Dispose(r)
  BY <1>3 DEF TypeOK, Dispose, Goto, steady, bindings, data
<1>4. CASE Epilogue(r)
  BY <1>4, EpilogueStays DEF After
<1>5. QED
  BY <1>1, <1>2, <1>3, <1>4

\* Only one run at a time is at work unless locks overlapped.
LEMMA AloneStep ==
    ASSUME TypeOK, LockExcludes, Alone, [Next]_vars
    PROVE  Alone'
<1>1. CASE UNCHANGED vars
  BY <1>1 DEF vars, Alone, Active
<1>2. ASSUME NEW r \in Runs,
             \/ Begin(r) \/ Acquire(r) \/ AcquireFails(r) \/ ChecksPass(r) \/ ChecksFail(r)
             \/ Phase(r)
             \/ Dispose(r) \/ Epilogue(r)
             \/ Crash(r) \/ OrphanEnds(r)
      PROVE  Alone'
  <2>1. CASE Begin(r) \/ AcquireFails(r) \/ ChecksPass(r) \/ ChecksFail(r) \/ Dispose(r)
             \/ Epilogue(r)
    <3>1. pc'[r] \in Locked => pc[r] \in Locked
      BY <2>1, LockSteps, EpilogueStays, OutsidePlaces
    <3>2. overlap' = overlap
      BY <2>1, EpilogueStays DEF Begin, AcquireFails, ChecksPass, ChecksFail, Dispose, steady
    <3>3. QED
      BY <2>1, <3>1, <3>2, QuietSteps DEF Alone, Active
  <2>2. CASE Acquire(r)
    <3>1. /\ overlap' = (overlap \/ OthersAtWork(r))
          /\ lock[CloneOf[r]] = NoRun
          /\ UNCHANGED orphan
          /\ pc[r] # "crashed"
          /\ \A s \in Runs \ {r} : pc'[s] = pc[s]
      BY <2>2, QuietSteps DEF Acquire
    <3>2. ASSUME ~overlap', NEW s \in Runs, Active(s)' PROVE s = r
      <4>1. \A c \in Clones : lock[c] = NoRun
        BY <3>1, <3>2 DEF OthersAtWork
      <4>2. orphan[s] = "none" /\ CloneOf[s] \in Clones /\ s # NoRun
        BY <3>1, <3>2 DEF OthersAtWork
      <4>3. QED
        BY <3>1, <3>2, <4>1, <4>2 DEF Active, LockExcludes
    <3>3. QED
      BY <3>1, <3>2 DEF Alone
  <2>3. CASE Phase(r)
    <3>1. pc[r] # "crashed"
      BY <2>3, PhaseStays, OutsidePlaces
    <3>2. QED
      BY <2>3, <3>1, PhaseStays DEF Alone, Active
  <2>4. CASE Crash(r)
    BY <2>4, CrashStays, OutsidePlaces DEF Alone, Active
  <2>5. CASE OrphanEnds(r)
    <3>1. UNCHANGED <<pc, overlap>> /\ orphan' = [orphan EXCEPT ![r] = "none"]
      BY <2>5 DEF OrphanEnds
    <3>2. orphan \in [Runs -> ToolPhases \cup {"none"}]
      BY DEF TypeOK
    <3>3. QED
      BY <3>1, <3>2 DEF Alone, Active
  <2>6. QED
    BY <1>2, <2>1, <2>2, <2>3, <2>4, <2>5
<1>3. QED
  BY <1>1, <1>2, StepOf

\* The phases that set the token, the distribution, the zip or the extracted tree.
LEMMA PhaseData ==
    ASSUME TypeOK, NEW r \in Runs, Phase(r)
    PROVE  /\ ~Bundle(r) => UNCHANGED zip /\ pc'[r] # "extract"
           /\ ~ExtractZip(r) => UNCHANGED extract /\ pc'[r] # "bind-extracted"
           /\ ~BindRepo(r) => pc'[r] # "build-sd"
           /\ ~BuildSd(r) => UNCHANGED sdFrom /\ pc'[r] # "close-sd"
           /\ ~BindExtracted(r) => pc'[r] # "build-ppl"
           /\ ~BuildPpl(r) => UNCHANGED pplFrom /\ pc'[r] # "close-ppl"
<1>1. pc \in [Runs -> Places]
  BY DEF TypeOK
<1>2. CASE UnbindCurrent(r) \/ WorktreeCheck(r) \/ WorktreeAdd(r)
  BY <1>1, <1>2 DEF UnbindCurrent, WorktreeCheck, WorktreeAdd, Goto, data
<1>3. CASE CloseAfterSd(r) \/ UnbindRepo(r) \/ CloseAfterPpl(r) \/ UnbindExtracted(r)
  <2>1. /\ UNCHANGED <<zip, extract, sdFrom, pplFrom>>
        /\ \E place \in {"unbind-repo", "bundle", "dispose", "unbind-extracted"} : Goto(r, place)
    BY <1>3 DEF CloseAfterSd, UnbindRepo, CloseAfterPpl, UnbindExtracted, data
  <2>2. QED
    BY <1>1, <2>1 DEF Goto
<1>4. CASE FinalClose(r) \/ FinalUnbindExtracted(r) \/ FinalUnbindRepo(r) \/ Throw(r)
  <2>1. /\ UNCHANGED <<zip, extract, sdFrom, pplFrom>>
        /\ \E place \in {"final-unbind-extracted", "final-unbind-repo", "dispose",
                         "final-close-extracted", "final-close-repo"} : Goto(r, place)
    BY <1>4 DEF FinalClose, FinalUnbindExtracted, FinalUnbindRepo, Throw, Finally, data
  <2>2. QED
    BY <1>1, <2>1 DEF Goto
<1>5. CASE Bundle(r)
  BY <1>1, <1>5 DEF Bundle, Goto
<1>6. CASE ExtractZip(r)
  BY <1>1, <1>6 DEF ExtractZip, Goto
<1>7. CASE BindRepo(r)
  BY <1>1, <1>7 DEF BindRepo, Goto, data
<1>8. CASE BuildSd(r)
  BY <1>1, <1>8 DEF BuildSd, Goto
<1>9. CASE BindExtracted(r)
  BY <1>1, <1>9 DEF BindExtracted, Goto, data
<1>10. CASE BuildPpl(r)
  BY <1>1, <1>10 DEF BuildPpl, Goto
<1>11. QED
  BY <1>2, <1>3, <1>4, <1>5, <1>6, <1>7, <1>8, <1>9, <1>10 DEF Phase, Pipeline

\* Only Bundle writes a zip: the run's own, or the shared one.
LEMMA ZipStep ==
    ASSUME TypeOK, ZipOwn, [Next]_vars
    PROVE  ZipOwn'
<1>1. CASE UNCHANGED vars
  BY <1>1 DEF vars, ZipOwn, Zip
<1>2. ASSUME NEW r \in Runs,
             \/ Begin(r) \/ Acquire(r) \/ AcquireFails(r) \/ ChecksPass(r) \/ ChecksFail(r)
             \/ Phase(r)
             \/ Dispose(r) \/ Epilogue(r)
             \/ Crash(r) \/ OrphanEnds(r)
      PROVE  ZipOwn'
  <2>1. CASE Bundle(r)
    <3>1. /\ zip \in [Runs \cup {Shared} -> Writers] /\ pc \in [Runs -> Places]
          /\ ok \in [Runs -> BOOLEAN]
      BY DEF TypeOK
    <3>2. PICK zipped \in {"success", "fail"} :
              /\ zip[Zip(r)] # NoRun => zipped = "success"
              /\ ok'[r] => zipped = "success"
              /\ zip' \in CASE zip[Zip(r)] # NoRun -> {zip}
                            [] zip[Zip(r)] = NoRun /\ zipped = "success" ->
                                   {[zip EXCEPT ![Zip(r)] = r]}
                            [] OTHER -> {zip, [zip EXCEPT ![Zip(r)] = r]}
      BY <2>1, <3>1 DEF Bundle
    <3>3. zip' = zip \/ (zip[Zip(r)] = NoRun /\ zip' = [zip EXCEPT ![Zip(r)] = r])
      BY <3>2
    <3>4. zipped = "success" => zip'[Zip(r)] # NoRun
      BY <3>1, <3>2, ZipType
    <3>5. /\ UNCHANGED opts
          /\ Goto(r, IF ok'[r] THEN "extract" ELSE "dispose")
      BY <2>1 DEF Bundle, steady
    <3>6. \A s \in Runs : Zip(s)' = Zip(s)
      BY <3>5 DEF Zip
    <3>7. ASSUME NEW s \in Runs PROVE zip'[s] \in {NoRun, s}
      <4>1. zip[s] \in {NoRun, s}
        BY DEF ZipOwn
      <4>2. s # Shared
        OBVIOUS
      <4>3. QED
        BY <3>1, <3>3, <4>1, <4>2, ZipType
    <3>8. ASSUME NEW s \in Runs, pc'[s] = "extract" PROVE zip'[Zip(s)] # NoRun
      <4>1. CASE s = r
        BY <3>1, <3>2, <3>4, <3>5, <3>8, <4>1 DEF Goto
      <4>2. CASE s # r
        <5>1. pc[s] = "extract"
          BY <3>1, <3>5, <3>8, <4>2 DEF Goto
        <5>2. zip[Zip(s)] # NoRun /\ Zip(s) \in Runs \cup {Shared}
          BY <5>1, ZipType DEF ZipOwn
        <5>3. QED
          BY <3>1, <3>3, <5>2
      <4>3. QED
        BY <4>1, <4>2
    <3>9. QED
      BY <3>6, <3>7, <3>8 DEF ZipOwn
  <2>2. CASE Phase(r) /\ ~Bundle(r)
    <3>1. UNCHANGED <<zip, opts>> /\ pc'[r] # "extract" /\ \A s \in Runs \ {r} : pc'[s] = pc[s]
      BY <2>2, PhaseData, PhaseStays
    <3>2. QED
      BY <3>1 DEF ZipOwn, Zip
  <2>3. CASE \/ Begin(r) \/ Acquire(r) \/ AcquireFails(r) \/ ChecksPass(r) \/ ChecksFail(r)
             \/ Dispose(r) \/ Epilogue(r)
    BY <2>3, QuietSteps DEF ZipOwn, Zip
  <2>4. CASE Crash(r)
    BY <2>4, CrashStays DEF ZipOwn, Zip
  <2>5. CASE OrphanEnds(r)
    BY <2>5 DEF OrphanEnds, ZipOwn, Zip
  <2>6. QED
    BY <1>2, <2>1, <2>2, <2>3, <2>4, <2>5
<1>3. QED
  BY <1>1, <1>2, StepOf

\* A bind that lets the run go on has set its token.
LEMMA BindSets ==
    ASSUME TypeOK, NEW r \in Runs, NEW target \in Checkouts,
           \E res \in BindResults(target) : Record(r, res.status, TRUE) /\ token' = res.token,
           ok'[r]
    PROVE  token' = target
<1>1. PICK res \in BindResults(target) : Record(r, res.status, TRUE) /\ token' = res.token
  OBVIOUS
<1>2. res.status \in {"success", "skip", "fail"}
  BY BindTokens
<1>3. res.status = "success"
  BY <1>1, <1>2, RecordType
<1>4. QED
  BY <1>1, <1>3, BindTokens

\* A phase of a run without overlap leaves it with its own inputs.
LEMMA PhaseInputs ==
    ASSUME TypeOK, ZipOwn, NEW r \in Runs, InputsOf(r), orphan[r] = "none", Phase(r)
    PROVE  InputsOf(r)'
<1>1. /\ pc \in [Runs -> Places] /\ orphan' = orphan /\ opts' = opts
      /\ sdFrom \in [Runs -> Tokens \cup {NoRun}] /\ pplFrom \in [Runs -> Writers]
      /\ ok \in [Runs -> BOOLEAN]
  BY PhaseStays DEF TypeOK
<1>2. CASE BindRepo(r)
  <2>1. /\ \E res \in BindResults(r) : Record(r, res.status, TRUE) /\ token' = res.token
        /\ Goto(r, IF ok'[r] THEN "build-sd" ELSE "dispose")
        /\ UNCHANGED <<sdFrom, pplFrom>>
    BY <1>2 DEF BindRepo, data
  <2>2. pc'[r] = "build-sd" => token' = r
    BY <1>1, <2>1, BindSets, CheckoutsOf DEF Goto
  <2>3. pc'[r] \in {"build-sd", "dispose"}
    BY <1>1, <2>1 DEF Goto
  <2>4. QED
    BY <1>1, <2>1, <2>2, <2>3 DEF InputsOf, In
<1>3. CASE BuildSd(r)
  <2>1. token = r /\ token' = token
    BY <1>3 DEF BuildSd, InputsOf, In, bindings
  <2>2. sdFrom'[r] \in {sdFrom[r], token}
    <3>1. sdFrom' \in {sdFrom, [sdFrom EXCEPT ![r] = token]}
      BY <1>3 DEF BuildSd
    <3>2. QED
      BY <1>1, <3>1
  <2>3. pplFrom' = pplFrom /\ pc'[r] \in {"close-sd", "unbind-repo"}
    BY <1>1, <1>3 DEF BuildSd, Goto
  <2>4. QED
    BY <1>1, <2>1, <2>2, <2>3 DEF InputsOf, In
<1>4. CASE ExtractZip(r)
  <2>1. pc[r] = "extract" /\ zip[Zip(r)] # NoRun
    BY <1>4 DEF ExtractZip, ZipOwn
  <2>2. ~Record(r, "fail", TRUE) => extract' = zip[Zip(r)]
    BY <1>4 DEF ExtractZip
  <2>3. Record(r, "fail", TRUE) => ~ok'[r]
    BY <1>1 DEF Record
  <2>4. /\ Goto(r, IF ok'[r] THEN "bind-extracted" ELSE "dispose")
        /\ UNCHANGED <<sdFrom, pplFrom>>
    BY <1>4 DEF ExtractZip
  <2>5. pc'[r] \in {"bind-extracted", "dispose"} /\ (pc'[r] = "bind-extracted" => ok'[r])
    BY <1>1, <2>4 DEF Goto
  <2>6. ~opts[r].sharedZip /\ pc'[r] = "bind-extracted" => extract' = r
    BY <2>1, <2>2, <2>3, <2>5, ZipType DEF ZipOwn
  <2>7. QED
    BY <1>1, <2>4, <2>5, <2>6 DEF InputsOf, In
<1>5. CASE BindExtracted(r)
  <2>1. /\ pc[r] = "bind-extracted"
        /\ \E res \in BindResults(Extract) : Record(r, res.status, TRUE) /\ token' = res.token
        /\ Goto(r, IF ok'[r] THEN "build-ppl" ELSE "dispose")
        /\ UNCHANGED <<sdFrom, pplFrom, extract>>
    BY <1>5 DEF BindExtracted, data
  <2>2. pc'[r] = "build-ppl" => token' = Extract
    BY <1>1, <2>1, BindSets, CheckoutsOf DEF Goto
  <2>3. pc'[r] \in {"build-ppl", "dispose"}
    BY <1>1, <2>1 DEF Goto
  <2>4. QED
    BY <1>1, <2>1, <2>2, <2>3 DEF InputsOf, In
<1>6. CASE BuildPpl(r)
  <2>1. pc[r] = "build-ppl" /\ UNCHANGED <<sdFrom, token>>
    BY <1>6 DEF BuildPpl, bindings
  <2>2. pplFrom'[r] \in {pplFrom[r], extract}
    BY <1>1, <1>6 DEF BuildPpl
  <2>3. pc'[r] = "close-ppl"
    BY <1>1, <1>6 DEF BuildPpl, Goto
  <2>4. QED
    BY <1>1, <2>1, <2>2, <2>3 DEF InputsOf, In
<1>7. CASE ~(BindRepo(r) \/ BuildSd(r) \/ ExtractZip(r) \/ BindExtracted(r) \/ BuildPpl(r))
  BY <1>1, <1>7, PhaseData DEF InputsOf, In
<1>8. QED
  BY <1>2, <1>3, <1>4, <1>5, <1>6, <1>7

\* A step of r leaves the records of every other run alone; it changes the token or
\* the extracted tree only while r is at work.
LEMMA OthersKeep ==
    ASSUME TypeOK, NEW r \in Runs, NEW s \in Runs \ {r},
           \/ Begin(r) \/ Acquire(r) \/ AcquireFails(r) \/ ChecksPass(r) \/ ChecksFail(r)
           \/ Phase(r)
           \/ Dispose(r) \/ Epilogue(r)
           \/ Crash(r) \/ OrphanEnds(r)
    PROVE  /\ pc'[s] = pc[s] /\ orphan'[s] = orphan[s] /\ opts' = opts
           /\ sdFrom'[s] = sdFrom[s] /\ pplFrom'[s] = pplFrom[s]
           /\ Active(r) \/ UNCHANGED <<token, extract>>
<1>1. /\ sdFrom \in [Runs -> Tokens \cup {NoRun}] /\ pplFrom \in [Runs -> Writers]
      /\ orphan \in [Runs -> ToolPhases \cup {"none"}]
  BY DEF TypeOK
<1>2. CASE Phase(r)
  <2>1. sdFrom'[s] = sdFrom[s]
    <3>1. CASE BuildSd(r)
      <4>1. sdFrom' \in {sdFrom, [sdFrom EXCEPT ![r] = token]}
        BY <3>1 DEF BuildSd
      <4>2. QED
        BY <1>1, <4>1
    <3>2. QED
      BY <1>2, <3>1, PhaseData
  <2>2. pplFrom'[s] = pplFrom[s]
    <3>1. CASE BuildPpl(r)
      <4>1. pplFrom' \in {pplFrom, [pplFrom EXCEPT ![r] = extract]}
        BY <3>1 DEF BuildPpl
      <4>2. QED
        BY <1>1, <4>1
    <3>2. QED
      BY <1>2, <3>1, PhaseData
  <2>3. QED
    BY <1>2, <2>1, <2>2, PhaseStays DEF Active
<1>3. CASE \/ Begin(r) \/ Acquire(r) \/ AcquireFails(r) \/ ChecksPass(r) \/ ChecksFail(r)
           \/ Dispose(r) \/ Epilogue(r)
  BY <1>3, QuietSteps
<1>4. CASE Crash(r)
  BY <1>4, CrashStays
<1>5. CASE OrphanEnds(r)
  <2>1. UNCHANGED <<pc, opts>> /\ Active(r)
    BY <1>5 DEF OrphanEnds, Active
  <2>2. orphan'[s] = orphan[s]
    BY <1>1, <1>5 DEF OrphanEnds
  <2>3. sdFrom' \in {sdFrom, [sdFrom EXCEPT ![r] = token]}
    BY <1>5 DEF OrphanEnds
  <2>4. pplFrom' \in {pplFrom, [pplFrom EXCEPT ![r] = extract]}
    BY <1>5 DEF OrphanEnds
  <2>5. QED
    BY <1>1, <2>1, <2>2, <2>3, <2>4
<1>6. QED
  BY <1>2, <1>3, <1>4, <1>5

\* A step without overlap leaves every run with its own inputs.
LEMMA InputsStep ==
    ASSUME TypeOK, LockExcludes, BuildInv, [Next]_vars, ~overlap'
    PROVE  \A s \in Runs : InputsOf(s)'
<1>1. CASE UNCHANGED vars
  BY <1>1 DEF vars, BuildInv, InputsOf, In
<1>2. ASSUME NEW r \in Runs,
             \/ Begin(r) \/ Acquire(r) \/ AcquireFails(r) \/ ChecksPass(r) \/ ChecksFail(r)
             \/ Phase(r)
             \/ Dispose(r) \/ Epilogue(r)
             \/ Crash(r) \/ OrphanEnds(r),
             NEW s \in Runs
      PROVE  InputsOf(s)'
  <2>1. ~overlap
    BY <1>2, QuietSteps, PhaseStays, CrashStays DEF OrphanEnds
  <2>2. /\ InputsOf(s) /\ InputsOf(r)
        /\ Active(r) /\ Active(s) => r = s
        /\ orphan[r] # "none" => pc[r] = "crashed"
        /\ ZipOwn
    BY <2>1 DEF BuildInv, Alone
  <2>3. CASE s # r
    <3>1. /\ pc'[s] = pc[s] /\ orphan'[s] = orphan[s] /\ opts' = opts
          /\ sdFrom'[s] = sdFrom[s] /\ pplFrom'[s] = pplFrom[s]
          /\ Active(r) \/ UNCHANGED <<token, extract>>
      BY <1>2, <2>3, OthersKeep
    <3>2. CASE UNCHANGED <<token, extract>>
      BY <2>2, <3>1, <3>2 DEF InputsOf, In
    <3>3. CASE Active(r)
      <4>1. pc[s] \notin Locked /\ orphan[s] = "none"
        BY <2>2, <2>3, <3>3 DEF Active
      <4>2. \A p \in {"build-sd", "close-sd", "build-ppl", "close-ppl", "bind-extracted"} :
                p \in Locked /\ p # "none"
        BY DEF Locked, ToolPhases
      <4>3. QED
        BY <2>2, <3>1, <4>1, <4>2 DEF InputsOf, In
    <3>4. QED
      BY <3>1, <3>2, <3>3
  <2>4. CASE s = r
    <3>1. CASE \/ Begin(r) \/ Acquire(r) \/ AcquireFails(r) \/ ChecksPass(r) \/ ChecksFail(r)
               \/ Dispose(r) \/ Epilogue(r)
      <4>1. /\ pc[r] # "crashed"
            /\ pc'[r] \notin {"bind-extracted", "build-sd", "close-sd", "build-ppl", "close-ppl"}
            /\ UNCHANGED <<opts, orphan, sdFrom, pplFrom>>
        BY <3>1, QuietSteps
      <4>2. orphan'[r] = "none"
        BY <2>2, <4>1 DEF TypeOK
      <4>3. QED
        BY <2>2, <2>4, <4>1, <4>2 DEF InputsOf, In
    <3>2. CASE Phase(r)
      <4>1. orphan[r] = "none"
        BY <2>2, <3>2, PhaseStays, OutsidePlaces
      <4>2. QED
        BY <2>2, <2>4, <3>2, <4>1, PhaseInputs
    <3>3. CASE Crash(r)
      <4>1. /\ pc'[r] = "crashed"
            /\ orphan'[r] # "none" => orphan'[r] = pc[r]
            /\ UNCHANGED <<opts, token, sdFrom, extract, pplFrom>>
        BY <3>3, CrashStays
      <4>2. QED
        BY <2>2, <2>4, <4>1 DEF InputsOf, In
    <3>4. CASE OrphanEnds(r)
      <4>1. /\ sdFrom \in [Runs -> Tokens \cup {NoRun}] /\ pplFrom \in [Runs -> Writers]
            /\ orphan \in [Runs -> ToolPhases \cup {"none"}]
        BY DEF TypeOK
      <4>2. /\ pc' = pc /\ opts' = opts /\ pc[r] = "crashed" /\ orphan'[r] = "none"
        BY <2>2, <3>4, <4>1 DEF OrphanEnds
      <4>3. sdFrom'[r] \in {NoRun, r}
        <5>1. \/ sdFrom' = sdFrom
              \/ orphan[r] = "build-sd" /\ sdFrom' = [sdFrom EXCEPT ![r] = token]
          BY <3>4 DEF OrphanEnds
        <5>2. QED
          BY <2>2, <4>1, <5>1 DEF InputsOf, In
      <4>4. ~opts[r].sharedZip => pplFrom'[r] \in {NoRun, r}
        <5>1. \/ pplFrom' = pplFrom
              \/ orphan[r] = "build-ppl" /\ pplFrom' = [pplFrom EXCEPT ![r] = extract]
          BY <3>4 DEF OrphanEnds
        <5>2. QED
          BY <2>2, <4>1, <5>1 DEF InputsOf, In
      <4>5. QED
        BY <2>4, <4>2, <4>3, <4>4 DEF InputsOf, In
    <3>5. QED
      BY <1>2, <2>4, <3>1, <3>2, <3>3, <3>4
  <2>5. QED
    BY <2>3, <2>4
<1>3. QED
  BY <1>1, <1>2, StepOf

\* The invariant behind the two theorems that follow.
LEMMA BuildInvHolds == Spec => []BuildInv
<1>1. Init => BuildInv
  BY DEF Init, BuildInv, ZipOwn, Alone, Active, InputsOf, In, Locked, ToolPhases
<1>2. TypeOK /\ LockExcludes /\ BuildInv /\ [Next]_vars => BuildInv'
  BY InputsStep, ZipStep, AloneStep DEF BuildInv
<1>3. QED
  BY <1>1, <1>2, TypeCorrect, LockHolds, PTL DEF Spec

\* Unless runs overlapped, LabVIEW builds each tree under that tree's token.
THEOREM TokenIsOwnHolds == Spec => []TokenIsOwn
<1>1. BuildInv => TokenIsOwn
  BY DEF BuildInv, InputsOf, In, TokenIsOwn
<1>2. QED
  BY <1>1, BuildInvHolds, PTL

\* Unless runs overlapped, every library is built from its own run's sources.
THEOREM BuildsOwnInputsHolds == Spec => []BuildsOwnInputs
<1>1. BuildInv => BuildsOwnInputs
  BY DEF BuildInv, InputsOf, BuildsOwnInputs
<1>2. QED
  BY <1>1, BuildInvHolds, PTL

-----------------------------------------------------------------------------
(***************************************************************************)
(* SdPplLvcli implements the session it promises, for every set of runs,     *)
(* clones and options; and what a clone and LabVIEW.ini are left with.       *)
(***************************************************************************)

-----------------------------------------------------------------------------
(***************************************************************************)
(* What a run still has bound                                               *)
(***************************************************************************)

\* Where a run may be while its own worktree, or the extracted tree, is bound.
RepoBoundAt ==
    {"build-sd", "close-sd", "unbind-repo", "final-close-extracted",
     "final-unbind-extracted", "final-close-repo", "final-unbind-repo", "crashed"}
ExtractedBoundAt ==
    {"build-ppl", "close-ppl", "unbind-extracted", "final-close-extracted",
     "final-unbind-extracted", "crashed"}

\* A flag is set only where the run still has the unbind it demands ahead of it; a
\* bind is reached only while nothing failed, so that one that succeeds is followed
\* by its build.
BoundOf(r) ==
    /\ repoBound[r] => pc[r] \in RepoBoundAt
    /\ extractedBound[r] => pc[r] \in ExtractedBoundAt
    /\ pc[r] \in {"bind-repo", "bind-extracted"} => ok[r]
Bounds == \A r \in Runs : BoundOf(r)

\* A phase changes no other run's flags and results, and takes back no failure.
LEMMA PhaseOwn ==
    ASSUME TypeOK, NEW r \in Runs, Phase(r)
    PROVE  /\ \A s \in Runs \ {r} :
                  /\ repoBound'[s] = repoBound[s] /\ extractedBound'[s] = extractedBound[s]
                  /\ ok'[s] = ok[s] /\ clean'[s] = clean[s]
           /\ clean'[r] => clean[r]
<1>1. /\ repoBound \in [Runs -> BOOLEAN] /\ extractedBound \in [Runs -> BOOLEAN]
      /\ ok \in [Runs -> BOOLEAN] /\ clean \in [Runs -> BOOLEAN]
  BY DEF TypeOK
<1>2. ASSUME NEW status, NEW affects, Record(r, status, affects)
      PROVE  /\ \A s \in Runs \ {r} : ok'[s] = ok[s] /\ clean'[s] = clean[s]
             /\ clean'[r] => clean[r]
  BY <1>1, <1>2 DEF Record
<1>3. CASE UnbindCurrent(r) \/ UnbindRepo(r) \/ UnbindExtracted(r)
           \/ FinalUnbindExtracted(r) \/ FinalUnbindRepo(r)
  <2>1. \E target, affects : Unbind(r, target, affects)
    BY <1>3 DEF UnbindCurrent, UnbindRepo, UnbindExtracted, FinalUnbindExtracted,
       FinalUnbindRepo
  <2>2. \E status, affects : Record(r, status, affects)
    BY <2>1 DEF Unbind
  <2>3. \A s \in Runs \ {r} :
            repoBound'[s] = repoBound[s] /\ extractedBound'[s] = extractedBound[s]
    BY <1>1, <1>3 DEF UnbindCurrent, UnbindRepo, UnbindExtracted, FinalUnbindExtracted,
       FinalUnbindRepo, bound
  <2>4. QED
    BY <1>2, <2>2, <2>3
<1>4. CASE BindRepo(r) \/ BindExtracted(r)
  <2>1. \E status, affects : Record(r, status, affects)
    BY <1>4 DEF BindRepo, BindExtracted
  <2>2. \A s \in Runs \ {r} :
            repoBound'[s] = repoBound[s] /\ extractedBound'[s] = extractedBound[s]
    BY <1>1, <1>4 DEF BindRepo, BindExtracted
  <2>3. QED
    BY <1>2, <2>1, <2>2
<1>5. CASE WorktreeCheck(r) \/ WorktreeAdd(r) \/ BuildSd(r) \/ ExtractZip(r) \/ BuildPpl(r)
  <2>1. (\E status, affects : Record(r, status, affects)) \/ UNCHANGED <<ok, clean>>
    BY <1>5 DEF WorktreeCheck, WorktreeAdd, BuildSd, ExtractZip, BuildPpl, outcome
  <2>2. UNCHANGED <<repoBound, extractedBound>>
    BY <1>5 DEF WorktreeCheck, WorktreeAdd, BuildSd, ExtractZip, BuildPpl, bound
  <2>3. QED
    BY <1>2, <2>1, <2>2
<1>6. CASE CloseAfterSd(r) \/ CloseAfterPpl(r) \/ FinalClose(r)
  <2>1. \E status, affects : Record(r, status, affects)
    BY <1>6 DEF CloseAfterSd, CloseAfterPpl, FinalClose, Close
  <2>2. UNCHANGED <<repoBound, extractedBound>>
    BY <1>6 DEF CloseAfterSd, CloseAfterPpl, FinalClose, bound
  <2>3. QED
    BY <1>2, <2>1, <2>2
<1>7. CASE Bundle(r)
  <2>1. /\ \A s \in Runs \ {r} : ok'[s] = ok[s] /\ clean'[s] = clean[s]
        /\ clean'[r] => clean[r]
    BY <1>1, <1>7 DEF Bundle
  <2>2. UNCHANGED <<repoBound, extractedBound>>
    BY <1>7 DEF Bundle, bound
  <2>3. QED
    BY <2>1, <2>2
<1>8. CASE Throw(r)
  BY <1>8 DEF Throw, outcome, bound
<1>9. QED
  BY <1>3, <1>4, <1>5, <1>6, <1>7, <1>8 DEF Phase, Pipeline

\* A phase leaves the run where its flags say.
LEMMA PhaseBound ==
    ASSUME TypeOK, NEW r \in Runs, BoundOf(r), Phase(r)
    PROVE  BoundOf(r)'
<1>1. /\ pc \in [Runs -> Places]
      /\ repoBound \in [Runs -> BOOLEAN] /\ extractedBound \in [Runs -> BOOLEAN]
      /\ ok \in [Runs -> BOOLEAN]
  BY DEF TypeOK
<1>2. CASE UnbindCurrent(r) \/ WorktreeCheck(r) \/ WorktreeAdd(r) \/ Bundle(r) \/ ExtractZip(r)
  <2>1. ~repoBound[r] /\ ~extractedBound[r] /\ UNCHANGED <<repoBound, extractedBound>>
    BY <1>2 DEF BoundOf, RepoBoundAt, ExtractedBoundAt, UnbindCurrent, WorktreeCheck,
       WorktreeAdd, Bundle, ExtractZip, bound
  <2>2. pc'[r] \in {"bind-repo", "bind-extracted"} => ok'[r]
    BY <1>1, <1>2 DEF UnbindCurrent, WorktreeCheck, WorktreeAdd, Bundle, ExtractZip, Goto
  <2>3. QED
    BY <2>1, <2>2 DEF BoundOf
<1>3. CASE BindRepo(r)
  <2>1. PICK res \in BindResults(r) :
            /\ Record(r, res.status, TRUE)
            /\ repoBound' = [repoBound EXCEPT ![r] = res.status = "success"]
    BY <1>3 DEF BindRepo
  <2>2. /\ pc[r] = "bind-repo" /\ Goto(r, IF ok'[r] THEN "build-sd" ELSE "dispose")
        /\ UNCHANGED extractedBound
    BY <1>3 DEF BindRepo
  <2>3. ok[r] /\ ~extractedBound[r]
    BY <2>2 DEF BoundOf, ExtractedBoundAt
  <2>4. ok'[r] <=> res.status = "success"
    BY <1>1, <2>1, <2>3 DEF Record
  <2>5. /\ repoBound'[r] => pc'[r] = "build-sd"
        /\ pc'[r] \in {"build-sd", "dispose"}
    BY <1>1, <2>1, <2>2, <2>4 DEF Goto
  <2>6. QED
    BY <2>2, <2>3, <2>5 DEF BoundOf, RepoBoundAt
<1>4. CASE BindExtracted(r)
  <2>1. PICK res \in BindResults(Extract) :
            /\ Record(r, res.status, TRUE)
            /\ extractedBound' = [extractedBound EXCEPT ![r] = res.status = "success"]
    BY <1>4 DEF BindExtracted
  <2>2. /\ pc[r] = "bind-extracted" /\ Goto(r, IF ok'[r] THEN "build-ppl" ELSE "dispose")
        /\ UNCHANGED repoBound
    BY <1>4 DEF BindExtracted
  <2>3. ok[r] /\ ~repoBound[r]
    BY <2>2 DEF BoundOf, RepoBoundAt
  <2>4. ok'[r] <=> res.status = "success"
    BY <1>1, <2>1, <2>3 DEF Record
  <2>5. /\ extractedBound'[r] => pc'[r] = "build-ppl"
        /\ pc'[r] \in {"build-ppl", "dispose"}
    BY <1>1, <2>1, <2>2, <2>4 DEF Goto
  <2>6. QED
    BY <2>2, <2>3, <2>5 DEF BoundOf, ExtractedBoundAt
<1>5. CASE BuildSd(r) \/ CloseAfterSd(r)
  BY <1>1, <1>5 DEF BuildSd, CloseAfterSd, Goto, bound, BoundOf, RepoBoundAt, ExtractedBoundAt
<1>6. CASE BuildPpl(r) \/ CloseAfterPpl(r)
  BY <1>1, <1>6 DEF BuildPpl, CloseAfterPpl, Goto, bound, BoundOf, RepoBoundAt,
     ExtractedBoundAt
<1>7. CASE UnbindRepo(r) \/ FinalUnbindRepo(r)
  BY <1>1, <1>7 DEF UnbindRepo, FinalUnbindRepo, Goto, BoundOf, ExtractedBoundAt
<1>8. CASE UnbindExtracted(r)
  BY <1>1, <1>8 DEF UnbindExtracted, Goto, BoundOf, RepoBoundAt
<1>9. CASE FinalUnbindExtracted(r)
  BY <1>1, <1>9 DEF FinalUnbindExtracted, Finally, Goto, BoundOf, RepoBoundAt
<1>10. CASE FinalClose(r)
  BY <1>1, <1>10 DEF FinalClose, Goto, bound, BoundOf, RepoBoundAt, ExtractedBoundAt
<1>11. CASE Throw(r)
  BY <1>1, <1>11 DEF Throw, Finally, Goto, bound, BoundOf, RepoBoundAt, ExtractedBoundAt
<1>12. QED
  BY <1>2, <1>3, <1>4, <1>5, <1>6, <1>7, <1>8, <1>9, <1>10, <1>11 DEF Phase, Pipeline

\* Every step but a phase leaves the flags and results alone.
LEMMA OtherSteps ==
    ASSUME TypeOK, NEW r \in Runs,
           \/ Begin(r) \/ Acquire(r) \/ AcquireFails(r) \/ ChecksPass(r) \/ ChecksFail(r)
           \/ Dispose(r) \/ Epilogue(r) \/ Crash(r) \/ OrphanEnds(r)
    PROVE  UNCHANGED <<ok, clean, repoBound, extractedBound, opts>>
<1>1. CASE Epilogue(r)
  BY <1>1, EpilogueStays
<1>2. CASE ~Epilogue(r)
  BY <1>2 DEF Begin, Acquire, AcquireFails, ChecksPass, ChecksFail, Dispose, Crash, OrphanEnds,
     steady, outcome, bound
<1>3. QED
  BY <1>1, <1>2

\* The steps outside the phases start where nothing is bound, and a kill keeps what is.
LEMMA BoundsStep ==
    ASSUME TypeOK, Bounds, [Next]_vars
    PROVE  Bounds'
<1>1. CASE UNCHANGED vars
  BY <1>1 DEF vars, Bounds, BoundOf
<1>2. ASSUME NEW r \in Runs,
             \/ Begin(r) \/ Acquire(r) \/ AcquireFails(r) \/ ChecksPass(r) \/ ChecksFail(r)
             \/ Phase(r)
             \/ Dispose(r) \/ Epilogue(r)
             \/ Crash(r) \/ OrphanEnds(r),
             NEW s \in Runs
      PROVE  BoundOf(s)'
  <2>1. BoundOf(s) /\ BoundOf(r)
    BY DEF Bounds
  <2>2. CASE Phase(r)
    <3>1. CASE s = r
      BY <2>1, <2>2, <3>1, PhaseBound
    <3>2. CASE s # r
      BY <2>1, <2>2, <3>2, PhaseStays, PhaseOwn DEF BoundOf
    <3>3. QED
      BY <3>1, <3>2
  <2>3. CASE \/ Begin(r) \/ Acquire(r) \/ AcquireFails(r) \/ ChecksPass(r) \/ ChecksFail(r)
             \/ Dispose(r)
    <3>1. UNCHANGED <<ok, repoBound, extractedBound>>
      BY <2>3, OtherSteps
    <3>2. /\ \A q \in Runs \ {r} : pc'[q] = pc[q]
          /\ pc[r] \in {"idle", "acquire", "checks", "dispose"}
          /\ pc'[r] \notin {"bind-repo", "bind-extracted"}
      BY <2>3 DEF TypeOK, Begin, Acquire, AcquireFails, ChecksPass, ChecksFail, Dispose, Goto
    <3>3. QED
      BY <2>1, <3>1, <3>2 DEF BoundOf, RepoBoundAt, ExtractedBoundAt
  <2>4. CASE Epilogue(r)
    BY <2>1, <2>4, EpilogueStays DEF After, BoundOf, RepoBoundAt, ExtractedBoundAt
  <2>5. CASE Crash(r)
    <3>1. pc'[r] = "crashed" /\ \A q \in Runs \ {r} : pc'[q] = pc[q]
      BY <2>5, CrashStays
    <3>2. UNCHANGED <<ok, repoBound, extractedBound>>
      BY <2>5, OtherSteps
    <3>3. QED
      BY <2>1, <3>1, <3>2 DEF BoundOf, RepoBoundAt, ExtractedBoundAt
  <2>6. CASE OrphanEnds(r)
    BY <2>1, <2>6 DEF OrphanEnds, outcome, bound, BoundOf
  <2>7. QED
    BY <1>2, <2>2, <2>3, <2>4, <2>5, <2>6
<1>3. QED
  BY <1>1, <1>2, StepOf DEF Bounds

\* What is bound stays accounted for.
LEMMA BoundsHold == Spec => []Bounds
<1>1. Init => Bounds
  BY DEF Init, Bounds, BoundOf
<1>2. TypeOK /\ Bounds /\ [Next]_vars => Bounds'
  BY BoundsStep
<1>3. QED
  BY <1>1, <1>2, TypeCorrect, PTL DEF Spec

-----------------------------------------------------------------------------
(***************************************************************************)
(* What is copied back                                                      *)
(***************************************************************************)

Good(r) == clean[r] \/ opts[r].copyOnFail

\* A run whose outputs are in its clone has left the locked section, where a phase
\* could still fail; a run on its way to a copy may copy.
CopiedOf(r) ==
    /\ out[CloneOf[r]].sd = r \/ out[CloneOf[r]].zip = r =>
           Good(r) /\ pc[r] \notin Locked \cup {"idle", "acquire"}
    /\ pc[r] \in {"copy-sd", "copy-artifacts", "copy-ppl"} => Good(r)
Copied == \A r \in Runs : CopiedOf(r)

\* The copies of r put r's outputs into r's clone, and nothing else anywhere.
LEMMA EpilogueOut ==
    ASSUME TypeOK, ZipOwn, NEW r \in Runs, Epilogue(r)
    PROVE  /\ \A c \in Clones \ {CloneOf[r]} : out'[c] = out[c]
           /\ out'[CloneOf[r]].sd \in {out[CloneOf[r]].sd, r}
           /\ out'[CloneOf[r]].zip \in {out[CloneOf[r]].zip, r}
           /\ pc[r] \notin {"copy-sd", "copy-artifacts", "copy-ppl"} => out' = out
<1>1. /\ out \in [Clones -> [sd : Writers, zip : Writers, ppl : Writers]]
      /\ CloneOf[r] \in Clones /\ zip[r] \in {NoRun, r}
  BY DEF TypeOK, ZipOwn
<1>2. CASE CopySd(r)
  BY <1>1, <1>2 DEF CopySd, Copy
<1>3. CASE CopyArtifacts(r)
  BY <1>1, <1>3 DEF CopyArtifacts, Copy
<1>4. CASE CopyPpl(r)
  BY <1>1, <1>4 DEF CopyPpl, Copy
<1>5. CASE Stash(r) \/ Remove(r)
  BY <1>5 DEF Stash, Remove, data
<1>6. QED
  BY <1>2, <1>3, <1>4, <1>5 DEF Epilogue

\* Only the copies write to a clone.
LEMMA OutStays ==
    ASSUME TypeOK, NEW r \in Runs,
           \/ Begin(r) \/ Acquire(r) \/ AcquireFails(r) \/ ChecksPass(r) \/ ChecksFail(r)
           \/ Phase(r) \/ Dispose(r) \/ Crash(r) \/ OrphanEnds(r)
    PROVE  out' = out
BY PhaseStays DEF Begin, Acquire, AcquireFails, ChecksPass, ChecksFail, Dispose, Crash,
   OrphanEnds, data

\* A step keeps what is in the clones good.
LEMMA CopiedStep ==
    ASSUME TypeOK, ZipOwn, Copied, [Next]_vars
    PROVE  Copied'
<1>1. CASE UNCHANGED vars
  BY <1>1 DEF vars, Copied, CopiedOf, Good
<1>2. ASSUME NEW r \in Runs,
             \/ Begin(r) \/ Acquire(r) \/ AcquireFails(r) \/ ChecksPass(r) \/ ChecksFail(r)
             \/ Phase(r)
             \/ Dispose(r) \/ Epilogue(r)
             \/ Crash(r) \/ OrphanEnds(r),
             NEW s \in Runs
      PROVE  CopiedOf(s)'
  <2>1. CopiedOf(s) /\ CopiedOf(r) /\ CloneOf[s] \in Clones /\ pc \in [Runs -> Places]
    BY DEF Copied, TypeOK
  <2>2. CASE Phase(r)
    <3>1. /\ pc[r] \in Locked /\ pc'[r] \in Locked /\ UNCHANGED <<opts, out>>
          /\ \A q \in Runs \ {r} : pc'[q] = pc[q] /\ clean'[q] = clean[q]
      BY <2>2, PhaseStays, PhaseOwn
    <3>2. \A p \in {"copy-sd", "copy-artifacts", "copy-ppl"} : p \notin Locked
      BY OutsidePlaces DEF After
    <3>3. QED
      BY <2>1, <3>1, <3>2 DEF CopiedOf, Good
  <2>3. CASE Begin(r) \/ Acquire(r) \/ AcquireFails(r) \/ ChecksPass(r) \/ ChecksFail(r)
    <3>1. UNCHANGED <<out, clean, opts>>
      BY <2>3, OutStays, OtherSteps
    <3>2. /\ \A q \in Runs \ {r} : pc'[q] = pc[q]
          /\ pc[r] \in Locked \cup {"idle", "acquire"}
          /\ pc'[r] \notin {"copy-sd", "copy-artifacts", "copy-ppl"}
      BY <2>1, <2>3 DEF Begin, Acquire, AcquireFails, ChecksPass, ChecksFail, Goto, Locked
    <3>3. QED
      BY <2>1, <3>1, <3>2 DEF CopiedOf, Good
  <2>4. CASE Dispose(r)
    <3>1. UNCHANGED <<out, clean, opts>>
      BY <2>4, OutStays, OtherSteps
    <3>2. /\ \A q \in Runs \ {r} : pc'[q] = pc[q]
          /\ pc[r] \in Locked
          /\ pc'[r] \in {"copy-sd", "copy-artifacts", "copy-ppl"} => Good(r)
      BY <2>1, <2>4 DEF Dispose, CopiesBack, Good, Goto, Locked
    <3>3. QED
      BY <2>1, <3>1, <3>2 DEF CopiedOf, Good
  <2>5. CASE Epilogue(r)
    <3>1. /\ UNCHANGED <<clean, opts>>
          /\ \A q \in Runs \ {r} : pc'[q] = pc[q]
          /\ pc'[r] \in After \cup {"success", "fail"}
      BY <2>5, EpilogueStays
    <3>2. /\ \A c \in Clones \ {CloneOf[r]} : out'[c] = out[c]
          /\ out'[CloneOf[r]].sd \in {out[CloneOf[r]].sd, r}
          /\ out'[CloneOf[r]].zip \in {out[CloneOf[r]].zip, r}
          /\ pc[r] \notin {"copy-sd", "copy-artifacts", "copy-ppl"} => out' = out
      BY <2>5, EpilogueOut DEF ZipOwn
    <3>3. CASE s # r
      <4>1. out'[CloneOf[s]].sd = s => out[CloneOf[s]].sd = s
        BY <2>1, <3>2, <3>3
      <4>2. out'[CloneOf[s]].zip = s => out[CloneOf[s]].zip = s
        BY <2>1, <3>2, <3>3
      <4>3. QED
        BY <2>1, <3>1, <3>3, <4>1, <4>2 DEF CopiedOf, Good
    <3>4. CASE s = r
      <4>1. pc'[r] \notin Locked \cup {"idle", "acquire"}
        BY <3>1, OutsidePlaces DEF After
      <4>2. pc'[r] \in {"copy-sd", "copy-artifacts", "copy-ppl"}
            => pc[r] \in {"copy-sd", "copy-artifacts", "copy-ppl"}
        BY <2>1, <2>5 DEF Epilogue, CopySd, CopyArtifacts, CopyPpl, Copy, Stash, Remove, Goto
      <4>3. QED
        BY <2>1, <3>1, <3>2, <3>4, <4>1, <4>2 DEF CopiedOf, Good
    <3>5. QED
      BY <3>3, <3>4
  <2>6. CASE Crash(r)
    <3>1. pc'[r] = "crashed" /\ \A q \in Runs \ {r} : pc'[q] = pc[q]
      BY <2>6, CrashStays
    <3>2. UNCHANGED <<out, clean, opts>>
      BY <2>6, CrashStays
    <3>3. QED
      BY <2>1, <3>1, <3>2, OutsidePlaces DEF CopiedOf, Good
  <2>7. CASE OrphanEnds(r)
    BY <2>1, <2>7 DEF OrphanEnds, outcome, CopiedOf, Good
  <2>8. QED
    BY <1>2, <2>2, <2>3, <2>4, <2>5, <2>6, <2>7
<1>3. QED
  BY <1>1, <1>2, StepOf DEF Copied

\* ORCH-007: outputs in a clone come from runs that may publish them, whatever their
\* number and whatever fails or is killed when.
THEOREM OnlyGoodIsCopied == Spec => []CopiesOnlyGood
<1>1. Init => Copied
  BY DEF Init, Copied, CopiedOf, Good
<1>2. TypeOK /\ BuildInv /\ Copied /\ [Next]_vars => Copied'
  BY CopiedStep DEF BuildInv
<1>3. Copied => CopiesOnlyGood
  BY DEF Copied, CopiedOf, Good, CopiesOnlyGood
<1>4. QED
  BY <1>1, <1>2, <1>3, TypeCorrect, BuildInvHolds, PTL DEF Spec

-----------------------------------------------------------------------------
(***************************************************************************)
(* The token a run leaves                                                   *)
(***************************************************************************)

\* LabVIEW.ini names r's worktree only while r has it bound, after a script of r's
\* left it there, or once r was killed.
TokenOf(r) == token = r => r \in left \/ repoBound[r] \/ pc[r] = "crashed"
TokenCause == \A r \in Runs : TokenOf(r)

\* A phase of r sets the token of r only by a bind, and no other run's.
LEMMA PhaseToken ==
    ASSUME TypeOK, NEW r \in Runs, BoundOf(r), TokenOf(r), Phase(r)
    PROVE  /\ TokenOf(r)'
           /\ left \subseteq left'
           /\ token' \in {token, NoToken, Extract, r}
<1>1. /\ repoBound \in [Runs -> BOOLEAN] /\ pc \in [Runs -> Places] /\ left \subseteq Runs
      /\ pc[r] # "crashed"
  BY PhaseStays, OutsidePlaces DEF TypeOK
<1>2. ASSUME NEW target \in Checkouts, NEW affects \in BOOLEAN, Unbind(r, target, affects)
      PROVE  /\ token' \in {token, NoToken} /\ left \subseteq left'
             /\ target \in {r, Extract} /\ token' = target => r \in left'
  BY <1>2, UnbindType
<1>3. CASE UnbindRepo(r) \/ FinalUnbindRepo(r)
  <2>1. \E affects \in BOOLEAN : Unbind(r, r, affects)
    BY <1>3 DEF UnbindRepo, FinalUnbindRepo, TypeOK
  <2>2. QED
    BY <1>2, <2>1, CheckoutsOf DEF TokenOf
<1>4. CASE UnbindCurrent(r) \/ UnbindExtracted(r) \/ FinalUnbindExtracted(r)
  <2>1. \/ Unbind(r, CloneOf[r], TRUE) \/ Unbind(r, Extract, FALSE)
        \/ ok[r] \in BOOLEAN /\ Unbind(r, Extract, ok[r])
    BY <1>4 DEF UnbindCurrent, UnbindExtracted, FinalUnbindExtracted, TypeOK
  <2>2. token' \in {token, NoToken} /\ left \subseteq left'
    BY <1>2, <2>1, CheckoutsOf
  <2>3. repoBound' = repoBound
    BY <1>4 DEF UnbindCurrent, UnbindExtracted, FinalUnbindExtracted, bound
  <2>4. QED
    BY <1>1, <2>2, <2>3 DEF TokenOf
<1>5. CASE BindRepo(r)
  <2>1. PICK res \in BindResults(r) :
            /\ token' = res.token
            /\ repoBound' = [repoBound EXCEPT ![r] = res.status = "success"]
            /\ left' = IF res.status = "fail" /\ res.token = r THEN left \cup {r} ELSE left
    BY <1>5 DEF BindRepo
  <2>2. /\ res.status \in {"success", "fail"}
        /\ res.token \in {token, NoToken, r}
    BY DEF BindResults, BindOutcomes
  <2>3. QED
    BY <1>1, <2>1, <2>2 DEF TokenOf
<1>6. CASE BindExtracted(r)
  <2>1. PICK res \in BindResults(Extract) :
            /\ token' = res.token
            /\ left' = IF res.status = "fail" /\ res.token = Extract
                         THEN left \cup {r} ELSE left
    BY <1>6 DEF BindExtracted
  <2>2. res.token \in {token, NoToken, Extract}
    BY BindTokens, CheckoutsOf
  <2>3. UNCHANGED repoBound
    BY <1>6 DEF BindExtracted
  <2>4. QED
    BY <1>1, <2>1, <2>2, <2>3, CheckoutsOf DEF TokenOf
<1>7. CASE ~(\/ UnbindRepo(r) \/ FinalUnbindRepo(r) \/ UnbindCurrent(r) \/ UnbindExtracted(r)
              \/ FinalUnbindExtracted(r) \/ BindRepo(r) \/ BindExtracted(r))
  <2>1. UNCHANGED <<token, left, repoBound>>
    BY <1>7 DEF Phase, Pipeline, WorktreeCheck, WorktreeAdd, BuildSd, CloseAfterSd, Bundle,
       ExtractZip, BuildPpl, CloseAfterPpl, FinalClose, Throw, bindings, bound
  <2>2. QED
    BY <1>1, <2>1 DEF TokenOf
<1>8. QED
  BY <1>3, <1>4, <1>5, <1>6, <1>7

\* A step leaves a cause for the token.
LEMMA TokenStep ==
    ASSUME TypeOK, Alone, Bounds, TokenCause, [Next]_vars
    PROVE  TokenCause'
<1>1. CASE UNCHANGED vars
  BY <1>1 DEF vars, TokenCause, TokenOf
<1>2. ASSUME NEW r \in Runs,
             \/ Begin(r) \/ Acquire(r) \/ AcquireFails(r) \/ ChecksPass(r) \/ ChecksFail(r)
             \/ Phase(r)
             \/ Dispose(r) \/ Epilogue(r)
             \/ Crash(r) \/ OrphanEnds(r),
             NEW s \in Runs
      PROVE  TokenOf(s)'
  <2>1. TokenOf(s) /\ TokenOf(r) /\ BoundOf(r)
    BY DEF TokenCause, Bounds
  <2>2. CASE Phase(r)
    <3>1. CASE s = r
      BY <2>1, <2>2, <3>1, PhaseToken
    <3>2. CASE s # r
      <4>1. /\ left \subseteq left' /\ token' \in {token, NoToken, Extract, r}
            /\ pc'[s] = pc[s] /\ repoBound'[s] = repoBound[s]
        BY <2>1, <2>2, <3>2, PhaseToken, PhaseStays, PhaseOwn
      <4>2. QED
        BY <2>1, <3>2, <4>1, CheckoutsOf DEF TokenOf
    <3>3. QED
      BY <3>1, <3>2
  <2>3. CASE \/ Begin(r) \/ Acquire(r) \/ AcquireFails(r) \/ ChecksPass(r) \/ ChecksFail(r)
             \/ Dispose(r) \/ Epilogue(r)
    <3>1. /\ UNCHANGED <<token, repoBound>> /\ pc[r] # "crashed"
          /\ \A q \in Runs \ {r} : pc'[q] = pc[q]
      BY <2>3, QuietSteps, OtherSteps
    <3>2. left' = left
      BY <2>3, EpilogueStays DEF Begin, Acquire, AcquireFails, ChecksPass, ChecksFail, Dispose,
         bindings
    <3>3. QED
      BY <2>1, <3>1, <3>2 DEF TokenOf
  <2>4. CASE Crash(r)
    <3>1. /\ pc'[r] = "crashed" /\ \A q \in Runs \ {r} : pc'[q] = pc[q]
          /\ UNCHANGED <<token, left, repoBound>>
      BY <2>4, CrashStays DEF Crash, bindings, bound
    <3>2. QED
      BY <2>1, <3>1 DEF TokenOf
  <2>5. CASE OrphanEnds(r)
    <3>1. /\ token' \in {token, NoToken, Extract, r} /\ UNCHANGED <<pc, left, repoBound>>
          /\ pc[r] = "crashed"
      BY <2>5, OrphanTokenType DEF OrphanEnds, bound, Alone
    <3>2. QED
      BY <2>1, <3>1, CheckoutsOf DEF TokenOf
  <2>6. QED
    BY <1>2, <2>2, <2>3, <2>4, <2>5
<1>3. QED
  BY <1>1, <1>2, StepOf DEF TokenCause

\* A worktree that LabVIEW.ini still names once its run is over was left there by a
\* script of that run that failed, never by a way out of the run that forgets it.
THEOREM TokenLeftIsExplained == Spec => []TokenLeftHasCause
<1>1. Init => TokenCause
  BY DEF Init, TokenCause, TokenOf
<1>2. TypeOK /\ BuildInv /\ Bounds /\ TokenCause /\ [Next]_vars => TokenCause'
  BY TokenStep DEF BuildInv
<1>3. Bounds /\ TokenCause => TokenLeftHasCause
  BY DEF Bounds, BoundOf, RepoBoundAt, TokenCause, TokenOf, TokenLeftHasCause, After
<1>4. QED
  BY <1>1, <1>2, <1>3, TypeCorrect, BuildInvHolds, BoundsHold, PTL DEF Spec

-----------------------------------------------------------------------------
(***************************************************************************)
(* The session                                                              *)
(***************************************************************************)

\* What the session sees of a run, as SdPplLvcli maps it.
Stage == [r \in Runs |->
    CASE pc[r] \in {"idle", "acquire"} -> "out"
      [] pc[r] \in Locked -> "in"
      [] pc[r] \in After -> "after"
      [] OTHER -> "end"]
Held == [r \in Runs |-> (IF repoBound[r] THEN {r} ELSE {})
                          \cup (IF extractedBound[r] THEN {Extract} ELSE {})]
MayPublish == {r \in Runs : opts[r].copyOnFail}
Published == [c \in Clones |-> {out[c].sd, out[c].zip} \ {NoRun}]
Killed == {r \in Runs : pc[r] = "crashed"}
SessionView == <<Stage, Held, clean, MayPublish, Published, Killed>>

\* The stage of a run, by its place.
LEMMA StageAt ==
    ASSUME NEW r \in Runs
    PROVE  /\ Stage[r] = "out" <=> pc[r] \in {"idle", "acquire"}
           /\ Stage[r] = "in" <=> pc[r] \in Locked
           /\ Stage[r] = "after" <=> pc[r] \in After
           /\ pc[r] \in {"success", "fail", "exception", "crashed"} => Stage[r] = "end"
           /\ Stage[r] \in {"out", "in", "after", "end"}
BY OutsidePlaces DEF Stage, After

\* A step that moves r from one stage to another and kills nobody.
LEMMA Moves ==
    ASSUME NEW r \in Runs, NEW stage,
           \A s \in Runs \ {r} : pc'[s] = pc[s],
           Stage'[r] = stage
    PROVE  Stage' = [Stage EXCEPT ![r] = stage]
<1>1. \A s \in Runs \ {r} : Stage'[s] = Stage[s]
  BY DEF Stage
<1>2. DOMAIN Stage = Runs /\ DOMAIN Stage' = Runs /\ Stage = [s \in Runs |-> Stage[s]]
      /\ Stage' = [s \in Runs |-> Stage'[s]]
  BY DEF Stage
<1>3. QED
  BY <1>1, <1>2

\* The parts of the view that depend on a part of the state only.
LEMMA ViewStays ==
    /\ UNCHANGED opts => UNCHANGED MayPublish
    /\ UNCHANGED out => UNCHANGED Published
    /\ UNCHANGED <<repoBound, extractedBound>> => UNCHANGED Held
    /\ UNCHANGED pc => UNCHANGED <<Stage, Killed>>
BY DEF MayPublish, Published, Held, Stage, Killed

\* A step of r to or from no kill leaves the killed runs as they are.
LEMMA KilledStays ==
    ASSUME NEW r \in Runs, pc[r] # "crashed", pc'[r] # "crashed",
           \A s \in Runs \ {r} : pc'[s] = pc[s]
    PROVE  UNCHANGED Killed
BY DEF Killed

\* The actions of the session, in terms of the view.
LEMMA SessionActions ==
    ASSUME NEW r \in Runs
    PROVE  /\ /\ Stage[r] = "out"
              /\ \A s \in Runs \ {r} : CloneOf[s] = CloneOf[r] => Stage[s] # "in"
              /\ Stage' = [Stage EXCEPT ![r] = "in"]
              /\ UNCHANGED <<Held, clean, MayPublish, Published, Killed>>
              => Session!Enter(r)
           /\ /\ Stage[r] = "in"
              /\ \A s \in Runs \ {r} : Held'[s] = Held[s] /\ clean'[s] = clean[s]
              /\ clean'[r] => clean[r]
              /\ UNCHANGED <<Stage, MayPublish, Published, Killed>>
              => Session!Work(r)
           /\ /\ Stage[r] = "in"
              /\ Held[r] = {}
              /\ \E next \in {"after", "end"} : Stage' = [Stage EXCEPT ![r] = next]
              /\ UNCHANGED <<Held, clean, MayPublish, Published, Killed>>
              => Session!Leave(r)
           /\ /\ Stage[r] = "after"
              /\ clean[r] \/ r \in MayPublish
              /\ Published'[CloneOf[r]] \subseteq Published[CloneOf[r]] \cup {r}
              /\ \A c \in Clones \ {CloneOf[r]} : Published'[c] = Published[c]
              /\ UNCHANGED <<Stage, Held, clean, MayPublish, Killed>>
              => Session!Publish(r)
           /\ /\ Stage[r] \in {"out", "after"}
              /\ Stage' = [Stage EXCEPT ![r] = "end"]
              /\ UNCHANGED <<Held, clean, MayPublish, Published, Killed>>
              => Session!End(r)
           /\ /\ Stage[r] # "end"
              /\ Stage' = [Stage EXCEPT ![r] = "end"]
              /\ Killed' = Killed \cup {r}
              /\ UNCHANGED <<Held, clean, MayPublish, Published>>
              => Session!Kill(r)
BY DEF Session!Enter, Session!Work, Session!Leave, Session!Publish, Session!End, Session!Kill,
   Stage, Held, MayPublish, Published, Killed

\* A step of a run is a step of its session, or not seen there.
LEMMA SessionStep ==
    ASSUME TypeOK, LockExcludes, ZipOwn, Bounds, Copied, [Next]_vars
    PROVE  Session!Next \/ UNCHANGED SessionView
<1>1. CASE UNCHANGED vars
  BY <1>1, ViewStays DEF vars, SessionView
<1>2. ASSUME NEW r \in Runs,
             \/ Begin(r) \/ Acquire(r) \/ AcquireFails(r) \/ ChecksPass(r) \/ ChecksFail(r)
             \/ Phase(r)
             \/ Dispose(r) \/ Epilogue(r)
             \/ Crash(r) \/ OrphanEnds(r)
      PROVE  Session!Next \/ UNCHANGED SessionView
  <2>1. pc \in [Runs -> Places] /\ BoundOf(r) /\ CopiedOf(r)
    BY DEF TypeOK, Bounds, Copied
  <2>2. Stage = [s \in Runs |-> Stage[s]] /\ Stage' = [s \in Runs |-> Stage'[s]]
    BY DEF Stage
  <2>3. ASSUME NEW stage, Stage[r] = stage, Stage' = [Stage EXCEPT ![r] = stage]
        PROVE  Stage' = Stage
    BY <2>2, <2>3
  <2>4. /\ Stage'[r] = "out" <=> pc'[r] \in {"idle", "acquire"}
        /\ Stage'[r] = "in" <=> pc'[r] \in Locked
        /\ Stage'[r] = "after" <=> pc'[r] \in After
        /\ pc'[r] \in {"success", "fail", "exception", "crashed"} => Stage'[r] = "end"
    BY OutsidePlaces DEF Stage, After
  <2>5. CASE Begin(r) \/ AcquireFails(r)
    <3>1. /\ \A s \in Runs \ {r} : pc'[s] = pc[s]
          /\ pc[r] \in {"idle", "acquire"} /\ pc'[r] \in {"acquire", "fail"}
      BY <2>1, <2>5 DEF Begin, AcquireFails, Goto
    <3>2. UNCHANGED <<Held, clean, MayPublish, Published, Killed>>
      BY <2>5, <3>1, OtherSteps, OutStays, ViewStays, KilledStays
    <3>3. CASE pc'[r] = "acquire"
      <4>1. Stage[r] = "out" /\ Stage'[r] = "out"
        BY <2>4, <3>1, <3>3, StageAt
      <4>2. Stage' = Stage
        BY <2>3, <3>1, <4>1, Moves
      <4>3. QED
        BY <3>2, <4>2 DEF SessionView
    <3>4. CASE pc'[r] = "fail"
      <4>1. Stage[r] = "out" /\ Stage'[r] = "end"
        BY <2>4, <3>1, <3>4, StageAt
      <4>2. Stage' = [Stage EXCEPT ![r] = "end"]
        BY <3>1, <4>1, Moves
      <4>3. Session!End(r)
        BY <3>2, <4>1, <4>2, SessionActions
      <4>4. QED
        BY <4>3 DEF Session!Next
    <3>5. QED
      BY <3>1, <3>3, <3>4
  <2>6. CASE Acquire(r)
    <3>1. /\ pc[r] = "acquire" /\ pc'[r] = "checks" /\ lock[CloneOf[r]] = NoRun
          /\ \A s \in Runs \ {r} : pc'[s] = pc[s]
      BY <2>1, <2>6 DEF Acquire, Goto
    <3>2. UNCHANGED <<Held, clean, MayPublish, Published, Killed>>
      BY <2>6, <3>1, OtherSteps, OutStays, ViewStays, KilledStays
    <3>3. Stage[r] = "out" /\ Stage'[r] = "in"
      BY <2>4, <3>1, StageAt DEF Locked
    <3>4. Stage' = [Stage EXCEPT ![r] = "in"]
      BY <3>1, <3>3, Moves
    <3>5. ASSUME NEW s \in Runs \ {r}, CloneOf[s] = CloneOf[r] PROVE Stage[s] # "in"
      BY <3>1, <3>5, StageAt DEF LockExcludes
    <3>6. Session!Enter(r)
      BY <3>2, <3>3, <3>4, <3>5, SessionActions
    <3>7. QED
      BY <3>6 DEF Session!Next
  <2>7. CASE ChecksPass(r)
    <3>1. /\ pc[r] = "checks" /\ pc'[r] = "unbind-current"
          /\ \A s \in Runs \ {r} : pc'[s] = pc[s]
      BY <2>1, <2>7 DEF ChecksPass, Goto
    <3>2. UNCHANGED <<Held, clean, MayPublish, Published, Killed>>
      BY <2>7, <3>1, OtherSteps, OutStays, ViewStays, KilledStays
    <3>3. Stage[r] = "in" /\ Stage'[r] = "in"
      BY <2>4, <3>1, StageAt DEF Locked, ToolPhases
    <3>4. Stage' = Stage
      BY <2>3, <3>1, <3>3, Moves
    <3>5. QED
      BY <3>2, <3>4 DEF SessionView
  <2>8. CASE ChecksFail(r) \/ Dispose(r)
    <3>1. /\ pc[r] \in {"checks", "dispose"}
          /\ pc'[r] \in {"fail", "exception", "copy-sd", "stash"}
          /\ \A s \in Runs \ {r} : pc'[s] = pc[s]
      BY <2>1, <2>8 DEF ChecksFail, Dispose, Goto
    <3>2. UNCHANGED <<Held, clean, MayPublish, Published, Killed>>
      BY <2>8, <3>1, OtherSteps, OutStays, ViewStays, KilledStays
    <3>3. Stage[r] = "in" /\ Held[r] = {}
      BY <2>1, <3>1, StageAt DEF Locked, BoundOf, RepoBoundAt, ExtractedBoundAt, Held
    <3>4. Stage'[r] \in {"after", "end"}
      BY <2>4, <3>1 DEF After
    <3>5. \E next \in {"after", "end"} : Stage' = [Stage EXCEPT ![r] = next]
      BY <3>1, <3>4, Moves
    <3>6. Session!Leave(r)
      BY <3>2, <3>3, <3>5, SessionActions
    <3>7. QED
      BY <3>6 DEF Session!Next
  <2>9. CASE Phase(r)
    <3>1. /\ pc[r] \in Locked /\ pc'[r] \in Locked /\ UNCHANGED <<opts, out>>
          /\ \A s \in Runs \ {r} : pc'[s] = pc[s]
      BY <2>9, PhaseStays
    <3>2. Stage[r] = "in" /\ Stage'[r] = "in"
      BY <2>4, <3>1, StageAt
    <3>3. Stage' = Stage
      BY <2>3, <3>1, <3>2, Moves
    <3>4. UNCHANGED <<MayPublish, Published, Killed>>
      BY <3>1, ViewStays, KilledStays, OutsidePlaces
    <3>5. \A s \in Runs \ {r} : Held'[s] = Held[s] /\ clean'[s] = clean[s]
      BY <2>9, PhaseOwn DEF Held
    <3>6. clean'[r] => clean[r]
      BY <2>9, PhaseOwn
    <3>7. Session!Work(r)
      BY <3>2, <3>3, <3>4, <3>5, <3>6, SessionActions
    <3>8. QED
      BY <3>7 DEF Session!Next
  <2>10. CASE Epilogue(r)
    <3>1. /\ pc[r] \in After /\ pc'[r] \in After \cup {"success", "fail"}
          /\ \A s \in Runs \ {r} : pc'[s] = pc[s]
          /\ pc[r] # "crashed" /\ pc'[r] # "crashed"
      BY <2>10, EpilogueStays DEF After
    <3>2. UNCHANGED <<Held, clean, MayPublish, Killed>>
      BY <2>10, <3>1, OtherSteps, ViewStays, KilledStays
    <3>3. Stage[r] = "after"
      BY <3>1, StageAt
    <3>4. CASE pc[r] \in {"copy-sd", "copy-artifacts", "copy-ppl"}
      <4>1. pc'[r] \in After
        BY <2>1, <2>10, <3>4 DEF Epilogue, CopySd, CopyArtifacts, CopyPpl, Copy, Stash, Remove,
           Goto, After
      <4>2. Stage' = Stage
        BY <2>3, <2>4, <3>1, <3>3, <4>1, Moves
      <4>3. clean[r] \/ r \in MayPublish
        BY <2>1, <3>4 DEF CopiedOf, Good, MayPublish
      <4>4. /\ \A c \in Clones \ {CloneOf[r]} : out'[c] = out[c]
            /\ out'[CloneOf[r]].sd \in {out[CloneOf[r]].sd, r}
            /\ out'[CloneOf[r]].zip \in {out[CloneOf[r]].zip, r}
        BY <2>10, EpilogueOut
      <4>5. \A c \in Clones \ {CloneOf[r]} : Published'[c] = Published[c]
        BY <4>4 DEF Published
      <4>6. Published'[CloneOf[r]] \subseteq Published[CloneOf[r]] \cup {r}
        BY <4>4 DEF Published
      <4>7. Session!Publish(r)
        BY <3>2, <3>3, <4>2, <4>3, <4>5, <4>6, SessionActions
      <4>8. QED
        BY <4>7 DEF Session!Next
    <3>5. CASE pc[r] \in {"stash", "remove"}
      <4>1. UNCHANGED Published
        BY <2>10, <3>5, EpilogueOut, ViewStays
      <4>2. CASE pc'[r] \in After
        <5>1. Stage' = Stage
          BY <2>3, <2>4, <3>1, <3>3, <4>2, Moves
        <5>2. QED
          BY <3>2, <4>1, <5>1 DEF SessionView
      <4>3. CASE pc'[r] \in {"success", "fail"}
        <5>1. Stage' = [Stage EXCEPT ![r] = "end"]
          BY <2>4, <3>1, <4>3, Moves
        <5>2. Session!End(r)
          BY <3>2, <3>3, <4>1, <5>1, SessionActions
        <5>3. QED
          BY <5>2 DEF Session!Next
      <4>4. QED
        BY <3>1, <4>2, <4>3
    <3>6. QED
      BY <3>1, <3>4, <3>5 DEF After
  <2>11. CASE Crash(r)
    <3>1. /\ pc[r] \in {"acquire"} \cup Locked \cup After /\ pc'[r] = "crashed"
          /\ \A s \in Runs \ {r} : pc'[s] = pc[s]
      BY <2>11, CrashStays DEF Crash
    <3>2. UNCHANGED <<Held, clean, MayPublish, Published>>
      BY <2>11, OtherSteps, OutStays, ViewStays
    <3>3. Stage[r] # "end"
      BY <3>1, StageAt
    <3>4. Stage' = [Stage EXCEPT ![r] = "end"]
      BY <2>4, <3>1, Moves
    <3>5. Killed' = Killed \cup {r}
      BY <3>1 DEF Killed
    <3>6. Session!Kill(r)
      BY <3>2, <3>3, <3>4, <3>5, SessionActions
    <3>7. QED
      BY <3>6 DEF Session!Next
  <2>12. CASE OrphanEnds(r)
    <3>1. UNCHANGED <<pc, clean, repoBound, extractedBound, opts, out>>
      BY <2>12 DEF OrphanEnds, outcome, bound
    <3>2. QED
      BY <3>1, ViewStays DEF SessionView
  <2>13. QED
    BY <1>2, <2>5, <2>6, <2>7, <2>8, <2>9, <2>10, <2>11, <2>12
<1>3. QED
  BY <1>1, <1>2, StepOf

\* Every behaviour of the runs is a behaviour of the session: a clone is entered by one
\* run at a time, left with nothing bound, and published to only after that.
THEOREM SessionImplemented == Spec => ImplementsSession
<1>1. Init => Session!Init
  <2> SUFFICES ASSUME Init PROVE Session!Init
    OBVIOUS
  <2>1. Stage = [r \in Runs |-> "out"]
    <3>1. \A r \in Runs : Stage[r] = "out"
      BY StageAt DEF Init
    <3>2. QED
      BY <3>1 DEF Stage
  <2>2. Held = [r \in Runs |-> {}]
    <3>1. \A r \in Runs : repoBound[r] = FALSE /\ extractedBound[r] = FALSE
      BY DEF Init
    <3>2. \A r \in Runs :
              (IF repoBound[r] THEN {r} ELSE {})
              \cup (IF extractedBound[r] THEN {Extract} ELSE {}) = {}
      BY <3>1
    <3>3. QED
      BY <3>2 DEF Held
  <2>3. Published = [c \in Clones |-> {}]
    <3>1. \A c \in Clones : out[c].sd = NoRun /\ out[c].zip = NoRun
      BY DEF Init
    <3>2. \A c \in Clones : {out[c].sd, out[c].zip} \ {NoRun} = {}
      BY <3>1
    <3>3. QED
      BY <3>2 DEF Published
  <2>4. MayPublish \subseteq Runs /\ Killed = {} /\ clean = [r \in Runs |-> TRUE]
    BY DEF Init, MayPublish, Killed
  <2>5. QED
    BY <2>1, <2>2, <2>3, <2>4 DEF Session!Init, Stage, Held, MayPublish, Published, Killed
<1>2. Init => Copied
  BY DEF Init, Copied, CopiedOf, Good
<1>3. TypeOK /\ BuildInv /\ Copied /\ [Next]_vars => Copied'
  BY CopiedStep DEF BuildInv
<1>4. TypeOK /\ LockExcludes /\ BuildInv /\ Bounds /\ Copied /\ [Next]_vars
      => [Session!Next]_Session!vars
  <2> SUFFICES ASSUME TypeOK, LockExcludes, BuildInv, Bounds, Copied, [Next]_vars
               PROVE  [Session!Next]_Session!vars
    OBVIOUS
  <2>1. Session!Next \/ UNCHANGED SessionView
    BY SessionStep DEF BuildInv
  <2>2. UNCHANGED SessionView => UNCHANGED Session!vars
    BY DEF SessionView, Session!vars, Stage, Held, MayPublish, Published, Killed
  <2>3. QED
    BY <2>1, <2>2
<1>5. QED
  BY <1>1, <1>2, <1>3, <1>4, TypeCorrect, LockHolds, BuildInvHolds, BoundsHold, PTL
     DEF Spec, ImplementsSession, Session!Spec
=============================================================================
