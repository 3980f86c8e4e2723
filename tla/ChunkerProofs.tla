----------------------------- MODULE ChunkerProofs -----------------------------
(* Theorems about the chunker: for any files, trees and bounds, all text is   *)
(* kept, the lines of a chunk hold its text, and blocks are what the source   *)
(* says they are; and a chunk that is too long is cut into windows that drop  *)
(* no line (SubChunks).  DefinitionProofs goes on to definitions.             *)
(*                                                                            *)
(* First what the operators of the model do with sets and lists, then the     *)
(* formats from the simplest to templates, then the specification: text and   *)
(* spans, blocks.                                                             *)
EXTENDS Chunker, SubChunks, SequencesExt, FiniteSetsExt, FiniteSetTheorems, SequenceTheorems, TLAPS

-----------------------------------------------------------------------------
(* Sets of numbers, and lists put in an order.                               *)

(* A set of numbers has a least one: the sets 0 .. n are ordered by inclusion. *)
LEMMA LeastNumber ==
  ASSUME NEW Q \in SUBSET Nat, Q # {}
  PROVE  \E k \in Q : \A j \in Q : k <= j
<1> DEFINE Below == {0 .. n : n \in Q}
<1>1. Below # {} /\ Below \subseteq FiniteSubsetsOf(Nat)
  <2>1. \A n \in Nat : IsFiniteSet(0 .. n)
    BY FS_Interval
  <2>2. \A n \in Q : 0 .. n \in FiniteSubsetsOf(Nat)
    BY <2>1 DEF FiniteSubsetsOf
  <2> QED
    BY <2>2
<1>2. PICK s \in Below : \A t \in Below : <<t, s>> \notin StrictSubsetOrdering(Nat)
  <2> HIDE DEF Below
  <2> QED
    BY <1>1, WFMin, FS_StrictSubsetOrderingWellFounded
<1>3. PICK k \in Q : s = 0 .. k
  OBVIOUS
<1>4. ASSUME NEW j \in Q, j < k PROVE FALSE
  <2>1. <<0 .. j, 0 .. k>> \in StrictSubsetOrdering(Nat)
    BY <1>4 DEF StrictSubsetOrdering
  <2> QED
    BY <1>2, <1>3, <2>1
<1> QED
  BY <1>4

(* A strict order of the positions P.                                         *)
Orders(before, P) ==
  /\ \A i \in P : <<i, i>> \notin before
  /\ \A i, j \in P : i # j => <<i, j>> \in before \/ <<j, i>> \in before
  /\ \A i, j, k \in P : <<i, j>> \in before /\ <<j, k>> \in before => <<i, k>> \in before

(* The positions of s in the order of an arrangement r.                       *)
Arranges(spot, P, before, s, r) ==
  /\ spot \in [1 .. Cardinality(P) -> P]
  /\ \A i \in P : \E n \in 1 .. Cardinality(P) : spot[n] = i
  /\ \A m, n \in 1 .. Cardinality(P) : m < n => spot[m] # spot[n] /\ <<spot[m], spot[n]>> \in before
  /\ r = [n \in 1 .. Cardinality(P) |-> s[spot[n]]]

(* An arrangement has each position once, in the order asked for.             *)
LEMMA ArrangedInOrder ==
  ASSUME NEW s, NEW P, IsFiniteSet(P), NEW before, Orders(before, P)
  PROVE  \E spot : Arranges(spot, P, before, s, Arranged(s, P, before))
<1> DEFINE ahead(i) == {j \in P : <<j, i>> \in before}
           place(i) == 1 + Cardinality(ahead(i))
           spot == [n \in 1 .. Cardinality(P) |-> CHOOSE i \in P : place(i) = n]
           pl == [i \in P |-> place(i)]
<1>1. PICK size \in Nat : size = Cardinality(P)
  BY FS_CardinalityType
<1>2. ASSUME NEW i \in P PROVE place(i) \in 1 .. size /\ Cardinality(ahead(i)) \in Nat
  <2>1. i \notin ahead(i) /\ ahead(i) \in SUBSET P
    BY DEF Orders
  <2>2. IsFiniteSet(ahead(i)) /\ Cardinality(ahead(i)) <= size /\ ahead(i) # P
    BY <1>1, <2>1, FS_Subset
  <2>3. Cardinality(ahead(i)) \in Nat /\ Cardinality(ahead(i)) # size
    BY <1>1, <2>1, <2>2, FS_Subset, FS_CardinalityType
  <2> HIDE DEF ahead
  <2> QED
    BY <1>1, <2>2, <2>3
<1>3. ASSUME NEW i \in P, NEW j \in P, <<i, j>> \in before PROVE place(i) < place(j)
  <2>1. ahead(i) \in SUBSET ahead(j) /\ i \in ahead(j) /\ i \notin ahead(i) /\ ahead(j) \in SUBSET P
    BY <1>3 DEF Orders
  <2>2. IsFiniteSet(ahead(j)) /\ ahead(i) # ahead(j)
    BY <2>1, FS_Subset
  <2>3. Cardinality(ahead(i)) <= Cardinality(ahead(j)) /\ Cardinality(ahead(i)) # Cardinality(ahead(j))
    BY <2>1, <2>2, FS_Subset
  <2>4. Cardinality(ahead(i)) \in Nat /\ Cardinality(ahead(j)) \in Nat
    BY <1>2
  <2> HIDE DEF ahead
  <2> QED
    BY <2>3, <2>4
<1>4. \A i \in P : place(i) \in 1 .. size
  BY <1>2
<1>5. \A i, j \in P : <<i, j>> \in before => place(i) < place(j)
  BY <1>3
<1>6. Arranged(s, P, before) = [n \in 1 .. size |-> s[CHOOSE i \in P : place(i) = n]]
  BY <1>1 DEF Arranged
<1> HIDE DEF place
<1>7. \A i, j \in P : i # j => place(i) # place(j)
  <2> SUFFICES ASSUME NEW i \in P, NEW j \in P, i # j PROVE place(i) # place(j)
    OBVIOUS
  <2>1. <<i, j>> \in before \/ <<j, i>> \in before
    BY DEF Orders
  <2>2. place(i) < place(j) \/ place(j) < place(i)
    BY <1>5, <2>1
  <2>3. place(i) \in Nat /\ place(j) \in Nat
    BY <1>4
  <2> QED
    BY <2>2, <2>3
<1>8. pl \in Injection(P, 1 .. size)
  BY <1>4, <1>7 DEF Injection, IsInjective
<1>9. pl \in Surjection(P, 1 .. size)
  <2>1. IsFiniteSet(1 .. size) /\ Cardinality(1 .. size) = size
    BY FS_Interval
  <2> HIDE DEF pl
  <2> QED
    BY <1>1, <1>8, <2>1, FS_Injection
<1>10. \A n \in 1 .. size : \E i \in P : place(i) = n
  BY <1>9 DEF Surjection
<1>11. \A n \in 1 .. size : spot[n] \in P /\ place(spot[n]) = n
  BY <1>1, <1>10
<1>12. spot \in [1 .. size -> P]
  BY <1>1, <1>11
<1>13. \A i \in P : spot[place(i)] = i
  BY <1>4, <1>7, <1>11
<1>14. \A i \in P : \E n \in 1 .. size : spot[n] = i
  BY <1>4, <1>13
<1>15. Arranged(s, P, before) = [n \in 1 .. size |-> s[spot[n]]]
  BY <1>1, <1>6
<1>16. ASSUME NEW m \in 1 .. size, NEW n \in 1 .. size, m < n
       PROVE  spot[m] # spot[n] /\ <<spot[m], spot[n]>> \in before
  <2> HIDE DEF spot
  <2>1. spot[m] # spot[n]
    BY <1>11, <1>16
  <2>2. <<spot[n], spot[m]>> \notin before
    BY <1>5, <1>11, <1>16
  <2> QED
    BY <1>11, <2>1, <2>2 DEF Orders
<1> HIDE DEF spot
<1> QED
  BY <1>1, <1>12, <1>14, <1>15, <1>16 DEF Arranges

(* What holds at 0 and is kept by each step up to n holds up to n.            *)
LEMMA UpTo ==
  ASSUME NEW n \in Nat, NEW Q, 0 \in Q, \A k \in 1 .. n : k - 1 \in Q => k \in Q
  PROVE  \A k \in 0 .. n : k \in Q
<1> DEFINE Wrong == {k \in Nat : k <= n /\ k \notin Q}
<1>1. ASSUME Wrong # {} PROVE FALSE
  <2>1. PICK k \in Wrong : \A j \in Wrong : k <= j
    BY <1>1, LeastNumber
  <2>2. k \in 1 .. n /\ k - 1 \in Nat /\ k - 1 \notin Wrong
    BY <2>1
  <2> QED
    BY <2>1, <2>2
<1> QED
  BY <1>1

(* A sequence of values that each step makes from the one before it.         *)
Follows(g, n, first, step) == g[0] = first /\ \A k \in 1 .. n : g[k] = step[k][g[k - 1]]

(* A recursion along 0 .. n, each step of which stays in T, has a solution.   *)
LEMMA RecursionIsThere ==
  ASSUME NEW n \in Nat, NEW T, NEW first \in T, NEW step \in [1 .. n -> [T -> T]]
  PROVE  \E g \in [0 .. n -> T] : Follows(g, n, first, step)
<1> DEFINE Is(g, m) == g = [k \in 0 .. m |-> IF k = 0 THEN first ELSE step[k][g[k - 1]]]
           Solved == {m \in Nat : m <= n /\ \E g \in [0 .. m -> T] : Is(g, m)}
<1>1. 0 \in Solved
  <2> DEFINE g == [k \in 0 .. 0 |-> first]
  <2>1. g \in [0 .. 0 -> T] /\ Is(g, 0)
    OBVIOUS
  <2> HIDE DEF g, Is
  <2> QED
    BY <2>1
<1>2. ASSUME NEW m \in 1 .. n, m - 1 \in Solved PROVE m \in Solved
  <2>1. PICK g \in [0 .. m - 1 -> T] : Is(g, m - 1)
    BY <1>2
  <2> DEFINE h == [k \in 0 .. m |-> IF k = m THEN step[m][g[m - 1]] ELSE g[k]]
  <2>2. m \in Nat /\ m <= n /\ g[m - 1] \in T /\ step[m][g[m - 1]] \in T
    BY <2>1
  <2>3. h \in [0 .. m -> T]
    BY <2>1, <2>2
  <2>4. \A k \in 0 .. m - 1 : h[k] = g[k]
    BY <2>2
  <2>5. \A k \in 0 .. m - 1 : g[k] = IF k = 0 THEN first ELSE step[k][g[k - 1]]
    BY <2>1
  <2>6. h[m] = step[m][g[m - 1]]
    BY <2>2
  <2> HIDE DEF h
  <2>7. \A k \in 0 .. m : h[k] = IF k = 0 THEN first ELSE step[k][h[k - 1]]
    <3> SUFFICES ASSUME NEW k \in 0 .. m PROVE h[k] = IF k = 0 THEN first ELSE step[k][h[k - 1]]
      OBVIOUS
    <3>1. CASE k = m
      <4>1. h[m - 1] = g[m - 1] /\ m # 0
        BY <2>2, <2>4
      <4> QED
        BY <2>6, <3>1, <4>1
    <3>2. CASE k # m
      <4>1. k \in 0 .. m - 1 /\ (k # 0 => k - 1 \in 0 .. m - 1)
        BY <2>2, <3>2
      <4> QED
        BY <2>4, <2>5, <4>1
    <3> QED
      BY <3>1, <3>2
  <2>8. Is(h, m)
    BY <2>3, <2>7
  <2> HIDE DEF Is
  <2> QED
    BY <2>2, <2>3, <2>8
<1> HIDE DEF Solved
<1>3. \A m \in 1 .. n : m - 1 \in Solved => m \in Solved
  BY <1>2
<1>4. \A m \in 0 .. n : m \in Solved
  BY <1>1, <1>3, UpTo
<1>5. PICK g \in [0 .. n -> T] : Is(g, n)
  BY <1>4 DEF Solved
<1>6. \A k \in 0 .. n : g[k] = IF k = 0 THEN first ELSE step[k][g[k - 1]]
  BY <1>5
<1>7. 0 \in 0 .. n /\ \A k \in 1 .. n : k \in 0 .. n /\ k # 0
  OBVIOUS
<1>8. Follows(g, n, first, step)
  BY <1>6, <1>7 DEF Follows
<1> QED
  BY <1>8

(* The recursion behind FlattenSeq has a solution, of the type of its parts.  *)
IsFlat(g, seqs, n) == g = [i \in 1 .. n |-> IF i = 1 THEN seqs[i] ELSE g[i - 1] \o seqs[i]]

(* The flattened lists as a function of how many of them are flattened.      *)
LEMMA FlatIsThere ==
  ASSUME NEW T, NEW n \in Nat, NEW seqs \in [1 .. n -> Seq(T)]
  PROVE  \E g \in [1 .. n -> Seq(T)] : IsFlat(g, seqs, n)
<1> DEFINE Solved == {k \in Nat : k > n \/ \E g \in [1 .. k -> Seq(T)] : IsFlat(g, seqs, k)}
           Unsolved == Nat \ Solved
<1>1. 0 \in Solved
  <2> DEFINE g == [i \in 1 .. 0 |-> <<>>]
  <2>1. g \in [1 .. 0 -> Seq(T)] /\ IsFlat(g, seqs, 0)
    BY DEF IsFlat
  <2> QED
    BY <2>1
<1>2. ASSUME NEW k \in Solved, k + 1 <= n PROVE k + 1 \in Solved
  <2>1. PICK g \in [1 .. k -> Seq(T)] : IsFlat(g, seqs, k)
    BY <1>2
  <2> DEFINE h == [i \in 1 .. k + 1 |-> IF i = 1 THEN seqs[i] ELSE g[i - 1] \o seqs[i]]
  <2>2. k \in Nat
    OBVIOUS
  <2>3. \A i \in 1 .. k : g[i] = IF i = 1 THEN seqs[i] ELSE g[i - 1] \o seqs[i]
    BY <2>1 DEF IsFlat
  <2>4. \A i \in 1 .. k : i \in 1 .. k + 1
    BY <2>2
  <2>5. \A i \in 1 .. k : h[i] = g[i]
    BY <2>3, <2>4
  <2>6. \A i \in 1 .. k + 1 : i = 1 \/ h[i - 1] = g[i - 1]
    <3> HIDE DEF h
    <3> QED
      BY <2>2, <2>5
  <2>7. IsFlat(h, seqs, k + 1)
    <3>1. \A i \in 1 .. k + 1 :
            (IF i = 1 THEN seqs[i] ELSE g[i - 1] \o seqs[i]) = (IF i = 1 THEN seqs[i] ELSE h[i - 1] \o seqs[i])
      BY <2>6
    <3> QED
      BY <3>1 DEF IsFlat
  <2>8. \A i \in 1 .. k + 1 : seqs[i] \in Seq(T) /\ (i = 1 \/ g[i - 1] \in Seq(T))
    BY <1>2, <2>1, <2>2
  <2>9. h \in [1 .. k + 1 -> Seq(T)]
    BY <2>8
  <2> HIDE DEF h
  <2> QED
    BY <2>2, <2>7, <2>9
<1> HIDE DEF Solved
<1>3. ASSUME n \notin Solved PROVE FALSE
  <2>1. Unsolved \in SUBSET Nat /\ n \in Unsolved
    BY <1>3
  <2>2. PICK k \in Unsolved : \A j \in Unsolved : k <= j
    BY <2>1, LeastNumber
  <2>3. k \in Nat /\ k # 0 /\ k <= n
    BY <1>1, <2>1, <2>2
  <2>4. k - 1 \in Solved
    BY <2>2, <2>3
  <2>5. k - 1 + 1 = k
    BY <2>3
  <2> QED
    BY <1>2, <2>2, <2>3, <2>4, <2>5
<1> QED
  BY <1>3 DEF Solved

(* What is put together is of the type of its parts.                         *)
LEMMA FlattenKeeps ==
  ASSUME NEW T, NEW seqs \in Seq(Seq(T))
  PROVE  FlattenSeq(seqs) \in Seq(T)
<1>1. PICK n \in Nat : n = Len(seqs) /\ seqs \in [1 .. n -> Seq(T)]
  BY LenProperties
<1>2. CASE n = 0
  <2>1. seqs = <<>> /\ FlattenSeq(seqs) = seqs
    BY <1>1, <1>2, EmptySeq DEF FlattenSeq
  <2> QED
    BY <2>1, EmptySeq
<1>3. CASE n # 0
  <2> DEFINE flat == CHOOSE g : IsFlat(g, seqs, n)
  <2>1. FlattenSeq(seqs) = flat[n]
    BY <1>1, <1>3 DEF FlattenSeq, IsFlat
  <2>2. PICK g \in [1 .. n -> Seq(T)] : IsFlat(g, seqs, n)
    BY <1>1, FlatIsThere
  <2>3. IsFlat(flat, seqs, n)
    BY <2>2
  <2> HIDE DEF flat
  <2> DEFINE Wrong == {i \in Nat : i \in 1 .. n /\ flat[i] \notin Seq(T)}
  <2>4. ASSUME Wrong # {} PROVE FALSE
    <3>1. PICK i \in Wrong : \A j \in Wrong : i <= j
      BY <2>4, LeastNumber
    <3>2. i \in 1 .. n /\ flat[i] = IF i = 1 THEN seqs[i] ELSE flat[i - 1] \o seqs[i]
      BY <2>3 DEF IsFlat
    <3>3. i = 1 \/ flat[i - 1] \in Seq(T)
      BY <3>1, <3>2
    <3>4. seqs[i] \in Seq(T)
      BY <1>1, <3>2
    <3>5. flat[i] \in Seq(T)
      BY <3>2, <3>3, <3>4, ConcatProperties
    <3> QED
      BY <3>1, <3>5
  <2> QED
    BY <1>3, <2>1, <2>4
<1> QED
  BY <1>2, <1>3

-----------------------------------------------------------------------------
(* Chunks and lists of them.                                                 *)

(* The least number of a set (Min of the community modules).                 *)
LEMMA MinIs ==
  ASSUME NEW S \in SUBSET Nat, S # {}
  PROVE  Min(S) \in S /\ \A x \in S : Min(S) <= x
<1>1. \E k \in S : \A j \in S : k <= j
  BY LeastNumber
<1> QED
  BY <1>1 DEF Min

(* The greatest number of a bounded set (Max of the community modules).      *)
LEMMA MaxIs ==
  ASSUME NEW n \in Nat, NEW S \in SUBSET (0 .. n), S # {}
  PROVE  Max(S) \in S /\ \A x \in S : x <= Max(S)
<1> DEFINE Left == {n - x : x \in S}
<1>1. \A x \in S : n - x \in Nat
  OBVIOUS
<1>2. Left \in SUBSET Nat /\ Left # {}
  BY <1>1
<1>3. PICK k \in Left : \A j \in Left : k <= j
  BY <1>2, LeastNumber
<1>4. PICK x \in S : k = n - x
  BY <1>3
<1>5. \A y \in S : n - y \in Left
  OBVIOUS
<1>6. \A y \in S : y <= x
  <2> HIDE DEF Left
  <2> QED
    BY <1>3, <1>4, <1>5
<1> QED
  BY <1>4, <1>6 DEF Max

(* The last number of an interval.                                           *)
LEMMA MaxOfInterval ==
  ASSUME NEW a \in Nat, NEW b \in Nat, a .. b # {}
  PROVE  Max(a .. b) = b /\ a <= b
<1>1. a <= b /\ b \in a .. b
  OBVIOUS
<1>2. a .. b \in SUBSET (0 .. b)
  OBVIOUS
<1>3. Max(a .. b) \in a .. b /\ \A x \in a .. b : x <= Max(a .. b)
  BY <1>2, MaxIs
<1> QED
  BY <1>1, <1>3

(* The numbers of a set, each once and in order.                              *)
LEMMA OrderedIs ==
  ASSUME NEW S \in SUBSET Nat, IsFiniteSet(S)
  PROVE  /\ Ordered(S) \in Seq(S) /\ DOMAIN Ordered(S) = 1 .. Len(Ordered(S))
         /\ Len(Ordered(S)) = Cardinality(S) /\ Len(Ordered(S)) \in Nat
         /\ \A i, j \in DOMAIN Ordered(S) : i < j => Ordered(S)[i] < Ordered(S)[j]
         /\ \A x \in S : \E i \in DOMAIN Ordered(S) : Ordered(S)[i] = x
<1> DEFINE id == [x \in S |-> x]
<1>1. Orders(Ascending(S), S)
  BY DEF Orders, Ascending
<1>2. PICK spot : Arranges(spot, S, Ascending(S), id, Arranged(id, S, Ascending(S)))
  BY <1>1, ArrangedInOrder
<1>3. PICK n \in Nat : n = Cardinality(S)
  BY FS_CardinalityType
<1>4. /\ spot \in [1 .. n -> S] /\ Ordered(S) = [k \in 1 .. n |-> id[spot[k]]]
      /\ \A i \in S : \E k \in 1 .. n : spot[k] = i
      /\ \A k, m \in 1 .. n : k < m => spot[k] # spot[m] /\ <<spot[k], spot[m]>> \in Ascending(S)
  BY <1>2, <1>3 DEF Arranges, Ordered
<1>5. \A k \in 1 .. n : Ordered(S)[k] = spot[k]
  BY <1>4
<1>6. Ordered(S) \in [1 .. n -> S]
  BY <1>4
<1>7. Ordered(S) \in Seq(S) /\ Len(Ordered(S)) = n /\ DOMAIN Ordered(S) = 1 .. n
  BY <1>6
<1> QED
  BY <1>3, <1>4, <1>5, <1>7 DEF Ascending

(* A list of the elements of s at the positions P, all of them and in order. *)
Spots(spot, s, P, n) ==
  /\ spot \in [1 .. n -> P] /\ \A i \in P : \E m \in 1 .. n : spot[m] = i
  /\ \A k, m \in 1 .. n : k < m => spot[k] < spot[m]
  /\ Picked(s, P) = [k \in 1 .. n |-> s[spot[k]]]

(* A list of the elements of s at the positions P.                           *)
LEMMA PickedKeeps ==
  ASSUME NEW T, NEW s \in Seq(T), NEW P \in SUBSET (DOMAIN s)
  PROVE  /\ Picked(s, P) \in Seq({s[i] : i \in P})
         /\ \E n \in Nat : \E spot : Spots(spot, s, P, n)
<1>1. PICK size \in Nat : size = Len(s) /\ DOMAIN s = 1 .. size
  BY LenProperties
<1>2. Orders(Ascending(P), P)
  BY <1>1 DEF Orders, Ascending
<1>3. IsFiniteSet(P) /\ Cardinality(P) \in Nat
  <2>1. IsFiniteSet(1 .. size)
    BY FS_Interval
  <2> QED
    BY <1>1, <2>1, FS_Subset, FS_CardinalityType
<1>4. PICK spot : Arranges(spot, P, Ascending(P), s, Arranged(s, P, Ascending(P)))
  BY <1>2, <1>3, ArrangedInOrder
<1>5. PICK n \in Nat : n = Cardinality(P)
  BY <1>3
<1>6. /\ spot \in [1 .. n -> P] /\ Picked(s, P) = [k \in 1 .. n |-> s[spot[k]]]
      /\ \A i \in P : \E k \in 1 .. n : spot[k] = i
      /\ \A k, m \in 1 .. n : k < m => <<spot[k], spot[m]>> \in Ascending(P)
  BY <1>4, <1>5 DEF Arranges, Picked
<1>7. \A k, m \in 1 .. n : k < m => spot[k] < spot[m]
  BY <1>6 DEF Ascending
<1>8. Picked(s, P) \in Seq({s[i] : i \in P})
  BY <1>6
<1>9. Spots(spot, s, P, n)
  BY <1>6, <1>7 DEF Spots
<1> QED
  BY <1>8, <1>9

(* Stripping takes blank units from the ends of a span and nothing else.     *)
LEMMA StripKeeps ==
  ASSUME NEW lo \in Nat, NEW hi \in Int, NEW blanks
  PROVE  LET s == Strip(lo .. hi, blanks)
         IN  /\ s \in SUBSET Nat /\ s \subseteq lo .. hi /\ (lo .. hi) \ blanks \subseteq s
             /\ s = {} \/ \E a, b \in lo .. hi : a <= b /\ s = a .. b /\ a \notin blanks /\ b \notin blanks
             /\ IsFiniteSet(s)
<1> DEFINE ink == (lo .. hi) \ blanks
<1>1. CASE ink = {}
  <2>1. Strip(lo .. hi, blanks) = {}
    BY <1>1 DEF Strip
  <2> QED
    BY <1>1, <2>1, FS_EmptySet
<1>2. CASE ink # {}
  <2>1. ink \in SUBSET Nat /\ hi \in Nat /\ ink \in SUBSET (0 .. hi)
    BY <1>2
  <2>2. Min(ink) \in ink /\ \A x \in ink : Min(ink) <= x
    BY <1>2, <2>1, MinIs
  <2>3. Max(ink) \in ink /\ \A x \in ink : x <= Max(ink)
    BY <1>2, <2>1, MaxIs
  <2>4. Strip(lo .. hi, blanks) = Min(ink) .. Max(ink)
    BY <1>2 DEF Strip
  <2>5. PICK a \in Nat, b \in Nat : a = Min(ink) /\ b = Max(ink)
    BY <2>1, <2>2, <2>3
  <2>6. IsFiniteSet(a .. b)
    BY FS_Interval
  <2> HIDE DEF ink
  <2>7. a \in ink /\ b \in ink /\ a <= b /\ \A x \in ink : a <= x /\ x <= b
    BY <2>2, <2>3, <2>5
  <2>8. Strip(lo .. hi, blanks) = a .. b
    BY <2>4, <2>5
  <2> QED
    BY <2>6, <2>7, <2>8 DEF ink
<1> QED
  BY <1>1, <1>2

-----------------------------------------------------------------------------
(* Lists of chunks.                                                           *)

(* Names and kinds: strings, those the chunkers write among them.             *)
Literals == {"", "block", "function", "heading", "method", "module", "page", "script", "section", "shell", "style", "template"}

(* What a chunk's name and kind are: any string of a file, and the literals  *)
(* of the code.                                                              *)
Labels == STRING \cup Literals

(* A chunk, whatever lines it says it has: its units are those of its text.  *)
Records ==
  [ text : Seq(Int), units : SUBSET Nat, start : Nat, end : Nat, name : Labels, kind : Labels, split : BOOLEAN ]
Tells(c) == c.units = Range(c.text) \ {NoLine}
AnyChunk == {c \in Records : Tells(c)}

(* Chunks that claim the lines of their units.                               *)
Spanning ==
  {c \in AnyChunk : c.start <= c.end /\ \A u \in c.units : c.start <= u /\ u <= c.end}

(* The units of A are in one chunk each; all units are in A.                 *)
Once(cs, A) ==
  \A u \in A : \E k \in DOMAIN cs : u \in cs[k].units /\ \A j \in DOMAIN cs : u \in cs[j].units => j = k
(* Each unit of A is in a chunk.                                             *)
Somewhere(cs, A) == \A u \in A : \E k \in DOMAIN cs : u \in cs[k].units
(* Nothing but units of A is in a chunk.                                     *)
Within(cs, A) == \A k \in DOMAIN cs : cs[k].units \subseteq A

(* A list of members of a set is one of members of a larger set.             *)
LEMMA SeqOfMore ==
  ASSUME NEW A, NEW B, A \subseteq B, NEW s \in Seq(A)
  PROVE  s \in Seq(B)
OBVIOUS

(* The text of units in their order.                                         *)
LEMMA OrderedTells ==
  ASSUME NEW S \in SUBSET Nat, IsFiniteSet(S)
  PROVE  Ordered(S) \in Seq(Int) /\ Range(Ordered(S)) = S /\ Range(Ordered(S)) \ {NoLine} = S
<1>1. Ordered(S) \in Seq(S) /\ \A x \in S : \E i \in DOMAIN Ordered(S) : Ordered(S)[i] = x
  BY OrderedIs
<1>2. \A i \in DOMAIN Ordered(S) : Ordered(S)[i] \in S
  BY <1>1
<1>3. Range(Ordered(S)) = S
  BY <1>1, <1>2 DEF Range
<1>4. NoLine \notin S
  BY DEF NoLine
<1>5. Ordered(S) \in Seq(Int)
  <2>1. S \subseteq Int
    OBVIOUS
  <2> QED
    BY <1>1, <2>1, SeqOfMore
<1> QED
  BY <1>3, <1>4, <1>5

(* What a chunk is made of.                                                  *)
LEMMA PartsOf ==
  ASSUME NEW c \in AnyChunk
  PROVE  /\ c.text \in Seq(Int) /\ c.units \in SUBSET Nat /\ c.start \in Nat /\ c.end \in Nat
         /\ c.name \in Labels /\ c.kind \in Labels /\ c.split \in BOOLEAN
         /\ c.units = Range(c.text) \ {NoLine}
         /\ c = [ text |-> c.text, units |-> c.units, start |-> c.start, end |-> c.end,
                  name |-> c.name, kind |-> c.kind, split |-> c.split ]
BY DEF AnyChunk, Records, Tells

LEMMA SpanningParts ==
  ASSUME NEW c \in Spanning
  PROVE  /\ c \in AnyChunk /\ c.units \in SUBSET Nat /\ c.start \in Nat /\ c.end \in Nat
         /\ c.name \in Labels /\ c.kind \in Labels /\ c.split \in BOOLEAN
         /\ c.start <= c.end /\ \A u \in c.units : c.start <= u /\ u <= c.end
BY PartsOf DEF Spanning

(* A chunk that is not cut, however long it is.                              *)
LEMMA UncutIs ==
  ASSUME NEW c \in AnyChunk
  PROVE  LET d == [c EXCEPT !.split = FALSE]
         IN  /\ d \in AnyChunk /\ d.units = c.units /\ d.start = c.start /\ d.end = c.end /\ d.split = FALSE
             /\ c \in Spanning => d \in Spanning
<1>1. ASSUME NEW d, d = [c EXCEPT !.split = FALSE]
      PROVE  d = [ text |-> c.text, units |-> c.units, start |-> c.start, end |-> c.end,
                   name |-> c.name, kind |-> c.kind, split |-> FALSE ]
  <2>1. c = [ text |-> c.text, units |-> c.units, start |-> c.start, end |-> c.end,
              name |-> c.name, kind |-> c.kind, split |-> c.split ]
    BY PartsOf
  <2> QED
    BY <1>1, <2>1
<1>2. [c EXCEPT !.split = FALSE] \in AnyChunk
  BY <1>1, PartsOf DEF AnyChunk, Records, Tells
<1> QED
  BY <1>1, <1>2 DEF Spanning

(* What Chunk makes is a chunk.                                              *)
LEMMA AnyChunkType ==
  ASSUME NEW units \in SUBSET Nat, IsFiniteSet(units), NEW start \in Nat, NEW end \in Nat,
         NEW name \in Labels, NEW kind \in Labels
  PROVE  Chunk(units, start, end, name, kind) \in AnyChunk /\ Chunk(units, start, end, name, kind).units = units
<1>1. (Cardinality(units) > MaxUnits) \in BOOLEAN
  OBVIOUS
<1>2. Ordered(units) \in Seq(Int) /\ Range(Ordered(units)) \ {NoLine} = units
  BY OrderedTells
<1> QED
  BY <1>1, <1>2 DEF Chunk, AnyChunk, Records, Tells

(* So is what Shell makes.                                                   *)
LEMMA ShellType ==
  ASSUME NEW text \in Seq(Int), \A i \in DOMAIN text : text[i] \in Nat \cup {NoLine},
         NEW start \in Nat, NEW end \in Nat, NEW name \in Labels, NEW kind \in Labels
  PROVE  /\ Shell(text, start, end, name, kind) \in AnyChunk
         /\ Shell(text, start, end, name, kind).units = Range(text) \ {NoLine}
<1>1. (Len(text) > MaxUnits) \in BOOLEAN
  OBVIOUS
<1>2. Range(text) \ {NoLine} \in SUBSET Nat
  BY DEF Range
<1> QED
  BY <1>1, <1>2 DEF Shell, AnyChunk, Records, Tells

(* Numbers between two others are finitely many.                             *)
LEMMA BetweenFinite ==
  ASSUME NEW a \in Nat, NEW b \in Nat, NEW S \in SUBSET Nat, \A u \in S : a <= u /\ u <= b
  PROVE  IsFiniteSet(S)
<1>1. ASSUME NEW u \in S PROVE u \in a .. b
  <2>1. u \in Nat /\ a <= u /\ u <= b
    OBVIOUS
  <2> QED
    BY <2>1
<1>2. S \subseteq a .. b
  BY <1>1
<1>3. IsFiniteSet(a .. b)
  BY FS_Interval
<1> QED
  BY <1>2, <1>3, FS_Subset

(* A chunk whose units are within its lines.                                 *)
LEMMA ChunkType ==
  ASSUME NEW units \in SUBSET Nat, NEW start \in Nat, NEW end \in Nat, NEW name \in Labels, NEW kind \in Labels,
         start <= end, \A u \in units : start <= u /\ u <= end
  PROVE  Chunk(units, start, end, name, kind) \in Spanning /\ Chunk(units, start, end, name, kind).units = units
<1>1. IsFiniteSet(units)
  BY BetweenFinite
<1>2. Chunk(units, start, end, name, kind) \in AnyChunk /\ Chunk(units, start, end, name, kind).units = units
  BY <1>1, AnyChunkType
<1>3. Chunk(units, start, end, name, kind).start = start /\ Chunk(units, start, end, name, kind).end = end
  BY DEF Chunk
<1> QED
  BY <1>2, <1>3 DEF Spanning

(* A chunk bears the name it is given.                                       *)
LEMMA NameIs ==
  ASSUME NEW units, NEW start, NEW end, NEW name, NEW kind
  PROVE  Chunk(units, start, end, name, kind).name = name /\ LineChunk(units, name, kind).name = name
BY DEF Chunk, LineChunk

(* A chunk from its first line to its last.                                  *)
LEMMA LineChunkType ==
  ASSUME NEW n \in Nat, NEW units \in SUBSET (0 .. n), units # {}, NEW name \in Labels, NEW kind \in Labels
  PROVE  /\ LineChunk(units, name, kind) \in Spanning
         /\ LineChunk(units, name, kind).units = units
<1>1. Min(units) \in units /\ \A x \in units : Min(units) <= x
  <2>1. units \in SUBSET Nat
    OBVIOUS
  <2> QED
    BY <2>1, MinIs
<1>2. Max(units) \in units /\ \A x \in units : x <= Max(units)
  BY MaxIs
<1>3. units \in SUBSET Nat
  OBVIOUS
<1>4. Min(units) \in Nat /\ Max(units) \in Nat /\ Min(units) <= Max(units)
  BY <1>1, <1>2, <1>3
<1>5. PICK a \in Nat, b \in Nat : a = Min(units) /\ b = Max(units)
  BY <1>4
<1>6. a <= b /\ \A u \in units : a <= u /\ u <= b
  BY <1>1, <1>2, <1>4, <1>5
<1>7. Chunk(units, a, b, name, kind) \in Spanning /\ Chunk(units, a, b, name, kind).units = units
  BY <1>3, <1>6, ChunkType
<1> QED
  BY <1>5, <1>7 DEF LineChunk

(* Two lists put together: where each chunk of them is.                      *)
LEMMA Joined ==
  ASSUME NEW T, NEW cs \in Seq(T), NEW ds \in Seq(T)
  PROVE  /\ cs \o ds \in Seq(T) /\ DOMAIN (cs \o ds) = 1 .. Len(cs) + Len(ds)
         /\ DOMAIN cs = 1 .. Len(cs) /\ DOMAIN ds = 1 .. Len(ds) /\ Len(cs) \in Nat /\ Len(ds) \in Nat
         /\ \A k \in DOMAIN cs : k \in DOMAIN (cs \o ds) /\ (cs \o ds)[k] = cs[k]
         /\ \A k \in DOMAIN ds : Len(cs) + k \in DOMAIN (cs \o ds) /\ (cs \o ds)[Len(cs) + k] = ds[k]
         /\ \A k \in DOMAIN (cs \o ds) :
              k \in DOMAIN cs \/ (k - Len(cs) \in DOMAIN ds /\ k = Len(cs) + (k - Len(cs)))
<1>1. PICK m \in Nat, n \in Nat : m = Len(cs) /\ n = Len(ds) /\ DOMAIN cs = 1 .. m /\ DOMAIN ds = 1 .. n
  BY LenProperties
<1>2. /\ cs \o ds \in Seq(T) /\ Len(cs \o ds) = m + n
      /\ \A i \in 1 .. m + n : (cs \o ds)[i] = IF i <= m THEN cs[i] ELSE ds[i - m]
  BY <1>1, ConcatProperties
<1>3. DOMAIN (cs \o ds) = 1 .. m + n
  BY <1>2, LenProperties
<1>4. \A k \in 1 .. n : m + k \in 1 .. m + n /\ ~(m + k <= m) /\ m + k - m = k
  OBVIOUS
<1> QED
  BY <1>1, <1>2, <1>3, <1>4

(* What one list or the other has is in both put together.                   *)
LEMMA SomewhereJoins ==
  ASSUME NEW T, NEW cs \in Seq(T), NEW ds \in Seq(T), NEW A, NEW B, Somewhere(cs, A), Somewhere(ds, B)
  PROVE  Somewhere(cs \o ds, A \cup B)
<1> SUFFICES ASSUME NEW u \in A \cup B
             PROVE  \E k \in DOMAIN (cs \o ds) : u \in (cs \o ds)[k].units
  BY DEF Somewhere
<1>1. CASE u \in A
  <2>1. PICK k \in DOMAIN cs : u \in cs[k].units
    BY <1>1 DEF Somewhere
  <2>2. k \in DOMAIN (cs \o ds) /\ (cs \o ds)[k] = cs[k]
    BY Joined
  <2> QED
    BY <2>1, <2>2
<1>2. CASE u \in B
  <2>1. PICK k \in DOMAIN ds : u \in ds[k].units
    BY <1>2 DEF Somewhere
  <2>2. Len(cs) + k \in DOMAIN (cs \o ds) /\ (cs \o ds)[Len(cs) + k] = ds[k]
    BY Joined
  <2> QED
    BY <2>1, <2>2
<1> QED
  BY <1>1, <1>2

(* Two lists put together have only what one of them has.                    *)
LEMMA WithinJoins ==
  ASSUME NEW T, NEW cs \in Seq(T), NEW ds \in Seq(T), NEW A, NEW B, Within(cs, A), Within(ds, B)
  PROVE  Within(cs \o ds, A \cup B)
<1> SUFFICES ASSUME NEW k \in DOMAIN (cs \o ds) PROVE (cs \o ds)[k].units \subseteq A \cup B
  BY DEF Within
<1>1. k \in DOMAIN cs \/ (k - Len(cs) \in DOMAIN ds /\ k = Len(cs) + (k - Len(cs)))
  BY Joined
<1>2. CASE k \in DOMAIN cs
  BY <1>2, Joined DEF Within
<1>3. CASE k - Len(cs) \in DOMAIN ds /\ k = Len(cs) + (k - Len(cs))
  <2>1. (cs \o ds)[k] = ds[k - Len(cs)]
    BY <1>3, Joined
  <2> QED
    BY <1>3, <2>1 DEF Within
<1> QED
  BY <1>1, <1>2, <1>3

(* Chunks of one part are put behind those of another.                       *)
LEMMA OnceJoins ==
  ASSUME NEW T, NEW cs \in Seq(T), NEW ds \in Seq(T), NEW A, NEW B, NEW X, NEW Y,
         Once(cs, A), Once(ds, B), Within(cs, X), Within(ds, Y), A \cap Y = {}, B \cap X = {}
  PROVE  Once(cs \o ds, A \cup B)
<1> DEFINE both == cs \o ds
<1> SUFFICES ASSUME NEW u \in A \cup B
             PROVE  \E k \in DOMAIN both : u \in both[k].units /\ \A j \in DOMAIN both : u \in both[j].units => j = k
  BY DEF Once
<1>1. \A j \in DOMAIN both : \/ j \in DOMAIN cs /\ both[j] = cs[j]
                             \/ j - Len(cs) \in DOMAIN ds /\ j = Len(cs) + (j - Len(cs)) /\ both[j] = ds[j - Len(cs)]
  BY Joined
<1>2. CASE u \in A
  <2>1. PICK k \in DOMAIN cs : u \in cs[k].units /\ \A j \in DOMAIN cs : u \in cs[j].units => j = k
    BY <1>2 DEF Once
  <2>2. k \in DOMAIN both /\ both[k] = cs[k]
    BY Joined
  <2>3. \A j \in DOMAIN ds : u \notin ds[j].units
    BY <1>2 DEF Within
  <2> HIDE DEF both
  <2> QED
    BY <1>1, <2>1, <2>2, <2>3
<1>3. CASE u \in B
  <2>1. PICK k \in DOMAIN ds : u \in ds[k].units /\ \A j \in DOMAIN ds : u \in ds[j].units => j = k
    BY <1>3 DEF Once
  <2>2. Len(cs) + k \in DOMAIN both /\ both[Len(cs) + k] = ds[k]
    BY Joined
  <2>3. \A j \in DOMAIN cs : u \notin cs[j].units
    BY <1>3 DEF Within
  <2> HIDE DEF both
  <2> QED
    BY <1>1, <2>1, <2>2, <2>3
<1> QED
  BY <1>2, <1>3

(* A chunk that is where it says it is is a chunk.                           *)
LEMMA SpanningAny == Spanning \subseteq AnyChunk
  BY DEF Spanning

(* A list with one chunk for each number of a set.                           *)
OneEach(cs, S, of) == cs = [k \in DOMAIN Ordered(S) |-> of[Ordered(S)[k]]]

(* A list with one chunk for each member of a set of numbers, in their       *)
(* order.                                                                    *)
LEMMA ListOf ==
  ASSUME NEW S \in SUBSET Nat, IsFiniteSet(S), NEW T, NEW of \in [S -> T],
         NEW cs, OneEach(cs, S, of)
  PROVE  /\ cs \in Seq(T) /\ DOMAIN cs = 1 .. Len(cs) /\ Len(cs) = Cardinality(S) /\ Len(cs) \in Nat
         /\ \A k \in DOMAIN cs : Ordered(S)[k] \in S /\ cs[k] = of[Ordered(S)[k]]
         /\ \A s \in S : \E k \in DOMAIN cs : Ordered(S)[k] = s
         /\ \A j, k \in DOMAIN cs : Ordered(S)[j] = Ordered(S)[k] => j = k
<1>1. PICK n \in Nat : n = Len(Ordered(S)) /\ DOMAIN Ordered(S) = 1 .. n /\ n = Cardinality(S)
  BY OrderedIs
<1>2. \A k \in 1 .. n : Ordered(S)[k] \in S
  BY <1>1, OrderedIs
<1>3. cs \in [1 .. n -> T] /\ \A k \in 1 .. n : cs[k] = of[Ordered(S)[k]]
  BY <1>1, <1>2 DEF OneEach
<1>4. cs \in Seq(T) /\ DOMAIN cs = 1 .. n /\ Len(cs) = n
  BY <1>3
<1>5. \A j, k \in 1 .. n : j # k => Ordered(S)[j] # Ordered(S)[k]
  <2> SUFFICES ASSUME NEW j \in 1 .. n, NEW k \in 1 .. n, j < k PROVE Ordered(S)[j] # Ordered(S)[k]
    OBVIOUS
  <2>1. Ordered(S)[j] < Ordered(S)[k] /\ Ordered(S)[j] \in Nat /\ Ordered(S)[k] \in Nat
    BY <1>1, <1>2, OrderedIs
  <2> QED
    BY <2>1
<1>6. \A s \in S : \E k \in 1 .. n : Ordered(S)[k] = s
  BY <1>1, OrderedIs
<1> QED
  BY <1>1, <1>2, <1>3, <1>4, <1>5, <1>6

(* Each unit is in one chunk of such a list when one member has it.          *)
LEMMA OnceOf ==
  ASSUME NEW S \in SUBSET Nat, IsFiniteSet(S), NEW T, NEW of \in [S -> T], NEW A,
         \A u \in A : \E s \in S : u \in of[s].units /\ \A t \in S : u \in of[t].units => t = s,
         NEW cs, OneEach(cs, S, of)
  PROVE  Once(cs, A)
<1> SUFFICES ASSUME NEW u \in A
             PROVE  \E k \in DOMAIN cs : u \in cs[k].units /\ \A j \in DOMAIN cs : u \in cs[j].units => j = k
  BY DEF Once
<1>1. /\ \A k \in DOMAIN cs : Ordered(S)[k] \in S /\ cs[k] = of[Ordered(S)[k]]
      /\ \A s \in S : \E k \in DOMAIN cs : Ordered(S)[k] = s
      /\ \A j, k \in DOMAIN cs : Ordered(S)[j] = Ordered(S)[k] => j = k
  BY ListOf
<1>2. PICK s \in S : u \in of[s].units /\ \A t \in S : u \in of[t].units => t = s
  OBVIOUS
<1>3. PICK k \in DOMAIN cs : Ordered(S)[k] = s
  BY <1>1
<1>4. ASSUME NEW j \in DOMAIN cs, u \in cs[j].units PROVE j = k
  <2>1. Ordered(S)[j] \in S /\ cs[j] = of[Ordered(S)[j]]
    BY <1>1
  <2>2. Ordered(S)[j] = s
    BY <1>2, <1>4, <2>1
  <2> QED
    BY <1>1, <1>3, <2>2
<1> QED
  BY <1>1, <1>2, <1>3, <1>4

(* Such a list has only what its members have.                               *)
LEMMA WithinOf ==
  ASSUME NEW S \in SUBSET Nat, IsFiniteSet(S), NEW T, NEW of \in [S -> T], NEW A, \A s \in S : of[s].units \subseteq A,
         NEW cs, OneEach(cs, S, of)
  PROVE  Within(cs, A)
<1>1. \A k \in DOMAIN cs : Ordered(S)[k] \in S /\ cs[k] = of[Ordered(S)[k]]
  BY ListOf
<1> QED
  BY <1>1 DEF Within

(* Numbers up to a bound are finitely many.                                  *)
LEMMA NumbersFinite ==
  ASSUME NEW n \in Nat, NEW S \in SUBSET (1 .. n)
  PROVE  IsFiniteSet(S) /\ S \in SUBSET Nat /\ S \in SUBSET (0 .. n)
<1>1. IsFiniteSet(1 .. n)
  BY FS_Interval
<1>2. S \in SUBSET Nat /\ S \in SUBSET (0 .. n)
  OBVIOUS
<1> QED
  BY <1>1, <1>2, FS_Subset

(* One chunk or none.                                                         *)
LEMMA IfAnyKeeps ==
  ASSUME NEW units, NEW T, NEW chunk, units # {} => chunk \in T
  PROVE  /\ IfAny(units, chunk) \in Seq(T) /\ DOMAIN IfAny(units, chunk) \subseteq {1}
         /\ units # {} => DOMAIN IfAny(units, chunk) = {1} /\ IfAny(units, chunk)[1] = chunk
         /\ units = {} => DOMAIN IfAny(units, chunk) = {}
<1>1. CASE units = {}
  <2>1. IfAny(units, chunk) = << >> /\ << >> \in Seq(T) /\ DOMAIN << >> = {}
    BY <1>1 DEF IfAny
  <2> QED
    BY <1>1, <2>1
<1>2. CASE units # {}
  <2>1. IfAny(units, chunk) = << chunk >>
    BY <1>2 DEF IfAny
  <2>2. <<chunk>> \in Seq(T) /\ DOMAIN <<chunk>> = {1} /\ <<chunk>>[1] = chunk
    BY <1>2
  <2> QED
    BY <1>2, <2>1, <2>2
<1> QED
  BY <1>1, <1>2

(* A chunk that is made only when there is text for it has all of the text.  *)
LEMMA IfAnyOnce ==
  ASSUME NEW units, NEW chunk, NEW A, chunk.units \in SUBSET Nat, A \subseteq chunk.units, A # {} => units # {}, NEW B, chunk.units \subseteq B
  PROVE  Once(IfAny(units, chunk), A) /\ Within(IfAny(units, chunk), B)
<1>1. /\ DOMAIN IfAny(units, chunk) \subseteq {1}
      /\ units # {} => DOMAIN IfAny(units, chunk) = {1} /\ IfAny(units, chunk)[1] = chunk
      /\ units = {} => DOMAIN IfAny(units, chunk) = {}
  BY IfAnyKeeps, chunk \in {chunk}
<1> QED
  BY <1>1 DEF Once, Within

-----------------------------------------------------------------------------

(* Sections, from each head to the line before the next one: they do not     *)
(* overlap, and a line from the first head on is in one.                     *)
LEMMA SectionEnds ==
  ASSUME NEW n \in Nat, NEW text, Len(text) = n, NEW H \in SUBSET (1 .. n)
  PROVE  /\ \A s \in H : EndOf(s, H, text) \in s .. n /\ \A t \in H : t > s => EndOf(s, H, text) < t
         /\ \A u \in 1 .. n : (\E h \in H : h <= u) =>
              \E s \in H : s <= u /\ u <= EndOf(s, H, text)
<1>1. \A t \in H : t \in Nat /\ t >= 1 /\ t <= n
  OBVIOUS
<1>2. ASSUME NEW s \in H
      PROVE  \E m \in Nat : /\ EndOf(s, H, text) = m - 1 /\ m > s /\ m <= n + 1
                            /\ m = n + 1 \/ m \in H
                            /\ \A t \in H : t > s => m <= t
  <2> DEFINE after == {t \in H : t > s}
             onward == after \cup {n + 1}
  <2>1. after \in SUBSET Nat /\ n + 1 \in Nat /\ n + 1 > s
    <3>1. after \in SUBSET Nat
      BY <1>1
    <3>2. s \in Nat /\ s <= n
      BY <1>1
    <3> HIDE DEF after
    <3> QED
      BY <3>1, <3>2
  <2>2. onward \in SUBSET Nat /\ onward # {} /\ \A t \in onward : t > s
    BY <2>1
  <2>3. EndOf(s, H, text) = Min(onward) - 1
    BY DEF EndOf
  <2>4. n + 1 \in onward /\ \A t \in H : t > s => t \in onward
    OBVIOUS
  <2>5. \A t \in onward : t = n + 1 \/ t \in H
    OBVIOUS
  <2> HIDE DEF onward
  <2>6. Min(onward) \in onward /\ \A x \in onward : Min(onward) <= x
    BY <2>2, MinIs
  <2> QED
    BY <2>2, <2>3, <2>4, <2>5, <2>6
<1>3. ASSUME NEW s \in H
      PROVE  EndOf(s, H, text) \in s .. n /\ \A t \in H : t > s => EndOf(s, H, text) < t
  BY <1>1, <1>2
<1>4. ASSUME NEW u \in 1 .. n, NEW h \in H, h <= u
      PROVE  \E s \in H : s <= u /\ u <= EndOf(s, H, text)
  <2> DEFINE upto == {s \in H : s <= u}
  <2>1. upto \in SUBSET (0 .. n) /\ h \in upto
    <3>1. h \in upto
      BY <1>4
    <3>2. \A x \in upto : x \in 0 .. n
      BY <1>1
    <3> HIDE DEF upto
    <3> QED
      BY <3>1, <3>2
  <2>2. Max(upto) \in upto /\ \A x \in upto : x <= Max(upto)
    <3> HIDE DEF upto
    <3> QED
      BY <2>1, MaxIs
  <2>3. PICK s \in H : s <= u /\ \A x \in H : x <= u => x <= s
    BY <2>2
  <2>4. PICK m \in Nat : EndOf(s, H, text) = m - 1 /\ m > s /\ (m = n + 1 \/ m \in H)
    BY <1>2
  <2>5. m > u
    BY <1>1, <2>3, <2>4
  <2> QED
    BY <1>1, <2>3, <2>4, <2>5
<1> QED
  BY <1>3, <1>4

-----------------------------------------------------------------------------
(* Markdown, any text and scripts.                                           *)

(* A text that starts with ink has its chunks where they say they are.       *)
ChunkOf(text) == IF text[1] = "blank" THEN AnyChunk ELSE Spanning

(* The chunks of a text lie between those that are where they say they are   *)
(* and any.                                                                  *)
LEMMA ChunkOfIs ==
  ASSUME NEW text
  PROVE  Spanning \subseteq ChunkOf(text) /\ ChunkOf(text) \subseteq AnyChunk
BY SpanningAny DEF ChunkOf

(* The lines of a text: blank or ink.                                        *)
LEMMA TextIs ==
  ASSUME NEW T, NEW text \in Seq(T)
  PROVE  /\ Len(text) \in Nat /\ DOMAIN text = 1 .. Len(text) /\ Lines(text) = 1 .. Len(text)
         /\ Blanks(text) \subseteq 1 .. Len(text) /\ Ink(text) \subseteq 1 .. Len(text)
         /\ \A l \in 1 .. Len(text) : l \in Ink(text) <=> text[l] # "blank"
         /\ \A l \in 1 .. Len(text) : l \in Ink(text) <=> l \notin Blanks(text)
<1>1. Len(text) \in Nat /\ DOMAIN text = 1 .. Len(text)
  BY LenProperties
<1> QED
  BY <1>1 DEF Lines, Blanks, Ink

(* A run from the first line that begins with ink is as long as its end says. *)
LEMMA PreambleSpans ==
  ASSUME NEW T, NEW text \in Seq(T), NEW hi \in 0 .. Len(text), NEW before,
         before = Stripped(1, hi, text), before # {}
  PROVE  /\ Cardinality(before) \in Nat
         /\ text[1] # "blank" => \A u \in before : 1 <= u /\ u <= Cardinality(before)
         /\ text[1] # "blank" => 1 <= Cardinality(before)
<1>1. PICK n \in Nat : n = Len(text) /\ hi \in 0 .. n
  BY TextIs
<1>2. /\ IsFiniteSet(before) /\ before \subseteq 1 .. hi
      /\ (1 .. hi) \ Blanks(text) \subseteq before
      /\ \E a, b \in 1 .. hi : a <= b /\ before = a .. b
  BY <1>1, StripKeeps DEF Stripped
<1>3. PICK a, b \in 1 .. hi : a <= b /\ before = a .. b
  BY <1>2
<1>4. Cardinality(before) \in Nat
  BY <1>2, FS_CardinalityType
<1>5. ASSUME text[1] # "blank" PROVE a = 1
  <2>1. 1 \in 1 .. hi /\ 1 \in 1 .. n
    BY <1>1, <1>3
  <2>2. 1 \notin Blanks(text)
    BY <1>1, <1>5, <2>1, TextIs
  <2>3. 1 \in before
    BY <1>2, <2>1, <2>2
  <2> QED
    BY <1>1, <1>3, <2>3
<1>6. a = 1 => Cardinality(before) = b
  BY <1>1, <1>3, FS_Interval
<1> QED
  BY <1>1, <1>3, <1>4, <1>5, <1>6

(* The line before the first section.                                        *)
Before(heads, text) == Min(heads \cup {Len(text) + 1}) - 1

(* The lines before the first head.                                          *)
LEMMA BeforeIs ==
  ASSUME NEW n \in Nat, NEW text, Len(text) = n, NEW heads \in SUBSET (1 .. n)
  PROVE  /\ Before(heads, text) \in 0 .. n /\ \A s \in heads : s > Before(heads, text)
         /\ heads # {} => Before(heads, text) + 1 \in heads
         /\ heads = {} => Before(heads, text) = n
<1> DEFINE ends == heads \cup {n + 1}
<1>1. \A s \in heads : s \in Nat /\ s >= 1 /\ s <= n
  OBVIOUS
<1>2. \A s \in ends : s \in Nat /\ s >= 1 /\ s <= n + 1 /\ (s \in heads \/ s = n + 1)
  BY <1>1
<1>3. n + 1 \in ends /\ \A s \in heads : s \in ends
  OBVIOUS
<1> HIDE DEF ends
<1>4. ends \in SUBSET Nat /\ ends # {}
  BY <1>2, <1>3
<1>5. Min(ends) \in ends /\ \A s \in ends : Min(ends) <= s
  BY <1>4, MinIs
<1>6. PICK m \in ends : m = Min(ends)
  BY <1>5
<1>7. m \in Nat /\ m >= 1 /\ m <= n + 1 /\ (m \in heads \/ m = n + 1) /\ \A s \in heads : m <= s
  BY <1>2, <1>3, <1>5, <1>6
<1>8. Before(heads, text) = m - 1
  BY <1>6 DEF Before, ends
<1>9. heads # {} => m \in heads
  <2> SUFFICES ASSUME NEW s \in heads PROVE m \in heads
    OBVIOUS
  <2>1. m <= s /\ s \in Nat /\ s <= n
    BY <1>1, <1>7
  <2> QED
    BY <1>7, <2>1
<1>10. \A s \in heads : s > m - 1
  <2> SUFFICES ASSUME NEW s \in heads PROVE s > m - 1
    OBVIOUS
  <2>1. m <= s /\ s \in Nat
    BY <1>1, <1>7
  <2> QED
    BY <1>7, <2>1
<1>11. m - 1 \in 0 .. n /\ m - 1 + 1 = m
  BY <1>7
<1>12. heads = {} => m - 1 = n
  BY <1>7
<1> QED
  BY <1>8, <1>9, <1>10, <1>11, <1>12

(* Sections, each from its head to the line before the next, hold all ink    *)
(* from the first head on, each line once.                                   *)
LEMMA SectionsKept ==
  ASSUME NEW U, NEW text \in Seq(U), NEW heads \in SUBSET Ink(text), heads # {},
         NEW T, NEW of \in [heads -> T],
         \A s \in heads : of[s].units = Stripped(s, EndOf(s, heads, text), text),
         NEW tail, OneEach(tail, heads, of)
  PROVE  /\ tail \in Seq(T)
         /\ Once(tail, {u \in Ink(text) : u > Before(heads, text)})
         /\ Within(tail, Before(heads, text) + 1 .. Len(text))
<1> DEFINE rest == {u \in Ink(text) : u > Before(heads, text)}
<1>1. PICK n \in Nat : n = Len(text) /\ Ink(text) \subseteq 1 .. n
  BY TextIs
<1>2. heads \in SUBSET (1 .. n) /\ heads \in SUBSET Nat /\ IsFiniteSet(heads)
  <2>1. heads \in SUBSET (1 .. n)
    BY <1>1
  <2> QED
    BY <1>1, <2>1, NumbersFinite
<1>3. PICK hi \in 0 .. n : hi = Before(heads, text) /\ hi + 1 \in heads /\ \A s \in heads : s > hi
  BY <1>1, <1>2, BeforeIs
<1>4. ASSUME NEW s \in heads
      PROVE  LET e == EndOf(s, heads, text) IN
             /\ e \in s .. n /\ of[s].units \subseteq s .. e
             /\ \A u \in Ink(text) : u \in s .. e => u \in of[s].units
  <2> DEFINE e == EndOf(s, heads, text)
             ink == Stripped(s, e, text)
  <2>1. e \in s .. n /\ s \in Nat
    BY <1>1, <1>2, SectionEnds
  <2>2. ink \subseteq s .. e /\ (s .. e) \ Blanks(text) \subseteq ink
    BY <2>1, StripKeeps DEF Stripped
  <2>3. \A u \in Ink(text) : u \in s .. e => u \in ink
    BY <1>1, <2>2, TextIs
  <2> QED
    BY <2>1, <2>2, <2>3
<1>5. tail \in Seq(T)
  BY <1>2, ListOf
<1>6. ASSUME NEW u \in rest
      PROVE  \E s \in heads : u \in of[s].units /\ \A t \in heads : u \in of[t].units => t = s
  <2>1. u \in 1 .. n /\ u \in Ink(text) /\ u > hi
    BY <1>1, <1>3
  <2>2. PICK s \in heads : s <= u /\ u <= EndOf(s, heads, text)
    <3>1. hi + 1 \in heads /\ hi + 1 <= u
      BY <1>3, <2>1
    <3> QED
      BY <1>1, <1>2, <2>1, <3>1, SectionEnds
  <2>3. u \in of[s].units
    BY <1>2, <1>4, <2>1, <2>2
  <2>4. ASSUME NEW t \in heads, u \in of[t].units PROVE t = s
    <3>1. u \in t .. EndOf(t, heads, text)
      BY <1>4, <2>4
    <3>2. /\ s > t => EndOf(t, heads, text) < s
          /\ t > s => EndOf(s, heads, text) < t
          /\ EndOf(t, heads, text) \in t .. n /\ EndOf(s, heads, text) \in s .. n
      BY <1>1, <1>2, SectionEnds
    <3>3. s \in Nat /\ t \in Nat
      BY <1>2
    <3> QED
      BY <2>1, <2>2, <3>1, <3>2, <3>3
  <2> QED
    BY <2>3, <2>4
<1>7. \A u \in rest : \E s \in heads : u \in of[s].units /\ \A t \in heads : u \in of[t].units => t = s
  BY <1>6
<1>8. Once(tail, rest)
  <2> HIDE DEF rest
  <2> QED
    BY <1>2, <1>7, OnceOf
<1>9. \A s \in heads : of[s].units \subseteq hi + 1 .. n
  <2> SUFFICES ASSUME NEW s \in heads PROVE of[s].units \subseteq hi + 1 .. n
    OBVIOUS
  <2>1. of[s].units \subseteq s .. EndOf(s, heads, text) /\ EndOf(s, heads, text) \in s .. n
    BY <1>4
  <2>2. s > hi /\ s \in Nat
    BY <1>2, <1>3
  <2> QED
    BY <2>1, <2>2
<1>10. Within(tail, hi + 1 .. n)
  BY <1>2, <1>9, WithinOf
<1> QED
  BY <1>1, <1>3, <1>5, <1>8, <1>10

(* What is before the first section and the sections.                        *)
LEMMA PreambleAndSections ==
  ASSUME NEW U, NEW text \in Seq(U), NEW heads \in SUBSET Ink(text), heads # {},
         NEW T, NEW pre \in Seq(T), NEW tail \in Seq(T),
         Once(pre, {u \in Ink(text) : u <= Before(heads, text)}), Within(pre, 1 .. Before(heads, text)),
         Once(tail, {u \in Ink(text) : u > Before(heads, text)}),
         Within(tail, Before(heads, text) + 1 .. Len(text))
  PROVE  pre \o tail \in Seq(T) /\ Once(pre \o tail, Ink(text))
<1> DEFINE first == {u \in Ink(text) : u <= Before(heads, text)}
           rest == {u \in Ink(text) : u > Before(heads, text)}
<1>1. PICK n \in Nat : n = Len(text) /\ Ink(text) \subseteq 1 .. n
  BY TextIs
<1>2. PICK hi \in 0 .. n : hi = Before(heads, text)
  <2>1. heads \in SUBSET (1 .. n)
    BY <1>1
  <2> QED
    BY <1>1, <2>1, BeforeIs
<1>3. \A u \in Ink(text) : u \in Nat
  BY <1>1
<1>4. first \cap (hi + 1 .. n) = {} /\ rest \cap (1 .. hi) = {} /\ first \cup rest = Ink(text)
  BY <1>2, <1>3
<1>5. Once(pre, first) /\ Once(tail, rest) /\ Within(pre, 1 .. hi) /\ Within(tail, hi + 1 .. n)
  BY <1>1, <1>2
<1> HIDE DEF first, rest
<1>6. Once(pre \o tail, first \cup rest)
  BY <1>4, <1>5, OnceJoins
<1> QED
  BY <1>4, <1>6, ConcatProperties

(* Ordered numbers are numbers of the set.                                   *)
LEMMA InOrder ==
  ASSUME NEW n \in Nat, NEW S \in SUBSET (1 .. n)
  PROVE  \A k \in DOMAIN Ordered(S) : Ordered(S)[k] \in S
<1>1. S \in SUBSET Nat /\ IsFiniteSet(S)
  BY NumbersFinite
<1>2. Ordered(S) \in Seq(S)
  BY <1>1, OrderedIs
<1> QED
  BY <1>2

(* chunk_markdown keeps each line with text in one chunk.                    *)
LEMMA MarkdownKept ==
  ASSUME NEW U, NEW text \in Seq(U)
  PROVE  MarkdownChunks(text) \in Seq(ChunkOf(text)) /\ Once(MarkdownChunks(text), Ink(text))
<1> DEFINE heads == Sections(text)
           hi == Before(heads, text)
           before == Stripped(1, hi, text)
           pre == Chunk(before, 1, Cardinality(before), "", "block")
           all == Chunk(before, 1, Len(text), "", "block")
           section(s) == LineChunk(Stripped(s, EndOf(s, heads, text), text), "heading", "module")
           tail == [k \in DOMAIN Ordered(heads) |-> section(Ordered(heads)[k])]
<1>1. PICK n \in Nat : n = Len(text) /\ Ink(text) \subseteq 1 .. n
  BY TextIs
<1>2. heads \in SUBSET (1 .. n) /\ heads \in SUBSET Ink(text)
  <2>1. heads \in SUBSET (1 .. n) /\ \A s \in heads : text[s] = "heading"
    BY <1>1, TextIs DEF Sections
  <2> QED
    BY <1>1, <2>1, TextIs
<1>3. MarkdownChunks(text) = IF heads = {} THEN IfAny(before, all) ELSE IfAny(before, pre) \o tail
  BY DEF MarkdownChunks, Before
<1> HIDE DEF heads
<1>4. /\ hi \in 0 .. n /\ \A s \in heads : s > hi
      /\ heads # {} => hi + 1 \in heads
      /\ heads = {} => hi = n
  BY <1>1, <1>2, BeforeIs
<1>5. /\ before \in SUBSET Nat /\ before \subseteq 1 .. hi /\ IsFiniteSet(before)
      /\ {u \in Ink(text) : u <= hi} \subseteq before
  <2>1. \A u \in Ink(text) : u \in 1 .. n /\ u \notin Blanks(text)
    BY <1>1, TextIs
  <2>2. hi \in Int /\ 1 \in Nat
    BY <1>4
  <2>3. /\ before \in SUBSET Nat /\ before \subseteq 1 .. hi /\ IsFiniteSet(before)
        /\ (1 .. hi) \ Blanks(text) \subseteq before
    BY <2>2, StripKeeps DEF Stripped
  <2> HIDE DEF before, hi
  <2> QED
    BY <1>4, <2>1, <2>3
<1>6. "" \in Labels /\ "block" \in Labels /\ "heading" \in Labels /\ "module" \in Labels
  BY DEF Labels, Literals
<1>7. CASE heads = {}
  <2>1. MarkdownChunks(text) = IfAny(before, all) /\ hi = n
    BY <1>3, <1>4, <1>7
  <2>2. before # {} => all \in Spanning
    <3> SUFFICES ASSUME before # {} PROVE all \in Spanning
      OBVIOUS
    <3> HIDE DEF before, hi
    <3>0. before \subseteq 1 .. n
      BY <1>5, <2>1
    <3>1. PICK x \in before : x \in 1 .. n
      BY <3>0
    <3>2. n >= 1 /\ \A u \in before : 1 <= u /\ u <= n
      BY <3>0, <3>1
    <3> QED
      BY <1>1, <1>5, <1>6, <3>2, ChunkType
  <2>3. all.units = before
    BY DEF Chunk
  <2>4. Ink(text) \subseteq before
    <3>1. \A u \in Ink(text) : u <= n
      BY <1>1, TextIs
    <3> HIDE DEF before, hi
    <3> QED
      BY <1>5, <2>1, <3>1
  <2> HIDE DEF before, all, hi
  <2>5. IfAny(before, all) \in Seq(ChunkOf(text))
    BY <2>2, IfAnyKeeps, ChunkOfIs
  <2>6. Once(IfAny(before, all), Ink(text))
    BY <1>5, <2>3, <2>4, IfAnyOnce
  <2> QED
    BY <2>1, <2>5, <2>6
<1>8. CASE heads # {}
  <2> DEFINE of == [s \in heads |-> section(s)]
  <2>1. ASSUME NEW s \in heads
        PROVE  section(s) \in Spanning /\ section(s).units = Stripped(s, EndOf(s, heads, text), text)
    <3> DEFINE e == EndOf(s, heads, text)
               ink == Stripped(s, e, text)
    <3>0. e \in s .. n
      BY <1>1, <1>2, SectionEnds
    <3> HIDE DEF e
    <3>1. e \in s .. n /\ s \in Nat /\ s \in 1 .. n /\ s \in Ink(text)
      BY <1>2, <3>0
    <3>2. ink \subseteq s .. e /\ (s .. e) \ Blanks(text) \subseteq ink
      BY <3>1, StripKeeps DEF Stripped
    <3>3. s \in s .. e /\ s \notin Blanks(text)
      BY <1>1, <3>1, TextIs
    <3> HIDE DEF ink, e
    <3>4. ink \in SUBSET (0 .. n) /\ ink # {}
      BY <3>1, <3>2, <3>3
    <3>5. LineChunk(ink, "heading", "module") \in Spanning /\ LineChunk(ink, "heading", "module").units = ink
      BY <1>6, <3>4, LineChunkType
    <3> QED
      BY <3>5 DEF ink, e
  <2>2. /\ of \in [heads -> Spanning]
        /\ \A s \in heads : of[s].units = Stripped(s, EndOf(s, heads, text), text)
    BY <2>1
  <2>3. OneEach(tail, heads, of)
    <3> HIDE DEF section
    <3> QED
      BY <1>1, <1>2, InOrder DEF OneEach
  <2>4. pre.units = before /\ (before # {} => pre \in ChunkOf(text))
    <3>1. pre.units = before
      BY DEF Chunk
    <3>2. ASSUME before # {} PROVE pre \in ChunkOf(text)
      <4>1. /\ Cardinality(before) \in Nat
            /\ text[1] # "blank" => \A u \in before : 1 <= u /\ u <= Cardinality(before)
            /\ text[1] # "blank" => 1 <= Cardinality(before)
        <5> HIDE DEF hi
        <5> QED
          BY <1>1, <1>4, <3>2, PreambleSpans
      <4> HIDE DEF before
      <4>2. pre \in AnyChunk
        BY <1>5, <1>6, <4>1, AnyChunkType
      <4>3. text[1] # "blank" => pre \in Spanning
        BY <1>5, <1>6, <4>1, ChunkType
      <4> QED
        BY <4>2, <4>3 DEF ChunkOf
    <3> QED
      BY <3>1, <3>2
  <2> HIDE DEF before, pre, tail, of, hi
  <2>5. IfAny(before, pre) \in Seq(ChunkOf(text))
    BY <2>4, IfAnyKeeps
  <2>6. Once(IfAny(before, pre), {u \in Ink(text) : u <= hi}) /\ Within(IfAny(before, pre), 1 .. hi)
    <3> DEFINE first == {u \in Ink(text) : u <= hi}
    <3>1. first \subseteq before /\ (first # {} => before # {})
      BY <1>5
    <3> HIDE DEF first
    <3>2. Once(IfAny(before, pre), first) /\ Within(IfAny(before, pre), 1 .. hi)
      BY <1>5, <2>4, <3>1, IfAnyOnce
    <3> QED
      BY <3>2 DEF first
  <2>7. /\ tail \in Seq(Spanning) /\ Once(tail, {u \in Ink(text) : u > hi})
        /\ Within(tail, hi + 1 .. Len(text))
    <3>1. hi = Before(heads, text)
      BY DEF hi
    <3> HIDE DEF section
    <3>2. heads \in SUBSET Ink(text)
      BY <1>2
    <3>3. /\ tail \in Seq(Spanning)
          /\ Once(tail, {u \in Ink(text) : u > Before(heads, text)})
          /\ Within(tail, Before(heads, text) + 1 .. Len(text))
      BY <1>8, <2>2, <2>3, <3>2, SectionsKept
    <3> QED
      BY <3>1, <3>3
  <2>8. tail \in Seq(ChunkOf(text))
    BY <2>7, ChunkOfIs
  <2>9. IfAny(before, pre) \o tail \in Seq(ChunkOf(text)) /\ Once(IfAny(before, pre) \o tail, Ink(text))
    BY <1>2, <1>8, <2>5, <2>6, <2>7, <2>8, PreambleAndSections DEF hi
  <2> QED
    BY <1>3, <1>8, <2>9
<1> QED
  BY <1>7, <1>8

(* The lines of the block that starts at s.                                   *)
LastOf(s, text) == Max({l \in s .. Len(text) : s .. l \subseteq Ink(text)})

(* Each line of ink is in the run of exactly one block.                       *)
LEMMA RunsOfInk ==
  ASSUME NEW U, NEW text \in Seq(U)
  PROVE  /\ BlockStarts(text) \in SUBSET (1 .. Len(text))
         /\ \A s \in BlockStarts(text) : LastOf(s, text) \in s .. Len(text)
         /\ \A u \in Ink(text) :
              \E s \in BlockStarts(text) : u \in s .. LastOf(s, text)
                /\ \A t \in BlockStarts(text) : u \in t .. LastOf(t, text) => t = s
<1>1. PICK n \in Nat : n = Len(text) /\ Ink(text) \subseteq 1 .. n
  BY TextIs
<1>2. /\ BlockStarts(text) \in SUBSET (1 .. n) /\ BlockStarts(text) \in SUBSET Ink(text)
      /\ \A s \in BlockStarts(text) : s = 1 \/ (s - 1 \in 1 .. n => s - 1 \notin Ink(text))
      /\ \A s \in Ink(text) : s = 1 \/ s - 1 \notin Ink(text) => s \in BlockStarts(text)
  <2>1. \A l \in 1 .. n : l \in Ink(text) <=> text[l] # "blank"
    BY <1>1, TextIs
  <2>2. \A s \in Ink(text) : s \in 1 .. n /\ (s = 1 \/ s - 1 \in 1 .. n)
    BY <1>1
  <2> QED
    BY <1>1, <2>1, <2>2 DEF BlockStarts
<1>3. ASSUME NEW s \in BlockStarts(text)
      PROVE  /\ LastOf(s, text) \in s .. n /\ s .. LastOf(s, text) \subseteq Ink(text)
             /\ \A l \in s .. n : s .. l \subseteq Ink(text) => l <= LastOf(s, text)
  <2> DEFINE ends == {l \in s .. n : s .. l \subseteq Ink(text)}
  <2>1. s \in 1 .. n /\ s \in Ink(text)
    BY <1>2
  <2>2. s .. s \subseteq Ink(text) /\ s \in s .. n
    BY <2>1
  <2>3. s \in ends /\ ends \in SUBSET (0 .. n)
    BY <2>1, <2>2
  <2>4. Max(ends) \in ends /\ \A l \in ends : l <= Max(ends)
    <3> HIDE DEF ends
    <3> QED
      BY <2>3, MaxIs
  <2>5. LastOf(s, text) = Max(ends)
    BY <1>1 DEF LastOf
  <2>6. \A l \in s .. n : s .. l \subseteq Ink(text) => l \in ends
    OBVIOUS
  <2>7. \A l \in ends : l \in s .. n /\ s .. l \subseteq Ink(text)
    OBVIOUS
  <2> HIDE DEF ends
  <2> QED
    BY <2>4, <2>5, <2>6, <2>7
<1>4. ASSUME NEW u \in Ink(text)
      PROVE  \E s \in BlockStarts(text) : u \in s .. LastOf(s, text)
                /\ \A t \in BlockStarts(text) : u \in t .. LastOf(t, text) => t = s
  <2> DEFINE begin == {s \in 1 .. u : s .. u \subseteq Ink(text)}
  <2>1. u \in 1 .. n /\ u .. u \subseteq Ink(text)
    BY <1>1
  <2>2. begin \in SUBSET Nat /\ u \in begin
    BY <2>1
  <2>3. PICK s \in begin : \A t \in begin : s <= t
    <3> HIDE DEF begin
    <3> QED
      BY <2>2, LeastNumber
  <2>4. s \in 1 .. u /\ s .. u \subseteq Ink(text) /\ s \in Ink(text) /\ s \in Nat /\ s <= u
    BY <2>1
  <2>5. s \in BlockStarts(text)
    <3>1. ASSUME s # 1, s - 1 \in Ink(text) PROVE FALSE
      <4>1. s - 1 \in 1 .. u /\ s - 1 .. u \subseteq Ink(text)
        <5>1. \A x \in s - 1 .. u : x = s - 1 \/ x \in s .. u
          BY <2>4
        <5> QED
          BY <2>1, <2>4, <3>1, <5>1
      <4>2. s - 1 \in begin
        BY <4>1
      <4> QED
        BY <2>3, <2>4, <4>2
    <3> QED
      BY <1>2, <2>4, <3>1
  <2>6. u \in s .. LastOf(s, text)
    <3>1. u <= LastOf(s, text) /\ LastOf(s, text) \in s .. n
      BY <1>1, <1>3, <2>1, <2>4, <2>5
    <3> QED
      BY <2>1, <2>4, <3>1
  <2>7. ASSUME NEW t \in BlockStarts(text), u \in t .. LastOf(t, text) PROVE t = s
    <3>1. t .. LastOf(t, text) \subseteq Ink(text) /\ t \in 1 .. n /\ t <= u /\ LastOf(t, text) \in t .. n
      BY <1>2, <1>3, <2>7
    <3>2. t .. u \subseteq Ink(text)
      BY <2>1, <2>7, <3>1
    <3>3. t \in begin
      BY <2>1, <3>1, <3>2
    <3>4. s <= t
      BY <2>3, <3>3
    <3>5. ASSUME s < t PROVE FALSE
      <4>1. t - 1 \in s .. u /\ t # 1 /\ t - 1 \in 1 .. n
        BY <2>1, <2>4, <3>1, <3>5
      <4>2. t - 1 \in Ink(text)
        BY <2>4, <4>1
      <4> QED
        BY <1>2, <4>1, <4>2
    <3> QED
      BY <2>4, <3>1, <3>4, <3>5
  <2> QED
    BY <2>5, <2>6, <2>7
<1> QED
  BY <1>1, <1>2, <1>3, <1>4

(* The fallback for any text keeps each line with text in one chunk.         *)
LEMMA FallbackKept ==
  ASSUME NEW U, NEW text \in Seq(U)
  PROVE  FallbackChunks(text) \in Seq(ChunkOf(text)) /\ Once(FallbackChunks(text), Ink(text))
<1> DEFINE starts == BlockStarts(text)
           last(s) == LastOf(s, text)
           line(s) == IF s = 2 /\ text[1] = "blank" THEN 1 ELSE s
           block(s) == Chunk(s .. last(s), line(s), line(s) + last(s) - s, "", "block")
           of == [s \in starts |-> block(s)]
<1>1. PICK n \in Nat : n = Len(text) /\ Ink(text) \subseteq 1 .. n
  BY TextIs
<1>2. FallbackChunks(text) = [k \in DOMAIN Ordered(starts) |-> block(Ordered(starts)[k])]
  BY DEF FallbackChunks, LastOf
<1>3. starts \in SUBSET (1 .. n) /\ starts \in SUBSET Nat /\ IsFiniteSet(starts)
  <2>1. starts \in SUBSET (1 .. n)
    BY <1>1, RunsOfInk
  <2> HIDE DEF starts
  <2> QED
    BY <2>1, NumbersFinite
<1>4. ASSUME NEW s \in starts
      PROVE  block(s) \in ChunkOf(text) /\ block(s).units = s .. last(s)
  <2>1. last(s) \in s .. n /\ s \in 1 .. n
    BY <1>1, <1>3, RunsOfInk
  <2>2. /\ line(s) \in Nat /\ line(s) + last(s) - s \in Nat /\ s .. last(s) \in SUBSET Nat
        /\ text[1] # "blank" => line(s) = s /\ line(s) + last(s) - s = last(s)
    <3> HIDE DEF last
    <3> QED
      BY <2>1
  <2>3. "" \in Labels /\ "block" \in Labels
    BY DEF Labels, Literals
  <2> HIDE DEF line, last
  <2>4. block(s) \in AnyChunk /\ block(s).units = s .. last(s)
    <3>1. PICK b \in Nat, e \in Nat, units \in SUBSET Nat :
            b = line(s) /\ e = line(s) + last(s) - s /\ units = s .. last(s)
      BY <2>2
    <3>2. IsFiniteSet(units)
      BY <2>1, <3>1, FS_Interval
    <3>3. Chunk(units, b, e, "", "block") \in AnyChunk /\ Chunk(units, b, e, "", "block").units = units
      BY <2>3, <3>2, AnyChunkType
    <3> QED
      BY <3>1, <3>3
  <2>5. text[1] # "blank" => block(s) \in Spanning
    <3> SUFFICES ASSUME text[1] # "blank" PROVE block(s) \in Spanning
      OBVIOUS
    <3>1. line(s) = s /\ line(s) + last(s) - s = last(s) /\ s <= last(s) /\ \A u \in s .. last(s) : s <= u /\ u <= last(s)
      BY <2>1, <2>2
    <3>2. s \in Nat /\ last(s) \in Nat
      BY <2>1
    <3> QED
      BY <2>2, <2>3, <3>1, <3>2, ChunkType
  <2> QED
    BY <2>4, <2>5 DEF ChunkOf
<1> HIDE DEF block
<1>5. OneEach(FallbackChunks(text), starts, of)
  <2> HIDE DEF starts
  <2> QED
    BY <1>1, <1>2, <1>3, InOrder DEF OneEach
<1>6. of \in [starts -> ChunkOf(text)] /\ \A s \in starts : of[s].units = s .. last(s)
  BY <1>4
<1>7. \A u \in Ink(text) : \E s \in starts : u \in of[s].units /\ \A t \in starts : u \in of[t].units => t = s
  <2> HIDE DEF of
  <2> QED
    BY <1>6, RunsOfInk
<1> HIDE DEF starts, of
<1>8. FallbackChunks(text) \in Seq(ChunkOf(text))
  BY <1>3, <1>5, <1>6, ListOf
<1>9. Once(FallbackChunks(text), Ink(text))
  BY <1>3, <1>5, <1>6, <1>7, OnceOf
<1> QED
  BY <1>8, <1>9

(* chunk_bash keeps each line with text in one chunk, whatever its functions *)
(* are.                                                                      *)
LEMMA BashKept ==
  ASSUME NEW U, NEW text \in Seq(U)
  PROVE  BashChunks(text) \in Seq(ChunkOf(text)) /\ Once(BashChunks(text), Ink(text))
<1> DEFINE heads == Functions(text)
           before == 1 .. Min(heads) - 1
           pre == LineChunk(before, "", "module")
           some == before \ Blanks(text)
           function(s) == Chunk(Stripped(s, EndOf(s, heads, text), text), s, EndOf(s, heads, text), "function", "function")
           tail == [k \in DOMAIN Ordered(heads) |-> function(Ordered(heads)[k])]
           of == [s \in heads |-> function(s)]
<1>1. PICK n \in Nat : n = Len(text) /\ Ink(text) \subseteq 1 .. n
  BY TextIs
<1>2. heads \in SUBSET (1 .. n) /\ heads \in SUBSET Ink(text)
  <2>1. heads \in SUBSET (1 .. n) /\ \A s \in heads : text[s] = "function"
    BY <1>1, TextIs DEF Functions
  <2> QED
    BY <1>1, <2>1, TextIs
<1>3. BashChunks(text) = IF heads = {} THEN FallbackChunks(text) ELSE IfAny(some, pre) \o tail
  BY DEF BashChunks
<1> HIDE DEF heads
<1>4. CASE heads = {}
  BY <1>3, <1>4, FallbackKept
<1>5. CASE heads # {}
  <2> DEFINE hi == Before(heads, text)
             first == {u \in Ink(text) : u <= hi}
  <2>1. hi \in 0 .. n /\ before = 1 .. hi
    <3>1. heads \in SUBSET Nat /\ \A s \in heads : s <= n
      BY <1>2
    <3>2. Min(heads) \in heads /\ \A s \in heads : Min(heads) <= s
      BY <1>5, <3>1, MinIs
    <3>3. hi \in 0 .. n /\ hi + 1 \in heads /\ \A s \in heads : s > hi
      BY <1>1, <1>2, <1>5, BeforeIs
    <3>4. PICK m \in Nat : m = Min(heads)
      BY <3>1, <3>2
    <3> HIDE DEF hi
    <3>5. m <= hi + 1 /\ m > hi
      BY <3>2, <3>3, <3>4
    <3>6. m - 1 = hi
      BY <3>3, <3>5
    <3> QED
      BY <3>3, <3>4, <3>6
  <2>2. first \subseteq some /\ before \in SUBSET (0 .. n)
    <3>1. \A u \in Ink(text) : u \in Nat /\ 1 <= u /\ u \notin Blanks(text)
      BY <1>1, TextIs
    <3> HIDE DEF before, hi
    <3> QED
      BY <2>1, <3>1
  <2>3. some # {} => pre \in Spanning /\ pre.units = before
    <3>1. some # {} => before # {}
      OBVIOUS
    <3>2. "" \in Labels /\ "module" \in Labels
      BY DEF Labels, Literals
    <3> HIDE DEF some, before
    <3> QED
      BY <2>2, <3>1, <3>2, LineChunkType
  <2>4. IfAny(some, pre) \in Seq(Spanning)
    <3> HIDE DEF some, pre
    <3> QED
      BY <2>3, IfAnyKeeps
  <2>5. Once(IfAny(some, pre), first) /\ Within(IfAny(some, pre), 1 .. hi)
    <3>1. some \subseteq before
      OBVIOUS
    <3>2. /\ DOMAIN IfAny(some, pre) \subseteq {1}
          /\ some # {} => DOMAIN IfAny(some, pre) = {1} /\ IfAny(some, pre)[1] = pre
          /\ some = {} => DOMAIN IfAny(some, pre) = {}
      <4> HIDE DEF some, pre
      <4> QED
        BY <2>3, IfAnyKeeps
    <3> HIDE DEF some, pre, before, hi, first
    <3> QED
      BY <2>1, <2>2, <2>3, <3>1, <3>2 DEF Once, Within
  <2>6. ASSUME NEW s \in heads
        PROVE  function(s) \in Spanning /\ function(s).units = Stripped(s, EndOf(s, heads, text), text)
    <3> DEFINE e == EndOf(s, heads, text)
               ink == Stripped(s, e, text)
    <3>1. e \in s .. n
      BY <1>1, <1>2, SectionEnds
    <3> HIDE DEF e
    <3>2. s \in Nat /\ e \in Nat /\ s <= e
      BY <1>2, <3>1
    <3>3. ink \in SUBSET Nat /\ ink \subseteq s .. e
      BY <3>2, StripKeeps DEF Stripped
    <3>4. "function" \in Labels
      BY DEF Labels, Literals
    <3> HIDE DEF ink
    <3>5. \A u \in ink : s <= u /\ u <= e
      BY <3>2, <3>3
    <3>6. Chunk(ink, s, e, "function", "function") \in Spanning /\ Chunk(ink, s, e, "function", "function").units = ink
      BY <3>2, <3>3, <3>4, <3>5, ChunkType
    <3> QED
      BY <3>6 DEF ink, e
  <2>7. /\ of \in [heads -> Spanning]
        /\ \A s \in heads : of[s].units = Stripped(s, EndOf(s, heads, text), text)
    BY <2>6
  <2>8. OneEach(tail, heads, of)
    <3> HIDE DEF function
    <3> QED
      BY <1>1, <1>2, InOrder DEF OneEach
  <2> HIDE DEF tail, of
  <2>9. /\ tail \in Seq(Spanning)
        /\ Once(tail, {u \in Ink(text) : u > Before(heads, text)})
        /\ Within(tail, Before(heads, text) + 1 .. Len(text))
    <3>1. heads \in SUBSET Ink(text)
      BY <1>2
    <3> QED
      BY <1>5, <2>7, <2>8, <3>1, SectionsKept
  <2> HIDE DEF pre, some
  <2>10. IfAny(some, pre) \o tail \in Seq(Spanning) /\ Once(IfAny(some, pre) \o tail, Ink(text))
    BY <1>2, <1>5, <2>4, <2>5, <2>9, PreambleAndSections
  <2>11. Seq(Spanning) \subseteq Seq(ChunkOf(text))
    BY ChunkOfIs
  <2> QED
    BY <1>3, <1>5, <2>10, <2>11
<1> QED
  BY <1>4, <1>5

(* chunk_pdf keeps each page within its caps in one chunk.                   *)
LEMMA PdfKept ==
  ASSUME NEW U, NEW text \in Seq(U)
  PROVE  PdfChunks(text) \in Seq(Spanning) /\ Once(PdfChunks(text), PagesRead(text))
<1> DEFINE pages == PagesRead(text)
           page(p) == [LineChunk({p}, "page", "module") EXCEPT !.split = FALSE]
           of == [p \in pages |-> page(p)]
<1>1. PICK n \in Nat : n = Len(text) /\ Lines(text) = 1 .. n
  BY TextIs
<1>2. pages \in SUBSET (1 .. n)
  BY <1>1 DEF PagesRead
<1> HIDE DEF pages
<1>3. pages \in SUBSET Nat /\ IsFiniteSet(pages)
  BY <1>2, NumbersFinite
<1>4. ASSUME NEW p \in pages PROVE page(p) \in Spanning /\ page(p).units = {p}
  <2>1. {p} \in SUBSET (0 .. n) /\ {p} # {} /\ "page" \in Labels /\ "module" \in Labels
    BY <1>2 DEF Labels, Literals
  <2>2. LineChunk({p}, "page", "module") \in Spanning /\ LineChunk({p}, "page", "module").units = {p}
    BY <2>1, LineChunkType
  <2> DEFINE c == LineChunk({p}, "page", "module")
  <2> HIDE DEF c
  <2>3. c \in AnyChunk
    BY <2>2, SpanningAny DEF c
  <2>4. [c EXCEPT !.split = FALSE] \in Spanning /\ [c EXCEPT !.split = FALSE].units = c.units
    BY <2>2, <2>3, UncutIs DEF c
  <2> QED
    BY <2>2, <2>4 DEF c
<1>5. PdfChunks(text) = [k \in DOMAIN Ordered(pages) |-> page(Ordered(pages)[k])]
  BY DEF PdfChunks, pages
<1>6. of \in [pages -> Spanning] /\ \A p \in pages : of[p].units = {p}
  BY <1>4
<1>7. OneEach(PdfChunks(text), pages, of)
  <2> HIDE DEF page
  <2> QED
    BY <1>1, <1>2, <1>5, InOrder DEF OneEach
<1> HIDE DEF of
<1>8. \A u \in pages : \E s \in pages : u \in of[s].units /\ \A t \in pages : u \in of[t].units => t = s
  BY <1>6
<1>9. PdfChunks(text) \in Seq(Spanning)
  BY <1>3, <1>6, <1>7, ListOf
<1>10. Once(PdfChunks(text), pages)
  BY <1>3, <1>6, <1>7, <1>8, OnceOf
<1> QED
  BY <1>9, <1>10 DEF pages

-----------------------------------------------------------------------------
(* Prose.                                                                    *)

(* A sentence of a prose file.                                               *)
Sentence == [gap : Nat, inner : Nat, size : Nat]

(* The last sentence packed with sentence a.                                  *)
LEMMA PackedIs ==
  ASSUME NEW text \in Seq(Sentence), NEW a \in 1 .. Len(text)
  PROVE  \E m \in a .. Len(text) : Packed(text, a) = a .. m /\ Max(Packed(text, a)) = m
<1> DEFINE fit == {b \in a .. Len(text) : b = a \/ Length(text, a .. b) - 1 <= MaxUnits}
<1>1. PICK n \in Nat : n = Len(text) /\ a \in 1 .. n
  BY LenProperties
<1>2. fit \in SUBSET (0 .. n) /\ a \in fit /\ \A b \in fit : b \in a .. n
  BY <1>1
<1>3. Packed(text, a) = a .. Max(fit)
  BY DEF Packed
<1> HIDE DEF fit
<1>4. Max(fit) \in fit
  BY <1>2, MaxIs
<1>5. PICK m \in a .. n : m = Max(fit)
  BY <1>2, <1>4
<1>6. a .. m \in SUBSET (0 .. m) /\ a .. m # {} /\ m \in a .. m /\ m \in Nat
  BY <1>1, <1>5
<1>7. Max(a .. m) \in a .. m /\ \A x \in a .. m : x <= Max(a .. m)
  BY <1>6, MaxIs
<1>8. Max(a .. m) = m
  BY <1>1, <1>6, <1>7
<1> QED
  BY <1>1, <1>3, <1>5, <1>8

(* The starts of packs up to sentence k: each sentence is in one pack.        *)
StartsUpTo(S, k, text) ==
  /\ S \in SUBSET (1 .. k)
  /\ k # 0 => S # {}
  /\ \A u \in 1 .. k : \E s \in S : u \in Packed(text, s)
  /\ \A s, t \in S : s < t => Max(Packed(text, s)) < t

(* The starts of the packs of all sentences.                                 *)
LEMMA PackStartsAre ==
  ASSUME NEW text \in Seq(Sentence)
  PROVE  StartsUpTo(PackStarts(text), Len(text), text)
<1>1. PICK n \in Nat : n = Len(text)
  BY LenProperties
<1> DEFINE T == SUBSET (1 .. n)
           step == [k \in 1 .. n |-> [S \in T |->
                      IF S # {} /\ k \in Packed(text, Max(S)) THEN S ELSE S \cup {k}]]
           Is(g) == g = [k \in 0 .. n |->
                           IF k = 0 THEN {}
                           ELSE IF g[k - 1] # {} /\ k \in Packed(text, Max(g[k - 1])) THEN g[k - 1]
                           ELSE g[k - 1] \cup {k}]
           starts == CHOOSE g : Is(g)
<1>2. step \in [1 .. n -> [T -> T]] /\ {} \in T
  OBVIOUS
<1>3. PICK g \in [0 .. n -> T] : Follows(g, n, {}, step)
  <2> HIDE DEF step, T
  <2> QED
    BY <1>2, RecursionIsThere
<1>4. Is(g)
  <2>1. \A k \in 0 .. n : k # 0 => k \in 1 .. n /\ k - 1 \in 0 .. n /\ g[k - 1] \in T
    <3> HIDE DEF T
    <3> QED
      OBVIOUS
  <2>2. \A k \in 0 .. n : k # 0 =>
          step[k][g[k - 1]] = IF g[k - 1] # {} /\ k \in Packed(text, Max(g[k - 1])) THEN g[k - 1]
                              ELSE g[k - 1] \cup {k}
    BY <2>1
  <2> HIDE DEF step, T
  <2>3. g = [k \in 0 .. n |->
               IF k = 0 THEN {}
               ELSE IF g[k - 1] # {} /\ k \in Packed(text, Max(g[k - 1])) THEN g[k - 1]
               ELSE g[k - 1] \cup {k}]
    BY <1>3, <2>1, <2>2 DEF Follows
  <2> QED
    BY <2>3
<1>5. Is(starts)
  <2> HIDE DEF Is
  <2> QED
    BY <1>4
<1>6. PackStarts(text) = starts[n]
  BY <1>1 DEF PackStarts
<1> DEFINE Good == {k \in 0 .. n : StartsUpTo(starts[k], k, text)}
<1>7. /\ starts[0] = {}
      /\ \A k \in 1 .. n : starts[k] = IF starts[k - 1] # {} /\ k \in Packed(text, Max(starts[k - 1]))
                                         THEN starts[k - 1] ELSE starts[k - 1] \cup {k}
  <2> HIDE DEF starts
  <2>1. \A k \in 0 .. n : starts[k] =
          IF k = 0 THEN {}
          ELSE IF starts[k - 1] # {} /\ k \in Packed(text, Max(starts[k - 1])) THEN starts[k - 1]
          ELSE starts[k - 1] \cup {k}
    BY <1>5
  <2>2. \A k \in 1 .. n : k \in 0 .. n /\ k # 0
    OBVIOUS
  <2>3. 0 \in 0 .. n
    OBVIOUS
  <2> QED
    BY <2>1, <2>2, <2>3
<1> HIDE DEF starts
<1>8. 0 \in Good
  <2>1. StartsUpTo({}, 0, text)
    BY DEF StartsUpTo
  <2> QED
    BY <1>1, <1>7, <2>1
<1>9. ASSUME NEW k \in 1 .. n, k - 1 \in Good PROVE k \in Good
  <2> DEFINE S == starts[k - 1]
  <2>1. /\ S \in SUBSET (1 .. k - 1) /\ (k - 1 # 0 => S # {})
        /\ \A u \in 1 .. k - 1 : \E s \in S : u \in Packed(text, s)
        /\ \A s, t \in S : s < t => Max(Packed(text, s)) < t
    BY <1>9 DEF StartsUpTo
  <2> HIDE DEF S
  <2>2. \A s \in S : s \in 1 .. n /\ s < k /\ s \in Nat
    BY <2>1
  <2>3. \A u \in 1 .. k : u = k \/ u \in 1 .. k - 1
    OBVIOUS
  <2>4. CASE S # {} /\ k \in Packed(text, Max(S))
    <3>1. starts[k] = S
      BY <1>7, <2>4 DEF S
    <3>2. Max(S) \in S
      <4>1. S \in SUBSET (0 .. n)
        BY <2>2
      <4> QED
        BY <2>4, <4>1, MaxIs
    <3>3. \A u \in 1 .. k : \E s \in S : u \in Packed(text, s)
      BY <2>1, <2>3, <2>4, <3>2
    <3>4. S \in SUBSET (1 .. k)
      BY <2>1
    <3>5. StartsUpTo(S, k, text)
      BY <2>1, <2>4, <3>3, <3>4 DEF StartsUpTo
    <3> QED
      BY <3>1, <3>5
  <2>5. CASE ~(S # {} /\ k \in Packed(text, Max(S)))
    <3>1. starts[k] = S \cup {k}
      BY <1>7, <2>5 DEF S
    <3>2. k \in Packed(text, k)
      <4>1. PICK m \in k .. n : Packed(text, k) = k .. m
        BY <1>1, PackedIs
      <4> QED
        BY <4>1
    <3>3. \A s \in S : Max(Packed(text, s)) < k
      <4> SUFFICES ASSUME NEW s \in S PROVE Max(Packed(text, s)) < k
        OBVIOUS
      <4>1. Max(S) \in S /\ \A x \in S : x <= Max(S)
        <5>1. S \in SUBSET (0 .. n) /\ S # {}
          BY <2>2
        <5> QED
          BY <5>1, MaxIs
      <4>2. PICK z \in S : z = Max(S) /\ s <= z
        BY <4>1
      <4>3. PICK m \in z .. n : Packed(text, z) = z .. m /\ Max(Packed(text, z)) = m
        BY <1>1, <2>2, PackedIs
      <4>4. k \notin z .. m /\ z < k
        BY <2>2, <2>5, <4>2, <4>3
      <4>5. m < k
        BY <2>2, <4>4
      <4>6. s = z \/ Max(Packed(text, s)) < z
        BY <2>1, <2>2, <4>2
      <4>7. PICK j \in s .. n : Max(Packed(text, s)) = j
        BY <1>1, <2>2, PackedIs
      <4> QED
        BY <2>2, <4>3, <4>4, <4>5, <4>6, <4>7
    <3>4. S \cup {k} \in SUBSET (1 .. k)
      BY <2>1
    <3>5. \A u \in 1 .. k : \E s \in S \cup {k} : u \in Packed(text, s)
      BY <2>1, <2>3, <3>2
    <3>6. \A s, t \in S \cup {k} : s < t => Max(Packed(text, s)) < t
      BY <2>1, <2>2, <3>3
    <3>7. StartsUpTo(S \cup {k}, k, text)
      BY <3>4, <3>5, <3>6 DEF StartsUpTo
    <3> QED
      BY <3>1, <3>7
  <2> QED
    BY <2>4, <2>5
<1> HIDE DEF Good
<1>10. \A k \in 1 .. n : k - 1 \in Good => k \in Good
  BY <1>9
<1>11. n \in Good
  BY <1>8, <1>10, UpTo
<1> QED
  BY <1>1, <1>6, <1>11 DEF Good

(* Where sentences are when no white space between them has a newline.       *)
LEMMA SentencesFollow ==
  ASSUME NEW text \in Seq(Sentence)
  PROVE  /\ \A k \in 1 .. Len(text) : SentenceLine(text, k) \in Nat
         /\ \A i, k \in 1 .. Len(text) : i < k => SentenceLine(text, i) + text[i].inner <= SentenceLine(text, k)
<1>1. PICK n \in Nat : n = Len(text) /\ text \in [1 .. n -> Sentence] /\ Lines(text) = 1 .. n
  BY LenProperties DEF Lines
<1> DEFINE step == [k \in 1 .. n |-> [x \in Nat |->
                      IF k = 1 THEN 1 ELSE x + text[k - 1].gap + text[k - 1].inner]]
           Is(g) == g = [j \in Lines(text) |->
                           IF j = 1 THEN 1 ELSE g[j - 1] + text[j - 1].gap + text[j - 1].inner]
           line == CHOOSE g : Is(g)
<1>2. \A k \in 1 .. n : text[k].gap \in Nat /\ text[k].inner \in Nat
  BY <1>1 DEF Sentence
<1>3. step \in [1 .. n -> [Nat -> Nat]] /\ 0 \in Nat
  <2>1. \A k \in 1 .. n : k = 1 \/ k - 1 \in 1 .. n
    OBVIOUS
  <2>2. \A k \in 1 .. n : \A x \in Nat : (IF k = 1 THEN 1 ELSE x + text[k - 1].gap + text[k - 1].inner) \in Nat
    BY <1>2, <2>1
  <2> QED
    BY <2>2
<1>4. PICK h \in [0 .. n -> Nat] : Follows(h, n, 0, step)
  <2> HIDE DEF step
  <2> QED
    BY <1>3, RecursionIsThere
<1> DEFINE g0 == [j \in 1 .. n |-> h[j]]
<1>5. Is(g0)
  <2>1. \A k \in 1 .. n : k \in 0 .. n /\ k # 0 /\ k - 1 \in 0 .. n /\ h[k - 1] \in Nat
    OBVIOUS
  <2>2. \A k \in 1 .. n : h[k] = step[k][h[k - 1]]
    <3> HIDE DEF step
    <3> QED
      BY <1>4, <2>1 DEF Follows
  <2>3. \A k \in 1 .. n : h[k] = IF k = 1 THEN 1 ELSE h[k - 1] + text[k - 1].gap + text[k - 1].inner
    BY <2>1, <2>2
  <2>4. \A k \in 1 .. n : k = 1 \/ (k - 1 \in 1 .. n /\ g0[k - 1] = h[k - 1])
    OBVIOUS
  <2>5. g0 = [j \in 1 .. n |-> IF j = 1 THEN 1 ELSE g0[j - 1] + text[j - 1].gap + text[j - 1].inner]
    BY <2>3, <2>4
  <2> HIDE DEF g0
  <2> QED
    BY <1>1, <2>5
<1>6. Is(line)
  <2> HIDE DEF Is, g0
  <2> QED
    BY <1>5
<1>7. \A k \in 1 .. n : SentenceLine(text, k) = line[k]
  BY DEF SentenceLine, LineWhereGapStarts
<1>8. \A k \in 1 .. n : line[k] = IF k = 1 THEN 1 ELSE line[k - 1] + text[k - 1].gap + text[k - 1].inner
  <2> HIDE DEF line
  <2> QED
    BY <1>1, <1>6
<1> HIDE DEF line
<1> DEFINE Good == {k \in 0 .. n : /\ \A i \in 1 .. k : line[i] \in Nat
                                   /\ \A i \in 1 .. k - 1 : line[i] + text[i].inner <= line[k]}
<1>9. 0 \in Good
  OBVIOUS
<1>10. ASSUME NEW k \in 1 .. n, k - 1 \in Good PROVE k \in Good
  <2>1. CASE k = 1
    <3>1. line[k] = 1
      BY <1>8, <2>1
    <3>2. \A i \in 1 .. k : i = k
      BY <2>1
    <3> QED
      BY <2>1, <3>1, <3>2
  <2>2. CASE k # 1
    <3>1. /\ k - 1 \in 1 .. n /\ line[k - 1] \in Nat /\ \A i \in 1 .. k - 1 : line[i] \in Nat
          /\ \A i \in 1 .. k - 1 - 1 : line[i] + text[i].inner <= line[k - 1]
      <4>1. k - 1 \in 1 .. n /\ k - 1 \in 1 .. k - 1
        BY <2>2
      <4> QED
        BY <1>10, <4>1
    <3>2. PICK x \in Nat, gap \in Nat, inner \in Nat :
            x = line[k - 1] /\ gap = text[k - 1].gap /\ inner = text[k - 1].inner
      BY <1>2, <3>1
    <3>3. PICK w \in Nat : w = x + gap + inner /\ line[k] = w
      <4>1. line[k] = x + gap + inner
        BY <1>8, <2>2, <3>2
      <4> QED
        BY <4>1
    <3>4. ASSUME NEW i \in 1 .. k - 1 PROVE line[i] + text[i].inner <= line[k]
      <4>1. CASE i = k - 1
        <5>1. PICK y \in Nat : y = text[i].inner
          BY <1>2, <3>1, <4>1
        <5>2. line[i] = x /\ y = inner
          BY <3>2, <4>1, <5>1
        <5> QED
          BY <3>3, <5>1, <5>2
      <4>2. CASE i # k - 1
        <5>1. i \in 1 .. k - 1 - 1 /\ i \in 1 .. n
          BY <4>2
        <5>2. line[i] + text[i].inner <= x
          <6>1. line[i] + text[i].inner <= line[k - 1]
            BY <3>1, <5>1
          <6> QED
            BY <3>2, <6>1
        <5>3. line[i] \in Nat /\ text[i].inner \in Nat
          BY <1>2, <3>1, <5>1
        <5>4. PICK y \in Nat : y = line[i] + text[i].inner
          BY <5>3
        <5>5. y <= w
          BY <3>3, <5>2, <5>4
        <5> QED
          BY <3>3, <5>4, <5>5
      <4> QED
        BY <4>1, <4>2
    <3>5. \A i \in 1 .. k : line[i] \in Nat
      <4>1. \A i \in 1 .. k : i = k \/ i \in 1 .. k - 1
        OBVIOUS
      <4> QED
        BY <3>1, <3>3, <4>1
    <3>6. \A i \in 1 .. k - 1 : line[i] + text[i].inner <= line[k]
      BY <3>4
    <3> QED
      BY <3>5, <3>6
  <2> QED
    BY <2>1, <2>2
<1>11. \A k \in 1 .. n : k - 1 \in Good => k \in Good
  BY <1>10
<1>12. \A k \in 0 .. n : k \in Good
  <2> HIDE DEF Good
  <2> QED
    BY <1>9, <1>11, UpTo
<1>13. \A k \in 1 .. n : line[k] \in Nat /\ \A i \in 1 .. k - 1 : line[i] + text[i].inner <= line[k]
  <2>1. \A k \in 1 .. n : k \in Good /\ k \in 1 .. k
    BY <1>12
  <2> QED
    BY <2>1
<1>14. \A i, k \in 1 .. n : i < k => i \in 1 .. k - 1
  OBVIOUS
<1> QED
  BY <1>1, <1>7, <1>13, <1>14

(* The chunks hold their sentences, as long as no gap has a newline, and     *)
(* none is too long.                                                         *)
LEMMA ProseKept ==
  ASSUME NEW text \in Seq(Sentence)
  PROVE  /\ ProseChunks(text) \in Seq(AnyChunk) /\ Once(ProseChunks(text), DOMAIN text)
         /\ \A k \in DOMAIN ProseChunks(text) : ~ProseChunks(text)[k].split
         /\ (\A k \in DOMAIN text : text[k].gap = 0) =>
              \A k \in DOMAIN ProseChunks(text) : \A u \in ProseChunks(text)[k].units :
                ProseChunks(text)[k].start <= FirstLine(text, u) /\ LastLine(text, u) <= ProseChunks(text)[k].end
<1> DEFINE starts == PackStarts(text)
           pack(a) == Chunk(Packed(text, a), SentenceLine(text, a), SentenceEnd(text, Max(Packed(text, a))), "", "block")
           cut(a) == [pack(a) EXCEPT !.split = FALSE]
           of == [a \in starts |-> cut(a)]
           cs == ProseChunks(text)
<1>1. PICK n \in Nat : n = Len(text) /\ text \in [1 .. n -> Sentence] /\ DOMAIN text = 1 .. n
  BY LenProperties
<1>2. /\ starts \in SUBSET (1 .. n)
      /\ \A u \in 1 .. n : \E s \in starts : u \in Packed(text, s)
      /\ \A s, t \in starts : s < t => Max(Packed(text, s)) < t
  BY <1>1, PackStartsAre DEF StartsUpTo
<1>3. cs = [k \in DOMAIN Ordered(starts) |-> cut(Ordered(starts)[k])]
  BY DEF ProseChunks
<1> HIDE DEF starts
<1>4. starts \in SUBSET Nat /\ IsFiniteSet(starts)
  BY <1>1, <1>2, NumbersFinite
<1>5. \A k \in 1 .. n : text[k].gap \in Nat /\ text[k].inner \in Nat
  BY <1>1 DEF Sentence
<1>6. ASSUME NEW a \in starts
      PROVE  /\ cut(a) \in AnyChunk /\ cut(a).units = Packed(text, a) /\ ~cut(a).split
             /\ (\A k \in DOMAIN text : text[k].gap = 0) =>
                  \A u \in cut(a).units : cut(a).start <= FirstLine(text, u) /\ LastLine(text, u) <= cut(a).end
  <2>1. PICK m \in a .. n : Packed(text, a) = a .. m /\ Max(Packed(text, a)) = m
    BY <1>1, <1>2, PackedIs
  <2>2. a \in 1 .. n /\ m \in 1 .. n /\ a .. m \in SUBSET Nat
    BY <1>2, <2>1
  <2>3. SentenceLine(text, a) \in Nat /\ SentenceLine(text, m) \in Nat
    BY <1>1, <2>2, SentencesFollow
  <2>4. PICK start \in Nat, end \in Nat : start = SentenceLine(text, a) /\ end = SentenceLine(text, m) + text[m].inner
    BY <1>5, <2>2, <2>3
  <2>5. "" \in Labels /\ "block" \in Labels
    BY DEF Labels, Literals
  <2>6. pack(a) = Chunk(a .. m, start, end, "", "block")
    BY <2>1, <2>4 DEF SentenceEnd
  <2>7. pack(a).units = a .. m /\ pack(a).start = start /\ pack(a).end = end
    BY <2>6 DEF Chunk
  <2>8. pack(a) \in AnyChunk
    <3>1. Chunk(a .. m, start, end, "", "block") \in AnyChunk
      <4>1. a \in Int /\ m \in Int
        BY <2>2
      <4>2. IsFiniteSet(a .. m)
        BY <4>1, FS_Interval
      <4> QED
        BY <2>2, <2>4, <2>5, <4>2, AnyChunkType
    <3> QED
      BY <2>6, <3>1
  <2> HIDE DEF pack
  <2>9. cut(a) \in AnyChunk /\ ~cut(a).split /\ cut(a).units = a .. m /\ cut(a).start = start /\ cut(a).end = end
    BY <2>7, <2>8, UncutIs
  <2>10. ASSUME \A k \in DOMAIN text : text[k].gap = 0, NEW u \in a .. m
         PROVE  start <= FirstLine(text, u) /\ LastLine(text, u) <= end
    <3>1. u \in 1 .. n /\ text[u].gap = 0 /\ text[u].inner \in Nat /\ text[a].inner \in Nat /\ text[m].inner \in Nat
      BY <1>1, <1>5, <2>2, <2>10
    <3>2. PICK line \in Nat : line = SentenceLine(text, u)
      BY <1>1, <3>1, SentencesFollow
    <3>3. FirstLine(text, u) = line /\ LastLine(text, u) = line + text[u].inner
      BY <3>1, <3>2 DEF FirstLine, LastLine, SentenceLine
    <3>4. a < u => start + text[a].inner <= line
      BY <1>1, <2>2, <2>4, <3>1, <3>2, SentencesFollow
    <3>5. u < m => line + text[u].inner <= SentenceLine(text, m)
      BY <1>1, <2>2, <3>1, <3>2, SentencesFollow
    <3>6. start <= line
      BY <2>2, <2>4, <3>1, <3>2, <3>4
    <3>7. line + text[u].inner <= end
      BY <2>2, <2>3, <2>4, <3>1, <3>2, <3>5
    <3> QED
      BY <3>3, <3>6, <3>7
  <2> HIDE DEF cut
  <2> QED
    BY <2>1, <2>9, <2>10
<1>7. of \in [starts -> AnyChunk] /\ \A a \in starts : of[a] = cut(a)
  BY <1>6
<1>8. OneEach(cs, starts, of)
  <2> HIDE DEF cut, cs
  <2> QED
    BY <1>1, <1>2, <1>3, InOrder DEF OneEach
<1>9. ASSUME NEW u \in 1 .. n
      PROVE  \E s \in starts : u \in of[s].units /\ \A t \in starts : u \in of[t].units => t = s
  <2>1. PICK s \in starts : u \in Packed(text, s)
    BY <1>2
  <2>2. ASSUME NEW t \in starts, u \in Packed(text, t) PROVE t = s
    <3>1. PICK m \in s .. n : Packed(text, s) = s .. m /\ Max(Packed(text, s)) = m
      BY <1>1, <1>2, PackedIs
    <3>2. PICK j \in t .. n : Packed(text, t) = t .. j /\ Max(Packed(text, t)) = j
      BY <1>1, <1>2, PackedIs
    <3>3. s < t => m < t
      BY <1>2, <3>1
    <3>4. t < s => j < s
      BY <1>2, <3>2
    <3>5. s \in Nat /\ t \in Nat /\ s <= u /\ u <= m /\ t <= u /\ u <= j
      BY <1>4, <2>1, <2>2, <3>1, <3>2
    <3> QED
      BY <3>1, <3>2, <3>3, <3>4, <3>5
  <2>3. \A t \in starts : of[t].units = Packed(text, t)
    BY <1>6, <1>7
  <2> HIDE DEF of
  <2> QED
    BY <2>1, <2>2, <2>3
<1>10. \A u \in 1 .. n : \E s \in starts : u \in of[s].units /\ \A t \in starts : u \in of[t].units => t = s
  BY <1>9
<1> HIDE DEF of, cs, cut
<1>11. Once(cs, 1 .. n)
  BY <1>4, <1>7, <1>8, <1>10, OnceOf
<1>12. cs \in Seq(AnyChunk) /\ \A k \in DOMAIN cs : Ordered(starts)[k] \in starts /\ cs[k] = of[Ordered(starts)[k]]
  BY <1>4, <1>7, <1>8, ListOf
<1>13. (\A k \in DOMAIN text : text[k].gap = 0) =>
         \A k \in DOMAIN cs : \A u \in cs[k].units :
           cs[k].start <= FirstLine(text, u) /\ LastLine(text, u) <= cs[k].end
  BY <1>6, <1>7, <1>12
<1>14. \A k \in DOMAIN cs : ~cs[k].split
  BY <1>6, <1>7, <1>12
<1> QED
  BY <1>1, <1>11, <1>12, <1>13, <1>14 DEF cs

-----------------------------------------------------------------------------
(* Nodes of a tree.                                                          *)

(* Chunks of the lines up to h.                                               *)
Upto(h) == {c \in Spanning : c.units \subseteq 1 .. h}

(* Those of them that are called by a name of D.                             *)
Called(h, D) == {c \in Upto(h) : c.name \in D}

(* Chunks up to a line are chunks up to a later line.                        *)
LEMMA UptoIs ==
  ASSUME NEW h \in Nat, NEW g \in Nat, g <= h
  PROVE  Upto(g) \subseteq Upto(h) /\ Upto(h) \subseteq Spanning
BY DEF Upto

(* So are those that are called by some names.                               *)
LEMMA CalledIs ==
  ASSUME NEW h \in Nat, NEW g \in Nat, g <= h, NEW D, NEW E, D \subseteq E
  PROVE  Called(g, D) \subseteq Called(h, E) /\ Called(h, E) \subseteq Upto(h)
BY DEF Called, Upto

(* What NodesAssumption says of a node: where it is and where its parts are. *)
LEMMA NodeIs ==
  ASSUME NEW n \in Nodes
  PROVE  /\ n.type \in Labels
         /\ n.lo \in Nat /\ n.head \in Nat /\ n.hi \in Nat
         /\ 1 <= n.lo /\ n.lo <= n.head /\ n.head <= n.hi
         /\ n.kids \in Seq(Nodes)
         /\ n.type # "script" =>
              \A k \in DOMAIN n.kids : n.head <= n.kids[k].lo /\ n.kids[k].hi <= n.hi
         /\ n.type = "script" => \A k \in DOMAIN n.kids : n.head + n.kids[k].hi - 1 <= n.hi
<1>1. n.type \in STRING /\ {n.lo, n.head, n.hi} \subseteq Nat \ {0} /\ n.lo <= n.head /\ n.head <= n.hi
  BY NodesAssumption
<1>2. n.kids \in Seq(Nodes)
  BY NodesAssumption
<1>3. \A k \in DOMAIN n.kids :
        IF n.type = "script" THEN n.head + n.kids[k].hi - 1 <= n.hi
        ELSE n.head <= n.kids[k].lo /\ n.kids[k].hi <= n.hi
  BY NodesAssumption
<1>4. n.type \in Labels
  BY <1>1 DEF Labels
<1> QED
  BY <1>1, <1>2, <1>3, <1>4

(* A node as one chunk.                                                      *)
LEMMA NodeChunkIs ==
  ASSUME NEW n \in Nodes, NEW kind \in Labels
  PROVE  NodeChunk(n, kind) \in Upto(n.hi) /\ NodeChunk(n, kind) \in Spanning /\ NodeChunk(n, kind).name = n.type
<1>1. n.lo \in Nat /\ n.hi \in Nat /\ 1 <= n.lo /\ n.lo <= n.hi /\ n.type \in Labels
  BY NodeIs
<1>2. LinesOf(n) \in SUBSET (0 .. n.hi) /\ LinesOf(n) \subseteq 1 .. n.hi /\ n.lo \in LinesOf(n)
  BY <1>1 DEF LinesOf
<1>3. LineChunk(LinesOf(n), n.type, kind) \in Spanning /\ LineChunk(LinesOf(n), n.type, kind).units = LinesOf(n)
  BY <1>1, <1>2, LineChunkType
<1>4. LineChunk(LinesOf(n), n.type, kind).name = n.type
  BY NameIs
<1> QED
  BY <1>2, <1>3, <1>4 DEF NodeChunk, Upto

(* A member: a node within another.                                           *)
LEMMA KidIs ==
  ASSUME NEW n \in Nodes, n.type # "script", NEW k \in DOMAIN n.kids
  PROVE  /\ n.kids[k] \in Nodes /\ LinesOf(n.kids[k]) \subseteq n.head .. n.hi
         /\ n.kids[k].hi <= n.hi
<1>1. n.kids \in Seq(Nodes) /\ n.head <= n.kids[k].lo /\ n.kids[k].hi <= n.hi
  BY NodeIs
<1>2. n.kids[k] \in Nodes
  BY <1>1
<1>3. n.kids[k].lo \in Nat /\ n.kids[k].hi \in Nat /\ n.head \in Nat /\ n.hi \in Nat
  BY <1>2, NodeIs
<1> QED
  BY <1>1, <1>2, <1>3 DEF LinesOf

(* What is left of a node beside its parts is in the node.                   *)
LEMMA LinesNotOfKids ==
  ASSUME NEW n \in Nodes, n.type # "script", NEW types
  PROVE  LinesNotOf(n.kids, types) \subseteq n.head .. n.hi
BY KidIs DEF LinesNotOf

(* The nodes of some types.                                                  *)
LEMMA OfTypeIs ==
  ASSUME NEW T, NEW nodes \in Seq(T), NEW types
  PROVE  /\ OfType(nodes, types) \in Seq(T)
         /\ \A m \in DOMAIN OfType(nodes, types) :
              \E k \in DOMAIN nodes : OfType(nodes, types)[m] = nodes[k] /\ nodes[k].type \in types
<1> DEFINE P == {k \in DOMAIN nodes : nodes[k].type \in types}
           E == {nodes[i] : i \in P}
<1>1. P \in SUBSET (DOMAIN nodes)
  OBVIOUS
<1>2. Picked(nodes, P) \in Seq(E)
  <2> HIDE DEF P
  <2> QED
    BY <1>1, PickedKeeps
<1>3. OfType(nodes, types) = Picked(nodes, P)
  BY DEF OfType
<1>4. E \subseteq T
  OBVIOUS
<1>5. \A m \in DOMAIN OfType(nodes, types) : OfType(nodes, types)[m] \in E
  <2> HIDE DEF E
  <2> QED
    BY <1>2, <1>3
<1>6. OfType(nodes, types) \in Seq(T)
  BY <1>2, <1>3, <1>4
<1> QED
  BY <1>5, <1>6

(* The members of a node that have chunks of their own, each for itself.     *)
LEMMA MembersAre ==
  ASSUME NEW n \in Nodes, n.type # "script", NEW types
  PROVE  ChunksOfAll(LAMBDA m : <<NodeChunk(m, "method")>>, OfType(n.kids, types))
           \in Seq(Called(n.hi, types))
<1> DEFINE members == OfType(n.kids, types)
           seqs == [k \in DOMAIN members |-> <<NodeChunk(members[k], "method")>>]
<1>1. members \in Seq(Nodes) /\ \A m \in DOMAIN members : \E k \in DOMAIN n.kids : members[m] = n.kids[k] /\ n.kids[k].type \in types
  BY NodeIs, OfTypeIs
<1>2. ASSUME NEW m \in DOMAIN members PROVE NodeChunk(members[m], "method") \in Called(n.hi, types)
  <2>1. PICK k \in DOMAIN n.kids : members[m] = n.kids[k] /\ n.kids[k].type \in types
    BY <1>1
  <2>2. n.kids[k] \in Nodes /\ n.kids[k].hi <= n.hi /\ n.hi \in Nat /\ n.kids[k].hi \in Nat
    BY KidIs, NodeIs
  <2>3. "method" \in Labels
    BY DEF Labels, Literals
  <2>4. NodeChunk(n.kids[k], "method") \in Upto(n.kids[k].hi) /\ NodeChunk(n.kids[k], "method").name = n.kids[k].type
    BY <2>2, <2>3, NodeChunkIs
  <2> QED
    BY <2>1, <2>2, <2>4, UptoIs DEF Called
<1> HIDE DEF members
<1>3. seqs \in Seq(Seq(Called(n.hi, types)))
  <2>1. \A m \in DOMAIN members : <<NodeChunk(members[m], "method")>> \in Seq(Called(n.hi, types))
    BY <1>2
  <2>2. Len(members) \in Nat /\ DOMAIN members = 1 .. Len(members)
    BY <1>1, LenProperties
  <2> QED
    BY <2>1, <2>2
<1>4. ChunksOfAll(LAMBDA m : <<NodeChunk(m, "method")>>, members) = FlattenSeq(seqs)
  BY DEF ChunksOfAll
<1> HIDE DEF seqs
<1>5. FlattenSeq(seqs) \in Seq(Called(n.hi, types))
  BY <1>3, FlattenKeeps
<1> QED
  BY <1>4, <1>5 DEF members

(* A list of one.                                                            *)
LEMMA OneChunk ==
  ASSUME NEW T, NEW c \in T
  PROVE  <<c>> \in Seq(T)
OBVIOUS

(* The chunks of a list of nodes, when each node's are of a type.            *)
LEMMA AllAre ==
  ASSUME NEW T, NEW nodes \in Seq(Nodes), NEW of \in [DOMAIN nodes -> Seq(T)]
  PROVE  FlattenSeq(of) \in Seq(T)
<1>1. of \in Seq(Seq(T))
  <2>1. Len(nodes) \in Nat /\ DOMAIN nodes = 1 .. Len(nodes)
    BY LenProperties
  <2> QED
    BY <2>1
<1> QED
  BY <1>1, FlattenKeeps

(* A class or an object with a shell of its own lines.                       *)
LEMMA ShellIs ==
  ASSUME NEW n \in Nodes, NEW start \in {n.lo, n.head}, NEW text \in Seq((start .. n.hi) \cup {NoLine}), NEW kind \in Labels
  PROVE  /\ Shell(text, start, n.hi, n.type, kind) \in Upto(n.hi)
         /\ Shell(text, start, n.hi, n.type, kind).name = n.type
         /\ Shell(text, start, n.hi, n.type, kind).start = start
         /\ Shell(text, start, n.hi, n.type, kind).units = Range(text) \ {NoLine}
<1> DEFINE c == Shell(text, start, n.hi, n.type, kind)
<1>1. n.lo \in Nat /\ n.head \in Nat /\ n.hi \in Nat /\ 1 <= n.lo /\ n.lo <= n.head /\ n.head <= n.hi /\ n.type \in Labels
  BY NodeIs
<1>2. \A i \in DOMAIN text : text[i] \in (start .. n.hi) \cup {NoLine}
  OBVIOUS
<1>3. (start .. n.hi) \cup {NoLine} \subseteq Int
  BY DEF NoLine
<1>4. text \in Seq(Int) /\ \A i \in DOMAIN text : text[i] \in Nat \cup {NoLine}
  <2>1. \A i \in DOMAIN text : text[i] \in Nat \cup {NoLine}
    BY <1>1, <1>2
  <2> QED
    BY <1>3, <2>1, SeqOfMore
<1>5. c \in AnyChunk /\ c.units = Range(text) \ {NoLine}
  BY <1>1, <1>4, ShellType
<1>6. Range(text) \ {NoLine} \subseteq start .. n.hi
  BY <1>2 DEF Range
<1>7. c.start = start /\ c.end = n.hi /\ c.name = n.type
  BY DEF Shell
<1> HIDE DEF c
<1>8. c.start <= c.end /\ \A u \in c.units : c.start <= u /\ u <= c.end
  BY <1>1, <1>5, <1>6, <1>7
<1>9. c.units \subseteq 1 .. n.hi
  BY <1>1, <1>5, <1>6
<1>10. c \in Upto(n.hi) /\ c.name = n.type /\ c.start = start /\ c.units = Range(text) \ {NoLine}
  BY <1>5, <1>7, <1>8, <1>9 DEF Upto, Spanning
<1> QED
  BY <1>10 DEF c

(* The lines of nodes in a list.                                             *)
LEMMA LinesInOrder ==
  ASSUME NEW n \in Nodes, NEW B, LinesOf(n) \subseteq B
  PROVE  Ordered(LinesOf(n)) \in Seq(B)
<1>1. n.lo \in Nat /\ n.hi \in Nat
  BY NodeIs
<1>2. LinesOf(n) \in SUBSET Nat
  BY <1>1 DEF LinesOf
<1>3. n.lo \in Int /\ n.hi \in Int
  BY <1>1
<1>4. IsFiniteSet(LinesOf(n))
  BY <1>3, FS_Interval DEF LinesOf
<1> QED
  BY <1>2, <1>4, OrderedIs, SeqOfMore

LEMMA TextOfAllIs ==
  ASSUME NEW nodes \in Seq(Nodes), NEW B, \A k \in DOMAIN nodes : LinesOf(nodes[k]) \subseteq B
  PROVE  TextOfAll(nodes) \in Seq(B)
<1> DEFINE of == [k \in DOMAIN nodes |-> Ordered(LinesOf(nodes[k]))]
<1>1. ASSUME NEW k \in DOMAIN nodes PROVE of[k] \in Seq(B)
  BY LinesInOrder
<1>2. of \in [DOMAIN nodes -> Seq(B)]
  BY <1>1
<1>3. TextOfAll(nodes) = FlattenSeq(of)
  BY DEF TextOfAll
<1> HIDE DEF of
<1> QED
  BY <1>2, <1>3, AllAre

(* The lines of the nodes that are not of some types.                        *)
LEMMA TextNotOf ==
  ASSUME NEW nodes \in Seq(Nodes), NEW types
  PROVE  /\ NotOfType(nodes, types) \in Seq(Nodes)
         /\ TextOfAll(NotOfType(nodes, types)) \in Seq(LinesNotOf(nodes, types))
<1> DEFINE P == {k \in DOMAIN nodes : nodes[k].type \notin types}
           E == {nodes[i] : i \in P}
           rest == NotOfType(nodes, types)
<1>1. rest \in Seq(E)
  <2>1. P \in SUBSET (DOMAIN nodes)
    OBVIOUS
  <2>2. rest = Picked(nodes, P)
    BY DEF NotOfType
  <2> HIDE DEF P
  <2> QED
    BY <2>1, <2>2, PickedKeeps
<1>2. E \subseteq Nodes /\ \A n \in E : LinesOf(n) \subseteq LinesNotOf(nodes, types)
  BY DEF LinesNotOf
<1> HIDE DEF E, rest
<1>3. rest \in Seq(Nodes)
  BY <1>1, <1>2, SeqOfMore
<1>4. \A k \in DOMAIN rest : LinesOf(rest[k]) \subseteq LinesNotOf(nodes, types)
  BY <1>1, <1>2
<1>5. TextOfAll(rest) \in Seq(LinesNotOf(nodes, types))
  BY <1>3, <1>4, TextOfAllIs
<1> QED
  BY <1>3, <1>5 DEF rest

(* The brace that closes a shell is of no line.                              *)
LEMMA ClosedText ==
  ASSUME NEW B, NEW first \in Seq(B), NEW rest \in Seq(B)
  PROVE  /\ first \o rest \o <<NoLine>> \in Seq(B \cup {NoLine})
         /\ \A i \in DOMAIN first : first[i] \in Range(first \o rest \o <<NoLine>>)
<1>1. first \o rest \in Seq(B) /\ \A i \in DOMAIN first : i \in DOMAIN (first \o rest) /\ (first \o rest)[i] = first[i]
  BY Joined
<1> DEFINE both == first \o rest
<1> HIDE DEF both
<1>2. both \in Seq(B \cup {NoLine}) /\ <<NoLine>> \in Seq(B \cup {NoLine})
  BY <1>1, SeqOfMore, OneChunk DEF both
<1>3. /\ both \o <<NoLine>> \in Seq(B \cup {NoLine})
      /\ \A i \in DOMAIN both : i \in DOMAIN (both \o <<NoLine>>) /\ (both \o <<NoLine>>)[i] = both[i]
  BY <1>2, Joined
<1> QED
  BY <1>1, <1>3 DEF both, Range

-----------------------------------------------------------------------------
(* The lines of the nodes of a text.                                         *)
LEMMA HeightIs ==
  ASSUME NEW nodes \in Seq(Nodes)
  PROVE  /\ TextHeight(nodes) \in Nat
         /\ \A k \in DOMAIN nodes : nodes[k].hi <= TextHeight(nodes)
         /\ LinesOfAll(nodes) \subseteq 1 .. TextHeight(nodes)
<1>1. PICK n \in Nat : n = Len(nodes) /\ nodes \in [1 .. n -> Nodes] /\ DOMAIN nodes = 1 .. n
  BY LenProperties
<1>2. \A k \in 1 .. n : nodes[k].lo \in Nat /\ nodes[k].hi \in Nat /\ 1 <= nodes[k].lo /\ nodes[k].lo <= nodes[k].hi
  BY <1>1, NodeIs
<1> DEFINE Good == {k \in 0 .. n : \E b \in Nat : \A i \in 1 .. k : nodes[i].hi <= b}
<1>3. 0 \in Good
  OBVIOUS
<1>4. ASSUME NEW k \in 1 .. n, k - 1 \in Good PROVE k \in Good
  <2>1. PICK b \in Nat : \A i \in 1 .. k - 1 : nodes[i].hi <= b
    BY <1>4
  <2>2. PICK c \in Nat : b <= c /\ nodes[k].hi <= c
    <3>1. PICK h \in Nat : h = nodes[k].hi
      BY <1>2
    <3>2. b <= b + h /\ h <= b + h /\ b + h \in Nat
      OBVIOUS
    <3> QED
      BY <3>1, <3>2
  <2>3. ASSUME NEW i \in 1 .. k PROVE nodes[i].hi <= c
    <3>1. i = k \/ i \in 1 .. k - 1
      OBVIOUS
    <3>2. i \in 1 .. n /\ nodes[i].hi \in Nat
      BY <1>2
    <3> QED
      BY <2>1, <2>2, <3>1, <3>2
  <2> QED
    BY <2>3
<1>5. \A k \in 1 .. n : k - 1 \in Good => k \in Good
  BY <1>4
<1>6. n \in Good
  <2> HIDE DEF Good
  <2>1. \A k \in 0 .. n : k \in Good
    BY <1>3, <1>5, UpTo
  <2> QED
    BY <2>1
<1>7. PICK b \in Nat : \A i \in 1 .. n : nodes[i].hi <= b
  BY <1>6
<1> DEFINE heights == {0} \cup LinesOfAll(nodes)
<1>8. \A l \in LinesOfAll(nodes) : l \in 1 .. b
  <2> SUFFICES ASSUME NEW k \in 1 .. n, NEW l \in nodes[k].lo .. nodes[k].hi PROVE l \in 1 .. b
    BY <1>1 DEF LinesOfAll, LinesOf
  <2>1. nodes[k].lo \in Nat /\ nodes[k].hi \in Nat /\ 1 <= nodes[k].lo /\ nodes[k].hi <= b
    BY <1>2, <1>7
  <2> QED
    BY <2>1
<1>9. heights \in SUBSET (0 .. b) /\ heights # {}
  BY <1>8
<1>10. \A k \in 1 .. n : nodes[k].hi \in heights
  <2> SUFFICES ASSUME NEW k \in 1 .. n PROVE nodes[k].hi \in LinesOfAll(nodes)
    OBVIOUS
  <2>1. nodes[k].hi \in LinesOf(nodes[k])
    BY <1>2 DEF LinesOf
  <2> QED
    BY <1>1, <2>1 DEF LinesOfAll
<1>11. \A l \in LinesOfAll(nodes) : l \in heights
  OBVIOUS
<1> HIDE DEF heights
<1>12. Max(heights) \in heights /\ \A l \in heights : l <= Max(heights)
  BY <1>9, MaxIs
<1>13. PICK h \in Nat : h = Max(heights)
  <2>1. Max(heights) \in 0 .. b
    BY <1>9, <1>12
  <2> QED
    BY <2>1
<1>14. TextHeight(nodes) = h
  BY <1>13 DEF TextHeight, heights
<1>15. \A k \in 1 .. n : nodes[k].hi <= h
  BY <1>10, <1>12, <1>13
<1>16. \A l \in LinesOfAll(nodes) : l \in 1 .. h
  BY <1>8, <1>11, <1>12, <1>13
<1> QED
  BY <1>1, <1>14, <1>15, <1>16

(* A text of lines that are not looked into.                                 *)
LEMMA WholeTextKept ==
  ASSUME NEW h \in Nat
  PROVE  LET cs == FallbackChunks([l \in 1 .. h |-> "text"])
         IN  cs \in Seq(Spanning) /\ Once(cs, 1 .. h)
<1> DEFINE text == [l \in 1 .. h |-> "text"]
<1>1. text \in Seq({"text"}) /\ Len(text) = h /\ \A l \in 1 .. h : text[l] = "text"
  OBVIOUS
<1> HIDE DEF text
<1>2. Ink(text) = 1 .. h
  <2>1. \A l \in 1 .. h : l \in Ink(text)
    BY <1>1, TextIs
  <2>2. Ink(text) \subseteq 1 .. h
    BY <1>1, TextIs
  <2> QED
    BY <2>1, <2>2
<1>3. FallbackChunks(text) \in Seq(ChunkOf(text)) /\ Once(FallbackChunks(text), 1 .. h)
  BY <1>1, <1>2, FallbackKept
<1>4. CASE h = 0
  <2> DEFINE starts == BlockStarts(text)
  <2>1. starts = {}
    BY <1>2, <1>4 DEF BlockStarts
  <2>2. DOMAIN Ordered({}) = {}
    <3>1. IsFiniteSet({}) /\ Cardinality({}) = 0 /\ {} \in SUBSET Nat
      BY FS_EmptySet
    <3>2. DOMAIN Ordered({}) = 1 .. 0
      BY <3>1, OrderedIs
    <3> QED
      BY <3>2
  <2>3. DOMAIN FallbackChunks(text) = {}
    BY <2>1, <2>2 DEF FallbackChunks
  <2>4. FallbackChunks(text) \in Seq(Spanning)
    <3>1. DOMAIN FallbackChunks(text) = 1 .. Len(FallbackChunks(text)) /\ Len(FallbackChunks(text)) \in Nat
      BY <1>3, LenProperties
    <3>2. Len(FallbackChunks(text)) = 0
      BY <2>3, <3>1
    <3> HIDE DEF starts
    <3>3. FallbackChunks(text) = << >>
      BY <1>3, <3>2, EmptySeq
    <3> QED
      BY <3>3
  <2> QED
    BY <1>3, <2>4 DEF text
<1>5. CASE h # 0
  <2>1. 1 \in 1 .. h
    BY <1>5
  <2>2. text[1] # "blank"
    BY <1>1, <2>1
  <2>3. ChunkOf(text) = Spanning
    BY <2>2 DEF ChunkOf
  <2> QED
    BY <1>3, <2>3 DEF text
<1> QED
  BY <1>4, <1>5

(* The fallback for a tree that is broken or that made no chunk.             *)
LEMMA OrFallbackIs ==
  ASSUME NEW f, f.text \in Seq(Nodes), NEW made \in Seq(Spanning)
  PROVE  OrFallback(f, made) \in Seq(Spanning)
<1>1. TextHeight(f.text) \in Nat
  BY HeightIs
<1> QED
  BY <1>1, WholeTextKept DEF OrFallback

(* What precedes the first definition, without the blank lines around it.    *)
LEMMA PreambleIs ==
  ASSUME NEW nodes \in Seq(Nodes), NEW types
  PROVE  Preamble(nodes, types) \in Seq(Spanning)
<1> DEFINE defs == OfType(nodes, types)
           before == IF defs = <<>> THEN {} ELSE 1 .. defs[1].lo - 1
           blanks == before \ InkOfAll(nodes)
           units == Strip(before, blanks)
           noise == Len(nodes) > 0 /\ units = InkOf(nodes[1]) /\ nodes[1].brief
           pre == Chunk(units, 1, Max(before), "", "module")
<1>1. PICK h \in Nat : before = 1 .. h
  <2>1. CASE defs = <<>>
    <3>1. before = 1 .. 0
      BY <2>1
    <3> QED
      BY <3>1
  <2>2. CASE defs # <<>>
    <3>1. defs \in Seq(Nodes)
      BY OfTypeIs
    <3> HIDE DEF defs
    <3>2. defs[1] \in Nodes
      BY <2>2, <3>1, EmptySeq, LenProperties
    <3>3. defs[1].lo - 1 \in Nat
      BY <3>2, NodeIs
    <3> QED
      BY <2>2, <3>3
  <2> QED
    BY <2>1, <2>2
<1>2. "" \in Labels /\ "module" \in Labels
  BY DEF Labels, Literals
<1>3. Preamble(nodes, types) = IF noise THEN <<>> ELSE IfAny(units, pre)
  BY DEF Preamble
<1> HIDE DEF before, blanks, noise
<1>4. units \subseteq 1 .. h
  BY <1>1, StripKeeps
<1> HIDE DEF units
<1>5. units # {} => pre \in Spanning
  <2> SUFFICES ASSUME units # {} PROVE pre \in Spanning
    OBVIOUS
  <2>1. Max(before) = h /\ 1 <= h
    BY <1>1, <1>4, MaxOfInterval
  <2>2. units \in SUBSET Nat /\ \A u \in units : 1 <= u /\ u <= h
    BY <1>4
  <2>3. Chunk(units, 1, h, "", "module") \in Spanning
    BY <1>2, <2>1, <2>2, ChunkType
  <2> QED
    BY <2>1, <2>3
<1> HIDE DEF pre
<1>6. IfAny(units, pre) \in Seq(Spanning) /\ <<>> \in Seq(Spanning)
  BY <1>5, IfAnyKeeps
<1> QED
  BY <1>3, <1>6

-----------------------------------------------------------------------------
(* Python, TypeScript and PHP.                                               *)

(* Chunks of a node are where they say they are.                             *)
LEMMA UptoSpans ==
  ASSUME NEW n \in Nodes, NEW cs \in Seq(Upto(n.hi))
  PROVE  cs \in Seq(Spanning)
BY DEF Upto

(* Kinds the tree formats give.                                              *)
LEMMA KindsAre ==
  "function" \in Labels /\ "module" \in Labels /\ "block" \in Labels /\ "method" \in Labels /\ "shell" \in Labels
BY DEF Labels, Literals

(* The lines of a shell: Python.                                             *)
LEMMA PyShellIs ==
  ASSUME NEW n \in Nodes, n.type = "class"
  PROVE  PyShell(n) \in Seq({n.head} \cup LinesNotOf(n.kids, {"function"}))
<1> DEFINE B == {n.head} \cup LinesNotOf(n.kids, {"function"})
           first == IF n.kids = <<>> THEN {} ELSE {1}
           doc == {k \in first : n.kids[k].type = "doc"}
           vars_ == {k \in DOMAIN n.kids \ first : n.kids[k].type \in Expressions}
           told == Picked(n.kids, doc \cup vars_)
           E == {n.kids[k] : k \in doc \cup vars_}
           head == IF n.inline THEN <<>> ELSE <<n.head>>
<1>1. n.kids \in Seq(Nodes)
  BY NodeIs
<1>2. n.kids # <<>> => 1 \in DOMAIN n.kids
  BY <1>1, EmptySeq, LenProperties
<1>3. doc \cup vars_ \in SUBSET (DOMAIN n.kids)
  BY <1>2
<1>4. \A k \in doc \cup vars_ : n.kids[k] \in Nodes /\ LinesOf(n.kids[k]) \subseteq B
  BY <1>1, <1>3 DEF LinesNotOf, Expressions
<1>5. told \in Seq(E)
  <2> HIDE DEF doc, vars_
  <2> QED
    BY <1>1, <1>3, PickedKeeps
<1>6. \A m \in E : m \in Nodes /\ LinesOf(m) \subseteq B
  BY <1>4
<1>7. PyShell(n) = head \o TextOfAll(told)
  BY DEF PyShell
<1> HIDE DEF told, E, doc, vars_, first
<1>8. told \in Seq(Nodes) /\ \A k \in DOMAIN told : LinesOf(told[k]) \subseteq B
  BY <1>5, <1>6, SeqOfMore
<1> HIDE DEF B
<1>9. TextOfAll(told) \in Seq(B)
  BY <1>8, TextOfAllIs
<1>10. n.head \in B /\ head \in Seq(B)
  <2>1. n.head \in B
    BY DEF B
  <2>2. <<n.head>> \in Seq(B) /\ <<>> \in Seq(B)
    BY <2>1, OneChunk
  <2> QED
    BY <2>1, <2>2
<1> HIDE DEF head
<1> QED
  BY <1>7, <1>9, <1>10, ConcatProperties DEF B

(* They are within the class.                                                *)
LEMMA PyShellWithin ==
  ASSUME NEW n \in Nodes, n.type = "class"
  PROVE  PyShell(n) \in Seq((n.lo .. n.hi) \cup {NoLine})
<1>1. n.type # "script" /\ n.head \in Nat /\ n.lo \in Nat /\ n.hi \in Nat /\ n.lo <= n.head /\ n.head <= n.hi
  BY NodeIs
<1>2. LinesNotOf(n.kids, {"function"}) \subseteq n.head .. n.hi
  BY <1>1, LinesNotOfKids
<1>3. {n.head} \cup LinesNotOf(n.kids, {"function"}) \subseteq (n.lo .. n.hi) \cup {NoLine}
  BY <1>1, <1>2
<1> DEFINE B == {n.head} \cup LinesNotOf(n.kids, {"function"})
           C == (n.lo .. n.hi) \cup {NoLine}
<1>4. PyShell(n) \in Seq(B) /\ B \subseteq C
  BY <1>3, PyShellIs
<1> HIDE DEF B, C
<1>5. PyShell(n) \in Seq(C)
  BY <1>4, SeqOfMore
<1> QED
  BY <1>5 DEF C

(* A class of Python: its shell and its methods.                             *)
LEMMA PyClassIs ==
  ASSUME NEW n \in Nodes, n.type = "class"
  PROVE  PyClass(n) \in Seq(Upto(n.hi))
<1> DEFINE shell == PyShell(n)
           chunk == Shell(shell, n.lo, n.hi, n.type, "shell")
           told == IF shell = <<>> THEN <<>> ELSE <<chunk>>
           members == ChunksOfAll(LAMBDA m : <<NodeChunk(m, "method")>>, OfType(n.kids, {"function"}))
<1>1. n.type # "script"
  OBVIOUS
<1>2. chunk \in Upto(n.hi)
  BY PyShellWithin, ShellIs, KindsAre
<1>3. members \in Seq(Upto(n.hi))
  <2>1. members \in Seq(Called(n.hi, {"function"}))
    BY <1>1, MembersAre
  <2> HIDE DEF members
  <2> QED
    BY <2>1, SeqOfMore DEF Called
<1>4. PyClass(n) = told \o members
  BY DEF PyClass
<1> HIDE DEF shell, chunk, members
<1>5. told \in Seq(Upto(n.hi))
  <2>1. <<chunk>> \in Seq(Upto(n.hi)) /\ <<>> \in Seq(Upto(n.hi))
    BY <1>2, OneChunk
  <2> QED
    BY <2>1
<1> HIDE DEF told
<1> QED
  BY <1>3, <1>4, <1>5, ConcatProperties

(* chunk_python: each chunk is where it says it is.                          *)
LEMMA PyIs ==
  ASSUME NEW f, f.text \in Seq(Nodes)
  PROVE  PyChunks(f) \in Seq(Spanning)
<1> DEFINE of == [k \in DOMAIN f.text |-> PyNode(f.text[k])]
           pre == Preamble(f.text, {"class", "function"})
<1>1. ASSUME NEW n \in Nodes PROVE PyNode(n) \in Seq(Spanning)
  <2>1. CASE n.type = "class"
    BY <2>1, PyClassIs, UptoSpans DEF PyNode
  <2>2. CASE n.type # "class"
    <3>1. NodeChunk(n, "function") \in Spanning /\ NodeChunk(n, "module") \in Spanning
      BY NodeChunkIs, KindsAre
    <3>2. <<NodeChunk(n, "function")>> \in Seq(Spanning) /\ <<NodeChunk(n, "module")>> \in Seq(Spanning)
          /\ <<>> \in Seq(Spanning)
      BY <3>1, OneChunk
    <3> QED
      BY <2>2, <3>2 DEF PyNode
  <2> QED
    BY <2>1, <2>2
<1>2. \A k \in DOMAIN f.text : f.text[k] \in Nodes
  OBVIOUS
<1>3. of \in [DOMAIN f.text -> Seq(Spanning)]
  BY <1>1, <1>2
<1>4. PyChunks(f) = OrFallback(f, pre \o FlattenSeq(of))
  BY DEF PyChunks, ChunksOfAll
<1>5. pre \in Seq(Spanning)
  BY PreambleIs
<1> HIDE DEF of, pre
<1>6. FlattenSeq(of) \in Seq(Spanning)
  BY <1>3, AllAre
<1>7. pre \o FlattenSeq(of) \in Seq(Spanning)
  BY <1>5, <1>6, ConcatProperties
<1> QED
  BY <1>4, <1>7, OrFallbackIs

-----------------------------------------------------------------------------

(* An object that is not cut.                                                *)
LEMMA WholeObjectIs ==
  ASSUME NEW o \in Nodes
  PROVE  WholeObject(o) \in Seq(Called(o.hi, {o.type}))
<1>1. NodeChunk(o, "block") \in Called(o.hi, {o.type})
  BY NodeChunkIs, KindsAre DEF Called
<1>2. <<>> \in Seq(Called(o.hi, {o.type})) /\ <<NodeChunk(o, "block")>> \in Seq(Called(o.hi, {o.type}))
  BY <1>1, OneChunk
<1> QED
  BY <1>2 DEF WholeObject

(* The chunks of objects: of the lines of the object, unless it is a script. *)
ObjectLists == {f \in [Nodes -> Seq(AnyChunk)] : \A o \in Nodes : o.type = "object" => f[o] \in Seq(Called(o.hi, OwnChunk))}

(* Chunks of a node are chunks.                                              *)
LEMMA UptoAny ==
  ASSUME NEW n \in Nodes
  PROVE  Upto(n.hi) \subseteq AnyChunk
BY SpanningAny DEF Upto

(* So are those that are called by some names.                               *)
LEMMA CalledAny ==
  ASSUME NEW n \in Nodes, NEW D
  PROVE  Called(n.hi, D) \subseteq AnyChunk
BY UptoAny DEF Called

(* An object that is cut at its methods and the objects in it.               *)
LEMMA CutObjectIs ==
  ASSUME NEW o \in Nodes, NEW inner \in ObjectLists
  PROVE  CutObject(o, inner) \in Seq(AnyChunk) /\ (o.type = "object" => CutObject(o, inner) \in Seq(Called(o.hi, OwnChunk)))
<1> DEFINE shell == NotOfType(o.kids, OwnChunk)
           chunk == Shell(TextOfAll(shell), o.head, o.hi, o.type, "block")
           told == IF shell = <<>> THEN <<>> ELSE <<chunk>>
           own == OfType(o.kids, OwnChunk)
           member(m) == IF m.type = "object" THEN inner[m] ELSE <<NodeChunk(m, "method")>>
           of == [k \in DOMAIN own |-> member(own[k])]
           cond == OfType(o.kids, {"method", "arrow"}) = <<>> /\ ~NodeChunk(o, "block").split
           T == IF o.type = "object" THEN Called(o.hi, OwnChunk) ELSE AnyChunk
<1>1. /\ o.head \in Nat /\ o.lo \in Nat /\ o.hi \in Nat /\ o.lo <= o.head /\ o.head <= o.hi /\ o.type \in Labels
      /\ o.kids \in Seq(Nodes)
  BY NodeIs
<1>2. CutObject(o, inner) = IF cond THEN WholeObject(o) ELSE told \o FlattenSeq(of)
  BY DEF CutObject, ChunksOfAll
<1>3. own \in Seq(Nodes) /\ \A m \in DOMAIN own : \E k \in DOMAIN o.kids : own[m] = o.kids[k] /\ o.kids[k].type \in OwnChunk
  BY <1>1, OfTypeIs
<1>4. chunk \in T
  <2>1. CASE o.type = "object"
    <3>1. LinesNotOf(o.kids, OwnChunk) \subseteq o.head .. o.hi /\ o.type # "script"
      BY <2>1, LinesNotOfKids
    <3>2. TextOfAll(shell) \in Seq((o.head .. o.hi) \cup {NoLine})
      <4>1. LinesNotOf(o.kids, OwnChunk) \subseteq (o.head .. o.hi) \cup {NoLine}
        BY <3>1
      <4> QED
        BY <1>1, <4>1, TextNotOf, SeqOfMore
    <3>3. "object" \in OwnChunk
      BY DEF OwnChunk
    <3> HIDE DEF shell
    <3>4. chunk \in Upto(o.hi) /\ chunk.name = o.type
      BY <2>1, <3>2, ShellIs, KindsAre
    <3> QED
      BY <2>1, <3>3, <3>4 DEF Called
  <2>2. CASE o.type # "object"
    <3>1. \A k \in DOMAIN o.kids : LinesOf(o.kids[k]) \in SUBSET Nat
      <4> SUFFICES ASSUME NEW k \in DOMAIN o.kids PROVE LinesOf(o.kids[k]) \in SUBSET Nat
        OBVIOUS
      <4>1. o.kids[k] \in Nodes
        BY <1>1
      <4>2. o.kids[k].lo \in Nat /\ o.kids[k].hi \in Nat
        BY <4>1, NodeIs
      <4> QED
        BY <4>2 DEF LinesOf
    <3>2. LinesNotOf(o.kids, OwnChunk) \subseteq Nat
      BY <3>1 DEF LinesNotOf
    <3>3. TextOfAll(shell) \in Seq(Nat)
      BY <1>1, <3>2, TextNotOf, SeqOfMore
    <3> DEFINE text == TextOfAll(shell)
    <3>4. text \in Seq(Int) /\ \A i \in DOMAIN text : text[i] \in Nat \cup {NoLine}
      <4> HIDE DEF text
      <4> QED
        BY <3>3, SeqOfMore DEF text
    <3> HIDE DEF text
    <3>5. chunk \in AnyChunk
      BY <1>1, <3>4, ShellType, KindsAre DEF text
    <3> QED
      BY <2>2, <3>5
  <2> QED
    BY <2>1, <2>2
<1>5. WholeObject(o) \in Seq(T)
  <2>1. Called(o.hi, {o.type}) \subseteq T
    <3>1. CASE o.type = "object"
      BY <3>1 DEF Called, OwnChunk
    <3>2. CASE o.type # "object"
      BY <3>2, CalledAny
    <3> QED
      BY <3>1, <3>2
  <2>2. WholeObject(o) \in Seq(Called(o.hi, {o.type}))
    BY WholeObjectIs
  <2> HIDE DEF T
  <2> QED
    BY <2>1, <2>2
<1>6. ASSUME NEW k \in DOMAIN own PROVE member(own[k]) \in Seq(T)
  <2>1. PICK j \in DOMAIN o.kids : own[k] = o.kids[j] /\ o.kids[j].type \in OwnChunk
    BY <1>3
  <2>2. own[k] \in Nodes
    BY <1>3
  <2> DEFINE m == own[k]
  <2>3. m \in Nodes /\ m.hi \in Nat /\ m.type \in OwnChunk
    BY <2>1, <2>2, NodeIs
  <2>4. o.type = "object" => m.hi <= o.hi
    BY <2>1, KidIs
  <2> HIDE DEF m
  <2>5. Called(m.hi, OwnChunk) \subseteq T
    <3>1. CASE o.type = "object"
      BY <1>1, <2>3, <2>4, <3>1, CalledIs
    <3>2. CASE o.type # "object"
      BY <2>3, <3>2, CalledAny
    <3> QED
      BY <3>1, <3>2
  <2>6. CASE m.type = "object"
    <3>1. inner[m] \in Seq(Called(m.hi, OwnChunk))
      BY <2>3, <2>6 DEF ObjectLists
    <3> HIDE DEF T
    <3>2. inner[m] \in Seq(T)
      BY <2>5, <3>1
    <3> QED
      BY <2>6, <3>2 DEF m
  <2>7. CASE m.type # "object"
    <3>1. NodeChunk(m, "method") \in Called(m.hi, OwnChunk)
      BY <2>3, NodeChunkIs, KindsAre DEF Called
    <3>2. <<NodeChunk(m, "method")>> \in Seq(T)
      BY <2>5, <3>1, OneChunk
    <3> QED
      BY <2>7, <3>2 DEF m
  <2> QED
    BY <2>6, <2>7
<1> HIDE DEF own, member, T, chunk, shell, cond
<1>7. of \in Seq(Seq(T))
  <2>1. Len(own) \in Nat /\ DOMAIN own = 1 .. Len(own)
    BY <1>3, LenProperties
  <2> QED
    BY <1>6, <2>1
<1> HIDE DEF of
<1>8. FlattenSeq(of) \in Seq(T)
  BY <1>7, FlattenKeeps
<1>9. told \in Seq(T)
  BY <1>4, OneChunk
<1> HIDE DEF told
<1>10. told \o FlattenSeq(of) \in Seq(T)
  BY <1>8, <1>9, ConcatProperties
<1>11. CutObject(o, inner) \in Seq(T)
  BY <1>2, <1>5, <1>10
<1>12. T \subseteq AnyChunk
  BY CalledAny DEF T
<1> QED
  BY <1>11, <1>12 DEF T

(* The chunks of an object, level by level of the objects in it.             *)
CutBy(g) ==
  /\ g \in [0 .. ObjectDepth -> ObjectLists]
  /\ g[0] = [o \in Nodes |-> WholeObject(o)]
  /\ \A k \in 1 .. ObjectDepth : g[k] = [o \in Nodes |-> CutObject(o, g[k - 1])]

(* The recursion of TsObject.                                                *)
LEMMA ObjectRecursion ==
  \E g : CutBy(g) /\ \A n \in Nodes : TsObject(n) = g[ObjectDepth][n]
<1> DEFINE D == ObjectDepth
           first == [o \in Nodes |-> WholeObject(o)]
           step == [k \in 1 .. D |-> [inner \in ObjectLists |-> [o \in Nodes |-> CutObject(o, inner)]]]
           Is(g) == g = [left \in 0 .. D |-> [o \in Nodes |->
                           IF left = 0 THEN WholeObject(o) ELSE CutObject(o, g[left - 1])]]
           chunks_ == CHOOSE g : Is(g)
<1>1. D \in Nat
  BY NodesAssumption
<1>2. first \in ObjectLists
  <2>1. ASSUME NEW o \in Nodes
        PROVE  WholeObject(o) \in Seq(AnyChunk) /\ (o.type = "object" => WholeObject(o) \in Seq(Called(o.hi, OwnChunk)))
    <3>1. WholeObject(o) \in Seq(Called(o.hi, {o.type})) /\ Called(o.hi, {o.type}) \subseteq AnyChunk
      BY WholeObjectIs, CalledAny
    <3>2. o.type = "object" => Called(o.hi, {o.type}) \subseteq Called(o.hi, OwnChunk)
      BY DEF Called, OwnChunk
    <3> QED
      BY <3>1, <3>2, SeqOfMore
  <2> QED
    BY <2>1 DEF ObjectLists
<1>3. step \in [1 .. D -> [ObjectLists -> ObjectLists]]
  <2>1. \A inner \in ObjectLists : [o \in Nodes |-> CutObject(o, inner)] \in ObjectLists
    <3> SUFFICES ASSUME NEW inner \in ObjectLists PROVE [o \in Nodes |-> CutObject(o, inner)] \in ObjectLists
      OBVIOUS
    <3>1. \A o \in Nodes : CutObject(o, inner) \in Seq(AnyChunk) /\ (o.type = "object" => CutObject(o, inner) \in Seq(Called(o.hi, OwnChunk)))
      BY CutObjectIs
    <3> QED
      BY <3>1 DEF ObjectLists
  <2> QED
    BY <2>1
<1>4. PICK g \in [0 .. D -> ObjectLists] : Follows(g, D, first, step)
  <2> HIDE DEF first, step, D
  <2> QED
    BY <1>1, <1>2, <1>3, RecursionIsThere
<1>5. Is(g)
  <2>1. \A k \in 1 .. D : k - 1 \in 0 .. D /\ g[k - 1] \in ObjectLists
    BY <1>1
  <2>2. \A k \in 1 .. D : g[k] = [o \in Nodes |-> CutObject(o, g[k - 1])]
    <3>1. \A k \in 1 .. D : g[k] = step[k][g[k - 1]]
      <4> HIDE DEF step, first
      <4> QED
        BY <1>4 DEF Follows
    <3> QED
      BY <2>1, <3>1
  <2>3. g[0] = [o \in Nodes |-> WholeObject(o)]
    BY <1>4 DEF Follows
  <2>4. \A k \in 0 .. D : g[k] = [o \in Nodes |-> IF k = 0 THEN WholeObject(o) ELSE CutObject(o, g[k - 1])]
    <3> SUFFICES ASSUME NEW k \in 0 .. D
                 PROVE  g[k] = [o \in Nodes |-> IF k = 0 THEN WholeObject(o) ELSE CutObject(o, g[k - 1])]
      OBVIOUS
    <3>1. CASE k = 0
      BY <2>3, <3>1
    <3>2. CASE k # 0
      <4>1. k \in 1 .. D
        BY <1>1, <3>2
      <4> QED
        BY <2>2, <3>2, <4>1
    <3> QED
      BY <3>1, <3>2
  <2> HIDE DEF D
  <2>5. g = [k \in 0 .. D |-> g[k]]
    OBVIOUS
  <2> QED
    BY <2>4, <2>5
<1>6. Is(chunks_)
  <2> HIDE DEF Is
  <2> QED
    BY <1>5
<1>7. \A n \in Nodes : TsObject(n) = chunks_[D][n]
  BY DEF TsObject
<1> HIDE DEF chunks_
<1>8. /\ \A o \in Nodes : chunks_[0][o] = WholeObject(o)
      /\ \A k \in 1 .. D : chunks_[k] = [o \in Nodes |-> CutObject(o, chunks_[k - 1])]
      /\ chunks_[0] = [o \in Nodes |-> WholeObject(o)]
  <2>1. \A k \in 0 .. D : chunks_[k] = [o \in Nodes |-> IF k = 0 THEN WholeObject(o) ELSE CutObject(o, chunks_[k - 1])]
    BY <1>6
  <2>2. 0 \in 0 .. D /\ \A k \in 1 .. D : k \in 0 .. D /\ k # 0
    BY <1>1
  <2> HIDE DEF D, Is
  <2>3. chunks_[0] = [o \in Nodes |-> WholeObject(o)]
    BY <2>1, <2>2
  <2>4. ASSUME NEW k \in 1 .. D PROVE chunks_[k] = [o \in Nodes |-> CutObject(o, chunks_[k - 1])]
    <3>1. chunks_[k] = [o \in Nodes |-> IF k = 0 THEN WholeObject(o) ELSE CutObject(o, chunks_[k - 1])] /\ k # 0
      BY <2>1, <2>2
    <3> QED
      BY <3>1
  <2> QED
    BY <2>3, <2>4
<1> DEFINE Good == {k \in 0 .. D : chunks_[k] \in ObjectLists}
<1>9. 0 \in Good
  BY <1>1, <1>2, <1>8
<1>10. \A k \in 1 .. D : k - 1 \in Good => k \in Good
  <2> SUFFICES ASSUME NEW k \in 1 .. D, k - 1 \in Good PROVE k \in Good
    OBVIOUS
  <2>1. step[k][chunks_[k - 1]] \in ObjectLists /\ chunks_[k - 1] \in ObjectLists
    BY <1>3
  <2>2. step[k][chunks_[k - 1]] = [o \in Nodes |-> CutObject(o, chunks_[k - 1])]
    BY <2>1
  <2> QED
    BY <1>1, <1>8, <2>1, <2>2
<1>11. \A k \in 0 .. D : chunks_[k] \in ObjectLists
  <2> HIDE DEF Good, D
  <2>1. \A k \in 0 .. D : k \in Good
    BY <1>1, <1>9, <1>10, UpTo
  <2> QED
    BY <2>1 DEF Good
<1>12. chunks_ \in [0 .. D -> ObjectLists]
  <2> DEFINE body(k) == [o \in Nodes |-> IF k = 0 THEN WholeObject(o) ELSE CutObject(o, chunks_[k - 1])]
  <2>1. chunks_ = [k \in 0 .. D |-> body(k)]
    BY <1>6
  <2> HIDE DEF body, D
  <2> QED
    BY <1>11, <2>1
<1>13. CutBy(chunks_)
  BY <1>8, <1>12 DEF CutBy
<1> QED
  BY <1>7, <1>13

(* An object, however deep objects nest.                                     *)
LEMMA TsObjectIs ==
  ASSUME NEW n \in Nodes, n.type = "object"
  PROVE  TsObject(n) \in Seq(Called(n.hi, OwnChunk))
<1>1. PICK g : CutBy(g) /\ \A o \in Nodes : TsObject(o) = g[ObjectDepth][o]
  BY ObjectRecursion
<1>2. ObjectDepth \in 0 .. ObjectDepth
  <2>1. ObjectDepth \in Nat
    BY NodesAssumption
  <2> QED
    BY <2>1
<1>3. g[ObjectDepth] \in ObjectLists
  BY <1>1, <1>2 DEF CutBy
<1> QED
  BY <1>1, <1>3 DEF ObjectLists

(* What the chunks of a top-level node of TypeScript may be called.          *)
TsCalled == TsMembers \cup OwnChunk

(* TypeScript: the first line is always in it.                               *)
LEMMA TsShellIs ==
  ASSUME NEW n \in Nodes, n.type = "class"
  PROVE  TsShell(n) \in Seq((n.head .. n.hi) \cup {NoLine}) /\ n.head \in Range(TsShell(n))
<1> DEFINE B == n.head .. n.hi
           rest == TextOfAll(NotOfType(n.kids, TsMembers))
<1>1. n.type # "script" /\ n.head \in Nat /\ n.hi \in Nat /\ n.head <= n.hi /\ n.kids \in Seq(Nodes)
  BY NodeIs
<1>2. LinesNotOf(n.kids, TsMembers) \subseteq B /\ n.head \in B
  BY <1>1, LinesNotOfKids
<1>3. rest \in Seq(B)
  <2> HIDE DEF B
  <2> QED
    BY <1>1, <1>2, TextNotOf, SeqOfMore
<1>4. TsShell(n) = <<n.head>> \o rest \o <<NoLine>>
  BY DEF TsShell
<1> HIDE DEF B, rest
<1>5. <<n.head>> \in Seq(B) /\ 1 \in DOMAIN <<n.head>> /\ <<n.head>>[1] = n.head
  BY <1>2, OneChunk
<1> QED
  BY <1>3, <1>4, <1>5, ClosedText DEF B

(* A top-level node of TypeScript.                                           *)
LEMMA TsNodeIs ==
  ASSUME NEW n \in Nodes
  PROVE  TsNode(n) \in Seq(Called(n.hi, {n.type} \cup TsCalled))
<1> DEFINE D == {n.type} \cup TsCalled
<1>1. CASE n.type = "class"
  <2> DEFINE shell == TsShell(n)
             chunk == Shell(shell, n.head, n.hi, n.type, "shell")
             members == ChunksOfAll(LAMBDA m : <<NodeChunk(m, "method")>>, OfType(n.kids, TsMembers))
  <2>1. n.type # "script"
    BY <1>1
  <2>2. shell \in Seq((n.head .. n.hi) \cup {NoLine})
    BY <1>1, TsShellIs
  <2>4. chunk \in Called(n.hi, D)
    <3> HIDE DEF shell
    <3> QED
      BY <2>2, ShellIs, KindsAre DEF Called
  <2>5. members \in Seq(Called(n.hi, D))
    <3>1. members \in Seq(Called(n.hi, TsMembers)) /\ Called(n.hi, TsMembers) \subseteq Called(n.hi, D)
      BY <2>1, MembersAre DEF Called, TsCalled
    <3> HIDE DEF members, D
    <3> QED
      BY <3>1, SeqOfMore
  <2>6. TsNode(n) = <<chunk>> \o members \/ TsNode(n) = <<>>
    BY <1>1 DEF TsNode, TsClass
  <2> HIDE DEF chunk, members
  <2>7. <<chunk>> \in Seq(Called(n.hi, D)) /\ <<>> \in Seq(Called(n.hi, D))
    BY <2>4, OneChunk
  <2> QED
    BY <2>5, <2>6, <2>7, ConcatProperties
<1>2. CASE n.type = "object"
  <2>1. TsObject(n) \in Seq(Called(n.hi, D)) /\ <<>> \in Seq(Called(n.hi, D))
    <3>1. TsObject(n) \in Seq(Called(n.hi, OwnChunk)) /\ Called(n.hi, OwnChunk) \subseteq Called(n.hi, D)
      BY <1>2, TsObjectIs DEF Called, TsCalled
    <3> HIDE DEF D
    <3> QED
      BY <3>1, SeqOfMore
  <2> QED
    BY <1>2, <2>1 DEF TsNode
<1>3. CASE n.type \notin {"class", "object"}
  <2>1. NodeChunk(n, "function") \in Called(n.hi, D) /\ NodeChunk(n, "block") \in Called(n.hi, D)
    BY NodeChunkIs, KindsAre DEF Called
  <2>2. <<NodeChunk(n, "function")>> \in Seq(Called(n.hi, D)) /\ <<NodeChunk(n, "block")>> \in Seq(Called(n.hi, D))
        /\ <<>> \in Seq(Called(n.hi, D))
    BY <2>1, OneChunk
  <2> QED
    BY <1>3, <2>2 DEF TsNode
<1> QED
  BY <1>1, <1>2, <1>3

(* A source of nodes that end by line h.                                      *)
LEMMA TsSourceIs ==
  ASSUME NEW nodes \in Seq(Nodes), NEW h \in Nat, \A k \in DOMAIN nodes : nodes[k].hi <= h
  PROVE  TsSource(nodes) \in Seq(Called(h, {n.type : n \in Range(nodes)} \cup TsCalled))
<1> DEFINE D == {n.type : n \in Range(nodes)} \cup TsCalled
           of == [k \in DOMAIN nodes |-> TsNode(nodes[k])]
<1>1. ASSUME NEW k \in DOMAIN nodes PROVE TsNode(nodes[k]) \in Seq(Called(h, D))
  <2>1. nodes[k] \in Nodes
    OBVIOUS
  <2>2. nodes[k].hi \in Nat
    BY <2>1, NodeIs
  <2>3. Called(nodes[k].hi, {nodes[k].type} \cup TsCalled) \subseteq Called(h, D)
    <3>1. {nodes[k].type} \cup TsCalled \subseteq D
      BY DEF Range
    <3> HIDE DEF D
    <3> QED
      BY <2>2, <3>1, CalledIs
  <2>4. TsNode(nodes[k]) \in Seq(Called(nodes[k].hi, {nodes[k].type} \cup TsCalled))
    BY <2>1, TsNodeIs
  <2> HIDE DEF D
  <2> QED
    BY <2>3, <2>4
<1>2. of \in [DOMAIN nodes -> Seq(Called(h, D))]
  BY <1>1
<1>3. TsSource(nodes) = FlattenSeq(of)
  BY DEF TsSource, ChunksOfAll
<1> HIDE DEF of, D
<1> QED
  BY <1>2, <1>3, AllAre DEF D

(* chunk_typescript: each chunk is where it says it is.                      *)
LEMMA TsIs ==
  ASSUME NEW f, f.text \in Seq(Nodes)
  PROVE  TsChunks(f) \in Seq(Spanning)
<1>1. PICK h \in Nat : \A k \in DOMAIN f.text : f.text[k].hi <= h
  BY HeightIs
<1>2. TsSource(f.text) \in Seq(Called(h, {n.type : n \in Range(f.text)} \cup TsCalled))
  BY <1>1, TsSourceIs
<1>3. TsSource(f.text) \in Seq(Spanning)
  BY <1>2 DEF Called, Upto
<1> QED
  BY <1>3, OrFallbackIs DEF TsChunks

-----------------------------------------------------------------------------

(* PHP: so is the docblock.                                                  *)
LEMMA PhpShellIs ==
  ASSUME NEW n \in Nodes, n.type = "class"
  PROVE  PhpShell(n) \in Seq((n.lo .. n.hi) \cup {NoLine}) /\ n.lo \in Range(PhpShell(n))
<1> DEFINE B == n.lo .. n.hi
           member(m) == m.lo .. (IF m.type = "method" THEN m.head - 1 ELSE m.hi)
           first == Ordered(n.lo .. n.head)
           of == [k \in DOMAIN n.kids |-> Ordered(member(n.kids[k]))]
<1>1. n.type # "script" /\ n.head \in Nat /\ n.lo \in Nat /\ n.hi \in Nat /\ n.lo <= n.head /\ n.head <= n.hi
      /\ n.kids \in Seq(Nodes)
  BY NodeIs
<1>2. first \in Seq(B) /\ \E i \in DOMAIN first : first[i] = n.lo
  <2>0. n.lo \in Int /\ n.head \in Int
    BY <1>1
  <2>1. n.lo .. n.head \in SUBSET Nat /\ n.lo .. n.head \subseteq B /\ n.lo \in n.lo .. n.head
    BY <1>1
  <2>3. IsFiniteSet(n.lo .. n.head)
    BY <2>0, FS_Interval
  <2> DEFINE S == n.lo .. n.head
  <2> HIDE DEF S, B
  <2>2. Ordered(S) \in Seq(S) /\ \A x \in S : \E i \in DOMAIN Ordered(S) : Ordered(S)[i] = x
    BY <2>1, <2>3, OrderedIs DEF S
  <2>4. S \subseteq B /\ n.lo \in S
    BY <2>1 DEF S
  <2>5. Ordered(S) \in Seq(B)
    BY <2>2, <2>4, SeqOfMore
  <2>6. first = Ordered(S)
    BY DEF S
  <2> HIDE DEF first
  <2> QED
    BY <2>2, <2>4, <2>5, <2>6
<1>3. ASSUME NEW k \in DOMAIN n.kids PROVE of[k] \in Seq(B)
  <2> DEFINE m == n.kids[k]
             S == member(m)
  <2>1. m \in Nodes /\ LinesOf(m) \subseteq n.head .. n.hi
    BY <1>1, KidIs
  <2> HIDE DEF m
  <2>2. m.lo \in Nat /\ m.head \in Nat /\ m.hi \in Nat /\ m.head <= m.hi
    BY <2>1, NodeIs
  <2>3. S \subseteq LinesOf(m) /\ S \in SUBSET Nat
    BY <2>2 DEF LinesOf
  <2>4. IsFiniteSet(S)
    <3>1. m.lo \in Int /\ m.head - 1 \in Int /\ m.hi \in Int
      BY <2>2
    <3>2. IsFiniteSet(m.lo .. m.head - 1) /\ IsFiniteSet(m.lo .. m.hi)
      BY <3>1, FS_Interval
    <3> QED
      BY <3>2
  <2>5. S \subseteq B
    BY <1>1, <2>1, <2>3
  <2> HIDE DEF S, B
  <2>6. Ordered(S) \in Seq(B)
    BY <2>3, <2>4, <2>5, OrderedIs, SeqOfMore
  <2> QED
    BY <2>6 DEF S, m
<1>4. of \in [DOMAIN n.kids -> Seq(B)]
  BY <1>3
<1>5. PhpShell(n) = first \o FlattenSeq(of) \o <<NoLine>>
  BY DEF PhpShell
<1> HIDE DEF B, first, of
<1>6. FlattenSeq(of) \in Seq(B)
  BY <1>1, <1>4, AllAre
<1> QED
  BY <1>2, <1>5, <1>6, ClosedText DEF B

(* A top-level node of PHP.                                                  *)
LEMMA PhpNodeIs ==
  ASSUME NEW n \in Nodes
  PROVE  PhpNode(n) \in Seq(Spanning)
<1>1. CASE n.type = "class"
  <2> DEFINE shell == PhpShell(n)
             chunk == Shell(shell, n.lo, n.hi, n.type, "shell")
             members == ChunksOfAll(LAMBDA m : <<NodeChunk(m, "method")>>, OfType(n.kids, {"method"}))
  <2>1. n.type # "script"
    BY <1>1
  <2>5. shell \in Seq((n.lo .. n.hi) \cup {NoLine})
    BY <1>1, PhpShellIs
  <2>6. chunk \in Upto(n.hi)
    <3> HIDE DEF shell
    <3> QED
      BY <2>5, ShellIs, KindsAre
  <2>7. members \in Seq(Upto(n.hi))
    <3>1. members \in Seq(Called(n.hi, {"method"}))
      BY <2>1, MembersAre
    <3> HIDE DEF members
    <3> QED
      BY <3>1, SeqOfMore DEF Called
  <2>8. PhpNode(n) = <<chunk>> \o members
    BY <1>1 DEF PhpNode
  <2> HIDE DEF chunk, members
  <2>9. <<chunk>> \in Seq(Upto(n.hi))
    BY <2>6, OneChunk
  <2>10. PhpNode(n) \in Seq(Upto(n.hi))
    BY <2>7, <2>8, <2>9, ConcatProperties
  <2> QED
    BY <2>10, UptoSpans
<1>2. CASE n.type # "class"
  <2> DEFINE left == Chunk(InkOf(n), n.lo, n.hi, n.type, "block")
  <2>1. NodeChunk(n, "function") \in Spanning
    BY NodeChunkIs, KindsAre
  <2>2. left \in Spanning
    <3>1. n.lo \in Nat /\ n.head \in Nat /\ n.hi \in Nat /\ n.lo <= n.head /\ n.head <= n.hi /\ n.type \in Labels
      BY NodeIs
    <3>2. InkOf(n) \in SUBSET Nat /\ \A u \in InkOf(n) : n.lo <= u /\ u <= n.hi
      BY <3>1 DEF InkOf
    <3>3. n.lo <= n.hi
      BY <3>1
    <3> QED
      BY <3>1, <3>2, <3>3, ChunkType, KindsAre
  <2>3. PhpNode(n) = <<NodeChunk(n, "function")>> \/ PhpNode(n) = <<left>> \/ PhpNode(n) = <<>>
    BY <1>2 DEF PhpNode
  <2> HIDE DEF left
  <2>4. <<NodeChunk(n, "function")>> \in Seq(Spanning) /\ <<left>> \in Seq(Spanning) /\ <<>> \in Seq(Spanning)
    BY <2>1, <2>2, OneChunk
  <2> QED
    BY <2>3, <2>4
<1> QED
  BY <1>1, <1>2

(* chunk_php: each chunk is where it says it is.                             *)
LEMMA PhpIs ==
  ASSUME NEW f, f.text \in Seq(Nodes)
  PROVE  PhpChunks(f) \in Seq(Spanning)
<1> DEFINE rest == PhpRest(f.text)
           of == [k \in DOMAIN rest |-> PhpNode(rest[k])]
           pre == Preamble(f.text, PhpDefinitions)
<1>1. rest \in Seq(Nodes)
  <2>1. \A P \in SUBSET (DOMAIN f.text) : Picked(f.text, P) \in Seq(Nodes)
    <3> SUFFICES ASSUME NEW P \in SUBSET (DOMAIN f.text) PROVE Picked(f.text, P) \in Seq(Nodes)
      OBVIOUS
    <3> DEFINE E == {f.text[i] : i \in P}
    <3>1. E \subseteq Nodes
      OBVIOUS
    <3>2. Picked(f.text, P) \in Seq(E)
      BY PickedKeeps
    <3> HIDE DEF E
    <3> QED
      BY <3>1, <3>2
  <2> DEFINE P == {k \in DOMAIN f.text : f.text[k].head >= OfType(f.text, PhpDefinitions)[1].lo}
  <2>2. rest = f.text \/ rest = Picked(f.text, P)
    BY DEF PhpRest
  <2>3. P \in SUBSET (DOMAIN f.text)
    OBVIOUS
  <2> HIDE DEF P, rest
  <2> QED
    BY <2>1, <2>2, <2>3
<1>2. PhpChunks(f) = OrFallback(f, pre \o FlattenSeq(of))
  BY DEF PhpChunks, ChunksOfAll
<1>3. pre \in Seq(Spanning)
  BY PreambleIs
<1> HIDE DEF pre, rest
<1>4. of \in [DOMAIN rest -> Seq(Spanning)]
  <2>1. \A k \in DOMAIN rest : PhpNode(rest[k]) \in Seq(Spanning)
    BY <1>1, PhpNodeIs
  <2> QED
    BY <2>1
<1> HIDE DEF of
<1>5. FlattenSeq(of) \in Seq(Spanning)
  BY <1>1, <1>4, AllAre
<1>6. pre \o FlattenSeq(of) \in Seq(Spanning)
  BY <1>3, <1>5, ConcatProperties
<1> QED
  BY <1>2, <1>6, OrFallbackIs

-----------------------------------------------------------------------------
(* The elements of a component.                                              *)

(* Spans of lines, from the first to the last.                               *)
Spans == Seq(Nat \X Int)

(* Spans one behind the other, from line a to the line before b; some may be *)
(* empty.                                                                    *)
Edges(s, a, b, e) ==
  /\ e \in [0 .. Len(s) -> Nat] /\ e[0] = a /\ e[Len(s)] = b
  /\ \A i \in 1 .. Len(s) : s[i] = <<e[i - 1], e[i] - 1>> /\ e[i - 1] <= e[i]

(* Spans that lie one behind the other, from a to the line before b.         *)
Tiles(s, a, b) == s \in Spans /\ \E e : Edges(s, a, b, e)

(* No spans, no lines.                                                       *)
LEMMA TilesNone ==
  ASSUME NEW a \in Nat
  PROVE  Tiles(<<>>, a, a)
<1> DEFINE e == [i \in 0 .. 0 |-> a]
<1>1. <<>> \in Spans /\ Len(<<>>) = 0
  BY DEF Spans
<1>2. e \in [0 .. 0 -> Nat] /\ e[0] = a
  OBVIOUS
<1> HIDE DEF e
<1>3. Edges(<<>>, a, a, e)
  BY <1>1, <1>2 DEF Edges
<1> QED
  BY <1>1, <1>3 DEF Tiles

(* Spans and the spans behind them.                                          *)
LEMMA TilesJoin ==
  ASSUME NEW s, NEW t, NEW a, NEW b, NEW c, Tiles(s, a, b), Tiles(t, b, c)
  PROVE  Tiles(s \o t, a, c)
<1>1. PICK m \in Nat, n \in Nat : m = Len(s) /\ n = Len(t) /\ s \in Spans /\ t \in Spans
  BY LenProperties DEF Tiles, Spans
<1>2. PICK d : d \in [0 .. m -> Nat] /\ d[0] = a /\ d[m] = b
                 /\ \A i \in 1 .. m : s[i] = <<d[i - 1], d[i] - 1>> /\ d[i - 1] <= d[i]
  BY <1>1 DEF Tiles, Edges
<1>3. PICK e : e \in [0 .. n -> Nat] /\ e[0] = b /\ e[n] = c
                 /\ \A i \in 1 .. n : t[i] = <<e[i - 1], e[i] - 1>> /\ e[i - 1] <= e[i]
  BY <1>1 DEF Tiles, Edges
<1>4. /\ s \o t \in Spans /\ Len(s \o t) = m + n
      /\ \A i \in 1 .. m + n : (s \o t)[i] = IF i <= m THEN s[i] ELSE t[i - m]
  BY <1>1, ConcatProperties DEF Spans
<1> DEFINE g == [i \in 0 .. m + n |-> IF i <= m THEN d[i] ELSE e[i - m]]
<1>5. \A i \in 0 .. m + n : IF i <= m THEN i \in 0 .. m ELSE i - m \in 0 .. n
  OBVIOUS
<1>6. g \in [0 .. m + n -> Nat]
  BY <1>2, <1>3, <1>5
<1>7. \A i \in 0 .. m : g[i] = d[i]
  OBVIOUS
<1>8. \A i \in m .. m + n : g[i] = e[i - m]
  <2> SUFFICES ASSUME NEW i \in m .. m + n PROVE g[i] = e[i - m]
    OBVIOUS
  <2>1. CASE i = m
    <3>1. g[i] = d[m] /\ i - m = 0
      BY <2>1
    <3> QED
      BY <1>2, <1>3, <3>1
  <2>2. CASE i # m
    BY <2>2
  <2> QED
    BY <2>1, <2>2
<1> HIDE DEF g
<1>9. g[0] = a /\ g[m + n] = c
  <2>1. 0 \in 0 .. m /\ m + n \in m .. m + n /\ m + n - m = n
    OBVIOUS
  <2> QED
    BY <1>2, <1>3, <1>7, <1>8, <2>1
<1>10. ASSUME NEW i \in 1 .. m + n PROVE (s \o t)[i] = <<g[i - 1], g[i] - 1>> /\ g[i - 1] <= g[i]
  <2>1. CASE i <= m
    <3>1. i \in 1 .. m /\ i - 1 \in 0 .. m /\ i \in 0 .. m
      BY <2>1
    <3> QED
      BY <1>2, <1>4, <1>7, <2>1, <3>1
  <2>2. CASE i > m
    <3>1. i - m \in 1 .. n /\ i - 1 \in m .. m + n /\ i \in m .. m + n /\ i - 1 - m = i - m - 1 /\ ~(i <= m)
      BY <2>2
    <3>2. g[i] = e[i - m] /\ g[i - 1] = e[i - m - 1]
      BY <1>8, <3>1
    <3> QED
      BY <1>3, <1>4, <3>1, <3>2
  <2>3. i <= m \/ i > m
    BY <1>1
  <2> QED
    BY <2>1, <2>2, <2>3
<1>11. Edges(s \o t, a, c, g)
  BY <1>4, <1>6, <1>9, <1>10 DEF Edges
<1> QED
  BY <1>4, <1>11 DEF Tiles

(* One span.                                                                 *)
LEMMA TilesOne ==
  ASSUME NEW a \in Nat, NEW b \in Nat, a <= b
  PROVE  Tiles(<<<<a, b - 1>>>>, a, b)
<1> DEFINE s == <<<<a, b - 1>>>>
           e == [i \in 0 .. 1 |-> IF i = 0 THEN a ELSE b]
<1>1. s \in Spans /\ Len(s) = 1 /\ s[1] = <<a, b - 1>>
  BY DEF Spans
<1>2. e \in [0 .. 1 -> Nat] /\ e[0] = a /\ e[1] = b
  OBVIOUS
<1> HIDE DEF e, s
<1>3. \A i \in 1 .. 1 : i = 1 /\ i - 1 = 0
  OBVIOUS
<1>4. Edges(s, a, b, e)
  BY <1>1, <1>2, <1>3 DEF Edges
<1>5. Tiles(s, a, b)
  BY <1>1, <1>4 DEF Tiles
<1> QED
  BY <1>5 DEF s

(* One span more.                                                            *)
LEMMA TilesAppend ==
  ASSUME NEW s, NEW a, NEW b \in Nat, NEW c \in Nat, b <= c, Tiles(s, a, b)
  PROVE  Tiles(Append(s, <<b, c - 1>>), a, c)
<1>1. Tiles(<<<<b, c - 1>>>>, b, c)
  BY TilesOne
<1>2. Tiles(s \o <<<<b, c - 1>>>>, a, c)
  BY <1>1, TilesJoin
<1>3. s \o <<<<b, c - 1>>>> = Append(s, <<b, c - 1>>)
  <2>1. s \in Seq(Nat \X Int) /\ <<b, c - 1>> \in Nat \X Int
    BY DEF Tiles, Spans
  <2> QED
    BY <2>1, AppendIsConcat
<1> QED
  BY <1>2, <1>3

(* The spans of each node from each line on.                                  *)
TileLists ==
  {f \in [Nodes -> [Nat -> Spans]] :
     \A n \in Nodes : \A begin \in Nat : begin <= n.hi + 1 => Tiles(f[n][begin], begin, n.hi + 1)}

(* What is packed of an element that is cut.                                 *)
Accs(begin, hi) ==
  {acc \in [pack : Nat, spans : Spans] : acc.pack <= hi + 1 /\ Tiles(acc.spans, begin, acc.pack)}

(* The bounds of the chunkers are numbers.                                   *)
LEMMA BoundsAre == MaxUnits \in Nat /\ MinSpan \in Nat /\ VueDepth \in Nat /\ BladeDepth \in Nat
BY FilesAssumption

(* A child that is packed or cut leaves the spans one behind the other.      *)
LEMMA TakeChildIs ==
  ASSUME NEW begin \in Nat, NEW hi \in Nat, NEW acc \in Accs(begin, hi), NEW c \in Nodes, c.hi <= hi,
         NEW inner \in TileLists
  PROVE  TakeChild(acc, c, inner) \in Accs(begin, hi)
<1> DEFINE opened == IF c.lo - acc.pack >= MinSpan
                       THEN [pack |-> c.lo, spans |-> Append(acc.spans, <<acc.pack, c.lo - 1>>)]
                       ELSE acc
           last == [pack |-> c.hi + 1, spans |-> opened.spans \o inner[c][opened.pack]]
<1>1. c.lo \in Nat /\ c.hi \in Nat /\ c.lo <= c.hi /\ MaxUnits \in Nat /\ MinSpan \in Nat
  BY NodeIs, BoundsAre
<1>2. acc.pack \in Nat /\ acc.spans \in Spans /\ acc.pack <= hi + 1 /\ Tiles(acc.spans, begin, acc.pack)
      /\ acc = [pack |-> acc.pack, spans |-> acc.spans]
  BY DEF Accs
<1>3. CASE c.hi - acc.pack + 1 <= MaxUnits
  BY <1>3 DEF TakeChild
<1>4. CASE ~(c.hi - acc.pack + 1 <= MaxUnits)
  <2>1. acc.pack <= c.hi
    BY <1>1, <1>2, <1>4
  <2>2. opened.pack \in Nat /\ opened.pack <= c.hi /\ Tiles(opened.spans, begin, opened.pack)
        /\ opened = [pack |-> opened.pack, spans |-> opened.spans]
    <3>1. CASE c.lo - acc.pack >= MinSpan
      <4>1. acc.pack <= c.lo
        BY <1>1, <1>2, <3>1
      <4>2. Tiles(Append(acc.spans, <<acc.pack, c.lo - 1>>), begin, c.lo)
        BY <1>1, <1>2, <4>1, TilesAppend
      <4>3. opened = [pack |-> c.lo, spans |-> Append(acc.spans, <<acc.pack, c.lo - 1>>)]
        BY <3>1
      <4> HIDE DEF opened
      <4> QED
        BY <1>1, <4>2, <4>3
    <3>2. CASE ~(c.lo - acc.pack >= MinSpan)
      <4>1. opened = acc
        BY <3>2
      <4> HIDE DEF opened
      <4> QED
        BY <1>2, <2>1, <4>1
    <3> QED
      BY <3>1, <3>2
  <2> HIDE DEF opened
  <2>3. opened \in Accs(begin, hi)
    <3>1. opened.spans \in Spans /\ opened.pack <= hi + 1
      BY <1>1, <2>2 DEF Tiles
    <3> QED
      BY <2>2, <3>1 DEF Accs
  <2>4. last \in Accs(begin, hi)
    <3>1. Tiles(inner[c][opened.pack], opened.pack, c.hi + 1)
      <4>1. opened.pack <= c.hi + 1
        BY <1>1, <2>2
      <4> QED
        BY <2>2, <4>1 DEF TileLists
    <3>2. Tiles(opened.spans \o inner[c][opened.pack], begin, c.hi + 1)
      BY <2>2, <3>1, TilesJoin
    <3>3. c.hi + 1 \in Nat /\ c.hi + 1 <= hi + 1
      BY <1>1
    <3>4. opened.spans \o inner[c][opened.pack] \in Spans
      BY <3>2 DEF Tiles
    <3> QED
      BY <3>2, <3>3, <3>4 DEF Accs
  <2>5. TakeChild(acc, c, inner) = IF c.hi - opened.pack + 1 <= MaxUnits THEN opened ELSE last
    BY <1>4 DEF TakeChild, opened
  <2> QED
    BY <2>3, <2>4, <2>5
<1> QED
  BY <1>3, <1>4

(* An element that is cut at its children loses no line and repeats none.    *)
LEMMA CutElementIs ==
  ASSUME NEW n \in Nodes, NEW begin \in Nat, begin <= n.hi + 1, NEW inner \in TileLists
  PROVE  Tiles(CutElement(n, begin, inner), begin, n.hi + 1)
<1> DEFINE kids == OfType(n.kids, {"element"})
           T == Accs(begin, n.hi)
           first == [pack |-> begin, spans |-> <<>>]
           m == Len(kids)
           step == [k \in 1 .. m |-> [acc \in T |-> TakeChild(acc, kids[k], inner)]]
           Is(g) == g = [k \in 0 .. m |-> IF k = 0 THEN first ELSE TakeChild(g[k - 1], kids[k], inner)]
           packed == CHOOSE g : Is(g)
<1>1. /\ n.hi \in Nat /\ kids \in Seq(Nodes) /\ m \in Nat /\ DOMAIN kids = 1 .. m
      /\ \A k \in 1 .. m : kids[k] \in Nodes /\ kids[k].hi <= n.hi
  <2>1. n.kids \in Seq(Nodes) /\ n.hi \in Nat /\ n.head \in Nat /\ 1 <= n.head
    BY NodeIs
  <2>2. kids \in Seq(Nodes) /\ \A k \in DOMAIN kids : \E j \in DOMAIN n.kids : kids[k] = n.kids[j]
    BY <2>1, OfTypeIs
  <2>3. m \in Nat /\ DOMAIN kids = 1 .. m
    BY <2>2, LenProperties
  <2>4. \A j \in DOMAIN n.kids : n.kids[j].hi <= n.hi
    <3> SUFFICES ASSUME NEW j \in DOMAIN n.kids PROVE n.kids[j].hi <= n.hi
      OBVIOUS
    <3>1. n.kids[j] \in Nodes
      BY <2>1
    <3>2. n.kids[j].hi \in Nat
      BY <3>1, NodeIs
    <3>3. n.type = "script" => n.head + n.kids[j].hi - 1 <= n.hi
      BY NodeIs
    <3>4. n.type # "script" => n.kids[j].hi <= n.hi
      BY NodeIs
    <3> QED
      BY <2>1, <3>2, <3>3, <3>4
  <2> HIDE DEF kids
  <2> QED
    BY <2>1, <2>2, <2>3, <2>4
<1> HIDE DEF kids
<1>2. first \in T
  <2>1. Tiles(<<>>, begin, begin) /\ <<>> \in Spans
    BY TilesNone DEF Spans
  <2> QED
    BY <2>1 DEF Accs
<1>3. step \in [1 .. m -> [T -> T]]
  <2>1. \A k \in 1 .. m : \A acc \in T : TakeChild(acc, kids[k], inner) \in T
    BY <1>1, TakeChildIs
  <2> HIDE DEF T
  <2> QED
    BY <2>1
<1> HIDE DEF T, first
<1>4. PICK g \in [0 .. m -> T] : Follows(g, m, first, step)
  <2> HIDE DEF step, m
  <2> QED
    BY <1>1, <1>2, <1>3, RecursionIsThere
<1>5. Is(g)
  <2>1. \A k \in 1 .. m : k - 1 \in 0 .. m /\ g[k - 1] \in T
    BY <1>1
  <2>2. \A k \in 1 .. m : g[k] = step[k][g[k - 1]]
    <3> HIDE DEF step, m
    <3> QED
      BY <1>4 DEF Follows
  <2>3. \A k \in 1 .. m : g[k] = TakeChild(g[k - 1], kids[k], inner)
    BY <2>1, <2>2
  <2>4. g[0] = first
    BY <1>4 DEF Follows
  <2>5. \A k \in 0 .. m : g[k] = IF k = 0 THEN first ELSE TakeChild(g[k - 1], kids[k], inner)
    <3>1. \A k \in 0 .. m : k = 0 \/ k \in 1 .. m
      BY <1>1
    <3> HIDE DEF m
    <3> QED
      BY <2>3, <2>4, <3>1
  <2> HIDE DEF m
  <2>6. g = [k \in 0 .. m |-> g[k]]
    OBVIOUS
  <2> QED
    BY <2>5, <2>6
<1>6. Is(packed)
  <2> HIDE DEF Is
  <2> QED
    BY <1>5
<1> HIDE DEF packed
<1>7. \A k \in 0 .. m : packed[k] = IF k = 0 THEN first ELSE TakeChild(packed[k - 1], kids[k], inner)
  BY <1>6
<1> DEFINE Good == {k \in 0 .. m : packed[k] \in T}
<1>8. 0 \in Good
  BY <1>1, <1>2, <1>7
<1>9. \A k \in 1 .. m : k - 1 \in Good => k \in Good
  <2> SUFFICES ASSUME NEW k \in 1 .. m, k - 1 \in Good PROVE k \in Good
    OBVIOUS
  <2>1. packed[k] = TakeChild(packed[k - 1], kids[k], inner) /\ k \in 0 .. m
    BY <1>1, <1>7
  <2>2. TakeChild(packed[k - 1], kids[k], inner) \in T
    BY <1>1, TakeChildIs DEF T
  <2> QED
    BY <2>1, <2>2
<1>10. packed[m] \in T
  <2> HIDE DEF Good, m
  <2>1. \A k \in 0 .. m : k \in Good
    BY <1>1, <1>8, <1>9, UpTo
  <2>2. m \in Good
    BY <1>1, <2>1
  <2> QED
    BY <2>2 DEF Good
<1>11. CutElement(n, begin, inner) = Append(packed[m].spans, <<packed[m].pack, n.hi>>)
  BY DEF CutElement, packed, kids, first
<1>12. packed[m].pack \in Nat /\ packed[m].pack <= n.hi + 1 /\ Tiles(packed[m].spans, begin, packed[m].pack)
  BY <1>10 DEF T, Accs
<1>13. n.hi + 1 \in Nat /\ n.hi + 1 - 1 = n.hi
  BY <1>1
<1>14. Tiles(Append(packed[m].spans, <<packed[m].pack, n.hi + 1 - 1>>), begin, n.hi + 1)
  <2> HIDE DEF m
  <2>0. PICK p \in Nat, t \in Nat : p = packed[m].pack /\ t = n.hi + 1
    BY <1>12, <1>13
  <2>1. PICK s : p = packed[m].pack /\ s = packed[m].spans /\ t = n.hi + 1
    BY <2>0
  <2>2. p <= t /\ Tiles(s, begin, p)
    BY <1>12, <2>1
  <2>3. Tiles(Append(s, <<p, t - 1>>), begin, t)
    BY <2>2, TilesAppend
  <2>4. <<p, t - 1>> = <<packed[m].pack, n.hi + 1 - 1>>
    <3>1. p = packed[m].pack
      BY <2>1
    <3>2. t - 1 = n.hi + 1 - 1
      BY <1>1, <2>1
    <3> QED
      BY <3>1, <3>2, Zenon
  <2> HIDE DEF packed
  <2>5. Append(packed[m].spans, <<packed[m].pack, n.hi + 1 - 1>>) = Append(s, <<p, t - 1>>)
    BY <2>1, <2>4, Zenon
  <2>6. Tiles(Append(packed[m].spans, <<packed[m].pack, n.hi + 1 - 1>>), begin, t)
    BY <2>3, <2>5, Zenon
  <2> QED
    BY <2>1, <2>6, Zenon
<1> QED
  BY <1>11, <1>13, <1>14

(* However deep the elements are cut, the spans are one behind the other.    *)
LEMMA CutsTile ==
  ASSUME NEW n \in Nodes, NEW begin \in Nat, begin <= n.hi + 1
  PROVE  Tiles(Cuts(n, begin), begin, n.hi + 1)
<1> DEFINE D == VueDepth
           whole(o, a) == <<<<a, o.hi>>>>
           cut(o, a, inner) == IF o.hi - a + 1 <= MaxUnits THEN whole(o, a) ELSE CutElement(o, a, inner)
           first == [o \in Nodes |-> [a \in Nat |-> whole(o, a)]]
           onward(inner) == [o \in Nodes |-> [a \in Nat |-> cut(o, a, inner)]]
           step == [k \in 1 .. D |-> [inner \in TileLists |-> onward(inner)]]
           Is(g) == g = [left \in 0 .. D |-> [o \in Nodes |-> [a \in Nat |->
                           IF left = 0 \/ o.hi - a + 1 <= MaxUnits THEN <<<<a, o.hi>>>>
                           ELSE CutElement(o, a, g[left - 1])]]]
           cuts == CHOOSE g : Is(g)
<1>1. D \in Nat /\ MaxUnits \in Nat
  BY BoundsAre
<1>2. \A o \in Nodes : \A a \in Nat : whole(o, a) \in Spans /\ (a <= o.hi + 1 => Tiles(whole(o, a), a, o.hi + 1))
  <2> SUFFICES ASSUME NEW o \in Nodes, NEW a \in Nat
               PROVE  whole(o, a) \in Spans /\ (a <= o.hi + 1 => Tiles(whole(o, a), a, o.hi + 1))
    OBVIOUS
  <2>1. o.hi \in Nat
    BY NodeIs
  <2>2. o.hi + 1 \in Nat /\ o.hi + 1 - 1 = o.hi
    BY <2>1
  <2>3. whole(o, a) \in Spans
    <3>1. <<a, o.hi>> \in Nat \X Int
      BY <2>1
    <3> QED
      BY <3>1, OneChunk DEF Spans
  <2>4. ASSUME a <= o.hi + 1 PROVE Tiles(whole(o, a), a, o.hi + 1)
    <3>1. PICK b \in Nat : b = o.hi + 1 /\ b - 1 = o.hi
      <4> DEFINE b == o.hi + 1
      <4>1. b \in Nat /\ b = o.hi + 1 /\ b - 1 = o.hi
        BY <2>1
      <4> QED
        BY <4>1
    <3>2. Tiles(<<<<a, b - 1>>>>, a, b)
      BY <2>4, <3>1, TilesOne
    <3> QED
      BY <3>1, <3>2
  <2> QED
    BY <2>2, <2>3, <2>4
<1>3. first \in TileLists
  <2> HIDE DEF whole
  <2> QED
    BY <1>2 DEF TileLists
<1>4. ASSUME NEW inner \in TileLists PROVE onward(inner) \in TileLists
  <2>1. \A o \in Nodes : \A a \in Nat :
          cut(o, a, inner) \in Spans /\ (a <= o.hi + 1 => Tiles(cut(o, a, inner), a, o.hi + 1))
    <3> SUFFICES ASSUME NEW o \in Nodes, NEW a \in Nat
                 PROVE  cut(o, a, inner) \in Spans /\ (a <= o.hi + 1 => Tiles(cut(o, a, inner), a, o.hi + 1))
      OBVIOUS
    <3>1. CASE o.hi - a + 1 <= MaxUnits
      <4>1. cut(o, a, inner) = whole(o, a)
        BY <3>1
      <4> HIDE DEF whole, cut
      <4> QED
        BY <1>2, <4>1
    <3>2. CASE ~(o.hi - a + 1 <= MaxUnits)
      <4>1. o.hi \in Nat
        BY NodeIs
      <4>2. a <= o.hi + 1
        BY <1>1, <3>2, <4>1
      <4>3. Tiles(CutElement(o, a, inner), a, o.hi + 1)
        BY <4>2, CutElementIs
      <4>4. CutElement(o, a, inner) \in Spans
        BY <4>3 DEF Tiles
      <4>5. cut(o, a, inner) = CutElement(o, a, inner)
        BY <3>2
      <4> HIDE DEF cut
      <4> QED
        BY <4>3, <4>4, <4>5
    <3> QED
      BY <3>1, <3>2
  <2> HIDE DEF cut
  <2> QED
    BY <2>1 DEF TileLists
<1>5. step \in [1 .. D -> [TileLists -> TileLists]]
  <2> HIDE DEF onward
  <2> QED
    BY <1>4
<1>6. PICK g \in [0 .. D -> TileLists] : Follows(g, D, first, step)
  <2> HIDE DEF first, step, D
  <2> QED
    BY <1>1, <1>3, <1>5, RecursionIsThere
<1>7. Is(g)
  <2>1. \A k \in 1 .. D : k - 1 \in 0 .. D /\ g[k - 1] \in TileLists
    BY <1>1
  <2>2. \A k \in 1 .. D : g[k] = onward(g[k - 1])
    <3>1. \A k \in 1 .. D : g[k] = step[k][g[k - 1]]
      <4> HIDE DEF step, first, D
      <4> QED
        BY <1>6 DEF Follows
    <3> HIDE DEF onward
    <3> QED
      BY <2>1, <3>1
  <2>3. g[0] = first
    BY <1>6 DEF Follows
  <2>4. \A k \in 0 .. D : g[k] = [o \in Nodes |-> [a \in Nat |->
           IF k = 0 \/ o.hi - a + 1 <= MaxUnits THEN <<<<a, o.hi>>>> ELSE CutElement(o, a, g[k - 1])]]
    <3> SUFFICES ASSUME NEW k \in 0 .. D
                 PROVE  g[k] = [o \in Nodes |-> [a \in Nat |->
           IF k = 0 \/ o.hi - a + 1 <= MaxUnits THEN <<<<a, o.hi>>>> ELSE CutElement(o, a, g[k - 1])]]
      OBVIOUS
    <3>1. CASE k = 0
      BY <2>3, <3>1
    <3>2. CASE k # 0
      <4>1. k \in 1 .. D
        BY <1>1, <3>2
      <4>2. g[k] = onward(g[k - 1])
        BY <2>2, <4>1
      <4> QED
        BY <3>2, <4>2
    <3> QED
      BY <3>1, <3>2
  <2> HIDE DEF D
  <2>5. g = [k \in 0 .. D |-> g[k]]
    OBVIOUS
  <2> QED
    BY <2>4, <2>5
<1>8. Is(cuts)
  <2> HIDE DEF Is
  <2> QED
    BY <1>7
<1>9. Cuts(n, begin) = cuts[D][n][begin]
  BY DEF Cuts
<1> HIDE DEF cuts
<1>10. cuts[0] = first /\ \A k \in 1 .. D : cuts[k] = onward(cuts[k - 1])
  <2>1. \A k \in 0 .. D : cuts[k] = [o \in Nodes |-> [a \in Nat |->
           IF k = 0 \/ o.hi - a + 1 <= MaxUnits THEN <<<<a, o.hi>>>> ELSE CutElement(o, a, cuts[k - 1])]]
    BY <1>8
  <2>2. 0 \in 0 .. D /\ \A k \in 1 .. D : k \in 0 .. D /\ k # 0
    BY <1>1
  <2> HIDE DEF D, Is
  <2>3. cuts[0] = first
    BY <2>1, <2>2
  <2>4. ASSUME NEW k \in 1 .. D PROVE cuts[k] = onward(cuts[k - 1])
    <3>1. k # 0 /\ cuts[k] = [o \in Nodes |-> [a \in Nat |->
           IF k = 0 \/ o.hi - a + 1 <= MaxUnits THEN <<<<a, o.hi>>>> ELSE CutElement(o, a, cuts[k - 1])]]
      BY <2>1, <2>2
    <3> QED
      BY <3>1
  <2> QED
    BY <2>3, <2>4
<1> DEFINE Good == {k \in 0 .. D : cuts[k] \in TileLists}
<1> HIDE DEF first, onward
<1>11. 0 \in Good
  BY <1>1, <1>3, <1>10
<1>12. \A k \in 1 .. D : k - 1 \in Good => k \in Good
  BY <1>1, <1>4, <1>10
<1>13. D \in Good
  <2> HIDE DEF Good, D
  <2>1. \A k \in 0 .. D : k \in Good
    BY <1>1, <1>11, <1>12, UpTo
  <2> QED
    BY <1>1, <2>1
<1> QED
  BY <1>9, <1>13 DEF TileLists

-----------------------------------------------------------------------------
(* Components.                                                               *)

(* The chunks so far: of the lines before e, and each line of A in one.       *)
Emitted(cs, e, A) ==
  cs \in Seq(Spanning) /\ Within(cs, 0 .. e - 1) /\ Once(cs, A) /\ A \subseteq 0 .. e - 1

(* What was emitted up to a line was emitted up to a later one.              *)
LEMMA EmittedMore ==
  ASSUME NEW cs, NEW e \in Nat, NEW f \in Nat, e <= f, NEW A, NEW B, B \subseteq A, Emitted(cs, e, A)
  PROVE  Emitted(cs, f, B)
<1>1. 0 .. e - 1 \subseteq 0 .. f - 1
  OBVIOUS
<1> QED
  BY <1>1 DEF Emitted, Within, Once

(* The last chunk is replaced by one that has more units.                    *)
LEMMA ExtendedIs ==
  ASSUME NEW cs \in Seq(Spanning), NEW c \in Spanning, cs # <<>>
  PROVE  LET r == Append(Front(cs), c)
         IN  /\ r \in Seq(Spanning) /\ DOMAIN r = DOMAIN cs /\ Len(cs) \in DOMAIN cs /\ Last(cs) \in Spanning
             /\ Last(cs) = cs[Len(cs)]
             /\ \A k \in DOMAIN cs : r[k] = IF k = Len(cs) THEN c ELSE cs[k]
<1> DEFINE f == Front(cs)
<1>1. PICK n \in Nat : n = Len(cs) /\ n # 0 /\ DOMAIN cs = 1 .. n
  BY EmptySeq, LenProperties
<1>2. f \in Seq(Spanning) /\ Len(f) = n - 1 /\ \A k \in 1 .. n - 1 : f[k] = cs[k]
  <2>1. f = SubSeq(cs, 1, n - 1)
    BY <1>1 DEF Front
  <2> HIDE DEF f
  <2>2. SubSeq(cs, 1, n - 1) \in Seq(Spanning) /\ Len(SubSeq(cs, 1, n - 1)) = n - 1
        /\ \A k \in 1 .. n - 1 : SubSeq(cs, 1, n - 1)[k] = cs[k]
    <3>1. \A k \in 1 .. n - 1 : k \in 1 .. n
      BY <1>1
    <3>2. \A k \in 1 .. n - 1 : cs[k] \in Spanning
      BY <1>1, <3>1
    <3> QED
      BY <1>1, <3>2
  <2> QED
    BY <2>1, <2>2
<1> HIDE DEF f
<1> DEFINE r == Append(f, c)
<1>3. /\ r \in Seq(Spanning) /\ Len(r) = n - 1 + 1
      /\ \A k \in 1 .. n - 1 : r[k] = f[k]
      /\ r[n - 1 + 1] = c
  <2>1. \A k \in 1 .. Len(f) : r[k] = f[k]
    BY <1>2, AppendProperties
  <2>2. r \in Seq(Spanning) /\ Len(r) = Len(f) + 1 /\ r[Len(f) + 1] = c
    BY <1>2, AppendProperties
  <2> QED
    BY <1>2, <2>1, <2>2
<1> HIDE DEF r
<1>4. n - 1 + 1 = n /\ DOMAIN r = 1 .. n
  <2>1. DOMAIN r = 1 .. Len(r) /\ n - 1 + 1 = n
    BY <1>1, <1>3, LenProperties
  <2> QED
    BY <1>3, <2>1
<1>5. Last(cs) = cs[n]
  BY <1>1 DEF Last
<1>6. n \in 1 .. n /\ cs[n] \in Spanning
  BY <1>1
<1>7. \A k \in 1 .. n : r[k] = IF k = n THEN c ELSE cs[k]
  <2> SUFFICES ASSUME NEW k \in 1 .. n PROVE r[k] = IF k = n THEN c ELSE cs[k]
    OBVIOUS
  <2>1. k = n \/ k \in 1 .. n - 1
    BY <1>1
  <2> QED
    BY <1>2, <1>3, <1>4, <2>1
<1> QED
  BY <1>1, <1>3, <1>4, <1>5, <1>6, <1>7 DEF f, r

(* The units of a span that is emitted.                                      *)
LEMMA SpanUnits ==
  ASSUME NEW lo \in Nat, NEW hi \in Int, NEW blanks, NEW units, units = Strip(lo .. hi, blanks)
  PROVE  /\ units \in SUBSET Nat /\ units \subseteq lo .. hi /\ (lo .. hi) \ blanks \subseteq units
         /\ units # {} => /\ Min(units) \in units /\ Max(units) \in units
                          /\ \A u \in units : Min(units) <= u /\ u <= Max(units)
         /\ units # {} => \A name, kind \in Labels :
              LineChunk(units, name, kind) \in Spanning /\ LineChunk(units, name, kind).units = units
<1>1. units \in SUBSET Nat /\ units \subseteq lo .. hi /\ (lo .. hi) \ blanks \subseteq units
  BY StripKeeps
<1>2. ASSUME units # {} PROVE \E n \in Nat : units \subseteq 0 .. n
  <2>1. hi \in Nat
    BY <1>1, <1>2
  <2> QED
    BY <1>1, <2>1
<1>3. ASSUME units # {}
      PROVE  Min(units) \in units /\ Max(units) \in units /\ \A u \in units : Min(units) <= u /\ u <= Max(units)
  <2>1. PICK n \in Nat : units \in SUBSET (0 .. n)
    BY <1>2, <1>3
  <2> QED
    BY <1>1, <1>3, <2>1, MinIs, MaxIs
<1>4. ASSUME units # {}, NEW name \in Labels, NEW kind \in Labels
      PROVE  LineChunk(units, name, kind) \in Spanning /\ LineChunk(units, name, kind).units = units
  <2>1. PICK n \in Nat : units \in SUBSET (0 .. n)
    BY <1>2, <1>4
  <2> QED
    BY <1>4, <2>1, LineChunkType
<1> QED
  BY <1>1, <1>3, <1>4

(* A chunk that a short run of markup is folded into.                        *)
LEMMA FoldedIs ==
  ASSUME NEW cs \in Seq(Spanning), NEW lo \in Nat, NEW hi \in Int, NEW blanks, NEW name,
         NEW units, units = Strip(lo .. hi, blanks), units # {}, ExtendsPrevious(cs, units, name)
  PROVE  /\ cs # <<>>
         /\ \E c \in Spanning : /\ c.units = Last(cs).units \cup units /\ c.start = Last(cs).start
                               /\ c.name = name /\ Last(cs).name = name
                               /\ Extended(cs, units) = Append(Front(cs), c)
<1> DEFINE prev == Last(cs)
           c == Chunk(prev.units \cup units, prev.start, Max(units), prev.name, prev.kind)
<1>1. units \in SUBSET Nat /\ Min(units) \in units /\ Max(units) \in units
      /\ \A u \in units : Min(units) <= u /\ u <= Max(units)
  BY SpanUnits
<1>2. cs # <<>> /\ prev.end <= Min(units)
  BY DEF ExtendsPrevious
<1>3. prev \in Spanning
  <2>1. PICK n \in Nat : n = Len(cs) /\ n # 0 /\ DOMAIN cs = 1 .. n
    BY <1>2, EmptySeq, LenProperties
  <2>2. n \in DOMAIN cs /\ prev = cs[n]
    BY <2>1 DEF Last
  <2> QED
    BY <2>2
<1> HIDE DEF prev
<1>4. prev.units \in SUBSET Nat /\ prev.start \in Nat /\ prev.end \in Nat /\ prev.name \in Labels /\ prev.kind \in Labels
      /\ prev.start <= prev.end /\ \A u \in prev.units : prev.start <= u /\ u <= prev.end
  BY <1>3, SpanningParts
<1>5. PICK a \in Nat, b \in Nat : a = Min(units) /\ b = Max(units) /\ a <= b /\ prev.end <= a
        /\ \A u \in units : a <= u /\ u <= b
  BY <1>1, <1>2
<1>6. prev.units \cup units \in SUBSET Nat /\ prev.start <= b
      /\ \A u \in prev.units \cup units : prev.start <= u /\ u <= b
  <2>1. prev.start <= b /\ prev.start <= a /\ prev.end <= b
    BY <1>4, <1>5
  <2>2. ASSUME NEW u \in prev.units PROVE prev.start <= u /\ u <= b
    BY <1>4, <2>1
  <2>3. ASSUME NEW u \in units PROVE prev.start <= u /\ u <= b
    BY <1>1, <1>4, <1>5, <2>1
  <2> QED
    BY <1>1, <1>4, <2>1, <2>2, <2>3
<1>7. c \in Spanning /\ c.units = prev.units \cup units
  <2>1. c = Chunk(prev.units \cup units, prev.start, b, prev.name, prev.kind)
    BY <1>5
  <2> HIDE DEF c
  <2> QED
    BY <1>4, <1>6, <2>1, ChunkType
<1>8. Extended(cs, units) = Append(Front(cs), c)
  BY DEF Extended, c, prev
<1>9. prev.name = name /\ c.name = name /\ c.start = prev.start
  <2>1. prev.name = name
    BY DEF ExtendsPrevious, prev
  <2>2. c.start = prev.start
    BY DEF c, Chunk
  <2> QED
    BY <2>1, <2>2, NameIs DEF c
<1> QED
  BY <1>2, <1>7, <1>8, <1>9 DEF prev

(* Whatever span is emitted, the chunks stay chunks that hold their lines.   *)
LEMMA EmitSpanKeeps ==
  ASSUME NEW cs \in Seq(Spanning), NEW lo \in Nat, NEW hi \in Int, NEW name \in Labels, NEW blanks
  PROVE  EmitSpan(cs, lo, hi, name, blanks) \in Seq(Spanning)
<1> DEFINE units == Strip(lo .. hi, blanks)
<1>1. CASE units = {}
  BY <1>1 DEF EmitSpan
<1>2. CASE units # {} /\ ExtendsPrevious(cs, units, name)
  <2>1. EmitSpan(cs, lo, hi, name, blanks) = Extended(cs, units)
    BY <1>2 DEF EmitSpan
  <2> HIDE DEF units
  <2>2. PICK c \in Spanning : cs # <<>> /\ Extended(cs, units) = Append(Front(cs), c)
    BY <1>2, FoldedIs DEF units
  <2> QED
    BY <2>1, <2>2, ExtendedIs
<1>3. CASE units # {} /\ ~ExtendsPrevious(cs, units, name)
  <2>1. EmitSpan(cs, lo, hi, name, blanks) = Append(cs, LineChunk(units, name, "block"))
    BY <1>3 DEF EmitSpan
  <2>2. LineChunk(units, name, "block") \in Spanning
    BY <1>3, SpanUnits, KindsAre
  <2> HIDE DEF units
  <2> QED
    BY <2>1, <2>2
<1> QED
  BY <1>1, <1>2, <1>3

(* A span behind the chunks so far is emitted: of its lines, none is lost    *)
(* and none is in two chunks.                                                *)
LEMMA EmitSpanIs ==
  ASSUME NEW cs, NEW lo \in Nat, NEW e \in Nat, lo <= e, NEW name \in Labels, NEW blanks, NEW A, Emitted(cs, lo, A)
  PROVE  Emitted(EmitSpan(cs, lo, e - 1, name, blanks), e, A \cup ((lo .. e - 1) \ blanks))
<1> DEFINE units == Strip(lo .. e - 1, blanks)
           new == (lo .. e - 1) \ blanks
           r == EmitSpan(cs, lo, e - 1, name, blanks)
<1>1. cs \in Seq(Spanning) /\ Within(cs, 0 .. lo - 1) /\ Once(cs, A) /\ A \subseteq 0 .. lo - 1
  BY DEF Emitted
<1>2. e - 1 \in Int /\ 0 .. lo - 1 \subseteq 0 .. e - 1 /\ lo .. e - 1 \subseteq 0 .. e - 1
      /\ (0 .. lo - 1) \cap (lo .. e - 1) = {}
  OBVIOUS
<1>3. units \in SUBSET Nat /\ units \subseteq lo .. e - 1 /\ new \subseteq units
      /\ (units # {} => LineChunk(units, name, "block") \in Spanning /\ LineChunk(units, name, "block").units = units)
  BY <1>2, SpanUnits, KindsAre
<1>4. r \in Seq(Spanning)
  BY <1>1, <1>2, EmitSpanKeeps
<1>5. A \cup new \subseteq 0 .. e - 1
  BY <1>1, <1>2
<1>6. CASE units = {}
  <2>1. r = cs /\ new = {}
    BY <1>3, <1>6 DEF EmitSpan
  <2>2. A \cup new = A
    BY <2>1
  <2> HIDE DEF r, new, units
  <2> QED
    BY <1>1, <1>2, <1>5, <2>1, <2>2 DEF Emitted, Within, r, new
<1>7. CASE units # {} /\ ExtendsPrevious(cs, units, name)
  <2>1. r = Extended(cs, units)
    BY <1>7 DEF EmitSpan
  <2>2. PICK c \in Spanning : cs # <<>> /\ Extended(cs, units) = Append(Front(cs), c) /\ c.units = Last(cs).units \cup units
    <3> HIDE DEF units
    <3> QED
      BY <1>1, <1>2, <1>7, FoldedIs DEF units
  <2> DEFINE n == Len(cs)
  <2>3. /\ DOMAIN r = DOMAIN cs /\ n \in DOMAIN cs
        /\ \A k \in DOMAIN cs : r[k] = IF k = n THEN c ELSE cs[k]
        /\ c.units = cs[n].units \cup units
    <3> HIDE DEF r, units
    <3> QED
      BY <1>1, <2>1, <2>2, ExtendedIs
  <2> HIDE DEF r, units, new, n
  <2>4. \A k \in DOMAIN cs : r[k].units = IF k = n THEN cs[k].units \cup units ELSE cs[k].units
    BY <2>3
  <2>5. Within(r, 0 .. e - 1)
    BY <1>1, <1>2, <1>3, <2>3, <2>4 DEF Within
  <2>6. ASSUME NEW u \in A
        PROVE  \E k \in DOMAIN r : u \in r[k].units /\ \A j \in DOMAIN r : u \in r[j].units => j = k
    <3>1. u \notin units
      BY <1>1, <1>2, <1>3
    <3>2. \A k \in DOMAIN cs : u \in r[k].units <=> u \in cs[k].units
      BY <2>4, <3>1
    <3> QED
      BY <1>1, <2>3, <3>2 DEF Once
  <2>7. ASSUME NEW u \in new
        PROVE  \E k \in DOMAIN r : u \in r[k].units /\ \A j \in DOMAIN r : u \in r[j].units => j = k
    <3>1. u \in units /\ u \notin 0 .. lo - 1
      BY <1>2, <1>3
    <3>2. \A k \in DOMAIN cs : u \notin cs[k].units
      BY <1>1, <3>1 DEF Within
    <3> QED
      BY <2>3, <2>4, <3>1, <3>2
  <2>8. Once(r, A \cup new)
    BY <2>6, <2>7 DEF Once
  <2> QED
    BY <1>4, <1>5, <2>5, <2>8 DEF Emitted, r, new
<1>8. CASE units # {} /\ ~ExtendsPrevious(cs, units, name)
  <2> DEFINE c == LineChunk(units, name, "block")
  <2>1. r = Append(cs, c)
    BY <1>8 DEF EmitSpan
  <2>2. c \in Spanning /\ c.units = units
    BY <1>3, <1>8
  <2> HIDE DEF c, units, r
  <2>3. <<c>> \in Seq(Spanning) /\ r = cs \o <<c>>
    BY <1>1, <2>1, <2>2, AppendIsConcat
  <2>4. Once(<<c>>, new) /\ Within(<<c>>, units)
    BY <1>3, <2>2 DEF Once, Within
  <2>5. Within(r, (0 .. lo - 1) \cup units)
    BY <1>1, <2>3, <2>4, WithinJoins
  <2>6. Once(r, A \cup new)
    <3>1. A \cap units = {} /\ new \cap (0 .. lo - 1) = {}
      BY <1>1, <1>2, <1>3
    <3> HIDE DEF new
    <3> QED
      BY <1>1, <2>3, <2>4, <3>1, OnceJoins
  <2>7. Within(r, 0 .. e - 1)
    BY <1>2, <1>3, <2>5 DEF Within
  <2> HIDE DEF new
  <2> QED
    BY <1>4, <1>5, <2>6, <2>7 DEF Emitted, r, new
<1> QED
  BY <1>6, <1>7, <1>8

(* The spans of an element are emitted one after the other.                  *)
Taken(cs, n, name, blanks, spans, emitted) ==
  /\ Tiles(spans, n.head, n.hi + 1)
  /\ emitted[0] = cs
  /\ \A k \in 1 .. Len(spans) : emitted[k] = EmitSpan(emitted[k - 1], spans[k][1], spans[k][2], name, blanks)
  /\ EmitElement(cs, n, name, blanks) = emitted[Len(spans)]

(* The chunks after the first k spans.                                       *)
LEMMA SpansRun ==
  ASSUME NEW cs \in Seq(Spanning), NEW n \in Nodes, NEW name \in Labels, NEW blanks
  PROVE  \E spans \in Spans : \E emitted \in [0 .. Len(spans) -> Seq(Spanning)] : Taken(cs, n, name, blanks, spans, emitted)
<1> DEFINE T == Seq(Spanning)
           spans == Cuts(n, n.head)
           m == Len(spans)
           add(ds, k) == EmitSpan(ds, spans[k][1], spans[k][2], name, blanks)
           step == [k \in 1 .. m |-> [ds \in T |-> add(ds, k)]]
           Is(g) == g = [k \in 0 .. m |->
                           IF k = 0 THEN cs
                           ELSE EmitSpan(g[k - 1], spans[k][1], spans[k][2], name, blanks)]
           emitted == CHOOSE g : Is(g)
<1>1. n.head \in Nat /\ n.hi \in Nat /\ n.head <= n.hi
  BY NodeIs
<1>2. Tiles(spans, n.head, n.hi + 1)
  <2>1. n.head <= n.hi + 1
    BY <1>1
  <2> QED
    BY <1>1, <2>1, CutsTile
<1>3. EmitElement(cs, n, name, blanks) = emitted[m]
  BY DEF EmitElement
<1> HIDE DEF spans
<1>4. m \in Nat /\ DOMAIN spans = 1 .. m /\ \A k \in 1 .. m : spans[k] \in Nat \X Int
  <2>1. spans \in Seq(Nat \X Int)
    BY <1>2 DEF Tiles, Spans
  <2> QED
    BY <2>1, LenProperties
<1> HIDE DEF m
<1>5. \A k \in 1 .. m : \A ds \in T : add(ds, k) \in T
  <2> SUFFICES ASSUME NEW k \in 1 .. m, NEW ds \in T PROVE add(ds, k) \in T
    OBVIOUS
  <2>1. spans[k][1] \in Nat /\ spans[k][2] \in Int
    BY <1>4
  <2> QED
    BY <2>1, EmitSpanKeeps
<1>6. step \in [1 .. m -> [T -> T]]
  <2> HIDE DEF T, add
  <2> QED
    BY <1>5
<1>7. PICK g \in [0 .. m -> T] : Follows(g, m, cs, step)
  <2> HIDE DEF T, step
  <2>1. cs \in T
    BY DEF T
  <2> QED
    BY <1>4, <1>6, <2>1, RecursionIsThere
<1>8. Is(g)
  <2>1. \A k \in 1 .. m : k - 1 \in 0 .. m /\ g[k - 1] \in T
    BY <1>4
  <2>2. \A k \in 1 .. m : g[k] = step[k][g[k - 1]]
    <3> HIDE DEF step
    <3> QED
      BY <1>7 DEF Follows
  <2>3. \A k \in 1 .. m : g[k] = add(g[k - 1], k)
    <3> HIDE DEF T, add
    <3> QED
      BY <2>1, <2>2
  <2>4. g[0] = cs
    BY <1>7 DEF Follows
  <2>5. \A k \in 0 .. m : g[k] = IF k = 0 THEN cs ELSE add(g[k - 1], k)
    <3>1. \A k \in 0 .. m : k = 0 \/ k \in 1 .. m
      BY <1>4
    <3> HIDE DEF add
    <3> QED
      BY <2>3, <2>4, <3>1
  <2>6. g = [k \in 0 .. m |-> g[k]]
    OBVIOUS
  <2> QED
    BY <2>5, <2>6
<1>9. Is(emitted)
  <2> HIDE DEF Is
  <2> QED
    BY <1>8
<1> HIDE DEF emitted
<1>10. emitted[0] = cs /\ \A k \in 1 .. m : emitted[k] = add(emitted[k - 1], k)
  <2>1. \A k \in 0 .. m : emitted[k] = IF k = 0 THEN cs ELSE add(emitted[k - 1], k)
    BY <1>9
  <2>2. 0 \in 0 .. m /\ \A k \in 1 .. m : k \in 0 .. m /\ k # 0
    BY <1>4
  <2> HIDE DEF add, Is
  <2> QED
    BY <2>1, <2>2
<1> HIDE DEF Is, step
<1>11. emitted \in [0 .. m -> T]
  <2> DEFINE Good == {k \in 0 .. m : emitted[k] \in T}
  <2>1. 0 \in Good
    BY <1>4, <1>10 DEF T
  <2>2. \A k \in 1 .. m : k - 1 \in Good => k \in Good
    <3> HIDE DEF T, add
    <3> QED
      BY <1>4, <1>5, <1>10
  <2> HIDE DEF Good
  <2>3. \A k \in 0 .. m : k \in Good
    BY <1>4, <2>1, <2>2, UpTo
  <2>4. emitted = [k \in 0 .. m |-> emitted[k]]
    <3>1. emitted = [k \in 0 .. m |-> IF k = 0 THEN cs ELSE EmitSpan(emitted[k - 1], spans[k][1], spans[k][2], name, blanks)]
      BY <1>9 DEF Is
    <3> QED
      BY <3>1
  <2> QED
    BY <2>3, <2>4 DEF Good
<1>12. spans \in Spans
  BY <1>2 DEF Tiles
<1>13. Taken(cs, n, name, blanks, spans, emitted)
  BY <1>2, <1>3, <1>10 DEF m, Taken
<1>14. emitted \in [0 .. Len(spans) -> Seq(Spanning)]
  BY <1>11 DEF m, T
<1> QED
  BY <1>12, <1>13, <1>14

(* An element that is emitted: of its lines, none is lost and none is in two *)
(* chunks.                                                                   *)
LEMMA EmitElementIs ==
  ASSUME NEW cs \in Seq(Spanning), NEW n \in Nodes, NEW name \in Labels, NEW blanks, NEW A
  PROVE  /\ EmitElement(cs, n, name, blanks) \in Seq(Spanning)
         /\ Emitted(cs, n.head, A) =>
              Emitted(EmitElement(cs, n, name, blanks), n.hi + 1, A \cup ((n.head .. n.hi) \ blanks))
<1> DEFINE T == Seq(Spanning)
<1>1. n.head \in Nat /\ n.hi \in Nat /\ n.head <= n.hi
  BY NodeIs
<1>2. PICK spans \in Spans : \E emitted \in [0 .. Len(spans) -> Seq(Spanning)] : Taken(cs, n, name, blanks, spans, emitted)
  BY SpansRun
<1> DEFINE m == Len(spans)
<1>3. PICK emitted \in [0 .. m -> Seq(Spanning)] : Taken(cs, n, name, blanks, spans, emitted)
  BY <1>2
<1>4. Tiles(spans, n.head, n.hi + 1)
  BY <1>3 DEF Taken
<1>5. EmitElement(cs, n, name, blanks) = emitted[m]
  BY <1>3 DEF Taken
<1>6. m \in Nat
  BY LenProperties DEF Spans
<1>7. emitted[0] = cs /\ \A k \in 1 .. m : emitted[k] = EmitSpan(emitted[k - 1], spans[k][1], spans[k][2], name, blanks)
  BY <1>3 DEF Taken
<1>8. emitted[m] \in T
  BY <1>6
<1> HIDE DEF m
<1>9. ASSUME Emitted(cs, n.head, A)
       PROVE  Emitted(emitted[m], n.hi + 1, A \cup ((n.head .. n.hi) \ blanks))
  <2>1. PICK e : e \in [0 .. m -> Nat] /\ e[0] = n.head /\ e[m] = n.hi + 1
                   /\ \A i \in 1 .. m : spans[i] = <<e[i - 1], e[i] - 1>> /\ e[i - 1] <= e[i]
    BY <1>4 DEF Tiles, Edges, m
  <2> DEFINE At(k) == A \cup ((n.head .. e[k] - 1) \ blanks)
             Good == {k \in 0 .. m : n.head <= e[k] /\ Emitted(emitted[k], e[k], At(k))}
  <2>2. 0 \in Good
    <3>1. n.head .. e[0] - 1 = {} /\ n.head <= e[0] /\ 0 \in 0 .. m
      BY <1>1, <1>6, <2>1
    <3>2. At(0) = A
      BY <3>1
    <3> HIDE DEF At
    <3> QED
      BY <1>7, <1>9, <2>1, <3>1, <3>2
  <2>3. \A k \in 1 .. m : k - 1 \in Good => k \in Good
    <3> SUFFICES ASSUME NEW k \in 1 .. m, k - 1 \in Good PROVE k \in Good
      OBVIOUS
    <3>1. k \in 0 .. m /\ k - 1 \in 0 .. m
      BY <1>6
    <3>2. PICK a \in Nat, b \in Nat : a = e[k - 1] /\ b = e[k]
      BY <2>1, <3>1
    <3>3. a <= b /\ spans[k] = <<a, b - 1>>
      BY <2>1, <3>2
    <3>4. n.head <= a /\ Emitted(emitted[k - 1], a, At(k - 1))
      BY <3>2
    <3>5. At(k - 1) \cup ((a .. b - 1) \ blanks) = At(k)
      <4>1. (n.head .. a - 1) \cup (a .. b - 1) = n.head .. b - 1
        BY <1>1, <3>3, <3>4
      <4> QED
        BY <3>2, <4>1
    <3> HIDE DEF At
    <3>6. Emitted(EmitSpan(emitted[k - 1], a, b - 1, name, blanks), b, At(k - 1) \cup ((a .. b - 1) \ blanks))
      BY <3>3, <3>4, EmitSpanIs
    <3>7. emitted[k] = EmitSpan(emitted[k - 1], a, b - 1, name, blanks)
      <4>1. spans[k][1] = a /\ spans[k][2] = b - 1
        BY <3>3
      <4> QED
        BY <1>7, <4>1
    <3>8. n.head <= b
      BY <1>1, <3>3, <3>4
    <3> QED
      BY <3>1, <3>2, <3>5, <3>6, <3>7, <3>8
  <2> HIDE DEF Good
  <2>4. \A k \in 0 .. m : k \in Good
    BY <1>6, <2>2, <2>3, UpTo
  <2>5. Emitted(emitted[m], e[m], At(m))
    <3>1. m \in 0 .. m
      BY <1>6
    <3> QED
      BY <2>4, <3>1 DEF Good
  <2>6. At(m) = A \cup ((n.head .. n.hi) \ blanks)
    <3>1. e[m] - 1 = n.hi
      BY <1>1, <2>1
    <3> QED
      BY <3>1
  <2> HIDE DEF At
  <2> QED
    BY <2>1, <2>5, <2>6
<1> QED
  BY <1>5, <1>8, <1>9 DEF T

(* A text that is moved.                                                     *)
LEMMA ShiftedTells ==
  ASSUME NEW text \in Seq(Int), NEW units \in SUBSET Nat, units = Range(text) \ {NoLine}, NEW by \in Nat
  PROVE  /\ ShiftedText(text, by) \in Seq(Int)
         /\ {u + by : u \in units} = Range(ShiftedText(text, by)) \ {NoLine}
<1> DEFINE s == ShiftedText(text, by)
<1>1. DOMAIN s = DOMAIN text /\ \A i \in DOMAIN text : s[i] = IF text[i] = NoLine THEN NoLine ELSE text[i] + by
  BY DEF ShiftedText
<1>2. \A i \in DOMAIN text : text[i] \in Int /\ (text[i] # NoLine => text[i] \in units)
  BY DEF Range
<1>3. NoLine \in Int /\ NoLine \notin Nat
  BY DEF NoLine
<1>4. s \in Seq(Int)
  <2>1. s \in [1 .. Len(text) -> Int]
    BY <1>1, <1>2, <1>3, LenProperties DEF ShiftedText
  <2> QED
    BY <2>1
<1> HIDE DEF s
<1>5. ASSUME NEW u \in units PROVE u + by \in Range(s) \ {NoLine}
  <2>1. PICK i \in DOMAIN text : text[i] = u /\ u # NoLine
    BY DEF Range
  <2>2. u + by \in Nat
    OBVIOUS
  <2> QED
    BY <1>1, <1>3, <2>1, <2>2 DEF Range
<1>6. ASSUME NEW v \in Range(s) \ {NoLine} PROVE v \in {u + by : u \in units}
  <2>1. PICK i \in DOMAIN s : s[i] = v
    BY DEF Range
  <2> QED
    BY <1>1, <1>2, <2>1
<1> QED
  BY <1>4, <1>5, <1>6 DEF s

(* A chunk that is moved from a script to the file.                          *)
ShiftedBy(r, c, tag) ==
  r = [ text |-> ShiftedText(c.text, tag - 1), units |-> {u + tag - 1 : u \in c.units},
        start |-> c.start + tag - 1, end |-> c.end + tag - 1,
        name |-> c.name, kind |-> c.kind, split |-> c.split ]

LEMMA ShiftedParts ==
  ASSUME NEW c \in AnyChunk, NEW tag, NEW r,
         r = [c EXCEPT !.start = @ + tag - 1, !.end = @ + tag - 1,
                       !.text = ShiftedText(@, tag - 1), !.units = {u + tag - 1 : u \in @}]
  PROVE  ShiftedBy(r, c, tag)
<1>1. c = [ text |-> c.text, units |-> c.units, start |-> c.start, end |-> c.end,
            name |-> c.name, kind |-> c.kind, split |-> c.split ]
  BY PartsOf
<1> QED
  BY <1>1 DEF ShiftedBy

LEMMA ShiftedChunk ==
  ASSUME NEW h \in Nat, NEW c \in Spanning, c.units \subseteq 1 .. h, NEW tag \in Nat, 1 <= tag, NEW r,
         ShiftedBy(r, c, tag)
  PROVE  /\ r \in Spanning /\ r.units \subseteq tag .. tag + h - 1
         /\ r.name = c.name /\ r.start = c.start + tag - 1 /\ r.end = c.end + tag - 1
         /\ r.units = {u + tag - 1 : u \in c.units} /\ r.text = ShiftedText(c.text, tag - 1)
<1> DEFINE shifted == {u + tag - 1 : u \in c.units}
           text == ShiftedText(c.text, tag - 1)
<1>1. /\ c \in AnyChunk /\ c.units \in SUBSET Nat /\ c.start \in Nat /\ c.end \in Nat
      /\ c.start <= c.end /\ \A u \in c.units : c.start <= u /\ u <= c.end
  BY SpanningParts
<1>2. /\ c.text \in Seq(Int) /\ c.name \in Labels /\ c.kind \in Labels /\ c.split \in BOOLEAN
      /\ c.units = Range(c.text) \ {NoLine}
  BY <1>1, PartsOf
<1>3. r = [ text |-> text, units |-> shifted, start |-> c.start + tag - 1, end |-> c.end + tag - 1,
            name |-> c.name, kind |-> c.kind, split |-> c.split ]
  BY DEF ShiftedBy
<1>4. tag - 1 \in Nat
  OBVIOUS
<1>5. text \in Seq(Int) /\ shifted = Range(text) \ {NoLine}
  <2>1. shifted = {u + (tag - 1) : u \in c.units}
    <3>1. \A u \in c.units : u + tag - 1 = u + (tag - 1)
      BY <1>1
    <3> QED
      BY <3>1
  <2> HIDE DEF shifted
  <2> QED
    BY <1>1, <1>2, <1>4, <2>1, ShiftedTells
<1>6. shifted \subseteq tag .. tag + h - 1 /\ shifted \in SUBSET Nat
  <2> SUFFICES ASSUME NEW u \in c.units PROVE u + tag - 1 \in tag .. tag + h - 1 /\ u + tag - 1 \in Nat
    OBVIOUS
  <2>1. u \in 1 .. h
    OBVIOUS
  <2> QED
    BY <2>1
<1>7. c.start + tag - 1 \in Nat /\ c.end + tag - 1 \in Nat /\ c.start + tag - 1 <= c.end + tag - 1
  BY <1>1
<1>8. ASSUME NEW v \in shifted PROVE c.start + tag - 1 <= v /\ v <= c.end + tag - 1
  <2>1. PICK u \in c.units : v = u + tag - 1
    OBVIOUS
  <2>2. u \in Nat /\ c.start <= u /\ u <= c.end
    BY <1>1
  <2> QED
    BY <1>1, <2>1, <2>2
<1> HIDE DEF shifted, text
<1>9. r \in AnyChunk
  <2>1. r \in Records
    BY <1>2, <1>3, <1>5, <1>6, <1>7 DEF Records
  <2>2. Tells(r)
    BY <1>3, <1>5 DEF Tells
  <2> QED
    BY <2>1, <2>2 DEF AnyChunk
<1>10. r \in Spanning
  <2>1. r.units = shifted /\ r.start = c.start + tag - 1 /\ r.end = c.end + tag - 1
    BY <1>3
  <2> QED
    BY <1>7, <1>8, <1>9, <2>1 DEF Spanning
<1> QED
  BY <1>3, <1>6, <1>10 DEF shifted, text

LEMMA RebaseShifts ==
  ASSUME NEW cs \in Seq(AnyChunk), NEW tag, NEW k \in DOMAIN cs
  PROVE  DOMAIN Rebase(cs, tag) = DOMAIN cs /\ ShiftedBy(Rebase(cs, tag)[k], cs[k], tag)
<1> DEFINE r == Rebase(cs, tag)
           c == cs[k]
<1>1. DOMAIN r = DOMAIN cs
  BY DEF Rebase
<1>2. r[k] = [c EXCEPT !.start = @ + tag - 1, !.end = @ + tag - 1,
                       !.text = ShiftedText(@, tag - 1), !.units = {u + tag - 1 : u \in @}]
  BY DEF Rebase
<1>3. c \in AnyChunk
  OBVIOUS
<1> HIDE DEF c, r
<1>4. ShiftedBy(r[k], c, tag)
  BY <1>2, <1>3, ShiftedParts
<1> QED
  BY <1>1, <1>4 DEF c, r

(* The chunks of a script, whose first line is that of the tag.              *)
LEMMA RebaseIs ==
  ASSUME NEW h \in Nat, NEW cs \in Seq(Upto(h)), NEW tag \in Nat, 1 <= tag
  PROVE  Rebase(cs, tag) \in Seq(Spanning) /\ Within(Rebase(cs, tag), tag .. tag + h - 1)
<1> DEFINE r == Rebase(cs, tag)
<1>1. DOMAIN cs = 1 .. Len(cs) /\ Len(cs) \in Nat
  BY LenProperties
<1>2. DOMAIN r = DOMAIN cs
  BY DEF Rebase
<1>3. ASSUME NEW k \in DOMAIN cs PROVE r[k] \in Spanning /\ r[k].units \subseteq tag .. tag + h - 1
  <2>1. cs[k] \in Spanning /\ cs[k].units \subseteq 1 .. h
    BY DEF Upto
  <2>2. cs \in Seq(AnyChunk)
    <3>1. Upto(h) \subseteq AnyChunk
      BY SpanningAny DEF Upto
    <3> QED
      BY <3>1, SeqOfMore
  <2>3. ShiftedBy(r[k], cs[k], tag)
    BY <2>2, RebaseShifts
  <2> HIDE DEF r
  <2> QED
    BY <2>1, <2>3, ShiftedChunk
<1>4. r \in [1 .. Len(cs) -> Spanning]
  <2>1. r = [k \in 1 .. Len(cs) |-> r[k]]
    BY <1>1 DEF Rebase
  <2> HIDE DEF r
  <2> QED
    BY <1>1, <1>3, <2>1
<1>5. r \in Seq(Spanning)
  <2> HIDE DEF r
  <2> QED
    BY <1>1, <1>4
<1>6. Within(r, tag .. tag + h - 1)
  BY <1>2, <1>3 DEF Within
<1> QED
  BY <1>5, <1>6

(* A block is put behind the chunks so far; what a script has no chunk for   *)
(* is passed over.                                                           *)
TextOf(n, blanks) == IF n.type = "script" THEN {} ELSE LinesOf(n) \ blanks

(* A block of a component adds its text, each line in one chunk, to the      *)
(* chunks of the blocks before it.                                           *)
LEMMA VueBlockIs ==
  ASSUME NEW cs \in Seq(Spanning), NEW n \in Nodes, n.lo = n.head, NEW blanks, NEW A
  PROVE  /\ VueBlock(cs, n, blanks) \in Seq(Spanning)
         /\ Emitted(cs, n.head, A) => Emitted(VueBlock(cs, n, blanks), n.hi + 1, A \cup TextOf(n, blanks))
<1> DEFINE script == IF n.type = "script" THEN TsSource(n.kids) ELSE <<>>
           name == IF n.type = "script" THEN "script" ELSE BlockName(n)
           r == VueBlock(cs, n, blanks)
<1>1. n.head \in Nat /\ n.hi \in Nat /\ 1 <= n.head /\ n.head <= n.hi /\ n.kids \in Seq(Nodes)
  BY NodeIs
<1>2. name \in Labels
  <2>1. "script" \in Labels /\ "template" \in Labels /\ "style" \in Labels /\ "" \in Labels
    BY DEF Labels, Literals
  <2> QED
    BY <2>1 DEF BlockName
<1>3. PICK h \in Nat : h = n.hi - n.head + 1
  <2>1. n.hi - n.head + 1 \in Nat
    BY <1>1
  <2> QED
    BY <2>1
<1>4. script \in Seq(Upto(h))
  <2>1. CASE n.type = "script"
    <3>1. \A k \in DOMAIN n.kids : n.kids[k].hi <= h
      <4> SUFFICES ASSUME NEW k \in DOMAIN n.kids PROVE n.kids[k].hi <= h
        OBVIOUS
      <4>1. n.kids[k] \in Nodes
        BY <1>1
      <4>2. n.kids[k].hi \in Nat
        BY <4>1, NodeIs
      <4>3. n.head + n.kids[k].hi - 1 <= n.hi
        BY <2>1, NodeIs
      <4> QED
        BY <1>1, <1>3, <4>2, <4>3
    <3>2. TsSource(n.kids) \in Seq(Upto(h))
      <4>1. TsSource(n.kids) \in Seq(Called(h, {m.type : m \in Range(n.kids)} \cup TsCalled))
        BY <1>1, <3>1, TsSourceIs
      <4> QED
        BY <4>1 DEF Called
    <3> QED
      BY <2>1, <3>2
  <2>2. CASE n.type # "script"
    BY <2>2
  <2> QED
    BY <2>1, <2>2
<1>5. CASE script # <<>>
  <2> DEFINE moved == Rebase(script, n.head)
  <2>1. n.type = "script"
    BY <1>5
  <2>2. r = cs \o moved
    BY <1>5 DEF VueBlock
  <2>3. TextOf(n, blanks) = {}
    BY <2>1 DEF TextOf
  <2> HIDE DEF script
  <2>4. moved \in Seq(Spanning) /\ Within(moved, n.head .. n.head + h - 1)
    BY <1>1, <1>4, RebaseIs
  <2> HIDE DEF moved, r
  <2>5. r \in Seq(Spanning)
    BY <2>2, <2>4, Joined
  <2>6. ASSUME Emitted(cs, n.head, A) PROVE Emitted(r, n.hi + 1, A)
    <3>1. Within(cs, 0 .. n.head - 1) /\ Once(cs, A) /\ A \subseteq 0 .. n.head - 1
      BY <2>6 DEF Emitted
    <3>2. (0 .. n.head - 1) \cup (n.head .. n.head + h - 1) = 0 .. n.hi + 1 - 1
          /\ (0 .. n.head - 1) \cap (n.head .. n.head + h - 1) = {}
      BY <1>1, <1>3
    <3>3. Within(r, 0 .. n.hi + 1 - 1)
      <4>1. Within(r, (0 .. n.head - 1) \cup (n.head .. n.head + h - 1))
        BY <2>2, <2>4, <3>1, WithinJoins
      <4> QED
        BY <3>2, <4>1
    <3>4. Once(moved, {})
      BY DEF Once
    <3>5. Once(r, A \cup {})
      <4>1. A \cap (n.head .. n.head + h - 1) = {} /\ {} \cap (0 .. n.head - 1) = {}
        BY <3>1, <3>2
      <4> QED
        BY <2>2, <2>4, <3>1, <3>4, <4>1, OnceJoins
    <3>6. A \cup {} = A
      OBVIOUS
    <3>8. A \subseteq 0 .. n.hi + 1 - 1
      BY <3>1, <3>2
    <3>7. Once(r, A)
      BY <3>5, <3>6
    <3> QED
      BY <1>1, <2>5, <3>3, <3>7, <3>8 DEF Emitted
  <2>7. A \cup TextOf(n, blanks) = A
    BY <2>3
  <2> QED
    BY <2>5, <2>6, <2>7 DEF r
<1>6. CASE script = <<>>
  <2>1. r = EmitElement(cs, n, name, blanks)
    BY <1>6 DEF VueBlock
  <2> HIDE DEF r, name
  <2>2. r \in Seq(Spanning)
    BY <1>2, <2>1, EmitElementIs
  <2>3. ASSUME Emitted(cs, n.head, A) PROVE Emitted(r, n.hi + 1, A \cup TextOf(n, blanks))
    <3>1. Emitted(r, n.hi + 1, A \cup ((n.head .. n.hi) \ blanks))
      BY <1>2, <2>1, <2>3, EmitElementIs
    <3>2. A \cup TextOf(n, blanks) \subseteq A \cup ((n.head .. n.hi) \ blanks)
      BY DEF TextOf, LinesOf
    <3>3. n.hi + 1 \in Nat /\ n.hi + 1 <= n.hi + 1
      BY <1>1
    <3> QED
      BY <3>1, <3>2, <3>3, EmittedMore
  <2> QED
    BY <2>2, <2>3 DEF r
<1> QED
  BY <1>5, <1>6

(* A text of lines of nodes falls back to the text as it is.                 *)
LEMMA OrFallbackOnce ==
  ASSUME NEW f, f.text \in Seq(Nodes), NEW made, NEW A, A \subseteq 1 .. TextHeight(f.text), Once(made, A)
  PROVE  Once(OrFallback(f, made), A)
<1>1. TextHeight(f.text) \in Nat
  BY HeightIs
<1>2. Once(FallbackChunks([l \in 1 .. TextHeight(f.text) |-> "text"]), 1 .. TextHeight(f.text))
  BY <1>1, WholeTextKept
<1>3. Once(FallbackChunks([l \in 1 .. TextHeight(f.text) |-> "text"]), A)
  BY <1>2 DEF Once
<1> QED
  BY <1>3 DEF OrFallback

(* The blocks of a component are one behind the other.                       *)
BlocksFollow(text) ==
  \A k \in DOMAIN text :
    /\ text[k].lo = text[k].head
    /\ \A j \in 1 .. k - 1 : text[j].hi < text[k].lo

(* What the blocks up to k have of text.                                     *)
TextUpTo(text, blanks, k) == UNION {TextOf(text[j], blanks) : j \in 1 .. k}

(* The chunks of a component as what follows from one block to the next.     *)
LEMMA BlocksRun ==
  ASSUME NEW f, f.text \in Seq(Nodes), BlocksFollow(f.text)
  PROVE  \E made \in [0 .. Len(f.text) -> Seq(Spanning)] :
           /\ made[0] = <<>>
           /\ \A k \in 1 .. Len(f.text) : made[k] = VueBlock(made[k - 1], f.text[k], f.blanks)
           /\ VueChunksOf(f) = OrFallback(f, made[Len(f.text)])
<1> DEFINE T == Seq(Spanning)
           text == f.text
           blanks == f.blanks
           m == Len(text)
           step == [k \in 1 .. m |-> [cs \in T |-> VueBlock(cs, text[k], blanks)]]
           Is(g) == g = [k \in 0 .. m |-> IF k = 0 THEN <<>> ELSE VueBlock(g[k - 1], text[k], blanks)]
           made == CHOOSE g : Is(g)
<1>1. m \in Nat /\ DOMAIN text = 1 .. m /\ \A k \in 1 .. m : text[k] \in Nodes /\ text[k].lo = text[k].head
  BY LenProperties DEF BlocksFollow
<1>2. VueChunksOf(f) = OrFallback(f, made[m])
  BY DEF VueChunksOf
<1> HIDE DEF m, text, blanks
<1>3. \A k \in 1 .. m : \A cs \in T : VueBlock(cs, text[k], blanks) \in T
  BY <1>1, VueBlockIs
<1>4. step \in [1 .. m -> [T -> T]]
  <2> HIDE DEF T
  <2> QED
    BY <1>3
<1>5. PICK g \in [0 .. m -> T] : Follows(g, m, <<>>, step)
  <2>1. <<>> \in T
    OBVIOUS
  <2> HIDE DEF T, step
  <2> QED
    BY <1>1, <1>4, <2>1, RecursionIsThere
<1>6. Is(g)
  <2>1. \A k \in 1 .. m : k - 1 \in 0 .. m /\ g[k - 1] \in T
    BY <1>1
  <2>2. \A k \in 1 .. m : g[k] = step[k][g[k - 1]]
    <3> HIDE DEF step
    <3> QED
      BY <1>5 DEF Follows
  <2>3. \A k \in 1 .. m : g[k] = VueBlock(g[k - 1], text[k], blanks)
    <3> HIDE DEF T
    <3> QED
      BY <2>1, <2>2
  <2>4. g[0] = <<>>
    BY <1>5 DEF Follows
  <2>5. \A k \in 0 .. m : g[k] = IF k = 0 THEN <<>> ELSE VueBlock(g[k - 1], text[k], blanks)
    <3>1. \A k \in 0 .. m : k = 0 \/ k \in 1 .. m
      BY <1>1
    <3> QED
      BY <2>3, <2>4, <3>1
  <2>6. g = [k \in 0 .. m |-> g[k]]
    OBVIOUS
  <2> QED
    BY <2>5, <2>6
<1>7. Is(made)
  <2> HIDE DEF Is
  <2> QED
    BY <1>6
<1> HIDE DEF made
<1>8. made[0] = <<>> /\ \A k \in 1 .. m : made[k] = VueBlock(made[k - 1], text[k], blanks)
  <2>1. \A k \in 0 .. m : made[k] = IF k = 0 THEN <<>> ELSE VueBlock(made[k - 1], text[k], blanks)
    BY <1>7
  <2>2. 0 \in 0 .. m /\ \A k \in 1 .. m : k \in 0 .. m /\ k # 0
    BY <1>1
  <2> HIDE DEF Is
  <2> QED
    BY <2>1, <2>2
<1>9. made \in [0 .. m -> T]
  <2> DEFINE Good == {k \in 0 .. m : made[k] \in T}
  <2>0. <<>> \in T
    OBVIOUS
  <2>1. 0 \in Good
    <3> HIDE DEF T, Is, step
    <3> QED
      BY <1>1, <1>8, <2>0
  <2>2. \A k \in 1 .. m : k - 1 \in Good => k \in Good
    <3> HIDE DEF T, Is, step
    <3> QED
      BY <1>1, <1>3, <1>8
  <2> HIDE DEF Good
  <2>3. \A k \in 0 .. m : k \in Good
    BY <1>1, <2>1, <2>2, UpTo
  <2>4. made = [k \in 0 .. m |-> made[k]]
    <3>1. made = [k \in 0 .. m |-> IF k = 0 THEN <<>> ELSE VueBlock(made[k - 1], text[k], blanks)]
      BY <1>7 DEF Is
    <3> QED
      BY <3>1
  <2> QED
    BY <2>3, <2>4 DEF Good
<1> HIDE DEF Is, step
<1> QED
  BY <1>2, <1>8, <1>9 DEF m, text, blanks, T

(* All text of a component, but that of scripts, is in one chunk.            *)
LEMMA VueKept ==
  ASSUME NEW f, f.text \in Seq(Nodes), BlocksFollow(f.text)
  PROVE  /\ VueChunksOf(f) \in Seq(Spanning)
         /\ Once(VueChunksOf(f), LinesNotOf(f.text, {"script"}) \ f.blanks)
<1> DEFINE T == Seq(Spanning)
           text == f.text
           blanks == f.blanks
           m == Len(text)
<1>1. m \in Nat /\ DOMAIN text = 1 .. m /\ \A k \in 1 .. m : text[k] \in Nodes /\ text[k].lo = text[k].head
  BY LenProperties DEF BlocksFollow
<1>2. PICK made \in [0 .. m -> T] :
        /\ made[0] = <<>>
        /\ \A k \in 1 .. m : made[k] = VueBlock(made[k - 1], text[k], blanks)
        /\ VueChunksOf(f) = OrFallback(f, made[m])
  BY BlocksRun
<1>3. VueChunksOf(f) = OrFallback(f, made[m])
  BY <1>2
<1>4. made[0] = <<>> /\ \A k \in 1 .. m : made[k] = VueBlock(made[k - 1], text[k], blanks)
  BY <1>2
<1> HIDE DEF m, text, blanks
<1> DEFINE Behind(k, e) == \A j \in 1 .. k : text[j].hi < e
           Good == {k \in 0 .. m : made[k] \in T /\ \A e \in Nat : Behind(k, e) => Emitted(made[k], e, TextUpTo(text, blanks, k))}
<1>5. 0 \in Good
  <2>1. TextUpTo(text, blanks, 0) = {}
    BY DEF TextUpTo
  <2>2. \A e \in Nat : Emitted(<<>>, e, {})
    BY DEF Emitted, Within, Once
  <2>3. 0 \in 0 .. m /\ <<>> \in T
    BY <1>1
  <2> QED
    BY <1>4, <2>1, <2>2, <2>3
<1>6. \A k \in 1 .. m : k - 1 \in Good => k \in Good
  <2> SUFFICES ASSUME NEW k \in 1 .. m, k - 1 \in Good PROVE k \in Good
    OBVIOUS
  <2> DEFINE n == text[k]
             A == TextUpTo(text, blanks, k - 1)
  <2>1. made[k - 1] \in T /\ \A e \in Nat : Behind(k - 1, e) => Emitted(made[k - 1], e, A)
    OBVIOUS
  <2>2. n \in Nodes /\ n.lo = n.head /\ n.head \in Nat /\ n.hi \in Nat /\ made[k] = VueBlock(made[k - 1], n, blanks)
    BY <1>1, <1>4, NodeIs
  <2>3. Behind(k - 1, n.head)
    BY <1>1, <2>2 DEF BlocksFollow, text
  <2>4. Emitted(made[k - 1], n.head, A)
    BY <2>1, <2>2, <2>3
  <2>5. TextUpTo(text, blanks, k) = A \cup TextOf(n, blanks)
    <3>1. \A j \in 1 .. k : j = k \/ j \in 1 .. k - 1
      BY <1>1
    <3>2. \A j \in 1 .. k - 1 : j \in 1 .. k
      BY <1>1
    <3>3. k \in 1 .. k
      BY <1>1
    <3> QED
      BY <3>1, <3>2, <3>3 DEF TextUpTo
  <2> HIDE DEF A, n
  <2>6. made[k] \in T /\ Emitted(made[k], n.hi + 1, A \cup TextOf(n, blanks))
    BY <2>1, <2>2, <2>4, VueBlockIs
  <2>7. ASSUME NEW e \in Nat, Behind(k, e) PROVE Emitted(made[k], e, A \cup TextOf(n, blanks))
    <3>1. n.hi < e
      <4>1. k \in 1 .. k
        BY <1>1
      <4> QED
        BY <2>7, <4>1 DEF n
    <3>2. n.hi + 1 \in Nat /\ n.hi + 1 <= e
      BY <2>2, <3>1
    <3> QED
      BY <2>6, <3>2, EmittedMore
  <2>8. k \in 0 .. m
    BY <1>1
  <2> HIDE DEF Behind, T
  <2> QED
    BY <2>5, <2>6, <2>7, <2>8
<1>7. m \in Good
  <2> HIDE DEF Good
  <2>1. \A k \in 0 .. m : k \in Good
    BY <1>1, <1>5, <1>6, UpTo
  <2> QED
    BY <1>1, <2>1
<1>8. TextHeight(text) \in Nat /\ LinesOfAll(text) \subseteq 1 .. TextHeight(text)
       /\ \A k \in 1 .. m : text[k].hi <= TextHeight(text)
  BY <1>1, HeightIs DEF text
<1>9. PICK e \in Nat : e = TextHeight(text) + 1
  BY <1>8
<1>10. Behind(m, e)
  <2>1. \A k \in 1 .. m : text[k].hi \in Nat
    BY <1>1, NodeIs
  <2> QED
    BY <1>8, <1>9, <2>1
<1>11. Emitted(made[m], e, TextUpTo(text, blanks, m))
  BY <1>7, <1>10
<1>12. LinesNotOf(text, {"script"}) \ blanks \subseteq TextUpTo(text, blanks, m)
  BY <1>1 DEF LinesNotOf, TextUpTo, TextOf
<1>13. Once(made[m], LinesNotOf(text, {"script"}) \ blanks)
  BY <1>11, <1>12 DEF Emitted, Once
<1>14. LinesNotOf(text, {"script"}) \ blanks \subseteq 1 .. TextHeight(text)
  BY <1>8 DEF LinesNotOf, LinesOfAll
<1>15. Once(OrFallback(f, made[m]), LinesNotOf(text, {"script"}) \ blanks)
  BY <1>13, <1>14, OrFallbackOnce DEF text
<1>16. OrFallback(f, made[m]) \in Seq(Spanning)
  BY <1>7, OrFallbackIs DEF text
<1> QED
  BY <1>3, <1>15, <1>16 DEF text, blanks

-----------------------------------------------------------------------------
(* Templates: lists of chunks, one behind the other.                         *)

(* Lists put together one after the other.                                   *)
Grows(g, seqs, n) == g[0] = <<>> /\ \A k \in 1 .. n : g[k] = g[k - 1] \o seqs[k]

(* Flattening as putting one list after the other behind what there is.      *)
LEMMA FlattenGrows ==
  ASSUME NEW T, NEW n \in Nat, NEW seqs \in [1 .. n -> Seq(T)]
  PROVE  \E g \in [0 .. n -> Seq(T)] : Grows(g, seqs, n) /\ FlattenSeq(seqs) = g[n]
<1>1. Len(seqs) = n
  OBVIOUS
<1>2. CASE n = 0
  <2> DEFINE g == [k \in 0 .. 0 |-> <<>>]
  <2>1. seqs = <<>>
    BY <1>2
  <2>2. FlattenSeq(seqs) = seqs
    BY <1>1, <1>2 DEF FlattenSeq
  <2>3. g \in [0 .. n -> Seq(T)] /\ g[0] = <<>> /\ 1 .. n = {}
    BY <1>2
  <2> HIDE DEF g
  <2> QED
    BY <1>2, <2>1, <2>2, <2>3 DEF Grows
<1>3. CASE n # 0
  <2> DEFINE flat == CHOOSE g : IsFlat(g, seqs, n)
  <2>1. FlattenSeq(seqs) = flat[n]
    BY <1>1, <1>3 DEF FlattenSeq, IsFlat
  <2>2. PICK h \in [1 .. n -> Seq(T)] : IsFlat(h, seqs, n)
    BY FlatIsThere
  <2>3. IsFlat(flat, seqs, n)
    BY <2>2
  <2> HIDE DEF flat
  <2>4. \A i \in 1 .. n : flat[i] = IF i = 1 THEN seqs[i] ELSE flat[i - 1] \o seqs[i]
    BY <2>3 DEF IsFlat
  <2> DEFINE g == [k \in 0 .. n |-> IF k = 0 THEN <<>> ELSE flat[k]]
  <2>5. g[0] = <<>> /\ \A k \in 1 .. n : g[k] = flat[k]
    <3>1. 0 \in 0 .. n /\ \A k \in 1 .. n : k \in 0 .. n /\ k # 0
      OBVIOUS
    <3> QED
      BY <3>1
  <2>6. \A k \in 1 .. n : k # 1 => k - 1 \in 1 .. n
    OBVIOUS
  <2>7. \A k \in 1 .. n : g[k] = g[k - 1] \o seqs[k]
    <3> SUFFICES ASSUME NEW k \in 1 .. n PROVE g[k] = g[k - 1] \o seqs[k]
      OBVIOUS
    <3>1. CASE k = 1
      <4>1. g[k] = seqs[1] /\ g[k - 1] = <<>>
        BY <2>4, <2>5, <3>1
      <4>2. seqs[1] \in Seq(T)
        BY <3>1
      <4> HIDE DEF g
      <4>3. <<>> \o seqs[1] = seqs[1]
        BY <4>2, ConcatEmptySeq
      <4> QED
        BY <3>1, <4>1, <4>3
    <3>2. CASE k # 1
      <4>1. g[k] = flat[k] /\ g[k - 1] = flat[k - 1]
        BY <2>5, <2>6, <3>2
      <4> HIDE DEF g
      <4> QED
        BY <2>4, <3>2, <4>1
    <3> QED
      BY <3>1, <3>2
  <2> DEFINE Q == {k \in 0 .. n : g[k] \in Seq(T)}
  <2>8. DOMAIN g = 0 .. n /\ g = [k \in 0 .. n |-> g[k]]
    OBVIOUS
  <2> HIDE DEF g
  <2>9. 0 \in Q
    <3>1. 0 \in 0 .. n /\ <<>> \in Seq(T)
      OBVIOUS
    <3> QED
      BY <2>5, <3>1
  <2>10. \A k \in 1 .. n : k - 1 \in Q => k \in Q
    <3> SUFFICES ASSUME NEW k \in 1 .. n, k - 1 \in Q PROVE k \in Q
      OBVIOUS
    <3>1. g[k - 1] \in Seq(T) /\ seqs[k] \in Seq(T)
      OBVIOUS
    <3>2. g[k - 1] \o seqs[k] \in Seq(T)
      BY <3>1, ConcatProperties
    <3>3. k \in 0 .. n
      OBVIOUS
    <3> QED
      BY <2>7, <3>2, <3>3
  <2>11. \A k \in 0 .. n : g[k] \in Seq(T)
    <3> HIDE DEF Q
    <3>1. \A k \in 0 .. n : k \in Q
      BY <2>9, <2>10, UpTo
    <3> QED
      BY <3>1 DEF Q
  <2>12. g \in [0 .. n -> Seq(T)]
    BY <2>8, <2>11
  <2>13. g[n] = flat[n]
    <3>1. n \in 1 .. n
      BY <1>3
    <3> QED
      BY <2>5, <3>1
  <2> QED
    BY <2>1, <2>5, <2>7, <2>12, <2>13 DEF Grows
<1> QED
  BY <1>2, <1>3

(* Every unit of some part is in the whole.                                  *)
LEMMA SomewhereOfAll ==
  ASSUME NEW T, NEW n \in Nat, NEW seqs \in [1 .. n -> Seq(T)], NEW A,
         \A u \in A : \E k \in 1 .. n : Somewhere(seqs[k], {u})
  PROVE  FlattenSeq(seqs) \in Seq(T) /\ Somewhere(FlattenSeq(seqs), A)
<1>1. PICK g \in [0 .. n -> Seq(T)] : Grows(g, seqs, n) /\ FlattenSeq(seqs) = g[n]
  BY FlattenGrows
<1>2. g[0] = <<>> /\ \A k \in 1 .. n : g[k] = g[k - 1] \o seqs[k]
  BY <1>1 DEF Grows
<1> DEFINE Of(k) == {u \in A : \E j \in 1 .. k : Somewhere(seqs[j], {u})}
           Q == {k \in 0 .. n : Somewhere(g[k], Of(k))}
<1>3. 0 \in Q
  <2>1. Of(0) = {}
    OBVIOUS
  <2> QED
    BY <2>1 DEF Somewhere
<1>4. \A k \in 1 .. n : k - 1 \in Q => k \in Q
  <2> SUFFICES ASSUME NEW k \in 1 .. n, k - 1 \in Q PROVE k \in Q
    OBVIOUS
  <2>1. k - 1 \in 0 .. n /\ k \in 0 .. n
    OBVIOUS
  <2>2. g[k - 1] \in Seq(T) /\ seqs[k] \in Seq(T)
    BY <2>1
  <2>3. Somewhere(g[k - 1], Of(k - 1))
    OBVIOUS
  <2>4. ASSUME NEW u \in Of(k) PROVE \E j \in DOMAIN g[k] : u \in g[k][j].units
    <3>1. CASE u \in Of(k - 1)
      <4>1. Somewhere(seqs[k], {})
        BY DEF Somewhere
      <4>2. Somewhere(g[k - 1] \o seqs[k], Of(k - 1) \cup {})
        <5> HIDE DEF Of
        <5> QED
          BY <2>2, <2>3, <4>1, SomewhereJoins
      <4> HIDE DEF Of
      <4> QED
        BY <1>2, <3>1, <4>2 DEF Somewhere
    <3>2. CASE Somewhere(seqs[k], {u})
      <4>1. Somewhere(g[k - 1] \o seqs[k], Of(k - 1) \cup {u})
        <5> HIDE DEF Of
        <5> QED
          BY <2>2, <2>3, <3>2, SomewhereJoins
      <4> HIDE DEF Of
      <4> QED
        BY <1>2, <4>1 DEF Somewhere
    <3>3. \A j \in 1 .. k : j = k \/ j \in 1 .. k - 1
      OBVIOUS
    <3> QED
      BY <3>1, <3>2, <3>3
  <2> HIDE DEF Of
  <2>5. Somewhere(g[k], Of(k))
    BY <2>4 DEF Somewhere
  <2> QED
    BY <2>1, <2>5
<1>5. Somewhere(g[n], Of(n))
  <2> HIDE DEF Q
  <2>1. \A k \in 0 .. n : k \in Q
    BY <1>3, <1>4, UpTo
  <2> HIDE DEF Of
  <2>2. n \in 0 .. n
    OBVIOUS
  <2> QED
    BY <2>1, <2>2 DEF Q
<1>6. A \subseteq Of(n)
  OBVIOUS
<1> HIDE DEF Of
<1> QED
  BY <1>1, <1>5, <1>6 DEF Somewhere

(* The chunks of the units from a to the unit before b: all but the blanks,  *)
(* each in one chunk.                                                        *)
Kept(cs, a, b, blanks) ==
  a <= b /\ Within(cs, a .. b - 1) /\ Once(cs, (a .. b - 1) \ blanks)

(* Chunks of neighbouring units, put together.                               *)
LEMMA KeptJoins ==
  ASSUME NEW T, NEW cs \in Seq(T), NEW ds \in Seq(T), NEW a \in Nat, NEW b \in Nat, NEW c \in Nat, NEW blanks,
         Kept(cs, a, b, blanks), Kept(ds, b, c, blanks)
  PROVE  Kept(cs \o ds, a, c, blanks)
<1>1. a <= b /\ b <= c /\ a <= c
  BY DEF Kept
<1>2. (a .. b - 1) \cup (b .. c - 1) = a .. c - 1 /\ (a .. b - 1) \cap (b .. c - 1) = {}
  BY <1>1
<1> DEFINE A == (a .. b - 1) \ blanks
           B == (b .. c - 1) \ blanks
<1>3. A \cup B = (a .. c - 1) \ blanks /\ A \cap (b .. c - 1) = {} /\ B \cap (a .. b - 1) = {}
  BY <1>2
<1>4. Within(cs, a .. b - 1) /\ Within(ds, b .. c - 1) /\ Once(cs, A) /\ Once(ds, B)
  BY DEF Kept
<1> HIDE DEF A, B
<1>5. Once(cs \o ds, A \cup B)
  BY <1>3, <1>4, OnceJoins
<1>6. Within(cs \o ds, (a .. b - 1) \cup (b .. c - 1))
  BY <1>4, WithinJoins
<1> QED
  BY <1>1, <1>2, <1>3, <1>5, <1>6 DEF Kept

(* No units, no chunks.                                                      *)
LEMMA KeptNone ==
  ASSUME NEW a \in Nat, NEW blanks
  PROVE  Kept(<<>>, a, a, blanks)
<1>1. a .. a - 1 = {} /\ a <= a
  OBVIOUS
<1> QED
  BY <1>1 DEF Kept, Within, Once

(* Parts that are one behind the other are kept together.                    *)
LEMMA KeptOfAll ==
  ASSUME NEW T, NEW n \in Nat, NEW seqs \in [1 .. n -> Seq(T)], NEW blanks, NEW e \in [0 .. n -> Nat],
         \A k \in 1 .. n : Kept(seqs[k], e[k - 1], e[k], blanks)
  PROVE  Kept(FlattenSeq(seqs), e[0], e[n], blanks)
<1>1. PICK g \in [0 .. n -> Seq(T)] : Grows(g, seqs, n) /\ FlattenSeq(seqs) = g[n]
  BY FlattenGrows
<1>2. g[0] = <<>> /\ \A k \in 1 .. n : g[k] = g[k - 1] \o seqs[k]
  BY <1>1 DEF Grows
<1> DEFINE Q == {k \in 0 .. n : Kept(g[k], e[0], e[k], blanks)}
<1>3. 0 \in Q
  <2>1. e[0] \in Nat /\ 0 \in 0 .. n
    OBVIOUS
  <2> QED
    BY <1>2, <2>1, KeptNone
<1>4. \A k \in 1 .. n : k - 1 \in Q => k \in Q
  <2> SUFFICES ASSUME NEW k \in 1 .. n, k - 1 \in Q PROVE k \in Q
    OBVIOUS
  <2>1. k - 1 \in 0 .. n /\ k \in 0 .. n /\ 0 \in 0 .. n
    OBVIOUS
  <2>2. g[k - 1] \in Seq(T) /\ seqs[k] \in Seq(T) /\ e[0] \in Nat /\ e[k - 1] \in Nat /\ e[k] \in Nat
    BY <2>1
  <2>3. Kept(g[k - 1], e[0], e[k - 1], blanks) /\ Kept(seqs[k], e[k - 1], e[k], blanks)
    OBVIOUS
  <2>4. Kept(g[k - 1] \o seqs[k], e[0], e[k], blanks)
    BY <2>2, <2>3, KeptJoins
  <2> QED
    BY <1>2, <2>1, <2>4
<1> HIDE DEF Q
<1>5. \A k \in 0 .. n : k \in Q
  BY <1>3, <1>4, UpTo
<1> QED
  BY <1>1, <1>5 DEF Q

-----------------------------------------------------------------------------
(* Templates: how a block is cut.                                            *)

(* A unit of a template, the names a chunk of one may have, and a block of   *)
(* the parse.                                                                *)
BladeUnit == [name : STRING, args : Nat, spans : Nat]
BladeNames == Named \cup {""}
BlockType == [name : STRING, start : Nat, end : Nat, parent : Nat, label : BladeNames]

(* Blocks as the scan finds them: they start before they end, and a block is *)
(* found before the blocks in it.                                            *)
Proper(blocks) == blocks \in Seq(BlockType) /\ \A c \in DOMAIN blocks : 1 <= blocks[c].start /\ blocks[c].start < blocks[c].end

(* Blocks within the text and within the block around them, one behind the   *)
(* other.                                                                    *)
Nested(text, blocks) ==
  /\ \A c \in DOMAIN blocks :
       /\ blocks[c].end <= Len(text) + 1
       /\ blocks[c].parent # 0 =>
            /\ blocks[c].parent \in DOMAIN blocks
            /\ blocks[blocks[c].parent].start <= blocks[c].start
            /\ blocks[c].end <= blocks[blocks[c].parent].end
  /\ \A c, d \in DOMAIN blocks : c < d /\ blocks[c].parent = blocks[d].parent => blocks[c].end <= blocks[d].start

(* All chunks of a block: they hold its text, and when blocks are nested     *)
(* each unit is in one.                                                      *)
ChunksOfBlock(text, blocks, b, cs) ==
  /\ cs \in Seq(Spanning)
  /\ Somewhere(cs, (SpanStart(blocks, b) .. SpanEnd(text, blocks, b) - 1) \ BladeBlanks(text))
  /\ Nested(text, blocks) => Kept(cs, SpanStart(blocks, b), SpanEnd(text, blocks, b), BladeBlanks(text))

(* What emission makes of each block under each inherited name.              *)
ChunkLists(text, blocks) ==
  {f \in [0 .. Len(blocks) -> [BladeNames -> Seq(Spanning)]] :
     \A b \in 0 .. Len(blocks) : \A name \in BladeNames : ChunksOfBlock(text, blocks, b, f[b][name])}

(* What is in one chunk is in a chunk.                                       *)
LEMMA OnceSomewhere ==
  ASSUME NEW cs, NEW A, Once(cs, A)
  PROVE  Somewhere(cs, A)
BY DEF Once, Somewhere

(* The names of a template's chunks are labels.                              *)
LEMMA BladeNamesAre == BladeNames \subseteq Labels /\ "" \in BladeNames /\ "block" \in Labels /\ "section" \in Labels
BY DEF BladeNames, Named, Labels, Literals

(* A run of markup.                                                          *)
LEMMA MarkupIs ==
  ASSUME NEW text, NEW lo \in Nat, NEW hi \in Nat, NEW name \in BladeNames
  PROVE  /\ Markup(text, lo, hi, name) \in Seq(Spanning)
         /\ Somewhere(Markup(text, lo, hi, name), (lo .. hi - 1) \ BladeBlanks(text))
         /\ lo <= hi => Kept(Markup(text, lo, hi, name), lo, hi, BladeBlanks(text))
<1> DEFINE blanks == BladeBlanks(text)
           units == Strip(lo .. hi - 1, blanks)
           c == LineChunk(units, name, "block")
<1>1. Markup(text, lo, hi, name) = IfAny(units, c)
  BY DEF Markup
<1>2. hi - 1 \in Int
  OBVIOUS
<1>3. units \in SUBSET Nat /\ units \subseteq lo .. hi - 1 /\ (lo .. hi - 1) \ blanks \subseteq units
      /\ (units # {} => c \in Spanning /\ c.units = units)
  <2>1. name \in Labels /\ "block" \in Labels
    BY BladeNamesAre
  <2> HIDE DEF blanks
  <2>2. units \in SUBSET Nat /\ units \subseteq lo .. hi - 1 /\ (lo .. hi - 1) \ blanks \subseteq units
    BY <1>2, SpanUnits
  <2>3. ASSUME units # {} PROVE LineChunk(units, name, "block") \in Spanning /\ LineChunk(units, name, "block").units = units
    BY <1>2, <2>1, <2>3, SpanUnits
  <2> QED
    BY <2>2, <2>3
<1> HIDE DEF c, units, blanks
<1>4. IfAny(units, c) \in Seq(Spanning)
  BY <1>3, IfAnyKeeps
<1>5. Once(IfAny(units, c), (lo .. hi - 1) \ blanks) /\ Within(IfAny(units, c), lo .. hi - 1)
  <2>1. CASE units = {}
    <3>1. DOMAIN IfAny(units, c) = {} /\ (lo .. hi - 1) \ blanks = {}
      BY <1>3, <2>1, IfAnyKeeps
    <3> QED
      BY <3>1 DEF Once, Within
  <2>2. CASE units # {}
    <3>1. DOMAIN IfAny(units, c) = {1} /\ IfAny(units, c)[1] = c
      BY <1>3, <2>2, IfAnyKeeps
    <3> QED
      BY <1>3, <2>2, <3>1 DEF Once, Within
  <2> QED
    BY <2>1, <2>2
<1> QED
  BY <1>1, <1>4, <1>5, OnceSomewhere DEF Kept, blanks

(* A block that is not cut.                                                  *)
LEMMA WholeBlockIs ==
  ASSUME NEW text, NEW block \in BlockType, block.start < block.end, NEW name \in BladeNames
  PROVE  /\ <<WholeBlock(text, block, name)>> \in Seq(Spanning)
         /\ Somewhere(<<WholeBlock(text, block, name)>>, (block.start .. block.end - 1) \ BladeBlanks(text))
         /\ Kept(<<WholeBlock(text, block, name)>>, block.start, block.end, BladeBlanks(text))
<1> DEFINE blanks == BladeBlanks(text)
           units == Strip(block.start .. block.end - 1, blanks)
           kind == IF block.label # "" THEN "section" ELSE "block"
           c == WholeBlock(text, block, name)
<1>1. PICK a \in Nat, b \in Nat : a = block.start /\ b = block.end /\ a < b
  BY DEF BlockType
<1>2. b - 1 \in Nat /\ b - 1 \in a .. b - 1 /\ a .. b - 1 \subseteq 0 .. b - 1
  BY <1>1
<1>3. PICK m \in Nat : m = Max(a .. b - 1) /\ m = b - 1
  <2>1. Max(a .. b - 1) \in a .. b - 1 /\ \A x \in a .. b - 1 : x <= Max(a .. b - 1)
    BY <1>2, MaxIs
  <2>2. Max(a .. b - 1) = b - 1
    <3> DEFINE y == Max(a .. b - 1)
    <3>1. y \in a .. b - 1 /\ b - 1 <= y
      BY <1>2, <2>1
    <3> HIDE DEF y
    <3>2. y = b - 1
      BY <1>1, <3>1
    <3> QED
      BY <3>2 DEF y
  <2> QED
    BY <1>2, <2>2
<1>4. units \in SUBSET Nat /\ units \subseteq a .. b - 1 /\ (a .. b - 1) \ blanks \subseteq units
  BY <1>1, <1>2, SpanUnits
<1>5. name \in Labels /\ kind \in Labels
  BY BladeNamesAre
<1>6. c = Chunk(units, a, m, name, kind)
  BY <1>1, <1>3 DEF WholeBlock
<1> HIDE DEF c, units, kind
<1>7. a <= m /\ \A u \in units : a <= u /\ u <= m
  BY <1>1, <1>3, <1>4
<1>8. c \in Spanning /\ c.units = units
  BY <1>4, <1>5, <1>6, <1>7, ChunkType
<1> HIDE DEF blanks
<1>9. DOMAIN <<c>> = {1} /\ <<c>>[1] = c /\ <<c>> \in Seq(Spanning)
  BY <1>8
<1>10. Once(<<c>>, (a .. b - 1) \ blanks) /\ Within(<<c>>, a .. b - 1)
  BY <1>4, <1>8, <1>9 DEF Once, Within
<1>11. a <= b
  BY <1>1
<1> QED
  BY <1>1, <1>9, <1>10, <1>11, OnceSomewhere DEF Kept, blanks, c

(* The blocks in a block, in the order they were found.                      *)
LEMMA InsideIs ==
  ASSUME NEW blocks, Proper(blocks), NEW b
  PROVE  /\ Len(Inside(blocks, b)) \in Nat /\ DOMAIN Inside(blocks, b) = 1 .. Len(Inside(blocks, b))
         /\ \A k \in DOMAIN Inside(blocks, b) :
              Inside(blocks, b)[k] \in DOMAIN blocks /\ blocks[Inside(blocks, b)[k]].parent = b
         /\ \A i, j \in DOMAIN Inside(blocks, b) : i < j => Inside(blocks, b)[i] < Inside(blocks, b)[j]
<1> DEFINE S == {c \in DOMAIN blocks : blocks[c].parent = b}
<1>1. Len(blocks) \in Nat /\ DOMAIN blocks = 1 .. Len(blocks)
  BY LenProperties DEF Proper
<1>2. IsFiniteSet(S) /\ S \in SUBSET Nat
  <2>1. S \in SUBSET (1 .. Len(blocks))
    BY <1>1
  <2> HIDE DEF S
  <2> QED
    BY <1>1, <2>1, NumbersFinite
<1>3. Inside(blocks, b) = Ordered(S)
  BY DEF Inside
<1>4. \A c \in S : c \in DOMAIN blocks /\ blocks[c].parent = b
  OBVIOUS
<1> HIDE DEF S
<1>5. /\ Ordered(S) \in Seq(S) /\ DOMAIN Ordered(S) = 1 .. Len(Ordered(S)) /\ Len(Ordered(S)) \in Nat
      /\ \A i, j \in DOMAIN Ordered(S) : i < j => Ordered(S)[i] < Ordered(S)[j]
  BY <1>2, OrderedIs
<1>6. \A k \in DOMAIN Ordered(S) : Ordered(S)[k] \in S
  BY <1>5
<1> QED
  BY <1>3, <1>4, <1>5, <1>6

(* Where a block is; the template as a whole counts as block 0.              *)
LEMMA SpanIs ==
  ASSUME NEW text \in Seq(BladeUnit), NEW blocks, Proper(blocks), NEW b \in 0 .. Len(blocks)
  PROVE  /\ SpanStart(blocks, b) \in Nat /\ SpanEnd(text, blocks, b) \in Nat
         /\ SpanStart(blocks, b) <= SpanEnd(text, blocks, b)
         /\ b # 0 => b \in DOMAIN blocks /\ SpanStart(blocks, b) = blocks[b].start /\ SpanEnd(text, blocks, b) = blocks[b].end
         /\ b = 0 => SpanStart(blocks, b) = 1 /\ SpanEnd(text, blocks, b) = Len(text) + 1
<1>1. Len(blocks) \in Nat /\ DOMAIN blocks = 1 .. Len(blocks) /\ Len(text) \in Nat
  BY LenProperties DEF Proper
<1>2. CASE b = 0
  BY <1>1, <1>2 DEF SpanStart, SpanEnd
<1>3. CASE b # 0
  <2>1. b \in DOMAIN blocks
    BY <1>1, <1>3
  <2>2. blocks[b] \in BlockType /\ blocks[b].start < blocks[b].end
    BY <2>1 DEF Proper
  <2>3. blocks[b].start \in Nat /\ blocks[b].end \in Nat
    BY <2>2 DEF BlockType
  <2> QED
    BY <1>3, <2>1, <2>2, <2>3 DEF SpanStart, SpanEnd
<1> QED
  BY <1>2, <1>3

(* The chunks of a block that is in another: whole, or cut.                  *)
LEMMA InnerIs ==
  ASSUME NEW text \in Seq(BladeUnit), NEW blocks, Proper(blocks), NEW c \in DOMAIN blocks, NEW name \in BladeNames,
         NEW left \in Nat, NEW inner, left # 0 => inner \in ChunkLists(text, blocks)
  PROVE  LET cs == IF Descends(blocks, c, left) THEN inner[c][name] ELSE <<WholeBlock(text, blocks[c], name)>>
         IN  ChunksOfBlock(text, blocks, c, cs)
<1>1. c \in 0 .. Len(blocks) /\ c # 0
  BY LenProperties DEF Proper
<1>2. blocks[c] \in BlockType /\ blocks[c].start < blocks[c].end
  BY DEF Proper
<1>3. SpanStart(blocks, c) = blocks[c].start /\ SpanEnd(text, blocks, c) = blocks[c].end
  BY <1>1, SpanIs
<1>4. CASE Descends(blocks, c, left)
  <2>1. left # 0
    BY <1>4 DEF Descends
  <2>2. ChunksOfBlock(text, blocks, c, inner[c][name])
    BY <1>1, <2>1 DEF ChunkLists
  <2> QED
    BY <1>4, <2>2
<1>5. CASE ~Descends(blocks, c, left)
  <2>1. ChunksOfBlock(text, blocks, c, <<WholeBlock(text, blocks[c], name)>>)
    BY <1>2, <1>3, WholeBlockIs DEF ChunksOfBlock
  <2> QED
    BY <1>5, <2>1
<1> QED
  BY <1>4, <1>5

(* A block that is cut at the blocks in it.                                  *)
LEMMA CutBlockIs ==
  ASSUME NEW text \in Seq(BladeUnit), NEW blocks, Proper(blocks), NEW b \in 0 .. Len(blocks), NEW inherited \in BladeNames,
         NEW left \in Nat, NEW inner, left # 0 => inner \in ChunkLists(text, blocks)
  PROVE  ChunksOfBlock(text, blocks, b, CutBlock(text, blocks, b, inherited, left, inner))
<1> DEFINE kids == Inside(blocks, b)
           m == Len(kids)
           lo == SpanStart(blocks, b)
           hi == SpanEnd(text, blocks, b)
           blanks == BladeBlanks(text)
           cursor(k) == IF k = 1 THEN lo ELSE blocks[kids[k - 1]].end
           start(k) == blocks[kids[k]].start
           name(c) == IF blocks[c].label # "" THEN blocks[c].label ELSE inherited
           cut(k) == IF Descends(blocks, kids[k], left) THEN inner[kids[k]][name(kids[k])]
                     ELSE <<WholeBlock(text, blocks[kids[k]], name(kids[k]))>>
           piece(k) == Markup(text, cursor(k), start(k), inherited) \o cut(k)
           seqs == [k \in DOMAIN kids |-> piece(k)]
           flat == FlattenSeq(seqs)
           rest == Markup(text, cursor(m + 1), hi, inherited)
<1>1. CutBlock(text, blocks, b, inherited, left, inner) = flat \o rest
  BY DEF CutBlock
<1>2. /\ m \in Nat /\ DOMAIN kids = 1 .. m
      /\ \A k \in 1 .. m : kids[k] \in DOMAIN blocks /\ blocks[kids[k]].parent = b
      /\ \A i, j \in 1 .. m : i < j => kids[i] < kids[j]
  <2> HIDE DEF m
  <2>1. DOMAIN kids = 1 .. m
    BY InsideIs DEF m
  <2> QED
    BY <2>1, InsideIs DEF m
<1>3. lo \in Nat /\ hi \in Nat /\ lo <= hi
  BY SpanIs
<1> HIDE DEF kids, m
<1>4. ASSUME NEW k \in 1 .. m
      PROVE  /\ start(k) \in Nat /\ blocks[kids[k]].end \in Nat /\ start(k) < blocks[kids[k]].end /\ 1 <= start(k)
             /\ name(kids[k]) \in BladeNames /\ blocks[kids[k]] \in BlockType
  <2>1. blocks[kids[k]] \in BlockType /\ 1 <= start(k) /\ start(k) < blocks[kids[k]].end
    BY <1>2 DEF Proper
  <2>2. start(k) \in Nat /\ blocks[kids[k]].end \in Nat /\ blocks[kids[k]].label \in BladeNames
    BY <2>1 DEF BlockType
  <2> QED
    BY <2>1, <2>2
<1>5. cursor(1) = lo /\ \A k \in 1 .. m : cursor(k + 1) = blocks[kids[k]].end
  BY <1>2
<1>6. \A k \in 1 .. m + 1 : cursor(k) \in Nat
  <2> SUFFICES ASSUME NEW k \in 1 .. m + 1 PROVE cursor(k) \in Nat
    OBVIOUS
  <2>1. CASE k = 1
    BY <1>3, <2>1
  <2>2. CASE k # 1
    <3>1. k - 1 \in 1 .. m
      BY <1>2, <2>2
    <3> QED
      BY <1>4, <2>2, <3>1
  <2> QED
    BY <2>1, <2>2
<1> DEFINE end(k) == blocks[kids[k]].end
<1>7. ASSUME NEW k \in 1 .. m
      PROVE  /\ cut(k) \in Seq(Spanning)
             /\ Somewhere(cut(k), (start(k) .. end(k) - 1) \ blanks)
             /\ Nested(text, blocks) => Kept(cut(k), start(k), end(k), blanks)
  <2>1. kids[k] \in DOMAIN blocks /\ kids[k] \in 0 .. Len(blocks) /\ kids[k] # 0
    BY <1>2, LenProperties DEF Proper
  <2>2. SpanStart(blocks, kids[k]) = start(k) /\ SpanEnd(text, blocks, kids[k]) = end(k)
    BY <2>1, SpanIs
  <2>3. ChunksOfBlock(text, blocks, kids[k], cut(k))
    <3>1. name(kids[k]) \in BladeNames
      BY <1>4
    <3> HIDE DEF name
    <3> QED
      BY <2>1, <3>1, InnerIs
  <2> HIDE DEF cut, start, end
  <2> QED
    BY <2>2, <2>3 DEF ChunksOfBlock
<1> HIDE DEF cut
<1> DEFINE Region(k) == (cursor(k) .. start(k) - 1) \cup (start(k) .. end(k) - 1)
<1>8. ASSUME NEW k \in 1 .. m
      PROVE  /\ piece(k) \in Seq(Spanning)
             /\ Somewhere(piece(k), Region(k) \ blanks)
             /\ Nested(text, blocks) /\ cursor(k) <= start(k) => Kept(piece(k), cursor(k), end(k), blanks)
  <2> DEFINE before == Markup(text, cursor(k), start(k), inherited)
  <2>1. cursor(k) \in Nat /\ start(k) \in Nat /\ end(k) \in Nat
    <3>1. k \in 1 .. m + 1
      BY <1>2
    <3> QED
      BY <1>4, <1>6, <3>1
  <2>2. /\ before \in Seq(Spanning)
        /\ Somewhere(before, (cursor(k) .. start(k) - 1) \ blanks)
        /\ cursor(k) <= start(k) => Kept(before, cursor(k), start(k), blanks)
    <3> HIDE DEF cursor, start
    <3> QED
      BY <2>1, MarkupIs
  <2> HIDE DEF before, cursor, start, end, blanks
  <2>3. piece(k) = before \o cut(k)
    BY DEF before, start
  <2>4. piece(k) \in Seq(Spanning)
    BY <1>7, <2>2, <2>3, Joined
  <2>5. Somewhere(before \o cut(k), ((cursor(k) .. start(k) - 1) \ blanks) \cup ((start(k) .. end(k) - 1) \ blanks))
    BY <1>7, <2>2, SomewhereJoins
  <2>6. Somewhere(piece(k), Region(k) \ blanks)
    BY <2>3, <2>5 DEF Somewhere
  <2>7. Nested(text, blocks) /\ cursor(k) <= start(k) => Kept(piece(k), cursor(k), end(k), blanks)
    BY <1>7, <2>1, <2>2, <2>3, KeptJoins
  <2> QED
    BY <2>4, <2>6, <2>7
<1>9. seqs \in [1 .. m -> Seq(Spanning)] /\ \A k \in 1 .. m : seqs[k] = piece(k)
  <2> HIDE DEF piece
  <2> QED
    BY <1>2, <1>8
<1>10. rest \in Seq(Spanning) /\ Somewhere(rest, (cursor(m + 1) .. hi - 1) \ blanks)
       /\ (cursor(m + 1) <= hi => Kept(rest, cursor(m + 1), hi, blanks))
  <2>1. cursor(m + 1) \in Nat
    <3>1. m + 1 \in 1 .. m + 1
      BY <1>2
    <3> QED
      BY <1>6, <3>1
  <2> HIDE DEF cursor, hi
  <2> QED
    BY <1>3, <2>1, MarkupIs DEF hi
<1> HIDE DEF rest, piece, seqs
<1>11. flat \in Seq(Spanning)
  <2>1. seqs \in Seq(Seq(Spanning))
    BY <1>2, <1>9
  <2> QED
    BY <2>1, FlattenKeeps
<1>12. flat \o rest \in Seq(Spanning)
  BY <1>10, <1>11, Joined
<1> DEFINE all == (lo .. hi - 1) \ blanks
           A == {u \in all : \E k \in 1 .. m : u \in Region(k)}
<1>13. Somewhere(flat, A)
  <2>1. ASSUME NEW u \in A PROVE \E k \in 1 .. m : Somewhere(seqs[k], {u})
    <3>1. PICK k \in 1 .. m : u \in Region(k) /\ u \notin blanks
      OBVIOUS
    <3> HIDE DEF Region
    <3>2. Somewhere(seqs[k], Region(k) \ blanks)
      BY <1>8, <1>9
    <3>3. Somewhere(seqs[k], {u})
      BY <3>1, <3>2 DEF Somewhere
    <3> QED
      BY <3>3
  <2> HIDE DEF A
  <2> QED
    BY <1>2, <1>9, <2>1, SomewhereOfAll
<1>14. ASSUME NEW u \in all, u \notin A PROVE u \in (cursor(m + 1) .. hi - 1) \ blanks
  <2> DEFINE Q == {k \in 0 .. m : cursor(k + 1) <= u}
  <2>1. u \in Nat /\ lo <= u /\ u <= hi - 1 /\ u \notin blanks
    BY <1>3
  <2>2. 0 \in Q
    BY <1>2, <1>5, <2>1
  <2>0. \A k \in 1 .. m : k - 1 + 1 = k /\ k \in 0 .. m /\ k \in 1 .. m + 1
    BY <1>2
  <2>3. \A k \in 1 .. m : k - 1 \in Q => k \in Q
    <3> SUFFICES ASSUME NEW k \in 1 .. m, k - 1 \in Q PROVE k \in Q
      OBVIOUS
    <3>1. k - 1 + 1 = k /\ k \in 0 .. m /\ k \in 1 .. m + 1
      BY <2>0
    <3>2. cursor(k) <= u
      BY <3>1
    <3>3. u \notin Region(k)
      BY <1>14
    <3>4. cursor(k) \in Nat /\ start(k) \in Nat /\ end(k) \in Nat
      BY <1>4, <1>6, <3>1
    <3> HIDE DEF cursor, start, end
    <3>5. end(k) <= u
      BY <2>1, <3>2, <3>3, <3>4
    <3>6. cursor(k + 1) = end(k)
      BY <1>5 DEF end
    <3> QED
      BY <3>1, <3>5, <3>6
  <2> HIDE DEF Q
  <2>4. \A k \in 0 .. m : k \in Q
    BY <1>2, <2>2, <2>3, UpTo
  <2>5. cursor(m + 1) <= u
    <3>1. m \in 0 .. m
      BY <1>2
    <3> HIDE DEF cursor
    <3> QED
      BY <2>4, <3>1 DEF Q
  <2>6. cursor(m + 1) \in Nat
    <3>1. m + 1 \in 1 .. m + 1
      BY <1>2
    <3> QED
      BY <1>6, <3>1
  <2> HIDE DEF cursor
  <2> QED
    BY <1>3, <2>1, <2>5, <2>6
<1>15. Somewhere(flat \o rest, all)
  <2> DEFINE B == (cursor(m + 1) .. hi - 1) \ blanks
  <2>1. \A u \in all : u \in A \/ u \in B
    BY <1>14
  <2> HIDE DEF A, B, all
  <2>2. Somewhere(rest, B)
    BY <1>10 DEF B
  <2>3. Somewhere(flat \o rest, A \cup B)
    BY <1>10, <1>11, <1>13, <2>2, SomewhereJoins
  <2> QED
    BY <2>1, <2>3 DEF Somewhere
<1>16. ASSUME Nested(text, blocks) PROVE Kept(flat \o rest, lo, hi, blanks)
  <2>1. ASSUME NEW k \in 1 .. m PROVE lo <= start(k) /\ end(k) <= hi
    <3>1. kids[k] \in DOMAIN blocks /\ blocks[kids[k]].parent = b /\ start(k) \in Nat /\ 1 <= start(k)
      BY <1>2, <1>4
    <3>2. CASE b = 0
      <4>1. lo = 1 /\ hi = Len(text) + 1
        BY <3>2, SpanIs
      <4> QED
        BY <1>16, <3>1, <4>1 DEF Nested
    <3>3. CASE b # 0
      <4>1. lo = blocks[b].start /\ hi = blocks[b].end
        BY <3>3, SpanIs
      <4> QED
        BY <1>16, <3>1, <3>3, <4>1 DEF Nested
    <3> QED
      BY <3>2, <3>3
  <2>2. ASSUME NEW k \in 1 .. m PROVE cursor(k) <= start(k)
    <3>1. CASE k = 1
      BY <2>1, <3>1
    <3>2. CASE k # 1
      <4>1. k - 1 \in 1 .. m /\ k - 1 < k
        BY <1>2, <3>2
      <4>2. kids[k - 1] < kids[k] /\ kids[k - 1] \in DOMAIN blocks /\ kids[k] \in DOMAIN blocks
            /\ blocks[kids[k - 1]].parent = blocks[kids[k]].parent
        BY <1>2, <4>1
      <4>3. blocks[kids[k - 1]].end <= blocks[kids[k]].start
        BY <1>16, <4>2 DEF Nested
      <4> QED
        BY <3>2, <4>3
    <3> QED
      BY <3>1, <3>2
  <2> DEFINE e == [k \in 0 .. m |-> cursor(k + 1)]
  <2>3. e \in [0 .. m -> Nat] /\ e[0] = lo /\ e[m] = cursor(m + 1)
        /\ \A k \in 1 .. m : e[k - 1] = cursor(k) /\ e[k] = end(k)
    <3>1. \A k \in 0 .. m : k + 1 \in 1 .. m + 1
      BY <1>2
    <3>2. 0 \in 0 .. m /\ m \in 0 .. m /\ \A k \in 1 .. m : k - 1 \in 0 .. m /\ k \in 0 .. m /\ k - 1 + 1 = k
      BY <1>2
    <3>3. e \in [0 .. m -> Nat]
      <4> HIDE DEF cursor
      <4> QED
        BY <1>6, <3>1
    <3>4. e[0] = lo /\ e[m] = cursor(m + 1)
      <4>1. e[0] = cursor(1)
        BY <3>2
      <4> HIDE DEF cursor
      <4> QED
        BY <1>5, <3>2, <4>1
    <3>5. \A k \in 1 .. m : e[k - 1] = cursor(k) /\ e[k] = cursor(k + 1)
      <4> HIDE DEF cursor
      <4> QED
        BY <3>2
    <3> HIDE DEF e, cursor
    <3> QED
      BY <1>5, <3>3, <3>4, <3>5
  <2> HIDE DEF e
  <2>4. \A k \in 1 .. m : Kept(seqs[k], e[k - 1], e[k], blanks)
    <3> HIDE DEF cursor, start, end, blanks
    <3> QED
      BY <1>8, <1>9, <1>16, <2>2, <2>3
  <2>5. Kept(flat, lo, cursor(m + 1), blanks)
    <3>1. Kept(flat, e[0], e[m], blanks)
      <4> HIDE DEF blanks
      <4> QED
        BY <1>2, <1>9, <2>3, <2>4, KeptOfAll
    <3> HIDE DEF cursor, flat
    <3> QED
      BY <2>3, <3>1
  <2>6. cursor(m + 1) <= hi /\ cursor(m + 1) \in Nat
    <3>1. CASE m = 0
      BY <1>3, <1>5, <3>1
    <3>2. CASE m # 0
      <4>1. m \in 1 .. m
        BY <1>2, <3>2
      <4> QED
        BY <1>4, <1>5, <2>1, <4>1
    <3> QED
      BY <3>1, <3>2
  <2> HIDE DEF cursor, flat, blanks, lo, hi
  <2>7. Kept(rest, cursor(m + 1), hi, blanks)
    BY <1>10, <2>6
  <2> QED
    BY <1>3, <1>10, <1>11, <2>5, <2>6, <2>7, KeptJoins
<1> HIDE DEF flat
<1> QED
  BY <1>1, <1>12, <1>15, <1>16 DEF ChunksOfBlock

(* However deep the blocks are cut.                                          *)
LEMMA EmitIs ==
  ASSUME NEW text \in Seq(BladeUnit), NEW blocks, Proper(blocks)
  PROVE  Emit(text, blocks) \in ChunkLists(text, blocks)
<1> DEFINE D == BladeDepth
           T == ChunkLists(text, blocks)
           onward(left, inner) == [b \in 0 .. Len(blocks) |-> [inherited \in BladeNames |->
                                   CutBlock(text, blocks, b, inherited, left, inner)]]
           step == [k \in 1 .. D |-> [inner \in T |-> onward(k, inner)]]
           Is(g) == g = [left \in 0 .. D |->
                           [b \in 0 .. Len(blocks) |-> [inherited \in BladeNames |->
                              CutBlock(text, blocks, b, inherited, left, IF left = 0 THEN <<>> ELSE g[left - 1])]]]
           emitted == CHOOSE g : Is(g)
<1>1. D \in Nat
  BY BoundsAre
<1>2. Emit(text, blocks) = emitted[D]
  BY DEF Emit, BladeNames
<1> HIDE DEF D
<1>3. ASSUME NEW left \in Nat, NEW inner, left # 0 => inner \in T PROVE onward(left, inner) \in T
  <2>1. \A b \in 0 .. Len(blocks) : \A name \in BladeNames :
          ChunksOfBlock(text, blocks, b, CutBlock(text, blocks, b, name, left, inner))
    BY <1>3, CutBlockIs
  <2>2. \A b \in 0 .. Len(blocks) : \A name \in BladeNames : CutBlock(text, blocks, b, name, left, inner) \in Seq(Spanning)
    BY <2>1 DEF ChunksOfBlock
  <2> QED
    BY <2>1, <2>2 DEF ChunkLists
<1>4. onward(0, <<>>) \in T
  <2> HIDE DEF onward, T
  <2> QED
    BY <1>3
<1>5. step \in [1 .. D -> [T -> T]]
  <2>1. \A k \in 1 .. D : \A inner \in T : onward(k, inner) \in T
    <3> HIDE DEF onward, T
    <3> QED
      BY <1>3
  <2> HIDE DEF onward, T
  <2> QED
    BY <2>1
<1> HIDE DEF T
<1>6. PICK g \in [0 .. D -> T] : Follows(g, D, onward(0, <<>>), step)
  <2> HIDE DEF onward, step
  <2> QED
    BY <1>1, <1>4, <1>5, RecursionIsThere
<1>7. Is(g)
  <2>1. \A k \in 1 .. D : k - 1 \in 0 .. D /\ g[k - 1] \in T
    BY <1>1
  <2>2. \A k \in 1 .. D : g[k] = onward(k, g[k - 1])
    <3>1. \A k \in 1 .. D : g[k] = step[k][g[k - 1]]
      <4> HIDE DEF step, onward
      <4> QED
        BY <1>6 DEF Follows
    <3> HIDE DEF onward
    <3> QED
      BY <2>1, <3>1
  <2>3. g[0] = onward(0, <<>>)
    <3> HIDE DEF step, onward
    <3> QED
      BY <1>6 DEF Follows
  <2>4. \A k \in 0 .. D : g[k] = onward(k, IF k = 0 THEN <<>> ELSE g[k - 1])
    <3> SUFFICES ASSUME NEW k \in 0 .. D PROVE g[k] = onward(k, IF k = 0 THEN <<>> ELSE g[k - 1])
      OBVIOUS
    <3> HIDE DEF onward
    <3>1. CASE k = 0
      BY <2>3, <3>1
    <3>2. CASE k # 0
      <4>1. k \in 1 .. D
        BY <1>1, <3>2
      <4> QED
        BY <2>2, <3>2, <4>1
    <3> QED
      BY <3>1, <3>2
  <2>5. g = [k \in 0 .. D |-> g[k]]
    OBVIOUS
  <2> QED
    BY <2>4, <2>5
<1>8. Is(emitted)
  <2> HIDE DEF Is
  <2> QED
    BY <1>7
<1> HIDE DEF emitted
<1>9. emitted[0] = onward(0, <<>>) /\ \A k \in 1 .. D : emitted[k] = onward(k, emitted[k - 1])
  <2>1. \A k \in 0 .. D : emitted[k] = onward(k, IF k = 0 THEN <<>> ELSE emitted[k - 1])
    BY <1>8
  <2>2. 0 \in 0 .. D /\ \A k \in 1 .. D : k \in 0 .. D /\ k # 0
    BY <1>1
  <2> HIDE DEF onward, Is
  <2>3. emitted[0] = onward(0, <<>>)
    BY <2>1, <2>2
  <2>4. ASSUME NEW k \in 1 .. D PROVE emitted[k] = onward(k, emitted[k - 1])
    BY <2>1, <2>2
  <2> QED
    BY <2>3, <2>4
<1> HIDE DEF onward, Is, step
<1> DEFINE Good == {k \in 0 .. D : emitted[k] \in T}
<1>10. 0 \in Good
  BY <1>1, <1>4, <1>9
<1>11. \A k \in 1 .. D : k - 1 \in Good => k \in Good
  <2> SUFFICES ASSUME NEW k \in 1 .. D, k - 1 \in Good PROVE k \in Good
    OBVIOUS
  <2>1. emitted[k - 1] \in T /\ k \in Nat /\ k \in 0 .. D
    BY <1>1
  <2>2. onward(k, emitted[k - 1]) \in T
    BY <1>3, <2>1
  <2> QED
    BY <1>9, <2>1, <2>2
<1>12. D \in Good
  <2> HIDE DEF Good
  <2>1. \A k \in 0 .. D : k \in Good
    BY <1>1, <1>10, <1>11, UpTo
  <2> QED
    BY <1>1, <2>1
<1> QED
  BY <1>2, <1>12 DEF T

-----------------------------------------------------------------------------
(* The scan of a template.                                                   *)
ScanType == [pos : Nat, stack : Seq(Nat), blocks : Seq(BlockType)]

(* What the scan does at a unit.                                             *)
ScanStep(text, st, p) ==
  IF p < st.pos \/ ~Directive(text[p]) THEN st
  ELSE IF text[p].name = "verbatim" THEN Verbatim(st, text, p)
  ELSE IF Closable(st, text[p]) # {} THEN Close(st, text, p)
  ELSE IF OpensBlock(text[p]) THEN Open(st, text, p)
  ELSE [st EXCEPT !.pos = After(text, p)]

(* A unit, and where the scan goes on behind it.                             *)
LEMMA UnitIs ==
  ASSUME NEW text \in Seq(BladeUnit), NEW p \in 1 .. Len(text)
  PROVE  /\ Len(text) \in Nat /\ text[p] \in BladeUnit /\ text[p].name \in STRING /\ text[p].spans \in Nat
         /\ p \in Nat /\ After(text, p) \in Nat /\ p < After(text, p)
<1>1. Len(text) \in Nat /\ text[p] \in BladeUnit
  BY LenProperties
<1>2. text[p].name \in STRING /\ text[p].spans \in Nat
  BY <1>1 DEF BladeUnit
<1> QED
  BY <1>1, <1>2 DEF After

(* A block the scan makes.                                                   *)
LEMMA BlockIs ==
  ASSUME NEW text \in Seq(BladeUnit), NEW p \in 1 .. Len(text), NEW end \in Nat, NEW parent \in Nat
  PROVE  LET b == Block(text[p], p, end, parent)
         IN  b \in BlockType /\ b.name = text[p].name /\ b.start = p /\ b.end = end /\ b.parent = parent
<1>1. text[p].name \in STRING /\ p \in Nat
  BY UnitIs
<1>2. \A name \in STRING : (IF name \in Named /\ text[p].args > 0 THEN name ELSE "") \in BladeNames
  BY DEF BladeNames
<1>3. (IF text[p].name \in Named /\ text[p].args > 0 THEN text[p].name ELSE "") \in BladeNames
  BY <1>1, <1>2
<1> DEFINE label == IF text[p].name \in Named /\ text[p].args > 0 THEN text[p].name ELSE ""
<1> HIDE DEF label
<1>4. Block(text[p], p, end, parent) = [name |-> text[p].name, start |-> p, end |-> end, parent |-> parent, label |-> label]
  BY DEF Block, label
<1>5. label \in BladeNames
  BY <1>3 DEF label
<1> QED
  BY <1>1, <1>4, <1>5 DEF BlockType

(* The innermost open block, and the ends a verbatim block may have.         *)
LEMMA InnermostIs ==
  ASSUME NEW st \in ScanType
  PROVE  /\ Innermost(st) \in Nat
         /\ st.stack = <<>> => Innermost(st) = 0
         /\ st.stack # <<>> => Len(st.stack) \in DOMAIN st.stack /\ Innermost(st) = st.stack[Len(st.stack)]
<1>1. st.stack \in Seq(Nat)
  BY DEF ScanType
<1>2. CASE st.stack = <<>>
  BY <1>2 DEF Innermost
<1>3. CASE st.stack # <<>>
  <2>1. PICK n \in Nat : n = Len(st.stack) /\ n # 0 /\ DOMAIN st.stack = 1 .. n
    BY <1>1, <1>3, EmptySeq, LenProperties
  <2>2. n \in DOMAIN st.stack /\ st.stack[n] \in Nat
    BY <1>1, <2>1
  <2> QED
    BY <1>3, <2>1, <2>2 DEF Innermost, Last
<1> QED
  BY <1>2, <1>3

(* Where a verbatim block ends.                                              *)
VerbatimEnd(text, p) ==
  LET ends == {q \in After(text, p) .. Len(text) : text[q].name = "endverbatim"}
  IN  IF ends = {} THEN Len(text) + 1 ELSE Min(ends) + 1

(* A verbatim block ends behind its start and within the text.               *)
LEMMA VerbatimEndIs ==
  ASSUME NEW text \in Seq(BladeUnit), NEW p \in 1 .. Len(text)
  PROVE  VerbatimEnd(text, p) \in Nat /\ p < VerbatimEnd(text, p) /\ VerbatimEnd(text, p) <= Len(text) + 1
<1> DEFINE ends == {q \in After(text, p) .. Len(text) : text[q].name = "endverbatim"}
<1>1. Len(text) \in Nat /\ p \in Nat /\ After(text, p) \in Nat /\ p < After(text, p)
  BY UnitIs
<1>2. CASE ends = {}
  BY <1>1, <1>2 DEF VerbatimEnd
<1>3. CASE ends # {}
  <2>1. ends \in SUBSET Nat /\ \A q \in ends : p < q /\ q <= Len(text)
    BY <1>1
  <2>2. Min(ends) \in ends
    <3> HIDE DEF ends
    <3> QED
      BY <1>3, <2>1, MinIs
  <2>3. PICK q \in Nat : q = Min(ends) /\ p < q /\ q <= Len(text)
    BY <2>1, <2>2
  <2>4. VerbatimEnd(text, p) = q + 1
    BY <1>3, <2>3 DEF VerbatimEnd
  <2> QED
    BY <1>1, <2>3, <2>4
<1> QED
  BY <1>2, <1>3

-----------------------------------------------------------------------------
(* Templates: the scan for blocks.                                           *)

(* The blocks found up to unit p start there.                                *)
Found(st, p) ==
  \A c \in DOMAIN st.blocks :
    1 <= st.blocks[c].start /\ st.blocks[c].start <= p /\ st.blocks[c].start < st.blocks[c].end

(* Blocks on the stack are open to the end of the text, each in the one      *)
(* below; all others end before the scan goes on, and within their parents.  *)
Nest(text, st) ==
  /\ st.pos <= Len(text) + 1
  /\ \A e \in DOMAIN st.stack :
       /\ st.stack[e] \in DOMAIN st.blocks
       /\ st.blocks[st.stack[e]].end = Len(text) + 1
       /\ st.blocks[st.stack[e]].parent = IF e = 1 THEN 0 ELSE st.stack[e - 1]
  /\ \A e, f \in DOMAIN st.stack : e < f => st.stack[e] < st.stack[f]
  /\ \A c \in DOMAIN st.blocks :
       /\ (\E e \in DOMAIN st.stack : st.stack[e] = c) \/ st.blocks[c].end <= st.pos
       /\ st.blocks[c].parent < c
       /\ st.blocks[c].parent # 0 =>
            /\ st.blocks[st.blocks[c].parent].start <= st.blocks[c].start
            /\ st.blocks[c].end <= st.blocks[st.blocks[c].parent].end
  /\ \A i, j \in DOMAIN st.blocks : i < j /\ st.blocks[i].parent = st.blocks[j].parent =>
       /\ \A e \in DOMAIN st.stack : st.stack[e] # i
       /\ st.blocks[i].end <= st.blocks[j].start

(* No directive has arguments that span others.                              *)
Plain(text) == \A u \in DOMAIN text : text[u].spans = 0

(* What holds after unit p: the invariant of the scan.                       *)
ScanOk(text, st, p) == st \in ScanType /\ Found(st, p) /\ (Plain(text) => Nest(text, st))

(* The parts of the scan's state.                                            *)
LEMMA ScanIs ==
  ASSUME NEW st \in ScanType
  PROVE  /\ st.pos \in Nat /\ st.stack \in Seq(Nat) /\ st.blocks \in Seq(BlockType)
         /\ Len(st.stack) \in Nat /\ DOMAIN st.stack = 1 .. Len(st.stack)
         /\ Len(st.blocks) \in Nat /\ DOMAIN st.blocks = 1 .. Len(st.blocks)
         /\ \A c \in DOMAIN st.blocks : /\ st.blocks[c] \in BlockType /\ st.blocks[c].start \in Nat
                                        /\ st.blocks[c].end \in Nat /\ st.blocks[c].parent \in Nat
         /\ \A e \in DOMAIN st.stack : st.stack[e] \in Nat
<1>1. st.pos \in Nat /\ st.stack \in Seq(Nat) /\ st.blocks \in Seq(BlockType)
  BY DEF ScanType
<1>2. Len(st.stack) \in Nat /\ DOMAIN st.stack = 1 .. Len(st.stack)
      /\ Len(st.blocks) \in Nat /\ DOMAIN st.blocks = 1 .. Len(st.blocks)
  BY <1>1, LenProperties
<1>3. \A e \in DOMAIN st.stack : st.stack[e] \in Nat
  BY <1>1
<1>4. \A c \in DOMAIN st.blocks : st.blocks[c] \in BlockType
  BY <1>1
<1>5. \A b \in BlockType : b.start \in Nat /\ b.end \in Nat /\ b.parent \in Nat
  BY DEF BlockType
<1> QED
  BY <1>1, <1>2, <1>3, <1>4, <1>5

(* A block is found: it is put behind the others.                            *)
LEMMA AppendedIs ==
  ASSUME NEW T, NEW s \in Seq(T), NEW x \in T
  PROVE  /\ Append(s, x) \in Seq(T) /\ Len(s) \in Nat /\ DOMAIN s = 1 .. Len(s)
         /\ DOMAIN Append(s, x) = 1 .. Len(s) + 1 /\ Append(s, x)[Len(s) + 1] = x
         /\ \A k \in DOMAIN s : Append(s, x)[k] = s[k]
BY LenProperties, AppendProperties

(* The blocks open from level d of the stack on.                             *)
Inner(st, d) == {st.stack[e] : e \in d .. Len(st.stack)}

(* The scan goes from st to r: all from level d of the stack on are closed,  *)
(* and d is the last that unit p can close.                                  *)
ClosedDownTo(text, st, p, d, r) ==
  /\ \A e \in Closable(st, text[p]) : e <= d
  /\ r.pos = p + 1
  /\ DOMAIN r.stack = 1 .. d - 1 /\ \A e \in 1 .. d - 1 : r.stack[e] = st.stack[e]
  /\ DOMAIN r.blocks = DOMAIN st.blocks
  /\ \A b \in DOMAIN st.blocks :
       /\ r.blocks[b].name = st.blocks[b].name
       /\ r.blocks[b].start = st.blocks[b].start /\ r.blocks[b].parent = st.blocks[b].parent
       /\ r.blocks[b].end = IF b \in Inner(st, d) THEN After(text, p) ELSE st.blocks[b].end

(* What closing a block does.                                                *)
LEMMA CloseIs ==
  ASSUME NEW text \in Seq(BladeUnit), NEW st \in ScanType, NEW p \in 1 .. Len(text), Closable(st, text[p]) # {}
  PROVE  \E d \in DOMAIN st.stack : \E r \in ScanType :
           Close(st, text, p) = r /\ ClosedDownTo(text, st, p, d, r)
<1> DEFINE S == Closable(st, text[p])
           r == Close(st, text, p)
<1>1. /\ st.stack \in Seq(Nat) /\ st.blocks \in Seq(BlockType) /\ Len(st.stack) \in Nat /\ DOMAIN st.stack = 1 .. Len(st.stack)
      /\ Len(st.blocks) \in Nat /\ DOMAIN st.blocks = 1 .. Len(st.blocks)
      /\ \A c \in DOMAIN st.blocks : st.blocks[c] \in BlockType
  BY ScanIs
<1>2. PICK d \in 1 .. Len(st.stack) : d = Max(S) /\ \A e \in S : e <= d
  <2>1. S \in SUBSET (1 .. Len(st.stack)) /\ S \in SUBSET (0 .. Len(st.stack)) /\ S # {}
    BY <1>1 DEF Closable
  <2> HIDE DEF S
  <2>2. Max(S) \in S /\ \A e \in S : e <= Max(S)
    BY <1>1, <2>1, MaxIs
  <2> QED
    BY <2>1, <2>2
<1>3. /\ r.pos = p + 1 /\ r.stack = SubSeq(st.stack, 1, d - 1)
      /\ r.blocks = [b \in DOMAIN st.blocks |->
                       IF b \in Inner(st, d) THEN [st.blocks[b] EXCEPT !.end = After(text, p)] ELSE st.blocks[b]]
      /\ r = [pos |-> r.pos, stack |-> r.stack, blocks |-> r.blocks]
  BY <1>2 DEF Close, Inner
<1> HIDE DEF r, S
<1>4. r.stack \in Seq(Nat) /\ DOMAIN r.stack = 1 .. d - 1 /\ \A e \in 1 .. d - 1 : r.stack[e] = st.stack[e]
  <2>1. d - 1 \in Nat /\ d - 1 <= Len(st.stack) /\ \A e \in 1 .. d - 1 : e \in 1 .. Len(st.stack)
    BY <1>1, <1>2
  <2>2. \A e \in 1 .. d - 1 : st.stack[e] \in Nat
    BY <1>1, <2>1
  <2>3. SubSeq(st.stack, 1, d - 1) \in Seq(Nat) /\ Len(SubSeq(st.stack, 1, d - 1)) = d - 1
        /\ \A e \in 1 .. d - 1 : SubSeq(st.stack, 1, d - 1)[e] = st.stack[e]
    BY <1>1, <2>1, <2>2
  <2>4. DOMAIN SubSeq(st.stack, 1, d - 1) = 1 .. d - 1
    BY <2>3, LenProperties
  <2> QED
    BY <1>3, <2>3, <2>4
<1>5. \A b \in BlockType : \A end \in Nat :
        LET c == [b EXCEPT !.end = end]
        IN  c \in BlockType /\ c.name = b.name /\ c.start = b.start /\ c.parent = b.parent /\ c.end = end
  BY DEF BlockType
<1>6. After(text, p) \in Nat /\ p + 1 \in Nat
  BY UnitIs
<1>7. ASSUME NEW b \in DOMAIN st.blocks
      PROVE  /\ r.blocks[b] \in BlockType
             /\ r.blocks[b].name = st.blocks[b].name
             /\ r.blocks[b].start = st.blocks[b].start /\ r.blocks[b].parent = st.blocks[b].parent
             /\ r.blocks[b].end = IF b \in Inner(st, d) THEN After(text, p) ELSE st.blocks[b].end
  <2>1. st.blocks[b] \in BlockType
    BY <1>1
  <2>2. CASE b \in Inner(st, d)
    <3>1. r.blocks[b] = [st.blocks[b] EXCEPT !.end = After(text, p)]
      BY <1>3, <2>2
    <3> QED
      BY <1>5, <1>6, <2>1, <2>2, <3>1
  <2>3. CASE b \notin Inner(st, d)
    <3>1. r.blocks[b] = st.blocks[b]
      BY <1>3, <2>3
    <3> QED
      BY <2>1, <2>3, <3>1
  <2> QED
    BY <2>2, <2>3
<1>8. DOMAIN r.blocks = DOMAIN st.blocks /\ r.blocks = [b \in 1 .. Len(st.blocks) |-> r.blocks[b]]
  BY <1>1, <1>3
<1>9. r.blocks \in Seq(BlockType)
  <2> DEFINE bs == r.blocks
             m == Len(st.blocks)
  <2>1. \A b \in 1 .. m : bs[b] \in BlockType
    BY <1>1, <1>7
  <2>2. bs = [b \in 1 .. m |-> bs[b]] /\ m \in Nat
    BY <1>1, <1>8
  <2> HIDE DEF bs, m
  <2>3. bs \in [1 .. m -> BlockType]
    BY <2>1, <2>2
  <2>4. bs \in Seq(BlockType)
    BY <2>2, <2>3
  <2> QED
    BY <2>4 DEF bs
<1>10. r \in ScanType
  BY <1>3, <1>4, <1>6, <1>9 DEF ScanType
<1>11. d \in DOMAIN st.stack
  BY <1>1
<1>12. Close(st, text, p) = r /\ \A e \in Closable(st, text[p]) : e <= d
  BY <1>2 DEF r, S
<1>13. r.pos = p + 1
  BY <1>3
<1> QED
  BY <1>4, <1>7, <1>8, <1>10, <1>11, <1>12, <1>13 DEF ClosedDownTo

(* A block is found, open or verbatim.                                       *)
LEMMA OpenIs ==
  ASSUME NEW text \in Seq(BladeUnit), NEW st \in ScanType, NEW p \in 1 .. Len(text)
  PROVE  \E r \in ScanType :
           /\ Open(st, text, p) = r
           /\ r.pos = After(text, p)
           /\ DOMAIN r.stack = 1 .. Len(st.stack) + 1 /\ r.stack[Len(st.stack) + 1] = Len(st.blocks) + 1
           /\ \A e \in DOMAIN st.stack : r.stack[e] = st.stack[e]
           /\ DOMAIN r.blocks = 1 .. Len(st.blocks) + 1 /\ \A b \in DOMAIN st.blocks : r.blocks[b] = st.blocks[b]
           /\ r.blocks[Len(st.blocks) + 1].name = text[p].name
           /\ r.blocks[Len(st.blocks) + 1].start = p /\ r.blocks[Len(st.blocks) + 1].end = Len(text) + 1
           /\ r.blocks[Len(st.blocks) + 1].parent = Innermost(st)
<1> DEFINE n == Len(st.blocks) + 1
           new == Block(text[p], p, Len(text) + 1, Innermost(st))
           r == Open(st, text, p)
<1>1. st.stack \in Seq(Nat) /\ st.blocks \in Seq(BlockType) /\ Len(st.blocks) \in Nat /\ n \in Nat
  BY ScanIs
<1>2. Len(text) + 1 \in Nat /\ After(text, p) \in Nat /\ Innermost(st) \in Nat
  BY UnitIs, InnermostIs
<1>3. new \in BlockType /\ new.name = text[p].name /\ new.start = p /\ new.end = Len(text) + 1 /\ new.parent = Innermost(st)
  BY <1>2, BlockIs
<1>4. r.pos = After(text, p) /\ r.stack = Append(st.stack, n) /\ r.blocks = Append(st.blocks, new)
      /\ r = [pos |-> r.pos, stack |-> r.stack, blocks |-> r.blocks]
  BY DEF Open
<1> HIDE DEF r, new, n
<1>5. /\ r.stack \in Seq(Nat) /\ DOMAIN r.stack = 1 .. Len(st.stack) + 1 /\ r.stack[Len(st.stack) + 1] = n
      /\ \A e \in DOMAIN st.stack : r.stack[e] = st.stack[e]
  BY <1>1, <1>4, AppendedIs
<1>6. /\ r.blocks \in Seq(BlockType) /\ DOMAIN r.blocks = 1 .. Len(st.blocks) + 1 /\ r.blocks[Len(st.blocks) + 1] = new
      /\ \A b \in DOMAIN st.blocks : r.blocks[b] = st.blocks[b]
  BY <1>1, <1>3, <1>4, AppendedIs
<1>7. r \in ScanType
  BY <1>2, <1>4, <1>5, <1>6 DEF ScanType
<1> QED
  BY <1>3, <1>4, <1>5, <1>6, <1>7 DEF r, n

(* What a verbatim block does.                                               *)
LEMMA VerbatimIs ==
  ASSUME NEW text \in Seq(BladeUnit), NEW st \in ScanType, NEW p \in 1 .. Len(text)
  PROVE  \E r \in ScanType :
           /\ Verbatim(st, text, p) = r
           /\ r.pos = VerbatimEnd(text, p) /\ r.stack = st.stack
           /\ DOMAIN r.blocks = 1 .. Len(st.blocks) + 1 /\ \A b \in DOMAIN st.blocks : r.blocks[b] = st.blocks[b]
           /\ r.blocks[Len(st.blocks) + 1].start = p /\ r.blocks[Len(st.blocks) + 1].end = VerbatimEnd(text, p)
           /\ r.blocks[Len(st.blocks) + 1].parent = Innermost(st)
<1> DEFINE end == VerbatimEnd(text, p)
           new == Block(text[p], p, end, Innermost(st))
           r == Verbatim(st, text, p)
<1>1. st.stack \in Seq(Nat) /\ st.blocks \in Seq(BlockType) /\ Len(st.blocks) \in Nat /\ st.pos \in Nat
  BY ScanIs
<1>2. end \in Nat /\ Innermost(st) \in Nat
  BY VerbatimEndIs, InnermostIs
<1>3. new \in BlockType /\ new.start = p /\ new.end = end /\ new.parent = Innermost(st)
  <2> HIDE DEF end
  <2> QED
    BY <1>2, BlockIs
<1>4. r = [st EXCEPT !.pos = end, !.blocks = Append(@, new)]
  BY DEF Verbatim, VerbatimEnd
<1> HIDE DEF r, new, end
<1>5. st = [pos |-> st.pos, stack |-> st.stack, blocks |-> st.blocks]
  BY DEF ScanType
<1>6. r = [pos |-> end, stack |-> st.stack, blocks |-> Append(st.blocks, new)]
  BY <1>4, <1>5
<1>7. r.pos = end /\ r.stack = st.stack /\ r.blocks = Append(st.blocks, new)
  BY <1>6
<1>8. /\ r.blocks \in Seq(BlockType) /\ DOMAIN r.blocks = 1 .. Len(st.blocks) + 1 /\ r.blocks[Len(st.blocks) + 1] = new
      /\ \A b \in DOMAIN st.blocks : r.blocks[b] = st.blocks[b]
  BY <1>1, <1>3, <1>7, AppendedIs
<1>9. r \in ScanType
  BY <1>1, <1>2, <1>6, <1>7, <1>8 DEF ScanType
<1> QED
  BY <1>3, <1>7, <1>8, <1>9 DEF r, end

(* What a directive that neither opens nor closes a block does.              *)
LEMMA PassedIs ==
  ASSUME NEW text \in Seq(BladeUnit), NEW st \in ScanType, NEW p \in 1 .. Len(text)
  PROVE  \E r \in ScanType :
           [st EXCEPT !.pos = After(text, p)] = r /\ r.pos = After(text, p) /\ r.stack = st.stack /\ r.blocks = st.blocks
<1>1. After(text, p) \in Nat
  BY UnitIs
<1> DEFINE r == [st EXCEPT !.pos = After(text, p)]
<1>2. r \in ScanType /\ r.pos = After(text, p) /\ r.stack = st.stack /\ r.blocks = st.blocks
  BY <1>1 DEF ScanType
<1> QED
  BY <1>2

(* Blocks beside the one that is found now are closed.                       *)
LEMMA BesideClosed ==
  ASSUME NEW text \in Seq(BladeUnit), NEW st \in ScanType, Nest(text, st)
  PROVE  /\ Innermost(st) # 0 => /\ Innermost(st) \in DOMAIN st.blocks
                                 /\ st.blocks[Innermost(st)].end = Len(text) + 1
         /\ Innermost(st) <= Len(st.blocks)
         /\ \A i \in DOMAIN st.blocks : st.blocks[i].parent = Innermost(st) =>
              (\A e \in DOMAIN st.stack : st.stack[e] # i) /\ st.blocks[i].end <= st.pos
<1>1. /\ Len(st.stack) \in Nat /\ DOMAIN st.stack = 1 .. Len(st.stack)
      /\ Len(st.blocks) \in Nat /\ DOMAIN st.blocks = 1 .. Len(st.blocks)
      /\ \A e \in DOMAIN st.stack : st.stack[e] \in Nat
  BY ScanIs
<1>2. /\ Innermost(st) \in Nat
      /\ st.stack = <<>> => Innermost(st) = 0
      /\ st.stack # <<>> => Len(st.stack) \in DOMAIN st.stack /\ Innermost(st) = st.stack[Len(st.stack)]
  BY InnermostIs
<1>3. ASSUME st.stack # <<>>
      PROVE  Innermost(st) \in DOMAIN st.blocks /\ st.blocks[Innermost(st)].end = Len(text) + 1
  BY <1>2, <1>3 DEF Nest
<1>4. st.stack = <<>> => DOMAIN st.stack = {}
  OBVIOUS
<1>5. ASSUME NEW i \in DOMAIN st.blocks, st.blocks[i].parent = Innermost(st), NEW e \in DOMAIN st.stack, st.stack[e] = i
      PROVE  FALSE
  <2>1. st.stack # <<>>
    BY <1>4
  <2>2. Len(st.stack) \in DOMAIN st.stack /\ Innermost(st) = st.stack[Len(st.stack)]
    BY <1>2, <2>1
  <2>3. st.blocks[i].parent < i
    BY DEF Nest
  <2>4. e = Len(st.stack) \/ e < Len(st.stack)
    BY <1>1
  <2>5. e = Len(st.stack) \/ st.stack[e] < st.stack[Len(st.stack)]
    BY <2>2, <2>4 DEF Nest
  <2>6. i \in Nat /\ Innermost(st) < i
    BY <1>1, <1>5, <2>3
  <2> QED
    BY <1>2, <1>5, <2>2, <2>5, <2>6
<1>6. ASSUME NEW i \in DOMAIN st.blocks, st.blocks[i].parent = Innermost(st)
      PROVE  st.blocks[i].end <= st.pos
  BY <1>5, <1>6 DEF Nest
<1>7. Innermost(st) <= Len(st.blocks)
  BY <1>1, <1>2, <1>3
<1>8. Innermost(st) # 0 => st.stack # <<>>
  BY <1>2
<1> QED
  BY <1>3, <1>5, <1>6, <1>7, <1>8

(* Passing over a directive keeps the invariant of the scan.                 *)
LEMMA PassedOk ==
  ASSUME NEW text \in Seq(BladeUnit), NEW st \in ScanType, NEW p \in 1 .. Len(text), ScanOk(text, st, p - 1), st.pos <= p,
         NEW r \in ScanType, r.pos = After(text, p), r.stack = st.stack, r.blocks = st.blocks
  PROVE  ScanOk(text, r, p)
<1>1. p \in Nat /\ Len(text) \in Nat /\ st.pos \in Nat
  BY UnitIs, ScanIs
<1>2. \A c \in DOMAIN st.blocks : st.blocks[c].start \in Nat /\ st.blocks[c].end \in Nat
  BY ScanIs
<1>3. Found(r, p)
  BY <1>1, <1>2 DEF ScanOk, Found
<1>4. ASSUME Plain(text) PROVE Nest(text, r)
  <2>1. r.pos = p + 1
    <3>1. p \in DOMAIN text
      BY LenProperties
    <3> QED
      BY <1>1, <1>4, <3>1 DEF Plain, After
  <2>2. Nest(text, st)
    BY <1>4 DEF ScanOk
  <2>3. r.pos <= Len(text) + 1
    BY <1>1, <2>1
  <2>4. \A c \in DOMAIN st.blocks : (\E e \in DOMAIN st.stack : st.stack[e] = c) \/ st.blocks[c].end <= r.pos
    BY <1>1, <1>2, <2>1, <2>2 DEF Nest
  <2> QED
    BY <2>2, <2>3, <2>4 DEF Nest
<1> QED
  BY <1>3, <1>4 DEF ScanOk

(* A unit that is not looked at keeps the invariant of the scan.             *)
LEMMA SameOk ==
  ASSUME NEW text \in Seq(BladeUnit), NEW st \in ScanType, NEW p \in 1 .. Len(text), ScanOk(text, st, p - 1)
  PROVE  ScanOk(text, st, p)
<1>1. p \in Nat
  BY UnitIs
<1>2. \A c \in DOMAIN st.blocks : st.blocks[c].start \in Nat /\ st.blocks[c].end \in Nat
  BY ScanIs
<1>3. Found(st, p)
  BY <1>1, <1>2 DEF ScanOk, Found
<1> QED
  BY <1>3 DEF ScanOk

(* A block is put behind the others.                                         *)
Adds(st, r, p, end) ==
  /\ DOMAIN r.blocks = 1 .. Len(st.blocks) + 1 /\ \A b \in DOMAIN st.blocks : r.blocks[b] = st.blocks[b]
  /\ r.blocks[Len(st.blocks) + 1].start = p /\ r.blocks[Len(st.blocks) + 1].end = end
  /\ r.blocks[Len(st.blocks) + 1].parent = Innermost(st)

(* A block that is added was found where the scan is.                        *)
LEMMA AddsFound ==
  ASSUME NEW text \in Seq(BladeUnit), NEW st \in ScanType, NEW p \in 1 .. Len(text), Found(st, p - 1),
         NEW end \in Nat, p < end, NEW r \in ScanType, Adds(st, r, p, end)
  PROVE  Found(r, p)
<1>1. p \in Nat /\ 1 <= p /\ Len(st.blocks) \in Nat /\ DOMAIN st.blocks = 1 .. Len(st.blocks)
  BY UnitIs, ScanIs
<1>2. \A c \in DOMAIN st.blocks : st.blocks[c].start \in Nat /\ st.blocks[c].end \in Nat
  BY ScanIs
<1> SUFFICES ASSUME NEW c \in DOMAIN r.blocks
             PROVE  1 <= r.blocks[c].start /\ r.blocks[c].start <= p /\ r.blocks[c].start < r.blocks[c].end
  BY DEF Found
<1>3. CASE c = Len(st.blocks) + 1
  BY <1>1, <1>3 DEF Adds
<1>4. CASE c # Len(st.blocks) + 1
  <2>1. c \in DOMAIN st.blocks
    BY <1>1, <1>4 DEF Adds
  <2>2. r.blocks[c] = st.blocks[c]
    BY <2>1 DEF Adds
  <2>3. 1 <= st.blocks[c].start /\ st.blocks[c].start <= p - 1 /\ st.blocks[c].start < st.blocks[c].end
    BY <2>1 DEF Found
  <2> QED
    BY <1>1, <1>2, <2>1, <2>2, <2>3
<1> QED
  BY <1>3, <1>4

(* What a new block has to do with the others.                               *)
LEMMA AddsNest ==
  ASSUME NEW text \in Seq(BladeUnit), NEW st \in ScanType, NEW p \in 1 .. Len(text), Found(st, p - 1), Nest(text, st), st.pos <= p,
         NEW end \in Nat, p < end, end <= Len(text) + 1, NEW r \in ScanType, Adds(st, r, p, end)
  PROVE  /\ \A c \in DOMAIN r.blocks :
              /\ r.blocks[c].parent < c
              /\ r.blocks[c].parent # 0 =>
                   /\ r.blocks[r.blocks[c].parent].start <= r.blocks[c].start
                   /\ r.blocks[c].end <= r.blocks[r.blocks[c].parent].end
         /\ \A i, j \in DOMAIN r.blocks : i < j /\ r.blocks[i].parent = r.blocks[j].parent =>
              /\ i \in DOMAIN st.blocks /\ \A e \in DOMAIN st.stack : st.stack[e] # i
              /\ r.blocks[i].end <= r.blocks[j].start
<1> DEFINE n == Len(st.blocks) + 1
<1>1. /\ p \in Nat /\ 1 <= p /\ Len(st.blocks) \in Nat /\ DOMAIN st.blocks = 1 .. Len(st.blocks)
      /\ st.pos \in Nat
  BY UnitIs, ScanIs
<1>2. \A c \in DOMAIN st.blocks : st.blocks[c].start \in Nat /\ st.blocks[c].end \in Nat /\ st.blocks[c].parent \in Nat
  BY ScanIs
<1>3. /\ Innermost(st) \in Nat
      /\ Innermost(st) # 0 => Innermost(st) \in DOMAIN st.blocks /\ st.blocks[Innermost(st)].end = Len(text) + 1
      /\ Innermost(st) <= Len(st.blocks)
      /\ \A i \in DOMAIN st.blocks : st.blocks[i].parent = Innermost(st) =>
           (\A e \in DOMAIN st.stack : st.stack[e] # i) /\ st.blocks[i].end <= st.pos
  BY InnermostIs, BesideClosed
<1>4. /\ n \in Nat /\ DOMAIN r.blocks = 1 .. n /\ \A b \in DOMAIN st.blocks : r.blocks[b] = st.blocks[b]
      /\ r.blocks[n].start = p /\ r.blocks[n].end = end /\ r.blocks[n].parent = Innermost(st)
      /\ \A c \in 1 .. n : c = n \/ (c \in DOMAIN st.blocks /\ c < n)
      /\ n = Len(st.blocks) + 1
  BY <1>1 DEF Adds
<1> HIDE DEF n
<1>5. ASSUME NEW c \in DOMAIN r.blocks
      PROVE  /\ r.blocks[c].parent < c
             /\ r.blocks[c].parent # 0 =>
                  /\ r.blocks[r.blocks[c].parent].start <= r.blocks[c].start
                  /\ r.blocks[c].end <= r.blocks[r.blocks[c].parent].end
  <2>1. CASE c = n
    <3>1. r.blocks[c].parent = Innermost(st) /\ Innermost(st) < c
      BY <1>1, <1>3, <1>4, <2>1
    <3>2. ASSUME Innermost(st) # 0
          PROVE  r.blocks[Innermost(st)].start <= r.blocks[c].start /\ r.blocks[c].end <= r.blocks[Innermost(st)].end
      <4>1. Innermost(st) \in DOMAIN st.blocks /\ r.blocks[Innermost(st)] = st.blocks[Innermost(st)]
            /\ st.blocks[Innermost(st)].end = Len(text) + 1
        BY <1>3, <1>4, <3>2
      <4>2. st.blocks[Innermost(st)].start <= p - 1 /\ st.blocks[Innermost(st)].start \in Nat
        BY <1>2, <4>1 DEF Found
      <4>3. r.blocks[c].start = p /\ r.blocks[c].end = end
        BY <1>4, <2>1
      <4> QED
        BY <1>1, <4>1, <4>2, <4>3
    <3> QED
      BY <3>1, <3>2
  <2>2. CASE c # n
    <3>1. c \in DOMAIN st.blocks /\ r.blocks[c] = st.blocks[c]
      BY <1>4, <2>2
    <3>2. st.blocks[c].parent < c /\ st.blocks[c].parent \in Nat
      BY <1>2, <3>1 DEF Nest
    <3>3. ASSUME st.blocks[c].parent # 0
          PROVE  /\ r.blocks[st.blocks[c].parent].start <= r.blocks[c].start
                 /\ r.blocks[c].end <= r.blocks[st.blocks[c].parent].end
      <4>1. st.blocks[c].parent \in DOMAIN st.blocks
        BY <1>1, <3>1, <3>2, <3>3
      <4>2. r.blocks[st.blocks[c].parent] = st.blocks[st.blocks[c].parent]
        BY <1>4, <4>1
      <4>3. st.blocks[st.blocks[c].parent].start <= st.blocks[c].start
            /\ st.blocks[c].end <= st.blocks[st.blocks[c].parent].end
        BY <3>1, <3>3 DEF Nest
      <4> QED
        BY <3>1, <4>2, <4>3
    <3> QED
      BY <3>1, <3>2, <3>3
  <2> QED
    BY <2>1, <2>2
<1>6. ASSUME NEW i \in DOMAIN r.blocks, NEW j \in DOMAIN r.blocks, i < j, r.blocks[i].parent = r.blocks[j].parent
      PROVE  /\ i \in DOMAIN st.blocks /\ \A e \in DOMAIN st.stack : st.stack[e] # i
             /\ r.blocks[i].end <= r.blocks[j].start
  <2>1. i \in DOMAIN st.blocks /\ r.blocks[i] = st.blocks[i]
    <3>1. i # n
      BY <1>4, <1>6
    <3> QED
      BY <1>4, <3>1
  <2>2. CASE j = n
    <3>1. st.blocks[i].parent = Innermost(st)
      BY <1>4, <1>6, <2>1, <2>2
    <3>2. (\A e \in DOMAIN st.stack : st.stack[e] # i) /\ st.blocks[i].end <= st.pos
      BY <1>3, <2>1, <3>1
    <3>3. r.blocks[j].start = p
      BY <1>4, <2>2
    <3>4. st.blocks[i].end \in Nat
      BY <1>2, <2>1
    <3>5. st.blocks[i].end <= p
      BY <1>1, <3>2, <3>4
    <3> QED
      BY <2>1, <3>2, <3>3, <3>5
  <2>3. CASE j # n
    <3>1. j \in DOMAIN st.blocks /\ r.blocks[j] = st.blocks[j]
      BY <1>4, <2>3
    <3>2. st.blocks[i].parent = st.blocks[j].parent
      BY <1>6, <2>1, <3>1
    <3>3. (\A e \in DOMAIN st.stack : st.stack[e] # i) /\ st.blocks[i].end <= st.blocks[j].start
      BY <1>6, <2>1, <3>1, <3>2 DEF Nest
    <3> QED
      BY <2>1, <3>1, <3>3
  <2> QED
    BY <2>2, <2>3
<1> QED
  BY <1>5, <1>6

(* A verbatim block keeps the invariant of the scan.                         *)
LEMMA VerbatimOk ==
  ASSUME NEW text \in Seq(BladeUnit), NEW st \in ScanType, NEW p \in 1 .. Len(text), ScanOk(text, st, p - 1), st.pos <= p
  PROVE  Verbatim(st, text, p) \in ScanType /\ ScanOk(text, Verbatim(st, text, p), p)
<1>1. PICK end \in Nat : end = VerbatimEnd(text, p) /\ p < end /\ end <= Len(text) + 1
  BY VerbatimEndIs
<1>2. PICK r \in ScanType :
        Verbatim(st, text, p) = r /\ r.pos = end /\ r.stack = st.stack /\ Adds(st, r, p, end)
  BY <1>1, VerbatimIs DEF Adds
<1>3. p \in Nat /\ st.pos \in Nat /\ Len(st.blocks) \in Nat /\ DOMAIN st.blocks = 1 .. Len(st.blocks)
      /\ \A c \in DOMAIN st.blocks : st.blocks[c].end \in Nat
  BY UnitIs, ScanIs
<1>4. Found(r, p)
  BY <1>1, <1>2, AddsFound DEF ScanOk
<1>5. ASSUME Plain(text) PROVE Nest(text, r)
  <2>1. Nest(text, st) /\ Found(st, p - 1)
    BY <1>5 DEF ScanOk
  <2>2. /\ \A c \in DOMAIN r.blocks :
              /\ r.blocks[c].parent < c
              /\ r.blocks[c].parent # 0 =>
                   /\ r.blocks[r.blocks[c].parent].start <= r.blocks[c].start
                   /\ r.blocks[c].end <= r.blocks[r.blocks[c].parent].end
        /\ \A i, j \in DOMAIN r.blocks : i < j /\ r.blocks[i].parent = r.blocks[j].parent =>
              /\ i \in DOMAIN st.blocks /\ \A e \in DOMAIN st.stack : st.stack[e] # i
              /\ r.blocks[i].end <= r.blocks[j].start
    BY <1>1, <1>2, <2>1, AddsNest
  <2>3. \A b \in DOMAIN st.blocks : b \in DOMAIN r.blocks /\ r.blocks[b] = st.blocks[b]
    BY <1>2, <1>3 DEF Adds
  <2>4. ASSUME NEW c \in DOMAIN r.blocks PROVE (\E e \in DOMAIN r.stack : r.stack[e] = c) \/ r.blocks[c].end <= r.pos
    <3>1. CASE c = Len(st.blocks) + 1
      BY <1>1, <1>2, <3>1 DEF Adds
    <3>2. CASE c # Len(st.blocks) + 1
      <4>1. c \in DOMAIN st.blocks
        BY <1>2, <1>3, <3>2 DEF Adds
      <4>2. (\E e \in DOMAIN st.stack : st.stack[e] = c) \/ st.blocks[c].end <= st.pos
        BY <2>1, <4>1 DEF Nest
      <4> QED
        BY <1>1, <1>2, <1>3, <2>3, <4>1, <4>2
    <3> QED
      BY <3>1, <3>2
  <2>5. /\ \A e \in DOMAIN r.stack :
             /\ r.stack[e] \in DOMAIN r.blocks
             /\ r.blocks[r.stack[e]].end = Len(text) + 1
             /\ r.blocks[r.stack[e]].parent = IF e = 1 THEN 0 ELSE r.stack[e - 1]
        /\ \A e, f \in DOMAIN r.stack : e < f => r.stack[e] < r.stack[f]
    BY <1>2, <2>1, <2>3 DEF Nest
  <2>6. r.pos <= Len(text) + 1
    BY <1>1, <1>2
  <2> QED
    BY <1>2, <2>2, <2>4, <2>5, <2>6 DEF Nest
<1> QED
  BY <1>2, <1>4, <1>5 DEF ScanOk

(* Opening a block keeps the invariant of the scan.                          *)
LEMMA OpenOk ==
  ASSUME NEW text \in Seq(BladeUnit), NEW st \in ScanType, NEW p \in 1 .. Len(text), ScanOk(text, st, p - 1), st.pos <= p
  PROVE  Open(st, text, p) \in ScanType /\ ScanOk(text, Open(st, text, p), p)
<1>1. PICK end \in Nat : end = Len(text) + 1 /\ p < end
  <2>1. Len(text) + 1 \in Nat /\ p < Len(text) + 1
    BY UnitIs
  <2> QED
    BY <2>1
<1>2. PICK r \in ScanType :
        /\ Open(st, text, p) = r /\ r.pos = After(text, p) /\ Adds(st, r, p, end)
        /\ DOMAIN r.stack = 1 .. Len(st.stack) + 1 /\ r.stack[Len(st.stack) + 1] = Len(st.blocks) + 1
        /\ \A e \in DOMAIN st.stack : r.stack[e] = st.stack[e]
  BY <1>1, OpenIs DEF Adds
<1>3. /\ p \in Nat /\ st.pos \in Nat /\ Len(st.blocks) \in Nat /\ DOMAIN st.blocks = 1 .. Len(st.blocks)
      /\ Len(st.stack) \in Nat /\ DOMAIN st.stack = 1 .. Len(st.stack) /\ Len(text) \in Nat
      /\ \A c \in DOMAIN st.blocks : st.blocks[c].end \in Nat
      /\ \A e \in DOMAIN st.stack : st.stack[e] \in Nat
  BY UnitIs, ScanIs
<1>4. Found(r, p)
  BY <1>1, <1>2, AddsFound DEF ScanOk
<1>5. ASSUME Plain(text) PROVE Nest(text, r)
  <2>1. Nest(text, st) /\ Found(st, p - 1)
    BY <1>5 DEF ScanOk
  <2>2. /\ \A c \in DOMAIN r.blocks :
              /\ r.blocks[c].parent < c
              /\ r.blocks[c].parent # 0 =>
                   /\ r.blocks[r.blocks[c].parent].start <= r.blocks[c].start
                   /\ r.blocks[c].end <= r.blocks[r.blocks[c].parent].end
        /\ \A i, j \in DOMAIN r.blocks : i < j /\ r.blocks[i].parent = r.blocks[j].parent =>
              /\ i \in DOMAIN st.blocks /\ \A e \in DOMAIN st.stack : st.stack[e] # i
              /\ r.blocks[i].end <= r.blocks[j].start
    <3>1. end <= Len(text) + 1
      BY <1>1, <1>3
    <3> QED
      BY <1>1, <1>2, <2>1, <3>1, AddsNest
  <2>3. \A b \in DOMAIN st.blocks : b \in DOMAIN r.blocks /\ r.blocks[b] = st.blocks[b]
    BY <1>2, <1>3 DEF Adds
  <2>4. r.pos = p + 1
    <3>1. p \in DOMAIN text
      BY LenProperties
    <3> QED
      BY <1>2, <1>3, <1>5, <3>1 DEF Plain, After
  <2>5. \A e \in DOMAIN r.stack : e = Len(st.stack) + 1 \/ e \in DOMAIN st.stack
    BY <1>2, <1>3
  <2>6. ASSUME NEW c \in DOMAIN r.blocks PROVE (\E e \in DOMAIN r.stack : r.stack[e] = c) \/ r.blocks[c].end <= r.pos
    <3>1. CASE c = Len(st.blocks) + 1
      <4>1. Len(st.stack) + 1 \in DOMAIN r.stack
        BY <1>2, <1>3
      <4> QED
        BY <1>2, <3>1, <4>1
    <3>2. CASE c # Len(st.blocks) + 1
      <4>1. c \in DOMAIN st.blocks
        BY <1>2, <1>3, <3>2 DEF Adds
      <4>2. CASE \E e \in DOMAIN st.stack : st.stack[e] = c
        <5>1. \A e \in DOMAIN st.stack : e \in DOMAIN r.stack
          BY <1>2, <1>3
        <5> QED
          BY <1>2, <4>2, <5>1
      <4>3. CASE st.blocks[c].end <= st.pos
        <5>1. st.blocks[c].end <= p + 1
          BY <1>3, <4>1, <4>3
        <5> QED
          BY <2>3, <2>4, <4>1, <5>1
      <4> QED
        BY <2>1, <4>1, <4>2, <4>3 DEF Nest
    <3> QED
      BY <3>1, <3>2
  <2>7. ASSUME NEW e \in DOMAIN r.stack
        PROVE  /\ r.stack[e] \in DOMAIN r.blocks
               /\ r.blocks[r.stack[e]].end = Len(text) + 1
               /\ r.blocks[r.stack[e]].parent = IF e = 1 THEN 0 ELSE r.stack[e - 1]
    <3>1. CASE e \in DOMAIN st.stack
      <4>1. r.stack[e] = st.stack[e] /\ st.stack[e] \in DOMAIN st.blocks
            /\ st.blocks[st.stack[e]].end = Len(text) + 1
            /\ st.blocks[st.stack[e]].parent = IF e = 1 THEN 0 ELSE st.stack[e - 1]
        BY <1>2, <2>1, <3>1 DEF Nest
      <4>2. e = 1 \/ (e - 1 \in DOMAIN st.stack /\ r.stack[e - 1] = st.stack[e - 1])
        BY <1>2, <1>3, <3>1
      <4> QED
        BY <2>3, <4>1, <4>2
    <3>2. CASE e = Len(st.stack) + 1
      <4>1. r.stack[e] = Len(st.blocks) + 1 /\ r.stack[e] \in DOMAIN r.blocks
            /\ r.blocks[r.stack[e]].end = Len(text) + 1 /\ r.blocks[r.stack[e]].parent = Innermost(st)
        <5>1. r.stack[e] = Len(st.blocks) + 1
          BY <1>2, <3>2
        <5>2. Len(st.blocks) + 1 \in 1 .. Len(st.blocks) + 1
          BY <1>3
        <5>3. Len(st.blocks) + 1 \in DOMAIN r.blocks
          BY <1>2, <5>2 DEF Adds
        <5>4. r.blocks[Len(st.blocks) + 1].end = end /\ r.blocks[Len(st.blocks) + 1].parent = Innermost(st)
          BY <1>2 DEF Adds
        <5> QED
          BY <1>1, <5>1, <5>3, <5>4
      <4>2. Innermost(st) = IF e = 1 THEN 0 ELSE r.stack[e - 1]
        <5>1. CASE st.stack = <<>>
          <6>1. Innermost(st) = 0
            BY <5>1, InnermostIs
          <6>2. Len(st.stack) = 0
            BY <5>1, EmptySeq
          <6> QED
            BY <3>2, <6>1, <6>2
        <5>2. CASE st.stack # <<>>
          <6>1. Len(st.stack) \in DOMAIN st.stack /\ Innermost(st) = st.stack[Len(st.stack)]
            BY <5>2, InnermostIs
          <6>2. e # 1 /\ e - 1 = Len(st.stack)
            BY <1>3, <3>2, <6>1
          <6> QED
            BY <1>2, <6>1, <6>2
        <5> QED
          BY <5>1, <5>2
      <4> QED
        BY <4>1, <4>2
    <3> QED
      BY <2>5, <3>1, <3>2
  <2>8. ASSUME NEW e \in DOMAIN r.stack, NEW f \in DOMAIN r.stack, e < f PROVE r.stack[e] < r.stack[f]
    <3>1. e \in DOMAIN st.stack
      BY <1>2, <1>3, <2>8
    <3>2. r.stack[e] = st.stack[e] /\ st.stack[e] \in 1 .. Len(st.blocks)
      BY <1>2, <1>3, <2>1, <3>1 DEF Nest
    <3>3. CASE f \in DOMAIN st.stack
      <4>1. r.stack[f] = st.stack[f] /\ st.stack[e] < st.stack[f]
        BY <1>2, <2>1, <2>8, <3>1, <3>3 DEF Nest
      <4> QED
        BY <3>2, <4>1
    <3>4. CASE f = Len(st.stack) + 1
      <4>1. r.stack[f] = Len(st.blocks) + 1
        BY <1>2, <3>4
      <4> QED
        BY <1>3, <3>2, <4>1
    <3> QED
      BY <2>5, <3>3, <3>4
  <2>9. ASSUME NEW i \in DOMAIN st.blocks, \A e \in DOMAIN st.stack : st.stack[e] # i, NEW e \in DOMAIN r.stack
        PROVE  r.stack[e] # i
    <3>1. i # Len(st.blocks) + 1
      BY <1>3
    <3> QED
      BY <1>2, <2>5, <2>9, <3>1
  <2>10. r.pos <= Len(text) + 1
    BY <1>3, <2>4
  <2>11. \A i, j \in DOMAIN r.blocks : i < j /\ r.blocks[i].parent = r.blocks[j].parent =>
           (\A e \in DOMAIN r.stack : r.stack[e] # i) /\ r.blocks[i].end <= r.blocks[j].start
    BY <2>2, <2>9
  <2>12. \A c \in DOMAIN r.blocks :
           /\ r.blocks[c].parent < c
           /\ r.blocks[c].parent # 0 =>
                /\ r.blocks[r.blocks[c].parent].start <= r.blocks[c].start
                /\ r.blocks[c].end <= r.blocks[r.blocks[c].parent].end
    BY <2>2
  <2> QED
    BY <2>6, <2>7, <2>8, <2>10, <2>11, <2>12 DEF Nest
<1> QED
  BY <1>2, <1>4, <1>5 DEF ScanOk

(* Closing a block keeps the invariant of the scan.                          *)
LEMMA CloseOk ==
  ASSUME NEW text \in Seq(BladeUnit), NEW st \in ScanType, NEW p \in 1 .. Len(text), ScanOk(text, st, p - 1), st.pos <= p,
         Closable(st, text[p]) # {}
  PROVE  Close(st, text, p) \in ScanType /\ ScanOk(text, Close(st, text, p), p)
<1>1. PICK d \in DOMAIN st.stack : \E r \in ScanType : Close(st, text, p) = r /\ ClosedDownTo(text, st, p, d, r)
  BY CloseIs
<1>2. PICK r \in ScanType : Close(st, text, p) = r /\ ClosedDownTo(text, st, p, d, r)
  BY <1>1
<1>3. /\ Close(st, text, p) = r
      /\ r.pos = p + 1
      /\ DOMAIN r.stack = 1 .. d - 1 /\ \A e \in 1 .. d - 1 : r.stack[e] = st.stack[e]
      /\ DOMAIN r.blocks = DOMAIN st.blocks
      /\ \A b \in DOMAIN st.blocks :
           /\ r.blocks[b].start = st.blocks[b].start /\ r.blocks[b].parent = st.blocks[b].parent
           /\ r.blocks[b].end = IF b \in Inner(st, d) THEN After(text, p) ELSE st.blocks[b].end
  BY <1>2 DEF ClosedDownTo
<1>4. /\ p \in Nat /\ st.pos \in Nat /\ Len(st.blocks) \in Nat /\ DOMAIN st.blocks = 1 .. Len(st.blocks)
      /\ Len(st.stack) \in Nat /\ DOMAIN st.stack = 1 .. Len(st.stack) /\ Len(text) \in Nat
      /\ After(text, p) \in Nat /\ p < After(text, p) /\ p <= Len(text) /\ d \in Nat
  BY UnitIs, ScanIs
<1>5. \A c \in DOMAIN st.blocks : st.blocks[c].start \in Nat /\ st.blocks[c].end \in Nat /\ st.blocks[c].parent \in Nat
  BY ScanIs
<1>6. Found(r, p)
  <2> SUFFICES ASSUME NEW c \in DOMAIN st.blocks
               PROVE  1 <= r.blocks[c].start /\ r.blocks[c].start <= p /\ r.blocks[c].start < r.blocks[c].end
    BY <1>3 DEF Found
  <2>1. 1 <= st.blocks[c].start /\ st.blocks[c].start <= p - 1 /\ st.blocks[c].start < st.blocks[c].end
    BY DEF ScanOk, Found
  <2>2. r.blocks[c].start = st.blocks[c].start
    BY <1>3
  <2>3. r.blocks[c].end = After(text, p) \/ r.blocks[c].end = st.blocks[c].end
    BY <1>3
  <2> QED
    BY <1>4, <1>5, <2>1, <2>2, <2>3
<1>7. ASSUME Plain(text) PROVE Nest(text, r)
  <2>1. Nest(text, st) /\ After(text, p) = p + 1
    <3>1. p \in DOMAIN text
      BY LenProperties
    <3> QED
      BY <1>4, <1>7, <3>1 DEF ScanOk, Plain, After
  <2>2. \A e \in 1 .. d - 1 : e \in DOMAIN st.stack /\ e < d
    BY <1>4
  <2>3. \A e \in DOMAIN st.stack : e \in 1 .. d - 1 \/ e \in d .. Len(st.stack)
    BY <1>4
  <2>4. ASSUME NEW e \in 1 .. d - 1 PROVE st.stack[e] \notin Inner(st, d)
    <3> SUFFICES ASSUME NEW f \in d .. Len(st.stack), st.stack[e] = st.stack[f] PROVE FALSE
      BY DEF Inner
    <3>1. e \in DOMAIN st.stack /\ f \in DOMAIN st.stack /\ e < f
      BY <1>4, <2>2
    <3>2. st.stack[e] < st.stack[f] /\ st.stack[e] \in Nat
      BY <2>1, <3>1, ScanIs DEF Nest
    <3> QED
      BY <3>2
  <2>5. \A c \in DOMAIN st.blocks :
          c \in Inner(st, d) \/ (\E e \in 1 .. d - 1 : st.stack[e] = c) \/ (\A e \in DOMAIN st.stack : st.stack[e] # c)
    BY <2>3 DEF Inner
  <2>6. ASSUME NEW e \in DOMAIN r.stack
        PROVE  /\ r.stack[e] \in DOMAIN r.blocks
               /\ r.blocks[r.stack[e]].end = Len(text) + 1
               /\ r.blocks[r.stack[e]].parent = IF e = 1 THEN 0 ELSE r.stack[e - 1]
    <3>1. e \in 1 .. d - 1 /\ r.stack[e] = st.stack[e] /\ e \in DOMAIN st.stack
      BY <1>3, <2>2
    <3>2. st.stack[e] \in DOMAIN st.blocks /\ st.blocks[st.stack[e]].end = Len(text) + 1
          /\ st.blocks[st.stack[e]].parent = IF e = 1 THEN 0 ELSE st.stack[e - 1]
      BY <2>1, <3>1 DEF Nest
    <3>3. r.blocks[st.stack[e]].end = st.blocks[st.stack[e]].end /\ r.blocks[st.stack[e]].parent = st.blocks[st.stack[e]].parent
      BY <1>3, <2>4, <3>1, <3>2
    <3>4. e = 1 \/ r.stack[e - 1] = st.stack[e - 1]
      <4>1. e = 1 \/ e - 1 \in 1 .. d - 1
        BY <1>4, <3>1
      <4> QED
        BY <1>3, <4>1
    <3> QED
      BY <1>3, <3>1, <3>2, <3>3, <3>4
  <2>7. \A e, f \in DOMAIN r.stack : e < f => r.stack[e] < r.stack[f]
    BY <1>3, <2>1, <2>2 DEF Nest
  <2>8. ASSUME NEW c \in DOMAIN r.blocks PROVE (\E e \in DOMAIN r.stack : r.stack[e] = c) \/ r.blocks[c].end <= r.pos
    <3>1. c \in DOMAIN st.blocks
      BY <1>3
    <3>2. CASE c \in Inner(st, d)
      BY <1>3, <1>4, <2>1, <3>1, <3>2
    <3>3. CASE \E e \in 1 .. d - 1 : st.stack[e] = c
      BY <1>3, <3>3
    <3>4. CASE (\A e \in DOMAIN st.stack : st.stack[e] # c) /\ c \notin Inner(st, d)
      <4>1. st.blocks[c].end <= st.pos
        BY <2>1, <3>1, <3>4 DEF Nest
      <4>2. r.blocks[c].end = st.blocks[c].end
        BY <1>3, <3>1, <3>4
      <4> QED
        BY <1>3, <1>4, <1>5, <3>1, <4>1, <4>2
    <3> QED
      BY <2>5, <3>1, <3>2, <3>3, <3>4
  <2>9. ASSUME NEW c \in DOMAIN r.blocks
        PROVE  /\ r.blocks[c].parent < c
               /\ r.blocks[c].parent # 0 =>
                    /\ r.blocks[r.blocks[c].parent].start <= r.blocks[c].start
                    /\ r.blocks[c].end <= r.blocks[r.blocks[c].parent].end
    <3> DEFINE b == st.blocks[c].parent
    <3>1. c \in DOMAIN st.blocks /\ r.blocks[c].parent = b /\ b < c /\ b \in Nat
      BY <1>3, <1>5, <2>1 DEF Nest
    <3>2. ASSUME b # 0
          PROVE  r.blocks[b].start <= r.blocks[c].start /\ r.blocks[c].end <= r.blocks[b].end
      <4>1. b \in DOMAIN st.blocks
        BY <1>4, <3>1, <3>2
      <4>2. st.blocks[b].start <= st.blocks[c].start /\ st.blocks[c].end <= st.blocks[b].end
        BY <2>1, <3>1, <3>2 DEF Nest
      <4>3. st.blocks[c].end \in Nat /\ st.blocks[b].end \in Nat
        BY <1>5, <3>1, <4>1
      <4>4. r.blocks[b].start <= r.blocks[c].start
        <5> HIDE DEF b
        <5> QED
          BY <1>3, <3>1, <4>1, <4>2
      <4>5. ASSUME NEW e \in DOMAIN st.stack, st.stack[e] = c
            PROVE  e # 1 /\ e - 1 \in DOMAIN st.stack /\ st.stack[e - 1] = b
        <5>1. b = IF e = 1 THEN 0 ELSE st.stack[e - 1]
          BY <2>1, <4>5 DEF Nest
        <5>2. e # 1
          BY <3>2, <5>1
        <5>3. e - 1 \in DOMAIN st.stack
          BY <1>4, <5>2
        <5> QED
          BY <5>1, <5>2, <5>3
      <4> HIDE DEF b
      <4>6. CASE b \in Inner(st, d)
        <5>1. r.blocks[b].end = p + 1
          BY <1>3, <2>1, <4>1, <4>6
        <5>2. CASE c \in Inner(st, d)
          <6>1. r.blocks[c].end = p + 1
            BY <1>3, <2>1, <3>1, <5>2
          <6> QED
            BY <1>4, <4>4, <5>1, <6>1
        <5>3. CASE \E e \in 1 .. d - 1 : st.stack[e] = c
          <6>1. PICK e \in 1 .. d - 1 : st.stack[e] = c
            BY <5>3
          <6>2. e # 1 /\ st.stack[e - 1] = b
            BY <2>2, <4>5, <6>1
          <6>3. e - 1 \in 1 .. d - 1
            BY <1>4, <6>2
          <6> QED
            BY <2>4, <4>6, <6>2, <6>3
        <5>4. CASE (\A e \in DOMAIN st.stack : st.stack[e] # c) /\ c \notin Inner(st, d)
          <6>1. st.blocks[c].end <= st.pos
            BY <2>1, <3>1, <5>4 DEF Nest
          <6>2. r.blocks[c].end = st.blocks[c].end
            BY <1>3, <3>1, <5>4
          <6>3. st.blocks[c].end <= p + 1
            BY <1>4, <4>3, <6>1
          <6> QED
            BY <4>4, <5>1, <6>2, <6>3
        <5> QED
          BY <2>5, <3>1, <5>2, <5>3, <5>4
      <4>7. CASE b \notin Inner(st, d)
        <5>1. r.blocks[b].end = st.blocks[b].end
          BY <1>3, <4>1, <4>7
        <5>2. CASE c \notin Inner(st, d)
          <6>1. r.blocks[c].end = st.blocks[c].end
            BY <1>3, <3>1, <5>2
          <6> QED
            BY <4>2, <4>4, <5>1, <6>1
        <5>3. CASE c \in Inner(st, d)
          <6>1. PICK e \in d .. Len(st.stack) : st.stack[e] = c
            BY <5>3 DEF Inner
          <6>2. e \in DOMAIN st.stack
            BY <1>4
          <6>3. e - 1 \in DOMAIN st.stack /\ st.stack[e - 1] = b
            BY <4>5, <6>1, <6>2
          <6>4. st.blocks[b].end = Len(text) + 1
            BY <2>1, <6>3 DEF Nest
          <6>5. r.blocks[c].end = p + 1
            BY <1>3, <2>1, <3>1, <5>3
          <6> QED
            BY <1>4, <4>4, <5>1, <6>4, <6>5
        <5> QED
          BY <5>2, <5>3
      <4> QED
        BY <4>6, <4>7
    <3> HIDE DEF b
    <3> QED
      BY <3>1, <3>2
  <2>10. ASSUME NEW i \in DOMAIN r.blocks, NEW j \in DOMAIN r.blocks, i < j, r.blocks[i].parent = r.blocks[j].parent
         PROVE  (\A e \in DOMAIN r.stack : r.stack[e] # i) /\ r.blocks[i].end <= r.blocks[j].start
    <3>1. i \in DOMAIN st.blocks /\ j \in DOMAIN st.blocks /\ st.blocks[i].parent = st.blocks[j].parent
          /\ r.blocks[j].start = st.blocks[j].start
      BY <1>3, <2>10
    <3>2. (\A e \in DOMAIN st.stack : st.stack[e] # i) /\ st.blocks[i].end <= st.blocks[j].start
      BY <2>1, <2>10, <3>1 DEF Nest
    <3>3. i \notin Inner(st, d)
      <4>1. \A e \in d .. Len(st.stack) : e \in DOMAIN st.stack
        BY <1>4
      <4> QED
        BY <3>2, <4>1 DEF Inner
    <3>4. r.blocks[i].end = st.blocks[i].end
      BY <1>3, <3>1, <3>3
    <3>5. \A e \in DOMAIN r.stack : r.stack[e] # i
      BY <1>3, <2>2, <3>2
    <3> QED
      BY <3>1, <3>2, <3>4, <3>5
  <2>11. r.pos <= Len(text) + 1
    BY <1>3, <1>4
  <2> QED
    BY <2>6, <2>7, <2>8, <2>9, <2>10, <2>11 DEF Nest
<1> QED
  BY <1>3, <1>6, <1>7 DEF ScanOk

(* Each unit keeps the invariant of the scan.                                *)
LEMMA ScanStepOk ==
  ASSUME NEW text \in Seq(BladeUnit), NEW st \in ScanType, NEW p \in 1 .. Len(text), ScanOk(text, st, p - 1)
  PROVE  ScanStep(text, st, p) \in ScanType /\ ScanOk(text, ScanStep(text, st, p), p)
<1>1. p \in Nat /\ st.pos \in Nat
  BY UnitIs, ScanIs
<1>2. CASE p < st.pos \/ ~Directive(text[p])
  BY <1>2, SameOk DEF ScanStep
<1>3. CASE ~(p < st.pos \/ ~Directive(text[p]))
  <2>1. st.pos <= p
    BY <1>1, <1>3
  <2>2. CASE text[p].name = "verbatim"
    <3>1. ScanStep(text, st, p) = Verbatim(st, text, p)
      BY <1>3, <2>2 DEF ScanStep
    <3> QED
      BY <2>1, <3>1, VerbatimOk
  <2>3. CASE text[p].name # "verbatim" /\ Closable(st, text[p]) # {}
    <3>1. ScanStep(text, st, p) = Close(st, text, p)
      BY <1>3, <2>3 DEF ScanStep
    <3> QED
      BY <2>1, <2>3, <3>1, CloseOk
  <2>4. CASE text[p].name # "verbatim" /\ Closable(st, text[p]) = {} /\ OpensBlock(text[p])
    <3>1. ScanStep(text, st, p) = Open(st, text, p)
      BY <1>3, <2>4 DEF ScanStep
    <3> QED
      BY <2>1, <3>1, OpenOk
  <2>5. CASE text[p].name # "verbatim" /\ Closable(st, text[p]) = {} /\ ~OpensBlock(text[p])
    <3>1. ScanStep(text, st, p) = [st EXCEPT !.pos = After(text, p)]
      BY <1>3, <2>5 DEF ScanStep
    <3>2. PICK r \in ScanType :
            [st EXCEPT !.pos = After(text, p)] = r /\ r.pos = After(text, p) /\ r.stack = st.stack /\ r.blocks = st.blocks
      BY PassedIs
    <3> QED
      BY <2>1, <3>1, <3>2, PassedOk
  <2> QED
    BY <2>2, <2>3, <2>4, <2>5
<1> QED
  BY <1>2, <1>3

(* Each unit keeps the type of the scan's state.                             *)
LEMMA StepKeepsType ==
  ASSUME NEW text \in Seq(BladeUnit), NEW st \in ScanType, NEW p \in 1 .. Len(text)
  PROVE  ScanStep(text, st, p) \in ScanType
<1>1. CASE text[p].name = "verbatim" /\ ~(p < st.pos \/ ~Directive(text[p]))
  <2>1. ScanStep(text, st, p) = Verbatim(st, text, p)
    BY <1>1 DEF ScanStep
  <2>2. Verbatim(st, text, p) \in ScanType
    BY VerbatimIs
  <2> QED
    BY <2>1, <2>2
<1>2. Closable(st, text[p]) # {} => Close(st, text, p) \in ScanType
  <2> SUFFICES ASSUME Closable(st, text[p]) # {} PROVE Close(st, text, p) \in ScanType
    OBVIOUS
  <2> QED
    BY CloseIs
<1>3. Open(st, text, p) \in ScanType
  BY OpenIs
<1>4. [st EXCEPT !.pos = After(text, p)] \in ScanType
  BY PassedIs
<1> QED
  BY <1>1, <1>2, <1>3, <1>4 DEF ScanStep

(* The scan as what follows from one unit to the next.                       *)
ScanStart == [pos |-> 1, stack |-> <<>>, blocks |-> <<>>]

(* There is such a run, and the scan is what it ends with.                   *)
LEMMA ScanRuns ==
  ASSUME NEW text \in Seq(BladeUnit)
  PROVE  \E after \in [0 .. Len(text) -> ScanType] :
           /\ after[0] = ScanStart /\ \A k \in 1 .. Len(text) : after[k] = ScanStep(text, after[k - 1], k)
           /\ Scan(text) = after[Len(text)]
<1> DEFINE n == Len(text)
           T == ScanType
           first == ScanStart
           onward(st, p) ==
             IF p < st.pos \/ ~Directive(text[p]) THEN st
             ELSE IF text[p].name = "verbatim" THEN Verbatim(st, text, p)
             ELSE IF Closable(st, text[p]) # {} THEN Close(st, text, p)
             ELSE IF OpensBlock(text[p]) THEN Open(st, text, p)
             ELSE [st EXCEPT !.pos = After(text, p)]
           step == [k \in 1 .. n |-> [st \in T |-> ScanStep(text, st, k)]]
           Is(g) == g = [p \in 0 .. n |-> IF p = 0 THEN first ELSE onward(g[p - 1], p)]
           after == CHOOSE g : Is(g)
<1>1. n \in Nat
  BY LenProperties
<1>2. Scan(text) = after[n]
  BY DEF Scan, ScanStart
<1> HIDE DEF n
<1>3. \A st : \A p : onward(st, p) = ScanStep(text, st, p)
  BY DEF ScanStep
<1> HIDE DEF onward
<1>4. first \in T
  BY DEF ScanType, ScanStart
<1>5. step \in [1 .. n -> [T -> T]]
  <2>1. \A k \in 1 .. n : \A st \in T : ScanStep(text, st, k) \in T
    BY StepKeepsType DEF n
  <2> HIDE DEF T
  <2> QED
    BY <2>1
<1> HIDE DEF T, first
<1>6. PICK g \in [0 .. n -> T] : Follows(g, n, first, step)
  <2> HIDE DEF step
  <2> QED
    BY <1>1, <1>4, <1>5, RecursionIsThere
<1>7. Is(g)
  <2>1. \A k \in 1 .. n : k - 1 \in 0 .. n /\ g[k - 1] \in T
    BY <1>1
  <2>2. \A k \in 1 .. n : g[k] = step[k][g[k - 1]]
    <3> HIDE DEF step
    <3> QED
      BY <1>6 DEF Follows
  <2>3. \A k \in 1 .. n : g[k] = onward(g[k - 1], k)
    BY <1>3, <2>1, <2>2
  <2>4. g[0] = first
    BY <1>6 DEF Follows
  <2>5. \A k \in 0 .. n : g[k] = IF k = 0 THEN first ELSE onward(g[k - 1], k)
    <3>1. \A k \in 0 .. n : k = 0 \/ k \in 1 .. n
      BY <1>1
    <3> QED
      BY <2>3, <2>4, <3>1
  <2>6. g = [k \in 0 .. n |-> g[k]]
    OBVIOUS
  <2> QED
    BY <2>5, <2>6
<1>8. Is(after)
  <2> HIDE DEF Is
  <2> QED
    BY <1>7
<1> HIDE DEF after
<1>9. after[0] = first /\ \A k \in 1 .. n : after[k] = ScanStep(text, after[k - 1], k)
  <2>1. \A k \in 0 .. n : after[k] = IF k = 0 THEN first ELSE onward(after[k - 1], k)
    BY <1>8
  <2>2. 0 \in 0 .. n /\ \A k \in 1 .. n : k \in 0 .. n /\ k # 0
    BY <1>1
  <2> HIDE DEF Is
  <2> QED
    BY <1>3, <2>1, <2>2
<1> HIDE DEF Is, step
<1>10. after \in [0 .. n -> T]
  <2> DEFINE Good == {k \in 0 .. n : after[k] \in T}
  <2>1. 0 \in Good
    BY <1>1, <1>4, <1>9
  <2>2. \A k \in 1 .. n : k - 1 \in Good => k \in Good
    <3> SUFFICES ASSUME NEW k \in 1 .. n, k - 1 \in Good PROVE k \in Good
      OBVIOUS
    <3>1. after[k - 1] \in ScanType /\ k \in 1 .. Len(text) /\ k \in 0 .. n
      BY <1>1 DEF T, n
    <3>2. ScanStep(text, after[k - 1], k) \in ScanType
      BY <3>1, StepKeepsType
    <3> QED
      BY <1>9, <3>1, <3>2 DEF T
  <2>3. \A k \in 0 .. n : after[k] \in T
    <3> HIDE DEF Good
    <3>1. \A k \in 0 .. n : k \in Good
      BY <1>1, <2>1, <2>2, UpTo
    <3> QED
      BY <3>1 DEF Good
  <2>4. after = [k \in 0 .. n |-> IF k = 0 THEN first ELSE onward(after[k - 1], k)]
    BY <1>8 DEF Is
  <2>5. after = [k \in 0 .. n |-> after[k]]
    BY <2>4
  <2> QED
    BY <2>3, <2>5
<1> QED
  BY <1>2, <1>9, <1>10 DEF n, T, first

(* The blocks of a template start before they end, and when no arguments     *)
(* span others they are nested.                                              *)
LEMMA BlocksAre ==
  ASSUME NEW text \in Seq(BladeUnit)
  PROVE  Proper(Blocks(text)) /\ (Plain(text) => Nested(text, Blocks(text)))
<1> DEFINE n == Len(text)
           T == ScanType
           first == ScanStart
<1>1. n \in Nat
  BY LenProperties
<1>2. PICK after \in [0 .. n -> T] :
        /\ after[0] = first /\ \A k \in 1 .. n : after[k] = ScanStep(text, after[k - 1], k)
        /\ Scan(text) = after[n]
  BY ScanRuns
<1>3. first \in T
  BY DEF ScanType, ScanStart
<1>4. after[0] = first /\ \A k \in 1 .. n : after[k] = ScanStep(text, after[k - 1], k)
  BY <1>2
<1> HIDE DEF n, T, first
<1> DEFINE Good == {k \in 0 .. n : after[k] \in T /\ ScanOk(text, after[k], k)}
<1>5. 0 \in Good
  <2>1. first \in ScanType /\ first.pos = 1 /\ DOMAIN first.stack = {} /\ DOMAIN first.blocks = {}
    BY <1>3 DEF first, T, ScanStart
  <2>2. Found(first, 0)
    BY <2>1 DEF Found
  <2>3. Nest(text, first)
    <3>1. first.pos <= Len(text) + 1
      BY <1>1, <2>1 DEF n
    <3> QED
      BY <2>1, <3>1 DEF Nest
  <2> QED
    BY <1>1, <1>3, <1>4, <2>1, <2>2, <2>3 DEF ScanOk
<1>6. \A k \in 1 .. n : k - 1 \in Good => k \in Good
  <2> SUFFICES ASSUME NEW k \in 1 .. n, k - 1 \in Good PROVE k \in Good
    OBVIOUS
  <2>1. after[k - 1] \in ScanType /\ ScanOk(text, after[k - 1], k - 1) /\ k \in 1 .. Len(text)
    BY DEF T, n
  <2>2. ScanStep(text, after[k - 1], k) \in ScanType /\ ScanOk(text, ScanStep(text, after[k - 1], k), k)
    BY <2>1, ScanStepOk
  <2>3. k \in 0 .. n
    BY <1>1
  <2> QED
    BY <1>4, <2>2, <2>3 DEF T
<1>7. after[n] \in ScanType /\ ScanOk(text, after[n], n)
  <2> HIDE DEF Good
  <2>1. \A k \in 0 .. n : k \in Good
    BY <1>1, <1>5, <1>6, UpTo
  <2>2. n \in Good
    BY <1>1, <2>1
  <2> QED
    BY <2>2 DEF Good, T
<1> DEFINE st == after[n]
           blocks == st.blocks
<1>8. Blocks(text) = blocks
  BY <1>2 DEF Blocks
<1>9. st \in ScanType /\ Found(st, n) /\ (Plain(text) => Nest(text, st))
  BY <1>7 DEF ScanOk
<1> HIDE DEF st
<1>10. /\ st.pos \in Nat /\ blocks \in Seq(BlockType)
       /\ Len(blocks) \in Nat /\ DOMAIN blocks = 1 .. Len(blocks)
       /\ \A c \in DOMAIN blocks : blocks[c].start \in Nat /\ blocks[c].end \in Nat /\ blocks[c].parent \in Nat
  BY <1>9, ScanIs
<1>11. Proper(blocks)
  BY <1>9, <1>10 DEF Found, Proper
<1>12. ASSUME Plain(text) PROVE Nested(text, blocks)
  <2>1. Nest(text, st)
    BY <1>9, <1>12
  <2>2. ASSUME NEW c \in DOMAIN blocks
        PROVE  /\ blocks[c].end <= Len(text) + 1
               /\ blocks[c].parent # 0 =>
                    /\ blocks[c].parent \in DOMAIN blocks
                    /\ blocks[blocks[c].parent].start <= blocks[c].start
                    /\ blocks[c].end <= blocks[blocks[c].parent].end
    <3>1. blocks[c].end <= Len(text) + 1
      <4>1. CASE \E e \in DOMAIN st.stack : st.stack[e] = c
        <5>1. blocks[c].end = Len(text) + 1
          BY <2>1, <4>1 DEF Nest
        <5> QED
          BY <1>10, <5>1
      <4>2. CASE blocks[c].end <= st.pos
        <5>1. st.pos <= Len(text) + 1
          BY <2>1 DEF Nest
        <5> QED
          BY <1>1, <1>10, <4>2, <5>1 DEF n
      <4> QED
        BY <2>1, <4>1, <4>2 DEF Nest
    <3>2. blocks[c].parent < c
      BY <2>1 DEF Nest
    <3>3. blocks[c].parent # 0 => blocks[c].parent \in DOMAIN blocks
      BY <1>10, <3>2
    <3>4. blocks[c].parent # 0 =>
            /\ blocks[blocks[c].parent].start <= blocks[c].start
            /\ blocks[c].end <= blocks[blocks[c].parent].end
      BY <2>1 DEF Nest
    <3> QED
      BY <3>1, <3>3, <3>4
  <2>3. \A c, d \in DOMAIN blocks : c < d /\ blocks[c].parent = blocks[d].parent => blocks[c].end <= blocks[d].start
    BY <2>1 DEF Nest
  <2> QED
    BY <2>2, <2>3 DEF Nested
<1> QED
  BY <1>8, <1>11, <1>12

-----------------------------------------------------------------------------
(* All formats.                                                              *)

(* All text of a template is kept, and when no arguments span directives     *)
(* each unit is in one chunk.                                                *)
LEMMA BladeKept ==
  ASSUME NEW text \in Seq(BladeUnit)
  PROVE  /\ BladeChunksOf(text) \in Seq(Spanning)
         /\ Somewhere(BladeChunksOf(text), DOMAIN text \ BladeBlanks(text))
         /\ Plain(text) => Once(BladeChunksOf(text), DOMAIN text \ BladeBlanks(text))
<1> DEFINE blocks == Blocks(text)
           cs == BladeChunksOf(text)
<1>1. Proper(blocks) /\ (Plain(text) => Nested(text, blocks))
  BY BlocksAre
<1>2. cs = Emit(text, blocks)[0][""]
  BY DEF BladeChunksOf
<1> HIDE DEF blocks, cs
<1>3. 0 \in 0 .. Len(blocks) /\ "" \in BladeNames
  <2>1. blocks \in Seq(BlockType)
    BY <1>1 DEF Proper
  <2>2. PICK n \in Nat : n = Len(blocks)
    BY <2>1, LenProperties
  <2>3. 0 \in 0 .. n
    OBVIOUS
  <2> QED
    BY <2>2, <2>3, BladeNamesAre
<1>4. ChunksOfBlock(text, blocks, 0, cs)
  <2>1. Emit(text, blocks) \in ChunkLists(text, blocks)
    BY <1>1, EmitIs
  <2> QED
    BY <1>2, <1>3, <2>1 DEF ChunkLists
<1>5. SpanStart(blocks, 0) = 1 /\ SpanEnd(text, blocks, 0) = Len(text) + 1
  BY DEF SpanStart, SpanEnd
<1>6. SpanStart(blocks, 0) .. SpanEnd(text, blocks, 0) - 1 = DOMAIN text
  <2>1. PICK h \in Nat : h = Len(text) /\ DOMAIN text = 1 .. h
    BY LenProperties
  <2>2. h + 1 - 1 = h
    OBVIOUS
  <2> QED
    BY <1>5, <2>1, <2>2
<1>7. cs \in Seq(Spanning) /\ Somewhere(cs, DOMAIN text \ BladeBlanks(text))
  BY <1>4, <1>6 DEF ChunksOfBlock
<1>8. Plain(text) => Once(cs, DOMAIN text \ BladeBlanks(text))
  <2>1. Plain(text) => Kept(cs, SpanStart(blocks, 0), SpanEnd(text, blocks, 0), BladeBlanks(text))
    BY <1>1, <1>4 DEF ChunksOfBlock
  <2> QED
    BY <1>6, <2>1 DEF Kept
<1> QED
  BY <1>7, <1>8 DEF cs

-----------------------------------------------------------------------------
(* What is stored for the chunks of a list: pieces, those of one chunk behind *)
(* those of the other.                                                       *)

(* The pieces of k lists, one list behind the other.                         *)
Laid(s, seqs, k) ==
  /\ \A i \in DOMAIN s :
       s[i].parent \in 1 .. k /\ \E j \in DOMAIN seqs[s[i].parent] : s[i] = seqs[s[i].parent][j]
  /\ \A m \in 1 .. k : \A j \in DOMAIN seqs[m] : \E i \in DOMAIN s : s[i] = seqs[m][j]
  /\ \A i, j \in DOMAIN s : i <= j => s[i].parent <= s[j].parent

(* One list more.                                                            *)
LEMMA LaidBehind ==
  ASSUME NEW T, NEW s \in Seq(T), NEW n \in Nat, NEW seqs \in [1 .. n -> Seq(T)], NEW k \in 1 .. n,
         Laid(s, seqs, k - 1), \A j \in DOMAIN seqs[k] : seqs[k][j].parent = k
  PROVE  Laid(s \o seqs[k], seqs, k)
<1> DEFINE both == s \o seqs[k]
<1>1. seqs[k] \in Seq(T)
  OBVIOUS
<1>2. /\ \A j \in DOMAIN s : j \in DOMAIN both /\ both[j] = s[j]
      /\ \A j \in DOMAIN seqs[k] : Len(s) + j \in DOMAIN both /\ both[Len(s) + j] = seqs[k][j]
      /\ \A i \in DOMAIN both :
           \/ i \in DOMAIN s /\ both[i] = s[i]
           \/ i - Len(s) \in DOMAIN seqs[k] /\ both[i] = seqs[k][i - Len(s)] /\ i > Len(s)
      /\ DOMAIN s = 1 .. Len(s) /\ Len(s) \in Nat /\ DOMAIN both \subseteq Nat
  <2>1. \A i \in DOMAIN seqs[k] : i \in Nat /\ i > 0
    BY <1>1, LenProperties
  <2> HIDE DEF both
  <2> QED
    BY <1>1, <2>1, Joined DEF both
<1> HIDE DEF both
<1>3. ASSUME NEW i \in DOMAIN both
      PROVE  /\ both[i].parent \in 1 .. k
             /\ \E j \in DOMAIN seqs[both[i].parent] : both[i] = seqs[both[i].parent][j]
             /\ i \in DOMAIN s => both[i].parent \in 1 .. k - 1
             /\ i \notin DOMAIN s => both[i].parent = k
  <2>1. CASE i \in DOMAIN s
    <3>1. both[i] = s[i]
      BY <1>2, <2>1
    <3>2. s[i].parent \in 1 .. k - 1 /\ \E j \in DOMAIN seqs[s[i].parent] : s[i] = seqs[s[i].parent][j]
      BY <2>1 DEF Laid
    <3> QED
      BY <2>1, <3>1, <3>2
  <2>2. CASE i \notin DOMAIN s
    <3>1. i - Len(s) \in DOMAIN seqs[k] /\ both[i] = seqs[k][i - Len(s)]
      BY <1>2, <2>2
    <3>2. both[i].parent = k
      BY <3>1
    <3> QED
      BY <2>2, <3>1, <3>2
  <2> QED
    BY <2>1, <2>2
<1>4. ASSUME NEW m \in 1 .. k, NEW j \in DOMAIN seqs[m] PROVE \E i \in DOMAIN both : both[i] = seqs[m][j]
  <2>1. CASE m = k
    BY <1>2, <2>1
  <2>2. CASE m \in 1 .. k - 1
    <3>1. PICK i \in DOMAIN s : s[i] = seqs[m][j]
      BY <2>2 DEF Laid
    <3> QED
      BY <1>2, <3>1
  <2> QED
    BY <2>1, <2>2
<1>5. ASSUME NEW i \in DOMAIN both, NEW j \in DOMAIN both, i <= j PROVE both[i].parent <= both[j].parent
  <2>1. CASE j \in DOMAIN s
    <3>1. i \in DOMAIN s
      <4>1. i \in DOMAIN s \/ i > Len(s)
        BY <1>2
      <4> QED
        BY <1>2, <1>5, <2>1, <4>1
    <3>2. s[i].parent <= s[j].parent
      BY <1>5, <2>1, <3>1 DEF Laid
    <3> QED
      BY <1>2, <2>1, <3>1, <3>2
  <2>2. CASE j \notin DOMAIN s
    BY <1>3, <2>2
  <2> QED
    BY <2>1, <2>2
<1>6. Laid(both, seqs, k)
  BY <1>3, <1>4, <1>5 DEF Laid
<1> QED
  BY <1>6 DEF both

(* Flattening puts the lists one behind the other.                           *)
LEMMA FlattenLaid ==
  ASSUME NEW T, NEW n \in Nat, NEW seqs \in [1 .. n -> Seq(T)],
         \A k \in 1 .. n : \A j \in DOMAIN seqs[k] : seqs[k][j].parent = k
  PROVE  FlattenSeq(seqs) \in Seq(T) /\ Laid(FlattenSeq(seqs), seqs, n)
<1>1. PICK g \in [0 .. n -> Seq(T)] : Grows(g, seqs, n) /\ FlattenSeq(seqs) = g[n]
  BY FlattenGrows
<1>2. g[0] = <<>> /\ \A k \in 1 .. n : g[k] = g[k - 1] \o seqs[k]
  BY <1>1 DEF Grows
<1> DEFINE Q == {k \in 0 .. n : Laid(g[k], seqs, k)}
<1>3. 0 \in Q
  <2>1. Laid(<<>>, seqs, 0)
    BY DEF Laid
  <2> QED
    BY <1>2, <2>1
<1>4. \A k \in 1 .. n : k - 1 \in Q => k \in Q
  <2> SUFFICES ASSUME NEW k \in 1 .. n, k - 1 \in Q PROVE k \in Q
    OBVIOUS
  <2>1. k - 1 \in 0 .. n /\ k \in 0 .. n /\ g[k - 1] \in Seq(T) /\ Laid(g[k - 1], seqs, k - 1)
    OBVIOUS
  <2>2. Laid(g[k - 1] \o seqs[k], seqs, k)
    BY <2>1, LaidBehind
  <2> QED
    BY <1>2, <2>1, <2>2
<1>5. Laid(g[n], seqs, n)
  <2> HIDE DEF Q
  <2>1. \A k \in 0 .. n : k \in Q
    BY <1>3, <1>4, UpTo
  <2>2. n \in 0 .. n
    OBVIOUS
  <2> QED
    BY <2>1, <2>2 DEF Q
<1>6. g[n] \in Seq(T)
  <2>1. n \in 0 .. n
    OBVIOUS
  <2> QED
    BY <2>1
<1> QED
  BY <1>1, <1>5, <1>6

(* Windows of a text of n lines.                                             *)
CutsText(ws, n) == ws \in Seq([from : Nat, to : Nat]) /\ IsCutting(ws, n)

LEMMA WindowsAre ==
  ASSUME NEW n \in Nat, NEW ws, CutsText(ws, n)
  PROVE  \E m \in Nat \ {0} :
           /\ m = Len(ws) /\ DOMAIN ws = 1 .. m /\ ws[1].from = 1 /\ ws[m].to = n
           /\ \A k \in 1 .. m : ws[k].from \in 1 .. n /\ ws[k].to \in ws[k].from .. n
           /\ \A k \in 1 .. m - 1 : ws[k + 1].from \in ws[k].from + 1 .. ws[k].to + 1
<1>1. ws \in Seq([from : Nat, to : Nat]) /\ ws # <<>>
  BY DEF CutsText, IsCutting
<1>2. PICK m \in Nat : m = Len(ws) /\ DOMAIN ws = 1 .. m /\ m # 0
  BY <1>1, LenProperties, EmptySeq
<1>3. \A k \in 2 .. m : ws[k].from \in ws[k - 1].from + 1 .. ws[k - 1].to + 1
  BY <1>2 DEF CutsText, IsCutting
<1>4. \A k \in 1 .. m - 1 : ws[k + 1].from \in ws[k].from + 1 .. ws[k].to + 1
  <2> SUFFICES ASSUME NEW k \in 1 .. m - 1
               PROVE  ws[k + 1].from \in ws[k].from + 1 .. ws[k].to + 1
    OBVIOUS
  <2>1. k + 1 \in 2 .. m /\ k + 1 - 1 = k
    BY <1>2
  <2> QED
    BY <1>3, <2>1
<1>5. ws[1].from = 1 /\ ws[m].to = n
  BY <1>2 DEF CutsText, IsCutting
<1>6. \A k \in 1 .. m : ws[k].from \in 1 .. n /\ ws[k].to \in ws[k].from .. n
  BY <1>2 DEF CutsText, IsCutting
<1> QED
  BY <1>2, <1>4, <1>5, <1>6

(* The window that starts last of those that start at a line or before it    *)
(* has the line, and there is one.                                           *)
LEMMA LastWindow ==
  ASSUME NEW n \in Nat, NEW ws, CutsText(ws, n), NEW i \in 1 .. n
  PROVE  /\ \A k \in DOMAIN ws :
              (/\ ws[k].from <= i
               /\ \A j \in DOMAIN ws : ws[j].from <= i => ws[j].from <= ws[k].from)
                => i <= ws[k].to
         /\ \E k \in DOMAIN ws : ws[k].from <= i /\ i <= ws[k].to
<1>1. PICK m \in Nat \ {0} :
        /\ DOMAIN ws = 1 .. m /\ ws[1].from = 1 /\ ws[m].to = n
        /\ \A k \in 1 .. m : ws[k].from \in 1 .. n /\ ws[k].to \in ws[k].from .. n
        /\ \A k \in 1 .. m - 1 : ws[k + 1].from \in ws[k].from + 1 .. ws[k].to + 1
  BY WindowsAre
<1>2. ASSUME NEW k \in 1 .. m, k = m \/ ws[k + 1].from > i
      PROVE  i <= ws[k].to
  <2>1. CASE k = m
    BY <1>1, <2>1
  <2>2. CASE k # m
    <3>1. k \in 1 .. m - 1
      BY <2>2
    <3>2. ws[k + 1].from <= ws[k].to + 1
      BY <1>1, <3>1
    <3>3. ws[k + 1].from \in Nat /\ ws[k].to \in Nat /\ ws[k + 1].from > i
      <4>1. k + 1 \in 1 .. m
        BY <3>1
      <4> QED
        BY <1>1, <1>2, <2>2, <4>1
    <3> QED
      BY <3>2, <3>3
  <2> QED
    BY <2>1, <2>2
<1>3. ASSUME NEW k \in 1 .. m, ws[k].from <= i,
             \A j \in 1 .. m : ws[j].from <= i => ws[j].from <= ws[k].from
      PROVE  i <= ws[k].to
  <2>1. CASE k = m
    BY <1>2, <2>1
  <2>2. CASE k # m
    <3>1. k \in 1 .. m - 1 /\ k + 1 \in 1 .. m
      BY <2>2
    <3>2. ws[k + 1].from \in Nat /\ ws[k].from \in Nat /\ ws[k + 1].from > ws[k].from
      BY <1>1, <3>1
    <3>3. ws[k + 1].from > i
      BY <1>3, <3>1, <3>2
    <3> QED
      BY <1>2, <3>3
  <2> QED
    BY <2>1, <2>2
<1>4. \E k \in 1 .. m : ws[k].from <= i /\ i <= ws[k].to
  <2> DEFINE K == {k \in 1 .. m : ws[k].from <= i}
  <2>1. 1 \in K
    BY <1>1
  <2>2. K \in SUBSET (0 .. m)
    OBVIOUS
  <2>3. PICK k \in K : \A j \in K : j <= k
    <3> HIDE DEF K
    <3>1. Max(K) \in K /\ \A j \in K : j <= Max(K)
      BY <2>1, <2>2, MaxIs
    <3> QED
      BY <3>1
  <2>4. k = m \/ ws[k + 1].from > i
    <3> SUFFICES ASSUME k # m PROVE ws[k + 1].from > i
      OBVIOUS
    <3>1. k + 1 \in 1 .. m /\ ~(k + 1 <= k) /\ ws[k + 1].from \in Nat
      BY <1>1
    <3> QED
      BY <2>3, <3>1
  <2> QED
    BY <1>2, <2>4
<1> QED
  BY <1>1, <1>3, <1>4

(* What is stored.                                                           *)
PieceOf == [parent : Nat, units : SUBSET Nat, start : Nat, end : Int, name : Labels, kind : Labels]

(* A piece of the k-th chunk has a part of its units and its name.  The      *)
(* chunk's own lines are those of the only piece, and the lines of a text of *)
(* successive lines are told by where they are in it.                        *)
IsPiece(p, k, c) ==
  /\ p.parent = k /\ p.name = c.name /\ p.units \subseteq c.units
  /\ ~c.split => p.units = c.units /\ p.start = c.start /\ p.end = c.end
  /\ c.split /\ ~Scattered(c) => p.units = p.start .. p.end /\ p.start \in p.units

(* The pieces have all units of the chunk, the first starts where it does,   *)
(* and that which starts last at a unit or before it has the unit.           *)
ArePieces(ps, k, c) ==
  /\ \A j \in DOMAIN ps : IsPiece(ps[j], k, c)
  /\ \A u \in c.units : \E j \in DOMAIN ps : u \in ps[j].units
  /\ \E j \in DOMAIN ps : ps[j].start = c.start
  /\ ~Displaced(c) => \A u \in c.units, j \in DOMAIN ps :
       (/\ ps[j].start <= u
        /\ \A i \in DOMAIN ps : ps[i].start <= u => ps[i].start <= ps[j].start) => u \in ps[j].units

(* The pieces of a chunk that is cut.                                        *)
LEMMA CutPieces ==
  ASSUME NEW c \in AnyChunk, c.split, NEW k \in Nat, NEW ws, CutsText(ws, Len(c.text))
  PROVE  Pieces(k, c, ws) \in Seq(PieceOf) /\ ArePieces(Pieces(k, c, ws), k, c)
<1> DEFINE n == Len(c.text)
           ps == Pieces(k, c, ws)
           held(w) == {c.text[i] : i \in w.from .. w.to} \ {NoLine}
<1>1. /\ c.text \in Seq(Int) /\ c.units \in SUBSET Nat /\ c.start \in Nat /\ c.name \in Labels /\ c.kind \in Labels
      /\ c.units = Range(c.text) \ {NoLine}
  BY DEF AnyChunk, Records, Tells
<1>2. n \in Nat /\ DOMAIN c.text = 1 .. n
  BY <1>1, LenProperties
<1>3. PICK m \in Nat \ {0} :
        /\ DOMAIN ws = 1 .. m /\ ws[1].from = 1
        /\ \A j \in 1 .. m : ws[j].from \in 1 .. n /\ ws[j].to \in ws[j].from .. n
  BY <1>2, WindowsAre
<1>4. \A i \in 1 .. n :
        /\ \A j \in 1 .. m :
             (/\ ws[j].from <= i
              /\ \A l \in 1 .. m : ws[l].from <= i => ws[l].from <= ws[j].from)
               => i <= ws[j].to
        /\ \E j \in 1 .. m : ws[j].from <= i /\ i <= ws[j].to
  BY <1>2, <1>3, LastWindow
<1>5. ps = [j \in 1 .. m |-> SubChunk(k, c, ws[j])]
  BY <1>3 DEF Pieces
<1>6. \A i \in 1 .. n : c.text[i] \in Int /\ (c.text[i] # NoLine => c.text[i] \in c.units)
  BY <1>1, <1>2 DEF Range
<1> HIDE DEF ps, n
<1>7. ASSUME NEW j \in 1 .. m
      PROVE  \E a \in 1 .. n, b \in 1 .. n :
               /\ a = ws[j].from /\ b = ws[j].to /\ a <= b
               /\ held(ws[j]) \subseteq c.units
               /\ ps[j] = [ parent |-> k, units |-> held(ws[j]), start |-> c.start + a - 1,
                            end |-> c.start + b - 1, name |-> c.name, kind |-> c.kind ]
               /\ ps[j].parent = k /\ ps[j].name = c.name /\ ps[j].units = held(ws[j])
               /\ ps[j].start = c.start + a - 1 /\ ps[j].end = c.start + b - 1
  <2>1. PICK a \in 1 .. n, b \in 1 .. n : a = ws[j].from /\ b = ws[j].to /\ a <= b
    BY <1>2, <1>3
  <2>2. held(ws[j]) \subseteq c.units
    BY <1>2, <1>6, <2>1
  <2> HIDE DEF held
  <2>3. SubChunk(k, c, ws[j]) = [ parent |-> k, units |-> held(ws[j]), start |-> c.start + a - 1,
                            end |-> c.start + b - 1, name |-> c.name, kind |-> c.kind ]
    BY <2>1 DEF SubChunk, Piece, held
  <2>4. ps[j] = SubChunk(k, c, ws[j])
    BY <1>5
  <2>5. /\ ps[j].parent = k /\ ps[j].name = c.name /\ ps[j].units = held(ws[j])
        /\ ps[j].start = c.start + a - 1 /\ ps[j].end = c.start + b - 1
    BY <2>3, <2>4
  <2> QED
    BY <2>1, <2>2, <2>3, <2>4, <2>5
<1> HIDE DEF held
<1>8. ASSUME NEW j \in 1 .. m PROVE ps[j] \in PieceOf
  <2>1. PICK a \in 1 .. n, b \in 1 .. n :
          /\ held(ws[j]) \subseteq c.units
          /\ ps[j] = [ parent |-> k, units |-> held(ws[j]), start |-> c.start + a - 1,
                       end |-> c.start + b - 1, name |-> c.name, kind |-> c.kind ]
    BY <1>7
  <2>2. c.start + a - 1 \in Nat /\ c.start + b - 1 \in Int /\ held(ws[j]) \in SUBSET Nat
    BY <1>1, <1>2, <2>1
  <2> QED
    BY <1>1, <2>1, <2>2 DEF PieceOf
<1>9. ps \in Seq(PieceOf) /\ DOMAIN ps = 1 .. m
  BY <1>5, <1>8
<1>10. ASSUME ~Scattered(c), NEW i \in 1 .. n PROVE c.text[i] = c.start + i - 1 /\ c.text[i] \in c.units
  <2>1. c.text[i] = c.start + i - 1
    BY <1>2, <1>10 DEF Scattered
  <2> QED
    BY <1>1, <1>2, <1>6, <2>1 DEF NoLine
<1>11. ASSUME ~Scattered(c), NEW j \in 1 .. m
       PROVE  \A u \in c.units :
                u \in ps[j].units <=> \E i \in 1 .. n : u = c.start + i - 1 /\ ws[j].from <= i /\ i <= ws[j].to
  <2> SUFFICES ASSUME NEW u \in c.units
               PROVE  u \in ps[j].units <=> \E i \in 1 .. n : u = c.start + i - 1 /\ ws[j].from <= i /\ i <= ws[j].to
    OBVIOUS
  <2>1. PICK a \in 1 .. n, b \in 1 .. n :
          a = ws[j].from /\ b = ws[j].to /\ ps[j].units = held(ws[j])
    BY <1>7
  <2>2. \A i \in a .. b : i \in 1 .. n /\ a <= i /\ i <= b
    BY <1>2
  <2>3. \A i \in 1 .. n : a <= i /\ i <= b => i \in a .. b
    BY <1>2
  <2>4. u # NoLine
    BY <1>1 DEF NoLine
  <2> QED
    BY <1>10, <1>11, <2>1, <2>2, <2>3, <2>4 DEF held
<1>12. ASSUME NEW j \in 1 .. m PROVE IsPiece(ps[j], k, c)
  <2>1. PICK a \in 1 .. n, b \in 1 .. n :
          /\ a = ws[j].from /\ b = ws[j].to /\ a <= b
          /\ held(ws[j]) \subseteq c.units
          /\ ps[j].parent = k /\ ps[j].name = c.name /\ ps[j].units = held(ws[j])
          /\ ps[j].start = c.start + a - 1 /\ ps[j].end = c.start + b - 1
    BY <1>7
  <2>2. ASSUME ~Scattered(c) PROVE held(ws[j]) = c.start + a - 1 .. c.start + b - 1
    <3>1. \A i \in a .. b : i \in 1 .. n /\ c.text[i] = c.start + i - 1 /\ c.text[i] # NoLine
      BY <1>1, <1>2, <1>10, <2>2 DEF NoLine
    <3>2. ASSUME NEW v \in c.start + a - 1 .. c.start + b - 1 PROVE v \in held(ws[j])
      <4>1. v - c.start + 1 \in a .. b /\ c.start + (v - c.start + 1) - 1 = v
        <5>1. a \in Nat /\ b \in Nat /\ c.start \in Nat
          BY <1>1, <1>2
        <5>2. \A x, y, z \in Nat : \A w \in z + x - 1 .. z + y - 1 : w - z + 1 \in x .. y /\ z + (w - z + 1) - 1 = w
          OBVIOUS
        <5> QED
          BY <5>1, <5>2
      <4>2. c.text[v - c.start + 1] = v /\ v # NoLine
        BY <3>1, <4>1
      <4> QED
        BY <2>1, <4>1, <4>2 DEF held
    <3>3. ASSUME NEW v \in held(ws[j]) PROVE v \in c.start + a - 1 .. c.start + b - 1
      <4>1. PICK i \in a .. b : v = c.text[i]
        BY <2>1 DEF held
      <4> QED
        BY <1>1, <1>2, <3>1, <4>1
    <3> QED
      BY <3>2, <3>3
  <2>3. c.start + a - 1 \in c.start + a - 1 .. c.start + b - 1
    <3>1. a \in Nat /\ b \in Nat /\ c.start \in Nat /\ a <= b
      BY <1>1, <1>2, <2>1
    <3>2. \A x, y, z \in Nat : x <= y => z + x - 1 \in z + x - 1 .. z + y - 1
      OBVIOUS
    <3> QED
      BY <3>1, <3>2
  <2> QED
    BY <2>1, <2>2, <2>3 DEF IsPiece
<1>13. ASSUME NEW u \in c.units PROVE \E j \in 1 .. m : u \in ps[j].units
  <2>1. PICK i \in 1 .. n : u = c.text[i] /\ u # NoLine
    BY <1>1, <1>2 DEF Range
  <2>2. PICK j \in 1 .. m : ws[j].from <= i /\ i <= ws[j].to
    BY <1>4
  <2>3. PICK a \in 1 .. n, b \in 1 .. n :
          a = ws[j].from /\ b = ws[j].to /\ ps[j].units = held(ws[j])
    BY <1>7
  <2>4. i \in ws[j].from .. ws[j].to
    BY <1>2, <2>2, <2>3
  <2> QED
    BY <2>1, <2>3, <2>4 DEF held
<1>14. 1 \in 1 .. m /\ ps[1].start = c.start
  <2>1. 1 \in 1 .. m
    OBVIOUS
  <2>2. PICK a \in 1 .. n : a = ws[1].from /\ ps[1].start = c.start + a - 1
    BY <1>7, <2>1
  <2> QED
    BY <1>1, <1>3, <2>1, <2>2
<1>15. ASSUME ~Displaced(c), NEW u \in c.units, NEW j \in 1 .. m, ps[j].start <= u,
              \A i \in 1 .. m : ps[i].start <= u => ps[i].start <= ps[j].start
       PROVE  u \in ps[j].units
  <2>1. ~Scattered(c)
    BY <1>15 DEF Displaced
  <2>2. PICK i \in 1 .. n : u = c.text[i]
    BY <1>1, <1>2 DEF Range
  <2>3. u = c.start + i - 1
    BY <1>10, <2>1, <2>2
  <2>4. ASSUME NEW l \in 1 .. m PROVE ws[l].from \in Nat /\ ps[l].start = c.start + ws[l].from - 1
    <3>1. PICK a \in 1 .. n : a = ws[l].from /\ ps[l].start = c.start + a - 1
      BY <1>7
    <3> QED
      BY <1>2, <3>1
  <2>5. \A l \in 1 .. m : ps[l].start <= u <=> ws[l].from <= i
    BY <1>1, <1>2, <2>3, <2>4
  <2>6. \A l \in 1 .. m : ps[l].start <= ps[j].start => ws[l].from <= ws[j].from
    <3>1. \A x, y, z \in Nat : z + x - 1 <= z + y - 1 => x <= y
      OBVIOUS
    <3> QED
      BY <1>1, <2>4, <3>1
  <2>7. ws[j].from <= i /\ \A l \in 1 .. m : ws[l].from <= i => ws[l].from <= ws[j].from
    BY <1>15, <2>5, <2>6
  <2>8. i <= ws[j].to
    BY <1>4, <2>7
  <2> QED
    BY <1>11, <2>1, <2>3, <2>7, <2>8
<1>16. ArePieces(ps, k, c)
  BY <1>9, <1>12, <1>13, <1>14, <1>15 DEF ArePieces
<1> QED
  BY <1>9, <1>16 DEF ps

(* The only piece of one that is not.                                        *)
LEMMA WholePiece ==
  ASSUME NEW c \in AnyChunk, ~c.split, NEW k \in Nat, NEW ws
  PROVE  Pieces(k, c, ws) \in Seq(PieceOf) /\ ArePieces(Pieces(k, c, ws), k, c)
<1> DEFINE p == Piece(k, c, c.units, c.start, c.end)
<1>1. c.units \in SUBSET Nat /\ c.start \in Nat /\ c.end \in Int /\ c.name \in Labels /\ c.kind \in Labels
  BY DEF AnyChunk, Records
<1>2. Pieces(k, c, ws) = <<p>>
  BY DEF Pieces
<1>3. p \in PieceOf
  BY <1>1 DEF Piece, PieceOf
<1>4. p.parent = k /\ p.name = c.name /\ p.units = c.units /\ p.start = c.start /\ p.end = c.end
  BY DEF Piece
<1> HIDE DEF p
<1>5. IsPiece(p, k, c)
  BY <1>4 DEF IsPiece
<1>6. <<p>> \in Seq(PieceOf) /\ DOMAIN <<p>> = {1} /\ <<p>>[1] = p
  BY <1>3
<1>7. ArePieces(<<p>>, k, c)
  BY <1>4, <1>5, <1>6 DEF ArePieces
<1> QED
  BY <1>2, <1>6, <1>7

(* What is stored for the chunks cs.                                         *)
IsStored(s, cs) ==
  /\ \A i \in DOMAIN s : s[i].parent \in DOMAIN cs /\ IsPiece(s[i], s[i].parent, cs[s[i].parent])
  /\ \A k \in DOMAIN cs : \A u \in cs[k].units : \E i \in DOMAIN s : s[i].parent = k /\ u \in s[i].units
  /\ \A k \in DOMAIN cs : \E i \in DOMAIN s : s[i].parent = k /\ s[i].start = cs[k].start
  /\ \A j \in DOMAIN s : ~Displaced(cs[s[j].parent]) => \A u \in cs[s[j].parent].units :
       (/\ s[j].start <= u
        /\ \A i \in DOMAIN s : s[i].start <= u => s[i].start <= s[j].start) => u \in s[j].units
  /\ \A i, j \in DOMAIN s : i <= j => s[i].parent <= s[j].parent

(* The pieces of the k-th.                                                  *)
PiecesOf(cs, cutting, k) == Pieces(k, cs[k], cutting[k][Len(cs[k].text)])

LEMMA StoredIs ==
  ASSUME NEW cs \in Seq(AnyChunk), NEW cutting, Allows(cutting, cs)
  PROVE  Stored(cs, cutting) \in Seq(PieceOf) /\ IsStored(Stored(cs, cutting), cs)
<1> DEFINE seqs == [k \in DOMAIN cs |-> PiecesOf(cs, cutting, k)]
           s == Stored(cs, cutting)
<1>1. PICK n \in Nat : DOMAIN cs = 1 .. n
  BY LenProperties
<1>2. ASSUME NEW k \in 1 .. n PROVE PiecesOf(cs, cutting, k) \in Seq(PieceOf) /\ ArePieces(PiecesOf(cs, cutting, k), k, cs[k])
  <2>1. cs[k] \in AnyChunk /\ k \in Nat
    BY <1>1
  <2>2. CASE cs[k].split
    <3>1. CutsText(cutting[k][Len(cs[k].text)], Len(cs[k].text))
      BY <1>1, <2>2 DEF Allows, CutsText
    <3> QED
      BY <2>1, <2>2, <3>1, CutPieces DEF PiecesOf
  <2>3. CASE ~cs[k].split
    BY <2>1, <2>3, WholePiece DEF PiecesOf
  <2> QED
    BY <2>2, <2>3
<1>3. s = FlattenSeq(seqs)
  BY DEF Stored, PiecesOf
<1> HIDE DEF s
<1>4. seqs \in [1 .. n -> Seq(PieceOf)] /\ \A k \in 1 .. n : seqs[k] = PiecesOf(cs, cutting, k)
  BY <1>1, <1>2
<1> HIDE DEF seqs
<1>5. \A k \in 1 .. n : ArePieces(seqs[k], k, cs[k])
  BY <1>2, <1>4
<1>6. \A k \in 1 .. n : \A j \in DOMAIN seqs[k] : seqs[k][j].parent = k
  BY <1>5 DEF ArePieces, IsPiece
<1>7. s \in Seq(PieceOf) /\ Laid(s, seqs, n)
  BY <1>3, <1>4, <1>6, FlattenLaid
<1>8. \A i \in DOMAIN s : s[i].parent \in 1 .. n /\ \E j \in DOMAIN seqs[s[i].parent] : s[i] = seqs[s[i].parent][j]
  BY <1>7 DEF Laid
<1>9. \A k \in 1 .. n : \A j \in DOMAIN seqs[k] : \E i \in DOMAIN s : s[i] = seqs[k][j]
  BY <1>7 DEF Laid
<1>10. ASSUME NEW i \in DOMAIN s PROVE s[i].parent \in DOMAIN cs /\ IsPiece(s[i], s[i].parent, cs[s[i].parent])
  BY <1>1, <1>5, <1>8 DEF ArePieces
<1>11. ASSUME NEW k \in DOMAIN cs, NEW u \in cs[k].units PROVE \E i \in DOMAIN s : s[i].parent = k /\ u \in s[i].units
  <2>1. PICK j \in DOMAIN seqs[k] : u \in seqs[k][j].units
    BY <1>1, <1>5 DEF ArePieces
  <2>2. PICK i \in DOMAIN s : s[i] = seqs[k][j]
    BY <1>1, <1>9
  <2> QED
    BY <1>1, <1>6, <2>1, <2>2
<1>12. ASSUME NEW k \in DOMAIN cs PROVE \E i \in DOMAIN s : s[i].parent = k /\ s[i].start = cs[k].start
  <2>1. PICK j \in DOMAIN seqs[k] : seqs[k][j].start = cs[k].start
    BY <1>1, <1>5 DEF ArePieces
  <2>2. PICK i \in DOMAIN s : s[i] = seqs[k][j]
    BY <1>1, <1>9
  <2> QED
    BY <1>1, <1>6, <2>1, <2>2
<1>13. ASSUME NEW j \in DOMAIN s, ~Displaced(cs[s[j].parent]), NEW u \in cs[s[j].parent].units, s[j].start <= u,
              \A i \in DOMAIN s : s[i].start <= u => s[i].start <= s[j].start
       PROVE  u \in s[j].units
  <2>0. PICK k \in 1 .. n : k = s[j].parent
    BY <1>8
  <2>1. PICK l \in DOMAIN seqs[k] : k = s[j].parent /\ s[j] = seqs[k][l]
    BY <1>8, <2>0
  <2>2. \A i \in DOMAIN seqs[k] : seqs[k][i].start <= u => seqs[k][i].start <= seqs[k][l].start
    BY <1>9, <1>13, <2>1
  <2>3. ~Displaced(cs[k]) /\ u \in cs[k].units /\ seqs[k][l].start <= u
    BY <1>13, <2>1
  <2>4. u \in seqs[k][l].units
    BY <1>5, <2>2, <2>3 DEF ArePieces
  <2> QED
    BY <2>1, <2>4
<1>14. IsStored(s, cs)
  BY <1>7, <1>10, <1>11, <1>12, <1>13 DEF IsStored, Laid
<1> QED
  BY <1>7, <1>14 DEF s

(* A unit that is in one chunk has one owner.                                *)
LEMMA OneOwner ==
  ASSUME NEW cs, NEW A, Once(cs, A), NEW u \in A
  PROVE  LET owners == {k \in DOMAIN cs : u \in cs[k].units} IN owners # {} /\ Cardinality(owners) = 1
<1> DEFINE owners == {k \in DOMAIN cs : u \in cs[k].units}
<1>1. PICK k \in DOMAIN cs : u \in cs[k].units /\ \A j \in DOMAIN cs : u \in cs[j].units => j = k
  BY DEF Once
<1>2. owners = {k}
  BY <1>1
<1>3. Cardinality({k}) = 1
  BY FS_Singleton
<1> QED
  BY <1>2, <1>3

(* What the chunkers of the formats have to show.                            *)
Done(result) ==
  /\ file' = file /\ done' = TRUE /\ added' = result
  /\ \E cutting \in Cuttings : Allows(cutting, result) /\ chunks' = Stored(result, cutting)

(* A step stores the pieces of what it adds.                                 *)
LEMMA DoneIs ==
  ASSUME NEW cs \in Seq(AnyChunk), Done(cs)
  PROVE  file' = file /\ added' = cs /\ chunks' \in Seq(PieceOf) /\ IsStored(chunks', cs)
<1>1. PICK cutting \in Cuttings : Allows(cutting, cs) /\ chunks' = Stored(cs, cutting)
  BY DEF Done
<1>2. Stored(cs, cutting) \in Seq(PieceOf) /\ IsStored(Stored(cs, cutting), cs)
  BY <1>1, StoredIs
<1> QED
  BY <1>1, <1>2 DEF Done

(* The owners of a unit are the chunks it is in.                             *)
LEMMA OwnersAre ==
  ASSUME NEW cs \in Seq(AnyChunk), Done(cs), NEW u
  PROVE  Owners(u)' = {k \in DOMAIN cs : u \in cs[k].units}
<1>1. IsStored(chunks', cs)
  BY DoneIs
<1>2. ASSUME NEW i \in DOMAIN chunks', u \in chunks'[i].units
      PROVE  chunks'[i].parent \in DOMAIN cs /\ u \in cs[chunks'[i].parent].units
  BY <1>1, <1>2 DEF IsStored, IsPiece
<1>3. ASSUME NEW k \in DOMAIN cs, u \in cs[k].units
      PROVE  \E i \in DOMAIN chunks' : chunks'[i].parent = k /\ u \in chunks'[i].units
  BY <1>1, <1>3 DEF IsStored
<1>4. Owners(u)' = {chunks'[i].parent : i \in {j \in DOMAIN chunks' : u \in chunks'[j].units}}
  BY DEF Owners, Range
<1> QED
  BY <1>2, <1>3, <1>4

(* A list with each unit of text in one chunk, or in some when arguments     *)
(* span directives, is what TextKept asks for.                               *)
LEMMA TextIsKept ==
  ASSUME NEW cs \in Seq(AnyChunk), Done(cs),
         Once(cs, TextUnits) \/ (ClosesWithArguments /\ Somewhere(cs, TextUnits))
  PROVE  TextKept'
<1>1. file' = file
  BY DoneIs
<1>2. TextUnits' = TextUnits /\ ClosesWithArguments' = ClosesWithArguments
  BY <1>1 DEF TextUnits, ClosesWithArguments
<1>3. ASSUME NEW u \in TextUnits
      PROVE  Owners(u)' # {} /\ (Cardinality(Owners(u)') = 1 \/ ClosesWithArguments')
  <2>1. Owners(u)' = {k \in DOMAIN cs : u \in cs[k].units}
    BY OwnersAre
  <2>2. CASE Once(cs, TextUnits)
    BY <2>1, <2>2, OneOwner
  <2>3. CASE ClosesWithArguments /\ Somewhere(cs, TextUnits)
    BY <1>2, <2>1, <2>3 DEF Somewhere
  <2> QED
    BY <2>2, <2>3
<1> QED
  BY <1>2, <1>3 DEF TextKept

(* A list of chunks that are where they say they are is what SpansHold asks  *)
(* for: the lines of a sub-chunk follow from its text.                       *)
LEMMA SpansAreHeld ==
  ASSUME NEW cs \in Seq(AnyChunk), Done(cs), file.format # "prose", ~StartsBlank => cs \in Seq(Spanning)
  PROVE  SpansHold'
<1>1. file' = file /\ added' = cs /\ chunks' \in Seq(PieceOf) /\ IsStored(chunks', cs)
  BY DoneIs
<1>2. StartsBlank' = StartsBlank
  BY <1>1 DEF StartsBlank
<1>3. \A u : UnitFirst(u)' = u /\ UnitLast(u)' = u
  BY <1>1 DEF UnitFirst, UnitLast
<1>4. ASSUME ~StartsBlank, NEW i \in DOMAIN chunks', NEW u \in chunks'[i].units
      PROVE  (chunks'[i].start <= u /\ u <= chunks'[i].end) \/ Displaced(cs[chunks'[i].parent])
  <2> DEFINE c == cs[chunks'[i].parent]
             p == chunks'[i]
  <2>1. p.parent \in DOMAIN cs /\ IsPiece(p, p.parent, c)
    BY <1>1 DEF IsStored
  <2>2. c \in Spanning
    <3>1. cs \in Seq(Spanning)
      BY <1>4
    <3> QED
      BY <2>1, <3>1
  <2>3. p \in PieceOf
    BY <1>1
  <2>4. p.start \in Int /\ p.end \in Int
    BY <2>3 DEF PieceOf
  <2>5. u \in p.units
    OBVIOUS
  <2> HIDE DEF c, p
  <2>6. CASE ~c.split
    <3>1. p.units = c.units /\ p.start = c.start /\ p.end = c.end
      BY <2>1, <2>6 DEF IsPiece
    <3> QED
      BY <2>2, <2>5, <3>1 DEF Spanning, p
  <2>7. CASE c.split /\ ~Scattered(c)
    <3>1. p.units = p.start .. p.end
      BY <2>1, <2>7 DEF IsPiece
    <3>2. p.start <= u /\ u <= p.end
      BY <2>4, <2>5, <3>1
    <3> QED
      BY <3>2 DEF p
  <2>8. CASE c.split /\ Scattered(c)
    BY <2>8 DEF Displaced, c
  <2> QED
    BY <2>6, <2>7, <2>8
<1>5. \A c \in Range(chunks)' : \E i \in DOMAIN chunks' : c = chunks'[i]
  BY DEF Range
<1>6. ASSUME ~StartsBlank', NEW c \in Range(chunks)', NEW u \in c.units
      PROVE  (c.start <= UnitFirst(u)' /\ UnitLast(u)' <= c.end) \/ Displaced(added'[c.parent])
  <2>1. PICK i \in DOMAIN chunks' : c = chunks'[i]
    BY <1>5
  <2> QED
    BY <1>1, <1>2, <1>3, <1>4, <1>6, <2>1
<1> QED
  BY <1>6 DEF SpansHold

(* What FilesAssumption says of a file.                                      *)
LEMMA FormatsAre ==
  ASSUME NEW f \in Files
  PROVE  /\ f.format \in {"markdown", "text", "bash"} => f.text \in Seq(STRING)
         /\ f.format = "prose" => f.text \in Seq(Sentence)
         /\ f.format = "pdf" => f.text \in Seq([size : Nat])
         /\ f.format = "blade" => f.text \in Seq(BladeUnit)
         /\ f.format \in {"python", "typescript", "php", "vue"} => f.text \in Seq(Nodes)
         /\ f.format = "vue" => BlocksFollow(f.text)
BY FilesAssumption DEF Sentence, BladeUnit, BlocksFollow, Tree

(* Nothing of a text is asked for in trees other than components.            *)
LEMMA NothingAsked ==
  ASSUME NEW cs
  PROVE  Once(cs, {})
BY DEF Once

(* The inductive invariant: the file is one of the files, and both           *)
(* properties hold of its chunks.                                            *)
ChunksKept == file \in Files /\ TextKept /\ SpansHold

(* A template (chunk_blade).                                                 *)
LEMMA BladeStep ==
  ASSUME file \in Files, ChunkBlade
  PROVE  TextKept' /\ SpansHold'
<1> DEFINE text == file.text
           made == BladeChunksOf(text)
           cs == IF DOMAIN text = BladeBlanks(text) THEN <<>>
                 ELSE IF made = <<>> THEN FallbackChunks([l \in DOMAIN text |-> "text"]) ELSE made
<1>1. Done(cs) /\ file.format = "blade"
  BY DEF ChunkBlade, ChunkWith, Done
<1>2. text \in Seq(BladeUnit)
  BY <1>1, FormatsAre
<1>3. TextUnits = DOMAIN text \ BladeBlanks(text)
  BY <1>1 DEF TextUnits
<1>4. ClosesWithArguments \/ Plain(text)
  <2>1. Plain(text) \/ \E u \in DOMAIN text : text[u].spans # 0
    BY DEF Plain
  <2>2. ASSUME NEW u \in DOMAIN text
        PROVE  text[u].spans \in Nat
    <3>1. text[u] \in BladeUnit
      BY <1>2
    <3> QED
      BY <3>1 DEF BladeUnit
  <2>3. \A n \in Nat : n # 0 => n > 0
    OBVIOUS
  <2>4. Plain(text) \/ \E u \in DOMAIN text : text[u].spans > 0
    BY <2>1, <2>2, <2>3
  <2> QED
    BY <1>1, <2>4 DEF ClosesWithArguments
<1>5. /\ made \in Seq(Spanning)
      /\ Somewhere(made, TextUnits)
      /\ Plain(text) => Once(made, TextUnits)
  BY <1>2, <1>3, BladeKept
<1> HIDE DEF made
<1>6. cs \in Seq(Spanning) /\ (Once(cs, TextUnits) \/ (ClosesWithArguments /\ Somewhere(cs, TextUnits)))
  <2>1. CASE DOMAIN text = BladeBlanks(text)
    <3>1. cs = <<>> /\ TextUnits = {}
      BY <1>3, <2>1
    <3>2. <<>> \in Seq(Spanning) /\ Once(<<>>, {})
      BY EmptySeq, NothingAsked
    <3> HIDE DEF cs
    <3> QED
      BY <3>1, <3>2
  <2>2. CASE DOMAIN text # BladeBlanks(text) /\ made = <<>>
    <3>1. PICK h \in Nat : h = Len(text) /\ DOMAIN text = 1 .. h
      BY <1>2, LenProperties
    <3>2. cs = FallbackChunks([l \in 1 .. h |-> "text"])
      BY <2>2, <3>1
    <3>3. cs \in Seq(Spanning) /\ Once(cs, 1 .. h)
      BY <3>2, WholeTextKept
    <3>4. TextUnits \subseteq 1 .. h
      BY <1>3, <3>1
    <3> HIDE DEF cs
    <3> QED
      BY <3>3, <3>4 DEF Once
  <2>3. CASE DOMAIN text # BladeBlanks(text) /\ made # <<>>
    <3>1. cs = made
      BY <2>3
    <3> HIDE DEF cs
    <3> QED
      BY <1>4, <1>5, <3>1
  <2> QED
    BY <2>1, <2>2, <2>3
<1> HIDE DEF cs
<1>7. cs \in Seq(AnyChunk)
  BY <1>6, SpanningAny, SeqOfMore
<1>8. TextKept'
  BY <1>1, <1>6, <1>7, TextIsKept
<1>9. SpansHold'
  BY <1>1, <1>6, <1>7, SpansAreHeld
<1> QED
  BY <1>8, <1>9

(* Formats of lines.                                                         *)
LEMMA LinesStep ==
  ASSUME file \in Files, ChunkMarkdown \/ ChunkText \/ ChunkBash
  PROVE  TextKept' /\ SpansHold'
<1>1. PICK cs : Done(cs) /\ file.format \in {"markdown", "text", "bash"}
        /\ cs \in {MarkdownChunks(file.text), FallbackChunks(file.text), BashChunks(file.text)}
  BY DEF ChunkMarkdown, ChunkText, ChunkBash, ChunkWith, Done
<1>2. file.text \in Seq(STRING)
  BY <1>1, FormatsAre
<1>3. cs \in Seq(ChunkOf(file.text)) /\ Once(cs, Ink(file.text))
  BY <1>1, <1>2, MarkdownKept, FallbackKept, BashKept
<1>4. TextUnits = Ink(file.text)
  BY <1>1 DEF TextUnits
<1>5. ~StartsBlank => cs \in Seq(Spanning)
  BY <1>1, <1>3 DEF StartsBlank, ChunkOf
<1>6. file.format # "prose"
  BY <1>1
<1>7. cs \in Seq(AnyChunk)
  <2>1. ChunkOf(file.text) \subseteq AnyChunk
    BY SpanningAny DEF ChunkOf
  <2> QED
    BY <1>3, <2>1, SeqOfMore
<1> QED
  BY <1>1, <1>3, <1>4, <1>5, <1>6, <1>7, TextIsKept, SpansAreHeld

(* Pages, and trees: Python, TypeScript and PHP, and components.             *)
LEMMA PagesAndTreesStep ==
  ASSUME file \in Files, ChunkPdf \/ ChunkPython \/ ChunkTypescript \/ ChunkPhp \/ ChunkVue
  PROVE  TextKept' /\ SpansHold'
<1>1. ASSUME NEW cs, Done(cs), file.format # "prose", cs \in Seq(Spanning), Once(cs, TextUnits)
      PROVE  TextKept' /\ SpansHold'
  <2>1. cs \in Seq(AnyChunk)
    BY <1>1, SpanningAny, SeqOfMore
  <2> QED
    BY <1>1, <2>1, TextIsKept, SpansAreHeld
<1>2. CASE ChunkPdf
  <2>1. Done(PdfChunks(file.text)) /\ file.format = "pdf"
    BY <1>2 DEF ChunkPdf, ChunkWith, Done
  <2>2. TextUnits = PagesRead(file.text)
    BY <2>1 DEF TextUnits
  <2>3. file.text \in Seq([size : Nat])
    BY <2>1, FormatsAre
  <2>4. PdfChunks(file.text) \in Seq(Spanning) /\ Once(PdfChunks(file.text), TextUnits)
    BY <2>2, <2>3, PdfKept
  <2> QED
    BY <1>1, <2>1, <2>4
<1>3. CASE ChunkPython
  <2>1. Done(PyChunks(file)) /\ file.format = "python"
    BY <1>3 DEF ChunkPython, ChunkWith, Done
  <2>2. TextUnits = {}
    BY <2>1 DEF TextUnits
  <2>3. PyChunks(file) \in Seq(Spanning)
    BY <2>1, FormatsAre, PyIs
  <2> QED
    BY <1>1, <2>1, <2>2, <2>3, NothingAsked
<1>4. CASE ChunkTypescript
  <2>1. Done(TsChunks(file)) /\ file.format = "typescript"
    BY <1>4 DEF ChunkTypescript, ChunkWith, Done
  <2>2. TextUnits = {}
    BY <2>1 DEF TextUnits
  <2>3. TsChunks(file) \in Seq(Spanning)
    BY <2>1, FormatsAre, TsIs
  <2> QED
    BY <1>1, <2>1, <2>2, <2>3, NothingAsked
<1>5. CASE ChunkPhp
  <2>1. Done(PhpChunks(file)) /\ file.format = "php"
    BY <1>5 DEF ChunkPhp, ChunkWith, Done
  <2>2. TextUnits = {}
    BY <2>1 DEF TextUnits
  <2>3. PhpChunks(file) \in Seq(Spanning)
    BY <2>1, FormatsAre, PhpIs
  <2> QED
    BY <1>1, <2>1, <2>2, <2>3, NothingAsked
<1>6. CASE ChunkVue
  <2>1. Done(VueChunksOf(file)) /\ file.format = "vue"
    BY <1>6 DEF ChunkVue, ChunkWith, Done
  <2>2. TextUnits = LinesNotOf(file.text, {"script"}) \ file.blanks
    BY <2>1 DEF TextUnits
  <2>3. file.text \in Seq(Nodes) /\ BlocksFollow(file.text)
    BY <2>1, FormatsAre
  <2>4. VueChunksOf(file) \in Seq(Spanning) /\ Once(VueChunksOf(file), TextUnits)
    BY <2>2, <2>3, VueKept
  <2> QED
    BY <1>1, <2>1, <2>4
<1> QED
  BY <1>2, <1>3, <1>4, <1>5, <1>6

(* Sentences, whose lines are counted.                                       *)
LEMMA ProseStep ==
  ASSUME file \in Files, ChunkProse
  PROVE  TextKept' /\ SpansHold'
<1> DEFINE cs == ProseChunks(file.text)
<1>1. Done(cs) /\ file.format = "prose"
  BY DEF ChunkProse, ChunkWith, Done
<1>2. file.text \in Seq(Sentence)
  BY <1>1, FormatsAre
<1>3. /\ cs \in Seq(AnyChunk) /\ Once(cs, DOMAIN file.text)
      /\ \A k \in DOMAIN cs : ~cs[k].split
      /\ (\A k \in DOMAIN file.text : file.text[k].gap = 0) =>
           \A k \in DOMAIN cs : \A u \in cs[k].units :
             cs[k].start <= FirstLine(file.text, u) /\ LastLine(file.text, u) <= cs[k].end
  BY <1>2, ProseKept
<1> HIDE DEF cs
<1>4. TextUnits = DOMAIN file.text
  BY <1>1 DEF TextUnits
<1>5. TextKept'
  BY <1>1, <1>3, <1>4, TextIsKept
<1>6. file' = file /\ IsStored(chunks', cs)
  BY <1>1, <1>3, DoneIs
<1>7. ASSUME ~SentenceOnNewLine PROVE \A k \in DOMAIN file.text : file.text[k].gap = 0
  <2> SUFFICES ASSUME NEW k \in DOMAIN file.text PROVE file.text[k].gap = 0
    OBVIOUS
  <2>1. file.text[k] \in Sentence
    BY <1>2
  <2>2. file.text[k].gap \in Nat
    BY <2>1 DEF Sentence
  <2>3. ~(file.text[k].gap > 0)
    BY <1>1, <1>7 DEF SentenceOnNewLine
  <2> QED
    BY <2>2, <2>3
<1>8. \A u : UnitFirst(u)' = FirstLine(file.text, u) /\ UnitLast(u)' = LastLine(file.text, u)
  BY <1>1, <1>6 DEF UnitFirst, UnitLast
<1>9. SentenceOnNewLine' = SentenceOnNewLine
  BY <1>6 DEF SentenceOnNewLine
<1>10. ASSUME NEW c \in Range(chunks)'
       PROVE  \E k \in DOMAIN cs : c.units = cs[k].units /\ c.start = cs[k].start /\ c.end = cs[k].end
  <2>1. PICK i \in DOMAIN chunks' : c = chunks'[i]
    BY DEF Range
  <2>2. c.parent \in DOMAIN cs /\ IsPiece(c, c.parent, cs[c.parent])
    BY <1>6, <2>1 DEF IsStored
  <2> QED
    BY <1>3, <2>2 DEF IsPiece
<1>11. ASSUME ~SentenceOnNewLine, NEW c \in Range(chunks)', NEW u \in c.units
       PROVE  c.start <= FirstLine(file.text, u) /\ LastLine(file.text, u) <= c.end
  BY <1>3, <1>7, <1>10, <1>11
<1>12. SpansHold'
  BY <1>8, <1>9, <1>11 DEF SpansHold
<1> QED
  BY <1>5, <1>12

(* Every chunker of chunk_file and chunk_pdf keeps both properties.          *)
THEOREM ChunksAreKept == ChunkerSpec => []ChunksKept
<1>1. ChunkerInit => ChunksKept
  BY DEF ChunkerInit, ChunksKept, TextKept, SpansHold
<1>2. ChunksKept /\ [ChunkFile]_chunkerVars => ChunksKept'
  <2> SUFFICES ASSUME ChunksKept, [ChunkFile]_chunkerVars PROVE ChunksKept'
    OBVIOUS
  <2>1. CASE UNCHANGED chunkerVars
    <3>1. file' = file /\ added' = added /\ chunks' = chunks /\ done' = done
      BY <2>1 DEF chunkerVars
    <3>2. TextKept' = TextKept
      BY <3>1 DEF TextKept, TextUnits, Owners, ClosesWithArguments
    <3>3. SpansHold' = SpansHold
      BY <3>1 DEF SpansHold, StartsBlank, SentenceOnNewLine, UnitFirst, UnitLast
    <3> QED
      BY <3>1, <3>2, <3>3 DEF ChunksKept
  <2>2. CASE ChunkFile
    <3>1. file \in Files
      BY DEF ChunksKept
    <3>2. file' = file
      BY <2>2 DEF ChunkFile, ChunkWith, ChunkBlade, ChunkTypescript, ChunkPython, ChunkPhp, ChunkVue, ChunkBash,
                  ChunkMarkdown, ChunkProse, ChunkText, ChunkPdf
    <3>3. TextKept' /\ SpansHold'
      BY <2>2, <3>1, BladeStep, LinesStep, PagesAndTreesStep, ProseStep DEF ChunkFile
    <3> QED
      BY <3>1, <3>2, <3>3 DEF ChunksKept
  <2> QED
    BY <2>1, <2>2
<1> QED
  BY <1>1, <1>2, PTL DEF ChunkerSpec

(* However a file of any format is cut, packed and folded, all of its text   *)
(* is in a chunk and none of it in two (chunker.py, _blade_emit: "no source  *)
(* text is dropped").                                                        *)
THEOREM TextIsKeptAlways == ChunkerSpec => []TextKept
<1>1. ChunksKept => TextKept
  BY DEF ChunksKept
<1> QED
  BY <1>1, ChunksAreKept, PTL

(* The lines each chunk claims to have (start_line and end_line) hold all of *)
(* its text.                                                                 *)
THEOREM SpansAlwaysHold == ChunkerSpec => []SpansHold
<1>1. ChunksKept => SpansHold
  BY DEF ChunksKept
<1> QED
  BY <1>1, ChunksAreKept, PTL

-----------------------------------------------------------------------------
(* Blocks: the pairs of a template that balances, those of a component.       *)

(* The members of a set up to a number.                                      *)
Upward(P, u) == Cardinality({v \in 1 .. u : v \in P})

(* One more when the number is a member.                                     *)
LEMMA UpwardIs ==
  ASSUME NEW P
  PROVE  Upward(P, 0) = 0 /\ \A u \in Nat : /\ Upward(P, u) \in Nat
                                             /\ Upward(P, u + 1) = Upward(P, u) + (IF u + 1 \in P THEN 1 ELSE 0)
<1>1. Upward(P, 0) = 0
  <2>1. {v \in 1 .. 0 : v \in P} = {}
    OBVIOUS
  <2> QED
    BY <2>1, FS_EmptySet DEF Upward
<1>2. ASSUME NEW u \in Nat
      PROVE  Upward(P, u) \in Nat /\ Upward(P, u + 1) = Upward(P, u) + (IF u + 1 \in P THEN 1 ELSE 0)
  <2> DEFINE S == {v \in 1 .. u : v \in P}
             W == {v \in 1 .. u + 1 : v \in P}
  <2>1. IsFiniteSet(S)
    <3>1. S \in SUBSET (1 .. u) /\ IsFiniteSet(1 .. u)
      BY FS_Interval
    <3> HIDE DEF S
    <3> QED
      BY <3>1, FS_Subset
  <2>2. u + 1 \notin S
    OBVIOUS
  <2>3. W = IF u + 1 \in P THEN S \cup {u + 1} ELSE S
    OBVIOUS
  <2> HIDE DEF S, W
  <2>4. Cardinality(S) \in Nat /\ Cardinality(S \cup {u + 1}) = Cardinality(S) + 1
    BY <2>1, <2>2, FS_AddElement, FS_CardinalityType
  <2>5. Cardinality(W) = Cardinality(S) + (IF u + 1 \in P THEN 1 ELSE 0)
    BY <2>3, <2>4
  <2>6. Upward(P, u) = Cardinality(S) /\ Upward(P, u + 1) = Cardinality(W)
    BY DEF Upward, S, W
  <2> QED
    BY <2>4, <2>5, <2>6
<1> QED
  BY <1>1, <1>2

(* How deep the directives are at a unit.                                    *)
LEMMA LevelIs ==
  /\ Level(0) = 0
  /\ \A u \in Nat : /\ Level(u) \in Int
                    /\ Level(u + 1) = Level(u) + (IF Opening(u + 1) THEN 1 ELSE 0) - (IF Closing(u + 1) THEN 1 ELSE 0)
<1> DEFINE O == {v \in Nat : Opening(v)}
           C == {v \in Nat : Closing(v)}
<1>1. ASSUME NEW u \in Nat PROVE Level(u) = Upward(O, u) - Upward(C, u)
  <2>1. {v \in 1 .. u : v \in O} = {v \in 1 .. u : Opening(v)}
    OBVIOUS
  <2>2. {v \in 1 .. u : v \in C} = {v \in 1 .. u : Closing(v)}
    OBVIOUS
  <2> HIDE DEF O, C
  <2> QED
    BY <2>1, <2>2 DEF Level, Upward
<1>2. \A u \in Nat : (u + 1 \in O <=> Opening(u + 1)) /\ (u + 1 \in C <=> Closing(u + 1))
  OBVIOUS
<1> HIDE DEF O, C
<1>3. Upward(O, 0) = 0 /\ \A u \in Nat : Upward(O, u) \in Nat /\ Upward(O, u + 1) = Upward(O, u) + (IF u + 1 \in O THEN 1 ELSE 0)
  BY UpwardIs
<1>4. Upward(C, 0) = 0 /\ \A u \in Nat : Upward(C, u) \in Nat /\ Upward(C, u + 1) = Upward(C, u) + (IF u + 1 \in C THEN 1 ELSE 0)
  BY UpwardIs
<1>5. Level(0) = 0
  BY <1>1, <1>3, <1>4
<1>6. ASSUME NEW u \in Nat
      PROVE  /\ Level(u) \in Int
             /\ Level(u + 1) = Level(u) + (IF Opening(u + 1) THEN 1 ELSE 0) - (IF Closing(u + 1) THEN 1 ELSE 0)
  <2>1. Level(u) = Upward(O, u) - Upward(C, u) /\ Level(u + 1) = Upward(O, u + 1) - Upward(C, u + 1)
    BY <1>1
  <2>2. Upward(O, u) \in Nat /\ Upward(C, u) \in Nat
    BY <1>3, <1>4
  <2>3. Upward(O, u + 1) = Upward(O, u) + (IF Opening(u + 1) THEN 1 ELSE 0)
    BY <1>2, <1>3
  <2>4. Upward(C, u + 1) = Upward(C, u) + (IF Closing(u + 1) THEN 1 ELSE 0)
    BY <1>2, <1>4
  <2> QED
    BY <2>1, <2>2, <2>3, <2>4
<1> QED
  BY <1>5, <1>6

(* A directive that opens a block closes none.                               *)
LEMMA OpensOrCloses ==
  ASSUME NEW u
  PROVE  ~(Opening(u) /\ Closing(u))
<1> SUFFICES ASSUME Opening(u), Closing(u) PROVE FALSE
  OBVIOUS
<1>1. file.text[u].name \in {"if", "hassection", "auth", "php", "empty", "section", "verbatim"}
  BY DEF Opening, OpensBlock, Openers, BladeClosers
<1>2. file.text[u].name \in {"endif", "endauth", "endphp", "endempty", "endsection", "stop", "endverbatim"}
  BY DEF Closing, Openers, BladeClosers
<1> QED
  BY <1>1, <1>2

(* The pair an opener is of ends where the level first is below its own.     *)
LEMMA PartnerIs ==
  ASSUME NEW u \in 1 .. Len(file.text), NEW p \in u .. Len(file.text) + 1, Len(file.text) \in Nat,
         \A v \in u .. p - 1 : Level(v) >= Level(u),
         p = Len(file.text) + 1 \/ Level(p) < Level(u)
  PROVE  Partner(u) = p
<1> DEFINE n == Len(file.text)
           S == {v \in u .. n : Level(v) < Level(u)} \cup {n + 1}
<1>1. n \in Nat
  OBVIOUS
<1>2. S \in SUBSET Nat /\ S # {}
  BY <1>1
<1>3. Partner(u) = Min(S)
  BY DEF Partner
<1>4. p \in S
  BY <1>1
<1>5. \A v \in S : p <= v
  <2> SUFFICES ASSUME NEW v \in S, v < p PROVE FALSE
    BY <1>1
  <2>1. v \in u .. n /\ Level(v) < Level(u)
    BY <1>1
  <2>2. v \in u .. p - 1
    BY <1>1, <2>1
  <2>3. Level(v) \in Int /\ Level(u) \in Int
    BY <1>1, <2>1, LevelIs
  <2> QED
    BY <2>1, <2>2, <2>3
<1> HIDE DEF S
<1>6. Min(S) \in S /\ \A x \in S : Min(S) <= x
  BY <1>2, MinIs
<1>7. PICK m \in Nat : m = Min(S)
  BY <1>2, <1>6
<1>8. m <= p /\ p <= m
  BY <1>4, <1>5, <1>6, <1>7
<1> QED
  BY <1>1, <1>3, <1>7, <1>8
(* When directives balance: the open blocks are as many as the level, each   *)
(* starts where its level was reached and never left since; every other      *)
(* block is a pair; every opener up to unit p has its block.                 *)
OpenAt(st, p, e) ==
  /\ st.stack[e] \in DOMAIN st.blocks
  /\ st.blocks[st.stack[e]].start \in 1 .. p
  /\ st.blocks[st.stack[e]].name = file.text[st.blocks[st.stack[e]].start].name
  /\ Opening(st.blocks[st.stack[e]].start)
  /\ Level(st.blocks[st.stack[e]].start) = e
  /\ \A v \in st.blocks[st.stack[e]].start .. p : Level(v) >= e

Paired(st, c) == st.blocks[c].end = Partner(st.blocks[c].start) + 1

Matched(st, p) ==
  /\ st.pos <= p + 1
  /\ Len(st.stack) = Level(p)
  /\ \A e \in DOMAIN st.stack : OpenAt(st, p, e)
  /\ \A c \in DOMAIN st.blocks :
       /\ st.blocks[c].start \in 1 .. p /\ Opening(st.blocks[c].start)
       /\ (\E e \in DOMAIN st.stack : st.stack[e] = c) \/ Paired(st, c)
  /\ \A u \in 1 .. p : Opening(u) => \E c \in DOMAIN st.blocks : st.blocks[c].start = u

(* A directive that does not lower the level leaves what is open open.       *)
LEMMA StaysOpen ==
  ASSUME NEW st \in ScanType, NEW r \in ScanType, NEW p \in Nat \ {0}, NEW e \in DOMAIN st.stack,
         OpenAt(st, p - 1, e), r.stack[e] = st.stack[e], st.stack[e] \in DOMAIN r.blocks,
         r.blocks[st.stack[e]].start = st.blocks[st.stack[e]].start,
         r.blocks[st.stack[e]].name = st.blocks[st.stack[e]].name,
         e <= Level(p)
  PROVE  OpenAt(r, p, e)
<1>1. PICK u \in 1 .. p - 1 : u = st.blocks[st.stack[e]].start
  BY DEF OpenAt
<1>2. e \in Nat
  BY ScanIs
<1>3. /\ r.blocks[r.stack[e]].start = u /\ r.blocks[r.stack[e]].name = file.text[u].name
      /\ Opening(u) /\ Level(u) = e /\ \A v \in u .. p - 1 : Level(v) >= e
  BY <1>1 DEF OpenAt
<1>4. u \in 1 .. p
  BY <1>1
<1>5. \A v \in u .. p : Level(v) >= e
  <2>1. \A v \in u .. p : v \in u .. p - 1 \/ v = p
    BY <1>1
  <2>2. Level(p) >= e
    BY <1>2, LevelIs
  <2> QED
    BY <1>3, <2>1, <2>2
<1> QED
  BY <1>3, <1>4, <1>5 DEF OpenAt

(* The innermost open block is the one a directive that lowers the level     *)
(* ends.                                                                     *)
LEMMA LowersToPartner ==
  ASSUME file.text \in Seq(BladeUnit), NEW st \in ScanType, NEW p \in 1 .. Len(file.text),
         Balanced, Matched(st, p - 1), Closing(p)
  PROVE  /\ Level(p) = Level(p - 1) - 1 /\ Len(st.stack) \in DOMAIN st.stack
         /\ Len(st.stack) \in Closable(st, file.text[p])
         /\ Partner(st.blocks[st.stack[Len(st.stack)]].start) = p
<1>1. PICK n \in Nat : n = Len(file.text) /\ DOMAIN file.text = 1 .. n /\ p \in 1 .. n
  BY LenProperties
<1>2. p - 1 \in Nat /\ p - 1 + 1 = p
  BY <1>1
<1>3. Level(p - 1) \in Int /\ Level(p) = Level(p - 1) - 1
  <2>1. ~Opening(p)
    BY OpensOrCloses
  <2> QED
    BY <1>2, <2>1, LevelIs
<1>4. Level(p) >= 0
  BY <1>1 DEF Balanced
<1>5. PICK d \in Nat : d = Len(st.stack) /\ d # 0 /\ d = Level(p - 1) /\ DOMAIN st.stack = 1 .. d
  BY <1>3, <1>4, ScanIs DEF Matched
<1>6. d \in DOMAIN st.stack /\ OpenAt(st, p - 1, d)
  BY <1>5 DEF Matched
<1>7. PICK u \in 1 .. p - 1 : u = st.blocks[st.stack[d]].start
  BY <1>6 DEF OpenAt
<1>8. /\ st.blocks[st.stack[d]].name = file.text[u].name
      /\ Opening(u) /\ Level(u) = d /\ \A v \in u .. p - 1 : Level(v) >= d
  BY <1>6, <1>7 DEF OpenAt
<1>9. Partner(u) = p
  <2>1. u \in 1 .. n /\ p \in u .. n + 1
    BY <1>1, <1>7
  <2>2. Level(p) < Level(u)
    BY <1>3, <1>5, <1>8
  <2> QED
    BY <1>1, <1>8, <2>1, <2>2, PartnerIs
<1>10. file.text[p].name \in BladeClosers[file.text[u].name]
  <2>1. u \in DOMAIN file.text
    BY <1>1, <1>7
  <2> QED
    BY <1>8, <1>9, <2>1 DEF Balanced
<1>11. d \in Closable(st, file.text[p])
  BY <1>6, <1>8, <1>10 DEF Closable
<1> QED
  BY <1>3, <1>5, <1>6, <1>7, <1>9, <1>11
(* A directive that changes neither the stack nor the blocks nor the level.  *)
LEMMA SameMatched ==
  ASSUME file.text \in Seq(BladeUnit), NEW st \in ScanType, NEW r \in ScanType, NEW p \in 1 .. Len(file.text),
         Matched(st, p - 1), ~Opening(p), ~Closing(p),
         r.pos <= p + 1, r.stack = st.stack, r.blocks = st.blocks
  PROVE  Matched(r, p)
<1>1. p \in Nat \ {0} /\ p - 1 \in Nat /\ p - 1 + 1 = p
  BY LenProperties
<1>2. Level(p) = Level(p - 1) /\ Level(p) \in Int
  BY <1>1, LevelIs
<1>3. Len(r.stack) = Level(p)
  BY <1>2 DEF Matched
<1>4. ASSUME NEW e \in DOMAIN st.stack PROVE OpenAt(r, p, e)
  <2>1. OpenAt(st, p - 1, e) /\ st.stack[e] \in DOMAIN st.blocks
    BY DEF Matched, OpenAt
  <2>2. e <= Level(p)
    BY <1>2, ScanIs DEF Matched
  <2> QED
    BY <1>1, <2>1, <2>2, StaysOpen
<1>5. \A u \in 1 .. p : u \in 1 .. p - 1 \/ u = p
  BY <1>1
<1>6. \A u \in 1 .. p - 1 : u \in 1 .. p
  BY <1>1
<1> QED
  BY <1>3, <1>4, <1>5, <1>6 DEF Matched, Paired

(* A directive that opens a block.                                           *)
LEMMA OpenMatched ==
  ASSUME file.text \in Seq(BladeUnit), NEW st \in ScanType, NEW p \in 1 .. Len(file.text),
         Matched(st, p - 1), Opening(p), Balanced
  PROVE  Matched(Open(st, file.text, p), p)
<1>1. p \in Nat \ {0} /\ p - 1 \in Nat /\ p - 1 + 1 = p /\ DOMAIN file.text = 1 .. Len(file.text)
  BY LenProperties
<1>2. PICK r \in ScanType :
        /\ Open(st, file.text, p) = r
        /\ r.pos = After(file.text, p)
        /\ DOMAIN r.stack = 1 .. Len(st.stack) + 1 /\ r.stack[Len(st.stack) + 1] = Len(st.blocks) + 1
        /\ \A e \in DOMAIN st.stack : r.stack[e] = st.stack[e]
        /\ DOMAIN r.blocks = 1 .. Len(st.blocks) + 1 /\ \A b \in DOMAIN st.blocks : r.blocks[b] = st.blocks[b]
        /\ r.blocks[Len(st.blocks) + 1].name = file.text[p].name
        /\ r.blocks[Len(st.blocks) + 1].start = p
  BY OpenIs
<1>3. PICK d \in Nat, m \in Nat : /\ d = Len(st.stack) /\ DOMAIN st.stack = 1 .. d
                                  /\ m = Len(st.blocks) /\ DOMAIN st.blocks = 1 .. m
  BY ScanIs
<1>4. Level(p) = d + 1
  <2>1. ~Closing(p)
    BY OpensOrCloses
  <2>2. Level(p) = Level(p - 1) + (IF Opening(p) THEN 1 ELSE 0) - (IF Closing(p) THEN 1 ELSE 0) /\ Level(p - 1) \in Int
    BY <1>1, LevelIs
  <2>3. Level(p) = Level(p - 1) + 1
    BY <2>1, <2>2
  <2> QED
    BY <1>3, <2>3 DEF Matched
<1>5. r.pos <= p + 1
  BY <1>1, <1>2 DEF Balanced, After
<1>6. Len(r.stack) = d + 1
  BY <1>2, <1>3, ScanIs
<1>7. ASSUME NEW e \in 1 .. d PROVE OpenAt(r, p, e)
  <2>1. OpenAt(st, p - 1, e) /\ st.stack[e] \in DOMAIN st.blocks /\ e \in DOMAIN st.stack
    BY <1>3 DEF Matched, OpenAt
  <2>2. st.stack[e] \in DOMAIN r.blocks /\ r.blocks[st.stack[e]] = st.blocks[st.stack[e]] /\ r.stack[e] = st.stack[e]
    BY <1>2, <1>3, <2>1
  <2>3. e <= Level(p)
    BY <1>4
  <2> QED
    BY <1>1, <2>1, <2>2, <2>3, StaysOpen
<1>8. OpenAt(r, p, d + 1)
  <2>1. r.stack[d + 1] = m + 1 /\ r.blocks[m + 1].start = p /\ r.blocks[m + 1].name = file.text[p].name
    BY <1>2, <1>3
  <2>2. m + 1 \in DOMAIN r.blocks /\ p \in 1 .. p
    BY <1>1, <1>2, <1>3
  <2>3. \A v \in p .. p : Level(v) >= d + 1
    BY <1>1, <1>3, <1>4
  <2> QED
    BY <1>4, <2>1, <2>2, <2>3 DEF OpenAt
<1>9. \A e \in DOMAIN r.stack : e \in 1 .. d \/ e = d + 1
  BY <1>2, <1>3
<1>10. ASSUME NEW c \in DOMAIN r.blocks
       PROVE  /\ r.blocks[c].start \in 1 .. p /\ Opening(r.blocks[c].start)
              /\ (\E e \in DOMAIN r.stack : r.stack[e] = c) \/ Paired(r, c)
  <2>1. CASE c = m + 1
    <3>1. d + 1 \in DOMAIN r.stack /\ r.stack[d + 1] = c /\ r.blocks[c].start = p /\ p \in 1 .. p
      BY <1>1, <1>2, <1>3, <2>1
    <3> QED
      BY <3>1
  <2>2. CASE c \in 1 .. m
    <3>1. /\ st.blocks[c].start \in 1 .. p - 1 /\ Opening(st.blocks[c].start)
          /\ (\E e \in DOMAIN st.stack : st.stack[e] = c) \/ Paired(st, c)
      BY <1>3, <2>2 DEF Matched
    <3>2. r.blocks[c] = st.blocks[c] /\ st.blocks[c].start \in 1 .. p
      BY <1>1, <1>2, <1>3, <2>2, <3>1
    <3>3. \A e \in DOMAIN st.stack : e \in DOMAIN r.stack /\ r.stack[e] = st.stack[e]
      BY <1>2, <1>3
    <3> QED
      BY <3>1, <3>2, <3>3 DEF Paired
  <2> QED
    BY <1>2, <1>3, <2>1, <2>2
<1>11. ASSUME NEW u \in 1 .. p, Opening(u) PROVE \E c \in DOMAIN r.blocks : r.blocks[c].start = u
  <2>1. CASE u = p
    BY <1>2, <1>3, <2>1
  <2>2. CASE u \in 1 .. p - 1
    <3>1. PICK c \in 1 .. m : st.blocks[c].start = u
      BY <1>3, <1>11, <2>2 DEF Matched
    <3>2. r.blocks[c] = st.blocks[c] /\ c \in DOMAIN r.blocks
      BY <1>2, <1>3
    <3> QED
      BY <3>1, <3>2
  <2> QED
    BY <1>1, <2>1, <2>2
<1> QED
  BY <1>2, <1>4, <1>5, <1>6, <1>7, <1>8, <1>9, <1>10, <1>11 DEF Matched

(* A directive that ends a block: it is the innermost that is open.          *)
LEMMA CloseMatched ==
  ASSUME file.text \in Seq(BladeUnit), NEW st \in ScanType, NEW p \in 1 .. Len(file.text),
         Matched(st, p - 1), Closing(p), Balanced
  PROVE  Matched(Close(st, file.text, p), p)
<1>1. p \in Nat \ {0} /\ p - 1 \in Nat /\ p - 1 + 1 = p /\ DOMAIN file.text = 1 .. Len(file.text) /\ p \in DOMAIN file.text
  BY LenProperties
<1>2. PICK d \in Nat, m \in Nat : /\ d = Len(st.stack) /\ DOMAIN st.stack = 1 .. d
                                  /\ m = Len(st.blocks) /\ DOMAIN st.blocks = 1 .. m
  BY ScanIs
<1>3. /\ Level(p) = Level(p - 1) - 1 /\ d \in 1 .. d
      /\ d \in Closable(st, file.text[p]) /\ Partner(st.blocks[st.stack[d]].start) = p
  BY <1>2, LowersToPartner
<1>4. Level(p) = d - 1
  BY <1>2, <1>3 DEF Matched
<1>5. PICK top \in DOMAIN st.stack : \E r \in ScanType : Close(st, file.text, p) = r /\ ClosedDownTo(file.text, st, p, top, r)
  BY <1>3, CloseIs
<1>6. PICK r \in ScanType : Close(st, file.text, p) = r /\ ClosedDownTo(file.text, st, p, top, r)
  BY <1>5
<1>7. top = d
  BY <1>2, <1>3, <1>5, <1>6 DEF ClosedDownTo
<1>8. /\ r.pos = p + 1
      /\ DOMAIN r.stack = 1 .. d - 1 /\ \A e \in 1 .. d - 1 : r.stack[e] = st.stack[e]
      /\ DOMAIN r.blocks = 1 .. m
      /\ \A b \in 1 .. m :
           /\ r.blocks[b].name = st.blocks[b].name /\ r.blocks[b].start = st.blocks[b].start
           /\ b # st.stack[d] => r.blocks[b].end = st.blocks[b].end
           /\ b = st.stack[d] => r.blocks[b].end = p + 1
  <2>1. Inner(st, d) = {st.stack[d]}
    BY <1>2 DEF Inner
  <2>2. After(file.text, p) = p + 1
    BY <1>1 DEF Balanced, After
  <2>3. /\ \A b \in DOMAIN st.blocks : r.blocks[b].name = st.blocks[b].name /\ r.blocks[b].start = st.blocks[b].start
        /\ \A b \in DOMAIN st.blocks :
             r.blocks[b].end = IF b \in Inner(st, d) THEN After(file.text, p) ELSE st.blocks[b].end
        /\ r.pos = p + 1 /\ DOMAIN r.stack = 1 .. d - 1 /\ \A e \in 1 .. d - 1 : r.stack[e] = st.stack[e]
        /\ DOMAIN r.blocks = DOMAIN st.blocks
    BY <1>6, <1>7 DEF ClosedDownTo
  <2> QED
    BY <1>2, <2>1, <2>2, <2>3
<1>9. Len(r.stack) = d - 1
  BY <1>3, <1>8, ScanIs
<1>10. ASSUME NEW e \in 1 .. d - 1 PROVE OpenAt(r, p, e)
  <2>1. OpenAt(st, p - 1, e) /\ st.stack[e] \in 1 .. m /\ e \in DOMAIN st.stack /\ e <= Level(p)
    <3>1. e \in DOMAIN st.stack /\ e <= Level(p)
      BY <1>2, <1>4
    <3>2. OpenAt(st, p - 1, e)
      BY <3>1 DEF Matched
    <3> QED
      BY <1>2, <3>1, <3>2 DEF OpenAt
  <2>2. /\ st.stack[e] \in DOMAIN r.blocks /\ r.blocks[st.stack[e]].start = st.blocks[st.stack[e]].start
        /\ r.blocks[st.stack[e]].name = st.blocks[st.stack[e]].name /\ r.stack[e] = st.stack[e]
    BY <1>8, <2>1
  <2> QED
    BY <1>1, <2>1, <2>2, StaysOpen
<1>11. ASSUME NEW c \in 1 .. m
       PROVE  /\ r.blocks[c].start \in 1 .. p /\ Opening(r.blocks[c].start)
              /\ (\E e \in DOMAIN r.stack : r.stack[e] = c) \/ Paired(r, c)
  <2>1. /\ st.blocks[c].start \in 1 .. p - 1 /\ Opening(st.blocks[c].start)
        /\ (\E e \in DOMAIN st.stack : st.stack[e] = c) \/ Paired(st, c)
    BY <1>2 DEF Matched
  <2>2. r.blocks[c].start \in 1 .. p /\ Opening(r.blocks[c].start)
    BY <1>1, <1>8, <2>1
  <2>3. CASE c = st.stack[d]
    BY <1>3, <1>8, <2>2, <2>3 DEF Paired
  <2>4. CASE c # st.stack[d] /\ \E e \in DOMAIN st.stack : st.stack[e] = c
    <3>1. PICK e \in 1 .. d : st.stack[e] = c
      BY <1>2, <2>4
    <3>2. e \in 1 .. d - 1
      BY <1>2, <2>4, <3>1
    <3> QED
      BY <1>8, <2>2, <3>1, <3>2
  <2>5. CASE c # st.stack[d] /\ Paired(st, c)
    BY <1>8, <2>2, <2>5 DEF Paired
  <2> QED
    BY <2>1, <2>3, <2>4, <2>5
<1>12. ASSUME NEW u \in 1 .. p, Opening(u) PROVE \E c \in 1 .. m : r.blocks[c].start = u
  <2>1. u \in 1 .. p - 1
    <3>1. u # p
      BY <1>12, OpensOrCloses
    <3> QED
      BY <1>1, <3>1
  <2>2. PICK c \in 1 .. m : st.blocks[c].start = u
    BY <1>2, <1>12, <2>1 DEF Matched
  <2> QED
    BY <1>8, <2>2
<1>13. r.pos <= p + 1
  BY <1>1, <1>8
<1> QED
  BY <1>4, <1>6, <1>8, <1>9, <1>10, <1>11, <1>12, <1>13 DEF Matched

(* Each unit of a template that balances keeps the blocks matched.           *)
LEMMA StepMatched ==
  ASSUME file.text \in Seq(BladeUnit), NEW st \in ScanType, NEW p \in 1 .. Len(file.text), Matched(st, p - 1), Balanced
  PROVE  Matched(ScanStep(file.text, st, p), p)
<1> DEFINE text == file.text
<1>1. p \in DOMAIN text /\ p \in Nat /\ st.pos \in Nat
  BY LenProperties, ScanIs
<1>2. text[p].name \notin {"verbatim", "endverbatim"} /\ text[p].spans = 0
  BY <1>1 DEF Balanced
<1>3. st.pos <= p
  BY <1>1 DEF Matched
<1>4. Closable(st, text[p]) # {} => Closing(p)
  <2> SUFFICES ASSUME NEW e \in Closable(st, text[p]) PROVE Closing(p)
    OBVIOUS
  <2>1. OpenAt(st, p - 1, e) /\ text[p].name \in BladeClosers[st.blocks[st.stack[e]].name]
    BY DEF Closable, Matched
  <2>2. st.blocks[st.stack[e]].name \in Openers
    BY <2>1 DEF OpenAt, Opening, OpensBlock
  <2> QED
    BY <2>1, <2>2 DEF Closing
<1>5. Closing(p) => Closable(st, text[p]) # {}
  <2> SUFFICES ASSUME Closing(p) PROVE Closable(st, text[p]) # {}
    OBVIOUS
  <2>1. Len(st.stack) \in Closable(st, text[p])
    BY LowersToPartner
  <2> QED
    BY <2>1
<1>6. CASE ~Directive(text[p])
  <2>1. text[p].name \in {"blank", "text"}
    BY <1>6 DEF Directive
  <2>2. ~Opening(p)
    BY <2>1 DEF Opening, OpensBlock, Openers, BladeClosers
  <2>3. ~Closing(p)
    BY <2>1 DEF Closing, Openers, BladeClosers
  <2>4. ScanStep(text, st, p) = st
    BY <1>6 DEF ScanStep
  <2>5. st.pos <= p + 1
    BY <1>1, <1>3
  <2> QED
    BY <2>2, <2>3, <2>4, <2>5, SameMatched
<1>7. CASE Directive(text[p]) /\ Closing(p)
  <2>1. ScanStep(text, st, p) = Close(st, text, p)
    BY <1>1, <1>2, <1>3, <1>5, <1>7 DEF ScanStep
  <2> QED
    BY <1>7, <2>1, CloseMatched
<1>8. CASE Directive(text[p]) /\ ~Closing(p) /\ Opening(p)
  <2>1. OpensBlock(text[p])
    BY <1>8 DEF Opening
  <2>2. ScanStep(text, st, p) = Open(st, text, p)
    BY <1>1, <1>2, <1>3, <1>4, <1>8, <2>1 DEF ScanStep
  <2> QED
    BY <1>8, <2>2, OpenMatched
<1>9. CASE Directive(text[p]) /\ ~Closing(p) /\ ~Opening(p)
  <2>1. ~OpensBlock(text[p])
    BY <1>2, <1>9 DEF Opening
  <2>2. ScanStep(text, st, p) = [st EXCEPT !.pos = After(text, p)]
    BY <1>1, <1>2, <1>3, <1>4, <1>9, <2>1 DEF ScanStep
  <2>3. PICK r \in ScanType :
          [st EXCEPT !.pos = After(text, p)] = r /\ r.pos = After(text, p) /\ r.stack = st.stack /\ r.blocks = st.blocks
    BY PassedIs
  <2>4. r.pos <= p + 1
    BY <1>1, <1>2, <2>3 DEF After
  <2> QED
    BY <1>9, <2>2, <2>3, <2>4, SameMatched
<1> QED
  BY <1>6, <1>7, <1>8, <1>9

(* The blocks of a template that balances are its pairs.                     *)
LEMMA BlocksArePairs ==
  ASSUME file.text \in Seq(BladeUnit), Balanced
  PROVE  {<<b.start, b.end>> : b \in Range(Blocks(file.text))}
           = {<<u, Partner(u) + 1>> : u \in {v \in DOMAIN file.text : Opening(v)}}
<1> DEFINE text == file.text
<1>1. PICK n \in Nat : n = Len(text) /\ DOMAIN text = 1 .. n
  BY LenProperties
<1>2. PICK after \in [0 .. n -> ScanType] :
        /\ after[0] = ScanStart /\ \A k \in 1 .. n : after[k] = ScanStep(text, after[k - 1], k)
        /\ Scan(text) = after[n]
  BY <1>1, ScanRuns
<1> DEFINE Good == {k \in 0 .. n : Matched(after[k], k)}
<1>3. 0 \in Good
  <2>1. after[0] \in ScanType /\ after[0].pos = 1 /\ after[0].stack = <<>> /\ DOMAIN after[0].blocks = {}
    BY <1>1, <1>2 DEF ScanStart
  <2>2. Len(after[0].stack) = 0 /\ DOMAIN after[0].stack = {}
    BY <2>1
  <2>3. Matched(after[0], 0)
    BY <2>1, <2>2, LevelIs DEF Matched
  <2> QED
    BY <1>1, <2>3
<1>4. \A k \in 1 .. n : k - 1 \in Good => k \in Good
  <2> SUFFICES ASSUME NEW k \in 1 .. n, k - 1 \in Good PROVE k \in Good
    OBVIOUS
  <2>1. after[k - 1] \in ScanType /\ Matched(after[k - 1], k - 1) /\ k \in 1 .. Len(text)
    BY <1>1
  <2>2. Matched(ScanStep(text, after[k - 1], k), k)
    BY <2>1, StepMatched
  <2> QED
    BY <1>1, <1>2, <2>2
<1>5. after[n] \in ScanType /\ Matched(after[n], n)
  <2> HIDE DEF Good
  <2>1. \A k \in 0 .. n : k \in Good
    BY <1>1, <1>3, <1>4, UpTo
  <2>2. n \in Good
    BY <1>1, <2>1
  <2> QED
    BY <1>1, <2>2 DEF Good
<1> DEFINE st == after[n]
<1>6. Blocks(text) = st.blocks
  BY <1>2 DEF Blocks
<1>7. st \in ScanType /\ Matched(st, n)
  BY <1>5
<1> HIDE DEF st, Good
<1>8. \A e : e \notin DOMAIN st.stack
  <2> SUFFICES ASSUME NEW e \in DOMAIN st.stack PROVE FALSE
    OBVIOUS
  <2>1. OpenAt(st, n, e) /\ e \in Nat
    BY <1>7, ScanIs DEF Matched
  <2>2. PICK u \in 1 .. n : u = st.blocks[st.stack[e]].start
    BY <2>1 DEF OpenAt
  <2>3. Opening(u) /\ Level(u) = e /\ \A v \in u .. n : Level(v) >= e
    BY <2>1, <2>2 DEF OpenAt
  <2>4. Partner(u) = n + 1
    <3>1. n + 1 \in u .. n + 1 /\ n + 1 - 1 = n
      BY <1>1, <2>2
    <3> QED
      BY <1>1, <2>2, <2>3, <3>1, PartnerIs
  <2>5. Partner(u) \in 1 .. n
    BY <1>1, <2>2, <2>3 DEF Balanced
  <2> QED
    BY <1>1, <2>4, <2>5
<1>9. \A c \in DOMAIN st.blocks : /\ st.blocks[c].start \in DOMAIN text /\ Opening(st.blocks[c].start)
                                   /\ st.blocks[c].end = Partner(st.blocks[c].start) + 1
  BY <1>1, <1>7, <1>8 DEF Matched, Paired
<1>10. \A u \in DOMAIN text : Opening(u) => \E c \in DOMAIN st.blocks : st.blocks[c].start = u
  BY <1>1, <1>7 DEF Matched
<1>11. Range(st.blocks) = {st.blocks[c] : c \in DOMAIN st.blocks}
  BY DEF Range
<1>12. {<<b.start, b.end>> : b \in Range(st.blocks)} = {<<st.blocks[c].start, st.blocks[c].end>> : c \in DOMAIN st.blocks}
  BY <1>11
<1>13. {<<st.blocks[c].start, st.blocks[c].end>> : c \in DOMAIN st.blocks}
         = {<<u, Partner(u) + 1>> : u \in {v \in DOMAIN text : Opening(v)}}
  BY <1>9, <1>10
<1> QED
  BY <1>6, <1>12, <1>13

(* A chunk has lines that a chunk of its name may have.                      *)
LinesNamed(cs, of) == \A k \in DOMAIN cs : cs[k].units \subseteq of[cs[k].name]

(* A span that is emitted.                                                   *)
LEMMA SpanNamed ==
  ASSUME NEW cs \in Seq(Spanning), NEW lo \in Nat, NEW hi \in Int, NEW name \in Labels, NEW blanks,
         NEW of, LinesNamed(cs, of), lo .. hi \subseteq of[name]
  PROVE  LinesNamed(EmitSpan(cs, lo, hi, name, blanks), of)
<1> DEFINE units == Strip(lo .. hi, blanks)
           r == EmitSpan(cs, lo, hi, name, blanks)
<1>1. units \subseteq of[name]
  BY SpanUnits
<1>2. CASE units = {}
  BY <1>2 DEF EmitSpan
<1>3. CASE units # {} /\ ExtendsPrevious(cs, units, name)
  <2>1. r = Extended(cs, units)
    BY <1>3 DEF EmitSpan
  <2>2. PICK c \in Spanning : /\ cs # <<>> /\ Extended(cs, units) = Append(Front(cs), c)
                              /\ c.units = Last(cs).units \cup units /\ c.name = name /\ Last(cs).name = name
    <3> HIDE DEF units
    <3> QED
      BY <1>3, FoldedIs DEF units
  <2> DEFINE n == Len(cs)
  <2>3. /\ DOMAIN r = DOMAIN cs /\ n \in DOMAIN cs
        /\ \A k \in DOMAIN cs : r[k] = IF k = n THEN c ELSE cs[k]
    <3> HIDE DEF r, units
    <3> QED
      BY <2>1, <2>2, ExtendedIs
  <2>4. Last(cs) = cs[n]
    BY DEF Last
  <2> HIDE DEF r, units, n
  <2>5. cs[n].units \subseteq of[name]
    BY <2>2, <2>3, <2>4 DEF LinesNamed
  <2>6. c.units \subseteq of[c.name]
    BY <1>1, <2>2, <2>4, <2>5
  <2> QED
    BY <2>3, <2>6 DEF LinesNamed, r
<1>4. CASE units # {} /\ ~ExtendsPrevious(cs, units, name)
  <2> DEFINE c == LineChunk(units, name, "block")
  <2>1. r = Append(cs, c)
    BY <1>4 DEF EmitSpan
  <2>2. c \in Spanning /\ c.units = units /\ c.name = name
    <3>1. "block" \in Labels
      BY KindsAre
    <3>2. c \in Spanning /\ c.units = units
      <4> HIDE DEF units
      <4> QED
        BY <1>4, <3>1, SpanUnits DEF units
    <3>3. c.name = name
      <4> HIDE DEF units
      <4> QED
        BY NameIs
    <3> QED
      BY <3>2, <3>3
  <2> HIDE DEF c, r, units
  <2>3. DOMAIN r = 1 .. Len(cs) + 1 /\ r[Len(cs) + 1] = c /\ \A k \in DOMAIN cs : r[k] = cs[k]
    BY <2>1, <2>2, AppendedIs
  <2>4. \A k \in DOMAIN r : k \in DOMAIN cs \/ k = Len(cs) + 1
    <3>1. Len(cs) \in Nat /\ DOMAIN cs = 1 .. Len(cs)
      BY LenProperties
    <3> QED
      BY <2>3, <3>1
  <2> QED
    BY <1>1, <2>2, <2>3, <2>4 DEF LinesNamed, r
<1> QED
  BY <1>2, <1>3, <1>4

(* Spans that cover some lines are within them.                              *)
LEMMA TileWithin ==
  ASSUME NEW a \in Nat, NEW b \in Nat, NEW spans \in Spans, Tiles(spans, a, b)
  PROVE  \A k \in 1 .. Len(spans) : spans[k][1] \in Nat /\ spans[k][2] \in Int /\ a <= spans[k][1] /\ spans[k][2] <= b - 1
<1> DEFINE m == Len(spans)
<1>1. m \in Nat
  BY LenProperties DEF Spans
<1>2. PICK e : e \in [0 .. m -> Nat] /\ e[0] = a /\ e[m] = b
                 /\ \A i \in 1 .. m : spans[i] = <<e[i - 1], e[i] - 1>> /\ e[i - 1] <= e[i]
  BY DEF Tiles, Edges
<1> HIDE DEF m
<1> DEFINE Up == {k \in 0 .. m : a <= e[k]}
           Down == {k \in 0 .. m : e[m - k] <= b}
<1>3. \A k \in 0 .. m : k \in Up
  <2>1. 0 \in Up
    BY <1>1, <1>2
  <2>2. \A k \in 1 .. m : k - 1 \in Up => k \in Up
    <3> SUFFICES ASSUME NEW k \in 1 .. m, k - 1 \in Up PROVE k \in Up
      OBVIOUS
    <3>1. k \in 0 .. m /\ k - 1 \in 0 .. m
      BY <1>1
    <3>2. e[k] \in Nat /\ e[k - 1] \in Nat /\ e[k - 1] <= e[k] /\ a <= e[k - 1]
      BY <1>2, <3>1
    <3> QED
      BY <3>1, <3>2
  <2> HIDE DEF Up
  <2> QED
    BY <1>1, <2>1, <2>2, UpTo
<1>4. \A k \in 0 .. m : k \in Down
  <2>1. 0 \in Down
    <3>1. m - 0 = m /\ 0 \in 0 .. m
      BY <1>1
    <3> QED
      BY <1>2, <3>1
  <2>2. \A k \in 1 .. m : k - 1 \in Down => k \in Down
    <3> SUFFICES ASSUME NEW k \in 1 .. m, k - 1 \in Down PROVE k \in Down
      OBVIOUS
    <3>1. k \in 0 .. m /\ m - (k - 1) \in 1 .. m /\ m - (k - 1) - 1 = m - k /\ m - k \in 0 .. m /\ m - (k - 1) \in 0 .. m
      BY <1>1
    <3>2. e[m - k] \in Nat /\ e[m - (k - 1)] \in Nat /\ e[m - k] <= e[m - (k - 1)] /\ e[m - (k - 1)] <= b
      BY <1>2, <3>1
    <3> QED
      BY <3>1, <3>2
  <2> HIDE DEF Down
  <2> QED
    BY <1>1, <2>1, <2>2, UpTo
<1>5. ASSUME NEW k \in 1 .. m PROVE spans[k][1] \in Nat /\ spans[k][2] \in Int /\ a <= spans[k][1] /\ spans[k][2] <= b - 1
  <2>1. k - 1 \in 0 .. m /\ m - k \in 0 .. m /\ m - (m - k) = k /\ k \in 0 .. m
    BY <1>1
  <2>2. a <= e[k - 1] /\ e[k] <= b /\ e[k] \in Nat /\ e[k - 1] \in Nat
    BY <1>2, <1>3, <1>4, <2>1
  <2>3. spans[k][1] = e[k - 1] /\ spans[k][2] = e[k] - 1
    BY <1>2
  <2> QED
    BY <2>2, <2>3
<1> QED
  BY <1>5 DEF m

(* An element that is emitted.                                               *)
LEMMA ElementNamed ==
  ASSUME NEW cs \in Seq(Spanning), NEW n \in Nodes, NEW name \in Labels, NEW blanks,
         NEW of, LinesNamed(cs, of), n.head .. n.hi \subseteq of[name]
  PROVE  LinesNamed(EmitElement(cs, n, name, blanks), of)
<1>1. PICK spans \in Spans : \E emitted \in [0 .. Len(spans) -> Seq(Spanning)] : Taken(cs, n, name, blanks, spans, emitted)
  BY SpansRun
<1> DEFINE m == Len(spans)
<1>2. PICK emitted \in [0 .. m -> Seq(Spanning)] : Taken(cs, n, name, blanks, spans, emitted)
  BY <1>1
<1>3. n.head \in Nat /\ n.hi \in Nat /\ n.hi + 1 \in Nat /\ n.hi + 1 - 1 = n.hi
  BY NodeIs
<1>4. \A k \in 1 .. m : spans[k][1] \in Nat /\ spans[k][2] \in Int /\ n.head <= spans[k][1] /\ spans[k][2] <= n.hi
  BY <1>2, <1>3, TileWithin DEF Taken
<1>5. /\ emitted[0] = cs /\ EmitElement(cs, n, name, blanks) = emitted[m]
      /\ \A k \in 1 .. m : emitted[k] = EmitSpan(emitted[k - 1], spans[k][1], spans[k][2], name, blanks)
  BY <1>2 DEF Taken
<1>6. m \in Nat
  BY LenProperties DEF Spans
<1> DEFINE Good == {k \in 0 .. m : LinesNamed(emitted[k], of)}
<1> HIDE DEF m
<1>7. 0 \in Good
  BY <1>5, <1>6
<1>8. \A k \in 1 .. m : k - 1 \in Good => k \in Good
  <2> SUFFICES ASSUME NEW k \in 1 .. m, k - 1 \in Good PROVE k \in Good
    OBVIOUS
  <2>1. k \in 0 .. m /\ k - 1 \in 0 .. m /\ emitted[k - 1] \in Seq(Spanning)
    BY <1>6
  <2>2. PICK lo \in Nat, hi \in Int : lo = spans[k][1] /\ hi = spans[k][2] /\ n.head <= lo /\ hi <= n.hi
    BY <1>4
  <2>3. lo .. hi \subseteq of[name]
    <3>1. lo .. hi \subseteq n.head .. n.hi
      BY <1>3, <2>2
    <3> QED
      BY <3>1
  <2>4. LinesNamed(EmitSpan(emitted[k - 1], lo, hi, name, blanks), of)
    BY <2>1, <2>3, SpanNamed
  <2> QED
    BY <1>5, <2>1, <2>2, <2>4
<1>9. m \in Good
  <2> HIDE DEF Good
  <2>1. \A k \in 0 .. m : k \in Good
    BY <1>6, <1>7, <1>8, UpTo
  <2> QED
    BY <1>6, <2>1
<1> QED
  BY <1>5, <1>9

(* The names of the chunks of a script.                                      *)
ScriptCalls(n) == {"script"} \cup {m.type : m \in Range(n.kids)} \cup TsCalled

(* The chunks of a script keep their names behind its tag.                   *)
LEMMA RebaseNamed ==
  ASSUME NEW h \in Nat, NEW D, NEW cs \in Seq(Called(h, D)), NEW tag \in Nat, 1 <= tag,
         NEW of, \A x \in Labels \cap D : tag .. tag + h - 1 \subseteq of[x]
  PROVE  LinesNamed(Rebase(cs, tag), of)
<1> DEFINE r == Rebase(cs, tag)
<1>1. cs \in Seq(Upto(h))
  BY SeqOfMore DEF Called
<1>2. Within(r, tag .. tag + h - 1)
  BY <1>1, RebaseIs
<1>3. DOMAIN r = DOMAIN cs
  BY DEF Rebase
<1>4. ASSUME NEW k \in DOMAIN cs PROVE r[k].units \subseteq of[r[k].name]
  <2>1. cs[k] \in Called(h, D)
    OBVIOUS
  <2>2. cs[k] \in Spanning /\ cs[k].name \in D
    BY <2>1 DEF Called, Upto
  <2>3. cs[k] \in AnyChunk /\ cs \in Seq(AnyChunk)
    <3>1. Upto(h) \subseteq AnyChunk
      BY SpanningAny DEF Upto
    <3> QED
      BY <1>1, <2>2, <3>1, SeqOfMore
  <2>4. cs[k].name \in Labels
    BY <2>3, PartsOf
  <2>5. r[k].name = cs[k].name
    <3>1. ShiftedBy(r[k], cs[k], tag)
      BY <2>3, RebaseShifts
    <3> HIDE DEF r
    <3> QED
      BY <3>1 DEF ShiftedBy
  <2>6. r[k].units \subseteq tag .. tag + h - 1
    BY <1>2, <1>3 DEF Within
  <2> QED
    BY <2>2, <2>4, <2>5, <2>6
<1> QED
  BY <1>3, <1>4 DEF LinesNamed

(* A block of a component.                                                   *)
LEMMA VueBlockNamed ==
  ASSUME NEW cs \in Seq(Spanning), NEW n \in Nodes, n.lo = n.head, NEW blanks,
         NEW of, LinesNamed(cs, of),
         \A x \in Labels : x \in (IF n.type = "script" THEN ScriptCalls(n) ELSE {BlockName(n)}) => LinesOf(n) \subseteq of[x]
  PROVE  LinesNamed(VueBlock(cs, n, blanks), of)
<1> DEFINE script == IF n.type = "script" THEN TsSource(n.kids) ELSE <<>>
           name == IF n.type = "script" THEN "script" ELSE BlockName(n)
           D == {m.type : m \in Range(n.kids)} \cup TsCalled
           r == VueBlock(cs, n, blanks)
<1>1. n.head \in Nat /\ n.hi \in Nat /\ 1 <= n.head /\ n.head <= n.hi /\ n.kids \in Seq(Nodes)
  BY NodeIs
<1>2. name \in Labels
  <2>1. "script" \in Labels /\ "template" \in Labels /\ "style" \in Labels /\ "" \in Labels
    BY DEF Labels, Literals
  <2> QED
    BY <2>1 DEF BlockName
<1>3. LinesOf(n) = n.head .. n.hi
  BY DEF LinesOf
<1>4. CASE script # <<>>
  <2>1. n.type = "script" /\ script = TsSource(n.kids)
    BY <1>4
  <2>2. PICK h \in Nat : h = n.hi - n.head + 1
    <3>1. n.hi - n.head + 1 \in Nat
      BY <1>1
    <3> QED
      BY <3>1
  <2>3. \A k \in DOMAIN n.kids : n.kids[k].hi <= h
    <3> SUFFICES ASSUME NEW k \in DOMAIN n.kids PROVE n.kids[k].hi <= h
      OBVIOUS
    <3>1. n.kids[k] \in Nodes
      BY <1>1
    <3>2. n.kids[k].hi \in Nat
      BY <3>1, NodeIs
    <3>3. n.head + n.kids[k].hi - 1 <= n.hi
      BY <2>1, NodeIs
    <3> QED
      BY <1>1, <2>2, <3>2, <3>3
  <2>4. TsSource(n.kids) \in Seq(Called(h, D))
    BY <1>1, <2>3, TsSourceIs
  <2>5. n.head .. n.head + h - 1 = n.head .. n.hi
    BY <1>1, <2>2
  <2>6. \A x \in Labels \cap D : n.head .. n.head + h - 1 \subseteq of[x]
    BY <1>3, <2>1, <2>5 DEF ScriptCalls
  <2> DEFINE moved == Rebase(script, n.head)
  <2>7. r = cs \o moved
    BY <1>4 DEF VueBlock
  <2> HIDE DEF script, D
  <2>8. LinesNamed(moved, of)
    BY <1>1, <2>1, <2>4, <2>6, RebaseNamed
  <2>9. moved \in Seq(Spanning)
    <3>1. script \in Seq(Upto(h))
      BY <2>1, <2>4, SeqOfMore DEF Called
    <3> QED
      BY <1>1, <3>1, RebaseIs
  <2> HIDE DEF moved, r
  <2>10. ASSUME NEW k \in DOMAIN r PROVE r[k].units \subseteq of[r[k].name]
    <3>1. \/ k \in DOMAIN cs /\ r[k] = cs[k]
          \/ k - Len(cs) \in DOMAIN moved /\ r[k] = moved[k - Len(cs)]
      BY <2>7, <2>9, <2>10, Joined
    <3> QED
      BY <2>8, <3>1 DEF LinesNamed
  <2> QED
    BY <2>10 DEF LinesNamed, r
<1>5. CASE script = <<>>
  <2>1. r = EmitElement(cs, n, name, blanks)
    BY <1>5 DEF VueBlock
  <2>2. n.head .. n.hi \subseteq of[name]
    BY <1>2, <1>3 DEF ScriptCalls
  <2> HIDE DEF r, name
  <2>3. LinesNamed(r, of)
    BY <1>2, <2>1, <2>2, ElementNamed
  <2> QED
    BY <2>3 DEF r
<1> QED
  BY <1>4, <1>5

(* The chunks of a component's blocks have lines their names may have.       *)
LEMMA BlocksNamed ==
  ASSUME NEW f, f.text \in Seq(Nodes), BlocksFollow(f.text),
         NEW of,
         \A k \in DOMAIN f.text : \A x \in Labels :
           x \in (IF f.text[k].type = "script" THEN ScriptCalls(f.text[k]) ELSE {BlockName(f.text[k])})
             => LinesOf(f.text[k]) \subseteq of[x]
  PROVE  \E cs \in Seq(Spanning) : LinesNamed(cs, of) /\ VueChunksOf(f) = OrFallback(f, cs)
<1> DEFINE m == Len(f.text)
<1>1. PICK made \in [0 .. m -> Seq(Spanning)] :
        /\ made[0] = <<>>
        /\ \A k \in 1 .. m : made[k] = VueBlock(made[k - 1], f.text[k], f.blanks)
        /\ VueChunksOf(f) = OrFallback(f, made[m])
  BY BlocksRun
<1>2. m \in Nat /\ DOMAIN f.text = 1 .. m /\ \A k \in 1 .. m : f.text[k] \in Nodes /\ f.text[k].lo = f.text[k].head
  BY LenProperties DEF BlocksFollow
<1> DEFINE Good == {k \in 0 .. m : LinesNamed(made[k], of)}
<1> HIDE DEF m
<1>3. 0 \in Good
  <2>1. LinesNamed(<<>>, of)
    BY DEF LinesNamed
  <2> QED
    BY <1>1, <1>2, <2>1
<1>4. \A k \in 1 .. m : k - 1 \in Good => k \in Good
  <2> SUFFICES ASSUME NEW k \in 1 .. m, k - 1 \in Good PROVE k \in Good
    OBVIOUS
  <2>1. k \in 0 .. m /\ made[k - 1] \in Seq(Spanning) /\ LinesNamed(made[k - 1], of)
    BY <1>2
  <2>2. f.text[k] \in Nodes /\ f.text[k].lo = f.text[k].head
    BY <1>2
  <2>3. LinesNamed(VueBlock(made[k - 1], f.text[k], f.blanks), of)
    BY <1>2, <2>1, <2>2, VueBlockNamed
  <2> QED
    BY <1>1, <2>1, <2>3
<1>5. m \in Good
  <2> HIDE DEF Good
  <2>1. \A k \in 0 .. m : k \in Good
    BY <1>2, <1>3, <1>4, UpTo
  <2> QED
    BY <1>2, <2>1
<1>6. made[m] \in Seq(Spanning) /\ LinesNamed(made[m], of)
  BY <1>2, <1>5
<1> QED
  BY <1>1, <1>6

(* The fallback names no chunk.                                              *)
LEMMA FallbackNames ==
  ASSUME NEW text, NEW i \in DOMAIN FallbackChunks(text)
  PROVE  FallbackChunks(text)[i].name = ""
<1> DEFINE starts == BlockStarts(text)
           last(s) == Max({l \in s .. Len(text) : s .. l \subseteq Ink(text)})
           line(s) == IF s = 2 /\ text[1] = "blank" THEN 1 ELSE s
           block(s) == Chunk(s .. last(s), line(s), line(s) + last(s) - s, "", "block")
<1>1. FallbackChunks(text) = [k \in DOMAIN Ordered(starts) |-> block(Ordered(starts)[k])]
  BY DEF FallbackChunks
<1>2. \A s : block(s).name = ""
  <2> HIDE DEF line, last
  <2> QED
    BY DEF Chunk
<1> HIDE DEF block
<1>3. FallbackChunks(text)[i] = block(Ordered(starts)[i])
  BY <1>1
<1> QED
  BY <1>2, <1>3

(* What the scripts of a text declare.                                       *)
DeclaredIn(text) == {n.type : n \in UNION {Range(b.kids) : b \in {c \in Range(text) : c.type = "script"}}}

(* The blocks a chunk may be of, by its name, when a script declares nothing *)
(* of that name.                                                             *)
SourceType(x) == IF x \in {"template", "style"} THEN x ELSE "script"
LinesOfType(text, t) == UNION {LinesOf(text[j]) : j \in {i \in DOMAIN text : text[i].type = t}}

(* Lines of blocks of one type are of no other block.                        *)
LEMMA OneType ==
  ASSUME NEW text \in Seq(Nodes), BlocksFollow(text), NEW t, NEW units, units \subseteq LinesOfType(text, t)
  PROVE  LET blocks == {j \in DOMAIN text : units \cap LinesOf(text[j]) # {}}
         IN  Cardinality({text[j].type : j \in blocks}) <= 1
<1> DEFINE blocks == {j \in DOMAIN text : units \cap LinesOf(text[j]) # {}}
           types == {text[j].type : j \in blocks}
<1>1. PICK m \in Nat : DOMAIN text = 1 .. m
  BY LenProperties
<1>2. ASSUME NEW i \in DOMAIN text, NEW j \in DOMAIN text, NEW u \in LinesOf(text[i]), u \in LinesOf(text[j])
      PROVE  i = j
  <2>1. text[i] \in Nodes /\ text[j] \in Nodes
    OBVIOUS
  <2>2. text[i].lo \in Nat /\ text[i].hi \in Nat /\ text[j].lo \in Nat /\ text[j].hi \in Nat
    BY <2>1, NodeIs
  <2>3. PICK a \in Nat, b \in Nat, c \in Nat, d \in Nat :
          a = text[i].lo /\ b = text[i].hi /\ c = text[j].lo /\ d = text[j].hi
    BY <2>2
  <2>4. u \in a .. b /\ u \in c .. d
    BY <1>2, <2>3 DEF LinesOf
  <2>5. CASE i < j
    <3>1. i \in 1 .. j - 1
      BY <1>1, <2>5
    <3>2. b < c
      BY <2>3, <3>1 DEF BlocksFollow
    <3> QED
      BY <2>4, <3>2
  <2>6. CASE j < i
    <3>1. j \in 1 .. i - 1
      BY <1>1, <2>6
    <3>2. d < a
      BY <2>3, <3>1 DEF BlocksFollow
    <3> QED
      BY <2>4, <3>2
  <2> QED
    BY <1>1, <2>5, <2>6
<1>3. \A j \in blocks : text[j].type = t
  <2> SUFFICES ASSUME NEW j \in blocks PROVE text[j].type = t
    OBVIOUS
  <2>1. PICK u \in units : u \in LinesOf(text[j])
    OBVIOUS
  <2>2. PICK i \in DOMAIN text : text[i].type = t /\ u \in LinesOf(text[i])
    BY <2>1 DEF LinesOfType
  <2> QED
    BY <1>2, <2>1, <2>2
<1>4. types = {} \/ types = {t}
  BY <1>3
<1>5. Cardinality({}) = 0 /\ Cardinality({t}) = 1
  BY FS_EmptySet, FS_Singleton
<1>6. Cardinality(types) = 0 \/ Cardinality(types) = 1
  <2> HIDE DEF types
  <2> QED
    BY <1>4, <1>5
<1> HIDE DEF types
<1>7. Cardinality(types) <= 1
  BY <1>6
<1> QED
  BY <1>7 DEF types

(* A chunk of a component and its pieces are of blocks of one type.          *)
LEMMA BlocksApart ==
  ASSUME NEW f, f.text \in Seq(Nodes), BlocksFollow(f.text), ~TooBroken(f), NEW k \in DOMAIN VueChunksOf(f),
         NEW units, units \subseteq VueChunksOf(f)[k].units
  PROVE  LET blocks == {j \in DOMAIN f.text : units \cap LinesOf(f.text[j]) # {}}
         IN  \/ VueChunksOf(f)[k].name \in {""} \cup (DeclaredIn(f.text) \cap {"template", "style"})
             \/ Cardinality({f.text[j].type : j \in blocks}) <= 1
<1> DEFINE text == f.text
           loose == {""} \cup (DeclaredIn(text) \cap {"template", "style"})
           of == [x \in Labels |-> IF x \in loose THEN Nat ELSE LinesOfType(text, SourceType(x))]
<1>1. ASSUME NEW j \in DOMAIN text, NEW x \in Labels,
             x \in (IF text[j].type = "script" THEN ScriptCalls(text[j]) ELSE {BlockName(text[j])})
      PROVE  LinesOf(text[j]) \subseteq of[x]
  <2>1. of[x] = IF x \in loose THEN Nat ELSE LinesOfType(text, SourceType(x))
    OBVIOUS
  <2>2. LinesOf(text[j]) \subseteq Nat
    <3>1. text[j] \in Nodes
      OBVIOUS
    <3>2. text[j].lo \in Nat /\ text[j].hi \in Nat
      BY <3>1, NodeIs
    <3> QED
      BY <3>2 DEF LinesOf
  <2>3. x \in loose \/ text[j].type = SourceType(x)
    <3>1. CASE text[j].type = "script"
      <4>1. x \in DeclaredIn(text) \/ x = "script" \/ x \in TsCalled
        <5>1. text[j] \in {c \in Range(text) : c.type = "script"}
          BY <3>1 DEF Range
        <5> QED
          BY <1>1, <3>1, <5>1 DEF ScriptCalls, DeclaredIn
      <4>2. x \notin {"template", "style"} \/ x \in DeclaredIn(text)
        BY <4>1 DEF TsCalled, TsMembers, OwnChunk
      <4> QED
        BY <3>1, <4>2 DEF SourceType
    <3>2. CASE text[j].type # "script"
      <4>1. x = BlockName(text[j])
        BY <1>1, <3>2
      <4> QED
        BY <4>1 DEF BlockName, SourceType
    <3> QED
      BY <3>1, <3>2
  <2>4. text[j].type = SourceType(x) => LinesOf(text[j]) \subseteq LinesOfType(text, SourceType(x))
    BY DEF LinesOfType
  <2> QED
    BY <2>1, <2>2, <2>3, <2>4
<1>2. PICK cs \in Seq(Spanning) : LinesNamed(cs, of) /\ VueChunksOf(f) = OrFallback(f, cs)
  <2> HIDE DEF of
  <2> QED
    BY <1>1, BlocksNamed
<1>3. CASE cs = <<>>
  <2>1. VueChunksOf(f)[k].name = ""
    BY <1>2, <1>3, FallbackNames DEF OrFallback
  <2> QED
    BY <2>1
<1>4. CASE cs # <<>>
  <2>1. VueChunksOf(f) = cs
    BY <1>2, <1>4 DEF OrFallback
  <2> DEFINE c == cs[k]
  <2>2. c \in Spanning
    BY <2>1
  <2>3. c.name \in Labels
    BY <2>2, SpanningParts
  <2>4. c.units \subseteq of[c.name]
    <3> HIDE DEF of
    <3> QED
      BY <1>2, <2>1 DEF LinesNamed
  <2>5. c.name \in loose \/ units \subseteq LinesOfType(text, SourceType(c.name))
    BY <2>1, <2>3, <2>4
  <2> HIDE DEF of, c
  <2>6. c.name \in loose \/ Cardinality({text[j].type : j \in {i \in DOMAIN text : units \cap LinesOf(text[i]) # {}}}) <= 1
    BY <2>5, OneType
  <2> QED
    BY <2>1, <2>6 DEF c
<1> QED
  BY <1>3, <1>4

(* The directives and their levels in the next state.                        *)
SameLevels ==
  \A u : /\ Opening(u)' = Opening(u) /\ Closing(u)' = Closing(u)
         /\ Level(u)' = Level(u) /\ Partner(u)' = Partner(u)

(* What BlocksKeptApart asks of a file depends on the file alone.            *)
LEMMA FileAlone ==
  ASSUME file' = file
  PROVE  Balanced' = Balanced /\ Declared' = Declared /\ SameLevels
<1>1. \A u : Opening(u)' = Opening(u) /\ Closing(u)' = Closing(u)
  BY DEF Opening, Closing
<1>2. \A u : Level(u)' = Level(u)
  BY DEF Level, Opening, Closing
<1>3. \A u : Partner(u)' = Partner(u)
  BY DEF Partner, Level, Opening, Closing
<1>4. Declared' = Declared
  BY DEF Declared
<1>5. Balanced' = Balanced
  BY DEF Balanced, Partner, Level, Opening, Closing
<1> QED
  BY <1>1, <1>2, <1>3, <1>4, <1>5 DEF SameLevels

(* What a template, a component and any other file have to show, for chunks  *)
(* cs of the file.                                                           *)
LEMMA KeptApart ==
  ASSUME NEW cs, Done(cs), file \in Files,
         file.format = "vue" => cs = VueChunksOf(file)
  PROVE  BlocksKeptApart'
<1>1. file' = file
  BY DEF Done
<1>2. Balanced' = Balanced /\ Declared' = Declared /\ SameLevels
  BY <1>1, FileAlone
<1>3. ASSUME file.format = "blade", Balanced
      PROVE  {<<b.start, b.end>> : b \in Range(Blocks(file.text))}
               = {<<u, Partner(u) + 1>> : u \in {v \in DOMAIN file.text : Opening(v)}}
  BY <1>3, FormatsAre, BlocksArePairs
<1>4. {<<u, Partner(u) + 1>> : u \in {v \in DOMAIN file.text : Opening(v)}}
        = {<<u, Partner(u)' + 1>> : u \in {v \in DOMAIN file.text : Opening(v)'}}
  BY <1>2 DEF SameLevels
<1>5. ASSUME file.format = "vue", NEW c \in Range(chunks)'
      PROVE  \E k \in DOMAIN cs : c.name = cs[k].name /\ c.units \subseteq cs[k].units
  <2>1. cs \in Seq(AnyChunk)
    <3>1. file.text \in Seq(Nodes) /\ BlocksFollow(file.text)
      BY <1>5, FormatsAre
    <3> QED
      BY <1>5, <3>1, VueKept, SpanningAny, SeqOfMore
  <2>2. IsStored(chunks', cs)
    BY <2>1, DoneIs
  <2>3. PICK i \in DOMAIN chunks' : c = chunks'[i]
    BY DEF Range
  <2> QED
    BY <2>2, <2>3 DEF IsStored, IsPiece
<1>6. ASSUME file'.format = "blade", Balanced'
      PROVE  {<<b.start, b.end>> : b \in Range(Blocks(file'.text))}
               = {<<u, Partner(u)' + 1>> : u \in {v \in DOMAIN file'.text : Opening(v)'}}
  BY <1>1, <1>2, <1>3, <1>4, <1>6
<1>7. ASSUME file.format = "vue", ~TooBroken(file), NEW c \in Range(chunks)'
      PROVE  LET blocks == {j \in DOMAIN file.text : c.units \cap LinesOf(file.text[j]) # {}}
             IN  \/ c.name \in {""} \cup (Declared \cap {"template", "style"})
                 \/ Cardinality({file.text[j].type : j \in blocks}) <= 1
  <2>1. file.text \in Seq(Nodes) /\ BlocksFollow(file.text)
    BY <1>7, FormatsAre
  <2>2. Declared = DeclaredIn(file.text)
    BY DEF Declared, DeclaredIn
  <2>3. PICK k \in DOMAIN cs : c.name = cs[k].name /\ c.units \subseteq cs[k].units
    BY <1>5, <1>7
  <2> QED
    BY <1>7, <2>1, <2>2, <2>3, BlocksApart
<1>8. ASSUME file'.format = "vue", ~TooBroken(file'), NEW c \in Range(chunks)'
      PROVE  LET blocks == {j \in DOMAIN file'.text : c.units \cap LinesOf(file'.text[j]) # {}}
             IN  \/ c.name \in {""} \cup (Declared' \cap {"template", "style"})
                 \/ Cardinality({file'.text[j].type : j \in blocks}) <= 1
  BY <1>1, <1>2, <1>7, <1>8
<1> QED
  BY <1>6, <1>8 DEF BlocksKeptApart

(* A block of a template is one pair of directives that match, and a chunk   *)
(* of a component is of one block, whatever short run is folded into the     *)
(* chunk before it (chunker.py, _blade_parse_blocks and                      *)
(* _vue_merge_into_previous).                                                *)
THEOREM BlocksAreKeptApart == ChunkerSpec => []BlocksKeptApart
<1> DEFINE Apart == file \in Files /\ BlocksKeptApart
<1>1. ChunkerInit => Apart
  BY DEF ChunkerInit, BlocksKeptApart
<1>2. Apart /\ [ChunkFile]_chunkerVars => Apart'
  <2> SUFFICES ASSUME Apart, [ChunkFile]_chunkerVars PROVE Apart'
    OBVIOUS
  <2>1. CASE UNCHANGED chunkerVars
    <3>1. file' = file /\ added' = added /\ chunks' = chunks /\ done' = done
      BY <2>1 DEF chunkerVars
    <3>2. Balanced' = Balanced /\ Declared' = Declared /\ SameLevels
      BY <3>1, FileAlone
    <3>3. {<<u, Partner(u) + 1>> : u \in {v \in DOMAIN file.text : Opening(v)}}
            = {<<u, Partner(u)' + 1>> : u \in {v \in DOMAIN file.text : Opening(v)'}}
      BY <3>2 DEF SameLevels
    <3>4. ASSUME done', file'.format = "blade", Balanced'
          PROVE  {<<b.start, b.end>> : b \in Range(Blocks(file'.text))}
                   = {<<u, Partner(u)' + 1>> : u \in {v \in DOMAIN file'.text : Opening(v)'}}
      <4>1. {<<b.start, b.end>> : b \in Range(Blocks(file.text))}
              = {<<u, Partner(u) + 1>> : u \in {v \in DOMAIN file.text : Opening(v)}}
        BY <3>1, <3>2, <3>4 DEF BlocksKeptApart
      <4> QED
        BY <3>1, <3>3, <4>1
    <3>5. ASSUME done', file'.format = "vue", ~TooBroken(file'), NEW c \in Range(chunks)'
          PROVE  LET blocks == {j \in DOMAIN file'.text : c.units \cap LinesOf(file'.text[j]) # {}}
                 IN  \/ c.name \in {""} \cup (Declared' \cap {"template", "style"})
                     \/ Cardinality({file'.text[j].type : j \in blocks}) <= 1
      <4>1. LET blocks == {j \in DOMAIN file.text : c.units \cap LinesOf(file.text[j]) # {}}
            IN  \/ c.name \in {""} \cup (Declared \cap {"template", "style"})
                \/ Cardinality({file.text[j].type : j \in blocks}) <= 1
        BY <3>1, <3>5 DEF BlocksKeptApart
      <4> QED
        BY <3>1, <3>2, <4>1
    <3>6. BlocksKeptApart'
      BY <3>4, <3>5 DEF BlocksKeptApart
    <3> QED
      BY <3>1, <3>6
  <2>2. CASE ChunkFile
    <3>1. PICK cs : Done(cs) /\ (file.format = "vue" => cs = VueChunksOf(file))
      BY <2>2 DEF ChunkFile, ChunkWith, ChunkBlade, ChunkTypescript, ChunkPython, ChunkPhp, ChunkVue, ChunkBash,
                  ChunkMarkdown, ChunkProse, ChunkText, ChunkPdf, Done
    <3>2. file' = file
      BY <3>1 DEF Done
    <3>3. BlocksKeptApart'
      BY <3>1, KeptApart
    <3> QED
      BY <3>2, <3>3
  <2> QED
    BY <2>1, <2>2
<1>3. Apart => BlocksKeptApart
  OBVIOUS
<1> QED
  BY <1>1, <1>2, <1>3, PTL DEF ChunkerSpec

-----------------------------------------------------------------------------
(* Sub-chunks: the windows of a chunk that is too long.                      *)

(* The windows start one behind the other, the first at the first line and   *)
(* none behind the line after the one before it, and so will the next.       *)
Chained ==
  /\ windows = <<>> => from = 1
  /\ windows # <<>> => /\ windows[1].from = 1
                       /\ from \in windows[Len(windows)].from + 1 .. windows[Len(windows)].to + 1
  /\ \A k \in DOMAIN windows : windows[k].from <= windows[k].to
  /\ \A k \in 2 .. Len(windows) : windows[k].from \in windows[k - 1].from + 1 .. windows[k - 1].to + 1

(* The next window starts behind the signature or behind every window.       *)
PastSignature == from > sig \/ \A k \in DOMAIN windows : from > windows[k].to

(* What the loop variables are between two steps.                            *)
Loop ==
  /\ at = "signature" => from = 1 /\ next = 1 /\ windows = <<>>
  /\ at = "lines" => from <= Len(lines)
  /\ at = "done" => from = Len(lines) + 1
  /\ next = from => taken = 0
  /\ next > from => taken >= 1 /\ taken <= EffectiveMax

IInv == TypeOK /\ Chained /\ PastSignature /\ Loop /\ SignatureOnce /\ WithinLimit

-----------------------------------------------------------------------------
LEMMA LineTypes ==
  ASSUME TypeOK, NEW l \in LineNumbers
  PROVE  lines \in Seq(Line) /\ Len(lines) \in Nat /\ Len(lines) >= 1
         /\ lines[l] \in Line /\ Width(l) \in Nat /\ Width(l) >= 1
<1>1. lines \in Seq(Line) /\ lines # <<>>
  BY ChunksAssumption DEF TypeOK
<1>2. Len(lines) \in Nat /\ Len(lines) >= 1 /\ lines[l] \in Line
  BY <1>1 DEF LineNumbers
<1> QED BY <1>1, <1>2 DEF Line, Width

LEMMA Limits ==
  ASSUME TypeOK
  PROVE  EffectiveMax \in Int /\ EffectiveMax >= MinWindow /\ EffectiveMax >= MaxChars - sigLen
         /\ (EffectiveMax = MinWindow \/ EffectiveMax = MaxChars - sigLen)
BY LimitsAssumption DEF TypeOK, EffectiveMax, LargerOf

(* The initial state. *)
LEMMA InitHolds == Init => IInv
<1> SUFFICES ASSUME Init PROVE IInv OBVIOUS
<1> USE DEF Init
<1>1. lines \in Seq(Line) /\ lines # <<>> BY ChunksAssumption
<1>2. Len(lines) \in Nat /\ Len(lines) >= 1 /\ lines[1] \in Line BY <1>1
<1>3. TypeOK BY <1>2 DEF TypeOK, LineNumbers, Line, Width, Window
<1>4. Chained BY <1>2 DEF Chained, LineNumbers
<1>5. PastSignature BY DEF PastSignature
<1>6. Loop BY DEF Loop
<1>7. SignatureOnce /\ WithinLimit BY DEF SignatureOnce, WithinLimit, Windows
<1> QED BY <1>3, <1>4, <1>5, <1>6, <1>7 DEF IInv

LEMMA ExtendSignatureHolds == ASSUME IInv, ExtendSignature PROVE IInv'
<1> USE DEF IInv
<1>1. windows = <<>> /\ from = 1 /\ next = 1 /\ taken = 0 BY DEF ExtendSignature, Loop
<1>2. sig + 1 \in LineNumbers
  BY LimitsAssumption DEF ExtendSignature, AddsToSignature, InScan, TypeOK, LineNumbers
<1>3. Width(sig + 1) \in Nat /\ lines[sig + 1].parens \in Int /\ Len(lines) >= 1 /\ Len(lines) \in Nat
  BY <1>2, LineTypes DEF Line
<1>4. TypeOK'
  BY <1>1, <1>2, <1>3 DEF TypeOK, ExtendSignature, DepthWithNext, LineNumbers, Window
<1>5. Chained' /\ PastSignature'
  BY <1>1, <1>3 DEF Chained, PastSignature, ExtendSignature
<1>6. Loop' BY <1>1, <1>3 DEF Loop, ExtendSignature
<1>7. SignatureOnce' /\ WithinLimit'
  BY <1>1 DEF SignatureOnce, WithinLimit, Windows, ExtendSignature
<1> QED BY <1>4, <1>5, <1>6, <1>7

LEMMA EndSignatureHolds == ASSUME IInv, EndSignature PROVE IInv'
<1> USE DEF IInv
<1>1. windows = <<>> /\ from = 1 /\ next = 1 /\ taken = 0 BY DEF EndSignature, Loop
<1>2. 1 \in LineNumbers /\ Len(lines) \in Nat /\ Len(lines) >= 1
  BY ChunksAssumption DEF TypeOK, LineNumbers
<1>3. TypeOK' BY DEF TypeOK, EndSignature, LineNumbers, Window
<1>4. Chained' /\ PastSignature'
  BY <1>1, <1>2 DEF Chained, PastSignature, EndSignature
<1>5. Loop' BY <1>1, <1>2 DEF Loop, EndSignature
<1>6. SignatureOnce' /\ WithinLimit'
  BY <1>1 DEF SignatureOnce, WithinLimit, Windows, EndSignature
<1> QED BY <1>3, <1>4, <1>5, <1>6

LEMMA TakeLineHolds == ASSUME IInv, TakeLine PROVE IInv'
<1> USE DEF IInv
<1>1. next \in LineNumbers /\ from <= next
  BY DEF TakeLine, Fits, TypeOK, LineNumbers
<1>2. Width(next) \in Nat /\ Width(next) >= 1 /\ Len(lines) \in Nat BY <1>1, LineTypes
<1>3. EffectiveMax \in Int /\ EffectiveMax' = EffectiveMax
  BY Limits DEF TakeLine, EffectiveMax
<1>4. TypeOK' BY <1>1, <1>2 DEF TypeOK, TakeLine, LineNumbers, Window
<1>5. Chained' /\ PastSignature'
  BY DEF Chained, PastSignature, TakeLine
<1>6. Loop'
  BY <1>1, <1>2, <1>3 DEF Loop, TakeLine, Fits, TypeOK
<1>7. SignatureOnce' /\ WithinLimit'
  BY DEF SignatureOnce, WithinLimit, Windows, TakeLine
<1> QED BY <1>4, <1>5, <1>6, <1>7

-----------------------------------------------------------------------------
(* Where the cursor is after a window.                                       *)
LEMMA RewoundBetween ==
  ASSUME IInv, at = "lines"
  PROVE  /\ Stop \in Int /\ Rewound \in Int
         /\ from < Rewound /\ Rewound <= Stop /\ Stop <= Len(lines) + 1
         /\ Rewound > sig \/ Rewound = Stop
<1>1. /\ from \in 1 .. next /\ next \in 1 .. Len(lines) + 1 /\ from <= Len(lines)
      /\ sig \in Int /\ Len(lines) \in Nat
  BY ChunksAssumption DEF IInv, TypeOK, Loop, LineNumbers
<1>2. Stop \in Int /\ from + 1 <= Stop /\ Stop <= Len(lines) + 1 BY <1>1 DEF Stop
<1> QED BY <1>1, <1>2, LimitsAssumption DEF Rewound, LargerOf, SmallerOf

LEMMA EmitWindowHolds == ASSUME IInv, EmitWindow PROVE IInv'
<1> USE DEF IInv
<1> DEFINE w == [from |-> from, to |-> Stop - 1, size |-> TextSize]
<1>1. /\ from \in Nat /\ from >= 1 /\ from <= Len(lines) /\ next \in Nat /\ from <= next
      /\ Len(lines) \in Nat /\ sig \in Nat /\ taken \in Nat /\ sigLen \in Nat
      /\ next <= Len(lines) + 1 /\ windows \in Seq(Window)
  BY ChunksAssumption DEF EmitWindow, TypeOK, Loop, LineNumbers
<1>2. /\ Stop \in Int /\ Rewound \in Int
      /\ from < Rewound /\ Rewound <= Stop /\ Stop <= Len(lines) + 1
      /\ Rewound > sig \/ Rewound = Stop
  BY RewoundBetween DEF EmitWindow
<1>3. from' \in Nat /\ from < from' /\ from' <= Stop /\ (from' > sig \/ from' = Stop) /\ next' = from'
  BY <1>1, <1>2 DEF EmitWindow
<1>4. windows' = Append(windows, w) BY DEF EmitWindow
<1>5. TextSize \in Nat
  <2>1. CASE next = from
    <3>1. Width(next) \in Nat /\ Width(next) >= 1
      BY <2>1, <1>1, LineTypes DEF LineNumbers
    <3> QED BY <2>1, <3>1, <1>1 DEF TextSize
  <2>2. CASE next # from
    <3>1. taken >= 1 BY <2>2, <1>1 DEF Loop
    <3> QED BY <2>2, <3>1, <1>1 DEF TextSize
  <2> QED BY <2>1, <2>2
<1>6. w \in Window BY <1>1, <1>2, <1>5 DEF Window, LineNumbers
<1>7. w.from = from /\ w.to = Stop - 1 /\ w.size = TextSize OBVIOUS
<1> HIDE DEF w
<1>8. windows' \in Seq(Window) BY <1>1, <1>4, <1>6
<1>9. TypeOK'
  <2>1. at' \in {"signature", "lines", "done"} BY DEF EmitWindow
  <2>2. Window' = Window BY DEF EmitWindow, Window, LineNumbers
  <2> QED BY <1>1, <1>2, <1>3, <1>8, <2>1, <2>2 DEF TypeOK, EmitWindow, LineNumbers
<1>10. /\ DOMAIN windows' = 1 .. Len(windows) + 1 /\ Len(windows) \in Nat
      /\ windows'[Len(windows) + 1] = w
      /\ \A k \in DOMAIN windows : k \in DOMAIN windows' /\ windows'[k] = windows[k]
      /\ DOMAIN windows = 1 .. Len(windows)
  BY <1>1, <1>4, <1>6
<1>11. \A k \in DOMAIN windows : windows[k] \in Window /\ windows[k].to \in Int
  <2> SUFFICES ASSUME NEW k \in DOMAIN windows PROVE windows[k] \in Window /\ windows[k].to \in Int
    OBVIOUS
  <2>1. windows[k] \in Window BY <1>1, <1>10
  <2>2. windows[k].to \in LineNumbers BY <2>1 DEF Window
  <2> QED BY <2>1, <2>2, <1>1 DEF LineNumbers
<1>12. Windows' = Windows \cup {w} BY <1>10 DEF Windows
<1>13. Chained'
  <2> DEFINE n == Len(windows)
  <2>1. n \in Nat /\ Len(windows') = n + 1 /\ windows' # <<>>
    BY <1>1, <1>4, <1>6, <1>8, <1>10, LenProperties
  <2>2. from' \in w.from + 1 .. w.to + 1 BY <1>1, <1>2, <1>3, <1>7
  <2>3. w.from <= w.to BY <1>1, <1>2, <1>3, <1>7
  <2>4. windows'[1].from = 1
    <3>1. CASE n = 0
      <4>1. windows = <<>> BY <1>1, <3>1, EmptySeq
      <4> QED BY <1>10, <1>7, <3>1, <4>1 DEF Chained
    <3>2. CASE n # 0
      <4>1. 1 \in DOMAIN windows /\ windows # <<>> BY <1>10, <3>2
      <4> QED BY <1>10, <4>1 DEF Chained
    <3> QED BY <3>1, <3>2
  <2>5. ASSUME NEW k \in DOMAIN windows' PROVE windows'[k].from <= windows'[k].to
    <3>1. CASE k \in DOMAIN windows BY <1>10, <3>1 DEF Chained
    <3>2. CASE k = n + 1 BY <1>10, <2>3, <3>2
    <3> QED BY <1>10, <3>1, <3>2
  <2>6. ASSUME NEW k \in 2 .. n + 1
        PROVE  windows'[k].from \in windows'[k - 1].from + 1 .. windows'[k - 1].to + 1
    <3>1. k - 1 \in DOMAIN windows /\ windows'[k - 1] = windows[k - 1] BY <1>10
    <3>2. CASE k \in 2 .. n
      <4>1. k \in DOMAIN windows /\ windows'[k] = windows[k] BY <1>10, <3>2
      <4> QED BY <3>1, <3>2, <4>1 DEF Chained
    <3>3. CASE k = n + 1
      <4>1. windows # <<>> /\ k - 1 = n BY <1>10, <3>1, <3>3
      <4>2. from \in windows[n].from + 1 .. windows[n].to + 1 BY <4>1 DEF Chained
      <4> QED BY <1>10, <1>7, <3>1, <3>3, <4>1, <4>2
    <3> QED BY <1>10, <3>2, <3>3
  <2>7. windows'[n + 1] = w BY <1>10
  <2> HIDE DEF n
  <2> QED BY <2>1, <2>2, <2>4, <2>5, <2>6, <2>7 DEF Chained
<1>14. PastSignature'
  <2>0. sig' = sig BY DEF EmitWindow
  <2>1. CASE from' > sig BY <2>0, <2>1 DEF PastSignature
  <2>2. CASE ~(from' > sig)
    <3>1. from' = Stop /\ ~(from > sig) BY <1>1, <1>3, <2>2
    <3>2. \A k \in DOMAIN windows : from > windows[k].to BY <3>1 DEF PastSignature
    <3>3. \A k \in DOMAIN windows' : k \in DOMAIN windows \/ k = Len(windows) + 1 BY <1>10
    <3>4. ASSUME NEW k \in DOMAIN windows PROVE from' > windows'[k].to
      BY <3>2, <3>4, <1>1, <1>3, <1>10, <1>11
    <3>5. from' > windows'[Len(windows) + 1].to BY <3>1, <1>2, <1>10, <1>7
    <3> QED BY <3>3, <3>4, <3>5 DEF PastSignature
  <2> QED BY <2>1, <2>2
<1>15. Loop'
  <2>1. at' = "done" => from' = Len(lines) + 1
    <3>1. at' = "done" => ~(from' <= Len(lines)) BY <1>3 DEF EmitWindow
    <3> QED BY <3>1, <1>1, <1>2, <1>3
  <2>2. at' # "signature" /\ taken' = 0 /\ (at' = "lines" => from' <= Len(lines)) /\ lines' = lines
    BY <1>3 DEF EmitWindow
  <2> QED BY <2>1, <2>2, <1>3 DEF Loop
<1>16. SignatureOnce'
  <2> SUFFICES ASSUME NEW j \in DOMAIN windows', NEW k \in DOMAIN windows', NEW l \in 1 .. sig,
                      Holds(windows'[j], l), Holds(windows'[k], l)
               PROVE  j = k
    BY DEF SignatureOnce, Holds, EmitWindow
  <2> DEFINE n == Len(windows) + 1
  <2>1. ASSUME NEW m \in DOMAIN windows, Holds(windows[m], l), Holds(w, l) PROVE FALSE
    <3>1. from <= l /\ l <= windows[m].to /\ l <= sig BY <2>1, <1>1, <1>7 DEF Holds
    <3>2. windows[m].to \in Int BY <1>11
    <3> QED BY <3>1, <3>2, <1>1 DEF PastSignature
  <2>2. CASE j \in DOMAIN windows /\ k \in DOMAIN windows
    BY <2>2, <1>10 DEF SignatureOnce
  <2>3. CASE j = n /\ k = n BY <2>3
  <2>4. CASE j \in DOMAIN windows /\ k = n BY <2>1, <2>4, <1>10
  <2>5. CASE j = n /\ k \in DOMAIN windows BY <2>1, <2>5, <1>10
  <2> QED BY <2>2, <2>3, <2>4, <2>5, <1>10
<1>17. WithinLimit'
  <2>1. w.size <= MaxChars \/ w.from = w.to \/ MaxChars - sigLen < MinWindow
    <3>1. CASE next = from BY <3>1, <1>1, <1>7 DEF Stop
    <3>2. CASE next # from /\ MaxChars - sigLen >= MinWindow
      <4>1. taken <= EffectiveMax BY <3>2, <1>1 DEF Loop
      <4>2. EffectiveMax = MaxChars - sigLen
        BY <3>2, <1>1, LimitsAssumption DEF EffectiveMax, LargerOf
      <4>3. TextSize <= taken + sigLen BY <3>2, <1>1 DEF TextSize
      <4> QED BY <4>1, <4>2, <4>3, <1>1, <1>5, <1>7, LimitsAssumption
    <3> QED BY <3>1, <3>2, <1>1, LimitsAssumption
  <2>2. sigLen' = sigLen BY DEF EmitWindow
  <2> QED BY <2>1, <2>2, <1>12 DEF WithinLimit
<1> QED BY <1>9, <1>13, <1>14, <1>15, <1>16, <1>17

LEMMA StepHolds == IInv /\ [Next]_vars => IInv'
<1> SUFFICES ASSUME IInv, [Next]_vars PROVE IInv' OBVIOUS
<1>1. CASE UNCHANGED vars
  BY <1>1 DEF vars, IInv, TypeOK, Chained, PastSignature, Loop, SignatureOnce, WithinLimit,
              Windows, Window, LineNumbers, EffectiveMax, Holds
<1> QED BY <1>1, ExtendSignatureHolds, EndSignatureHolds, TakeLineHolds, EmitWindowHolds DEF Next

THEOREM Inductive == Spec => []IInv
<1>1. Init => IInv BY InitHolds
<1>2. IInv /\ [Next]_vars => IInv' BY StepHolds
<1> QED BY <1>1, <1>2, PTL DEF Spec

(* The state of the loop is well-formed: a window is within the chunk.       *)
THEOREM TypeCorrect == Spec => []TypeOK
BY Inductive, PTL DEF IInv

(* A chunk of any length is cut into windows that start one behind the other *)
(* and have every line, so the chunks that Chunker stores for a long one are *)
(* those of a cutting it allows.                                             *)
THEOREM NothingIsDropped == Spec => []NothingDropped
<1>1. IInv => NothingDropped
  <2> SUFFICES ASSUME IInv, at = "done" PROVE IsCutting(windows, Len(lines))
    BY DEF NothingDropped
  <2> DEFINE n == Len(lines)
             m == Len(windows)
  <2>1. lines \in Seq(Line) /\ lines # <<>> BY ChunksAssumption DEF IInv, TypeOK
  <2>2. n \in Nat /\ n >= 1 BY <2>1
  <2>3. windows \in Seq(Window) /\ from = n + 1 BY DEF IInv, TypeOK, Loop
  <2>4. m \in Nat /\ DOMAIN windows = 1 .. m BY <2>3, LenProperties
  <2>5. windows # <<>>
    <3>1. from # 1 BY <2>2, <2>3
    <3> QED BY <3>1 DEF IInv, Chained
  <2>6. m \in DOMAIN windows
    <3>1. m # 0 BY <2>3, <2>5, EmptySeq
    <3> QED BY <2>4, <3>1
  <2>7. ASSUME NEW k \in DOMAIN windows PROVE windows[k].from \in 1 .. n /\ windows[k].to \in windows[k].from .. n
    <3>1. windows[k] \in Window BY <2>3, <2>4
    <3>2. windows[k].from \in 1 .. n /\ windows[k].to \in 1 .. n BY <3>1 DEF Window, LineNumbers
    <3>3. windows[k].from <= windows[k].to BY DEF IInv, Chained
    <3> QED BY <2>2, <3>2, <3>3
  <2>8. windows[m].to = n
    <3>1. n + 1 \in windows[m].from + 1 .. windows[m].to + 1 BY <2>3, <2>5 DEF IInv, Chained
    <3>2. windows[m].to \in 1 .. n
      <4>1. windows[m].from \in 1 .. n /\ windows[m].to \in windows[m].from .. n BY <2>6, <2>7
      <4> QED BY <2>2, <4>1
    <3> QED BY <2>2, <3>1, <3>2
  <2>9. windows[1].from = 1 BY <2>5 DEF IInv, Chained
  <2>10. \A k \in 2 .. m : windows[k].from \in windows[k - 1].from + 1 .. windows[k - 1].to + 1
    BY DEF IInv, Chained
  <2> HIDE DEF n
  <2>11. IsCutting(windows, n) BY <2>5, <2>7, <2>8, <2>9, <2>10 DEF IsCutting
  <2> QED BY <2>11 DEF n
<1> QED BY <1>1, Inductive, PTL

(* No line of the signature is in two windows.                               *)
THEOREM SignatureIsOnce == Spec => []SignatureOnce
BY Inductive, PTL DEF IInv

(* A window's text is within the limit, single lines and long signatures     *)
(* excepted.                                                                 *)
THEOREM WindowsWithinLimit == Spec => []WithinLimit
BY Inductive, PTL DEF IInv
=============================================================================
