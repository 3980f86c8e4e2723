---------------------------- MODULE DefinitionProofs ----------------------------
(* Definitions in the chunks of the four languages that are parsed, for any   *)
(* files and trees: a function or a method is whole in a chunk, and a         *)
(* reference on one of its lines goes to a chunk that has the line.           *)
(*                                                                            *)
(* A chunker works through a file in order, so each step adds chunks behind   *)
(* the ones there are: it is shown to cover the definitions of its node and   *)
(* to leave the look-up right for the lines up to its end.  First for lists   *)
(* of chunks, then for the objects and bodies of each language, then for the  *)
(* files.                                                                     *)
EXTENDS ChunkerProofs

-----------------------------------------------------------------------------
(* Definitions: which chunk a line goes to.  Of the chunks that start at a    *)
(* line or before it, the look-up takes the last one in the order of starts.  *)
(* It looks among what is stored, where the sub-chunks of a chunk that starts *)
(* early may start late: no chunk may end between the start of the one that a *)
(* line goes to and the line.                                                 *)

(* The chunk that line l goes to, of those that start there or before, is    *)
(* chunk k.                                                                  *)
Foremost(cs, k, l) ==
  /\ cs[k].start <= l
  /\ \A j \in DOMAIN cs : cs[j].start <= l => cs[j].start < cs[k].start \/ (cs[j].start = cs[k].start /\ j <= k)

(* A chunk that starts at line s or before it has no sub-chunk that takes    *)
(* line l from one that starts there: none starts behind s, or the last of   *)
(* them has the line.  What becomes of a scattered text is left open.        *)
Reaches(c, l) == Scattered(c) \/ \E u \in c.units : l <= u
EndsBy(c, s) == \A u \in c.units : u <= s
Clear(cs, k, l) ==
  \A j \in DOMAIN cs : cs[j].start <= cs[k].start =>
    Reaches(cs[j], l) \/ (j < k /\ EndsBy(cs[j], cs[k].start))

Goes(cs, k, l) == Foremost(cs, k, l) /\ l \in cs[k].units /\ Clear(cs, k, l)
Hits(cs, l) == \E k \in DOMAIN cs : Goes(cs, k, l)

(* Where chunks start and end, and whether a line goes to one of them if any *)
(* starts there.                                                             *)
StartsIn(cs, a, b) == \A k \in DOMAIN cs : a <= cs[k].start /\ cs[k].start <= b /\ EndsBy(cs[k], b)
Calm(cs, a) == (\E k \in DOMAIN cs : cs[k].start <= a) => Hits(cs, a)

(* Chunks cs before ds do not take line l from them.                         *)
Yields(cs, ds, l) ==
  \A k \in DOMAIN ds : Goes(ds, k, l) =>
    \A j \in DOMAIN cs : cs[j].start <= ds[k].start /\ (Reaches(cs[j], l) \/ EndsBy(cs[j], ds[k].start))

(* A chunk alone.                                                            *)
LEMMA AloneHits ==
  ASSUME NEW cs, DOMAIN cs = {1}, NEW l \in Int, l \in cs[1].units, cs[1].start <= l, cs[1].start \in Int
  PROVE  Hits(cs, l)
<1>1. Foremost(cs, 1, l)
  BY DEF Foremost
<1>2. Clear(cs, 1, l)
  BY DEF Clear, Reaches
<1> QED
  BY <1>1, <1>2 DEF Hits, Goes

(* Starts are numbers.                                                       *)
LEMMA StartIs ==
  ASSUME NEW cs \in Seq(Spanning), NEW k \in DOMAIN cs
  PROVE  /\ cs[k] \in Spanning /\ cs[k].start \in Nat /\ cs[k].end \in Nat /\ cs[k].units \subseteq cs[k].start .. cs[k].end
         /\ cs[k].units \subseteq Nat
<1>1. cs[k] \in Spanning
  OBVIOUS
<1>2. cs[k].start \in Nat /\ cs[k].end \in Nat /\ cs[k].units \in SUBSET Nat
        /\ \A u \in cs[k].units : cs[k].start <= u /\ u <= cs[k].end
  BY <1>1, SpanningParts
<1> QED
  BY <1>1, <1>2

(* Chunks behind that start later change nothing.                            *)
LEMMA HitsLeft ==
  ASSUME NEW cs \in Seq(Spanning), NEW ds \in Seq(Spanning), NEW l \in Nat, Hits(cs, l),
         \A k \in DOMAIN ds : ~(ds[k].start <= l)
  PROVE  Hits(cs \o ds, l)
<1> DEFINE r == cs \o ds
<1>1. PICK k \in DOMAIN cs : Goes(cs, k, l)
  BY DEF Hits
<1>2. /\ k \in DOMAIN r /\ r[k] = cs[k]
      /\ \A j \in DOMAIN r : (j \in DOMAIN cs /\ r[j] = cs[j]) \/ (\E i \in DOMAIN ds : r[j] = ds[i])
  <2>1. /\ \A j \in DOMAIN cs : j \in DOMAIN r /\ r[j] = cs[j]
        /\ \A j \in DOMAIN ds : Len(cs) + j \in DOMAIN r /\ r[Len(cs) + j] = ds[j]
        /\ \A j \in DOMAIN r : j \in DOMAIN cs \/ (j - Len(cs) \in DOMAIN ds /\ j = Len(cs) + (j - Len(cs)))
    BY Joined
  <2> HIDE DEF r
  <2> QED
    BY <2>1
<1> HIDE DEF r
<1>3. Foremost(r, k, l)
  BY <1>1, <1>2 DEF Goes, Foremost
<1>4. Clear(r, k, l)
  <2> SUFFICES ASSUME NEW j \in DOMAIN r, r[j].start <= r[k].start
               PROVE  Reaches(r[j], l) \/ (j < k /\ EndsBy(r[j], r[k].start))
    BY DEF Clear
  <2>1. j \in DOMAIN cs /\ r[j] = cs[j]
    <3> SUFFICES ASSUME NEW i \in DOMAIN ds, r[j] = ds[i] PROVE FALSE
      BY <1>2
    <3>1. ds[i].start \in Nat /\ cs[k].start \in Nat /\ cs[k].start <= l
      BY <1>1, StartIs DEF Goes, Foremost
    <3>2. ds[i].start <= cs[k].start /\ ~(ds[i].start <= l)
      BY <1>2
    <3> QED
      BY <3>1, <3>2
  <2> QED
    BY <1>1, <1>2, <2>1 DEF Goes, Clear
<1> QED
  BY <1>1, <1>2, <1>3, <1>4 DEF Goes, Hits, r

(* Chunks before that start no later and yield neither.                      *)
LEMMA HitsRight ==
  ASSUME NEW cs \in Seq(Spanning), NEW ds \in Seq(Spanning), NEW l \in Nat, Hits(ds, l), Yields(cs, ds, l)
  PROVE  Hits(cs \o ds, l)
<1> DEFINE r == cs \o ds
           m == Len(cs)
<1>1. PICK k \in DOMAIN ds : Goes(ds, k, l)
  BY DEF Hits
<1>2. /\ DOMAIN cs = 1 .. m /\ m \in Nat /\ DOMAIN ds = 1 .. Len(ds) /\ Len(ds) \in Nat
      /\ m + k \in DOMAIN r /\ r[m + k] = ds[k]
      /\ \A j \in DOMAIN r : (j \in DOMAIN cs /\ r[j] = cs[j]) \/ (j - m \in DOMAIN ds /\ j = m + (j - m) /\ r[j] = ds[j - m])
  <2>1. /\ DOMAIN cs = 1 .. m /\ m \in Nat /\ DOMAIN ds = 1 .. Len(ds) /\ Len(ds) \in Nat
        /\ \A j \in DOMAIN cs : j \in DOMAIN r /\ r[j] = cs[j]
        /\ \A j \in DOMAIN ds : m + j \in DOMAIN r /\ r[m + j] = ds[j]
        /\ \A j \in DOMAIN r : j \in DOMAIN cs \/ (j - m \in DOMAIN ds /\ j = m + (j - m))
    BY Joined
  <2> HIDE DEF r, m
  <2>2. \A j \in DOMAIN r : (j \in DOMAIN cs /\ r[j] = cs[j]) \/ (j - m \in DOMAIN ds /\ j = m + (j - m) /\ r[j] = ds[j - m])
    <3> SUFFICES ASSUME NEW j \in DOMAIN r
                 PROVE  (j \in DOMAIN cs /\ r[j] = cs[j]) \/ (j - m \in DOMAIN ds /\ j = m + (j - m) /\ r[j] = ds[j - m])
      OBVIOUS
    <3>1. CASE j \in DOMAIN cs
      BY <2>1, <3>1
    <3>2. CASE j \notin DOMAIN cs
      <4>1. j - m \in DOMAIN ds /\ j = m + (j - m)
        BY <2>1, <3>2
      <4>2. r[m + (j - m)] = ds[j - m]
        BY <2>1, <4>1
      <4> QED
        BY <4>1, <4>2
    <3> QED
      BY <3>1, <3>2
  <2> QED
    BY <2>1, <2>2
<1> HIDE DEF r, m
<1>3. k \in Nat
  BY <1>2
<1>4. \A j \in DOMAIN cs : cs[j].start <= ds[k].start /\ (Reaches(cs[j], l) \/ EndsBy(cs[j], ds[k].start))
  BY <1>1 DEF Yields
<1>5. Foremost(r, m + k, l)
  <2> SUFFICES ASSUME NEW j \in DOMAIN r, r[j].start <= l
               PROVE  r[j].start < ds[k].start \/ (r[j].start = ds[k].start /\ j <= m + k)
    BY <1>1, <1>2 DEF Goes, Foremost
  <2>1. CASE j \in DOMAIN cs /\ r[j] = cs[j]
    <3>1. cs[j].start \in Nat /\ ds[k].start \in Nat /\ cs[j].start <= ds[k].start
      BY <1>4, <2>1, StartIs
    <3>2. j <= m + k
      BY <1>2, <1>3, <2>1
    <3> QED
      BY <2>1, <3>1, <3>2
  <2>2. CASE j - m \in DOMAIN ds /\ j = m + (j - m) /\ r[j] = ds[j - m]
    <3>1. ds[j - m].start < ds[k].start \/ (ds[j - m].start = ds[k].start /\ j - m <= k)
      BY <1>1, <2>2 DEF Goes, Foremost
    <3>2. j - m <= k => j <= m + k
      BY <1>2, <1>3, <2>2
    <3> QED
      BY <2>2, <3>1, <3>2
  <2> QED
    BY <1>2, <2>1, <2>2
<1>6. Clear(r, m + k, l)
  <2> SUFFICES ASSUME NEW j \in DOMAIN r, r[j].start <= ds[k].start
               PROVE  Reaches(r[j], l) \/ (j < m + k /\ EndsBy(r[j], ds[k].start))
    BY <1>2 DEF Clear
  <2>1. CASE j \in DOMAIN cs /\ r[j] = cs[j]
    <3>1. j < m + k
      BY <1>2, <1>3, <2>1
    <3> QED
      BY <1>4, <2>1, <3>1
  <2>2. CASE j - m \in DOMAIN ds /\ j = m + (j - m) /\ r[j] = ds[j - m]
    <3>1. Reaches(ds[j - m], l) \/ (j - m < k /\ EndsBy(ds[j - m], ds[k].start))
      BY <1>1, <2>2 DEF Goes, Clear
    <3>2. j - m < k => j < m + k
      BY <1>2, <1>3, <2>2
    <3> QED
      BY <2>2, <3>1, <3>2
  <2> QED
    BY <1>2, <2>1, <2>2
<1> QED
  BY <1>1, <1>2, <1>5, <1>6 DEF Goes, Hits, r

(* Chunks before do not take a line when they end where the others start.    *)
LEMMA EndYields ==
  ASSUME NEW cs \in Seq(Spanning), NEW ds \in Seq(Spanning), NEW h \in Nat,
         \A j \in DOMAIN cs : cs[j].start <= h /\ EndsBy(cs[j], h), \A k \in DOMAIN ds : h <= ds[k].start, NEW l
  PROVE  Yields(cs, ds, l)
<1> SUFFICES ASSUME NEW k \in DOMAIN ds, NEW j \in DOMAIN cs
             PROVE  cs[j].start <= ds[k].start /\ EndsBy(cs[j], ds[k].start)
  BY DEF Yields
<1>1. PICK x \in Nat, y \in Nat : x = cs[j].start /\ y = ds[k].start
  BY StartIs
<1>2. x <= h /\ h <= y
  BY <1>1
<1>3. x <= y
  BY <1>2
<1>4. ASSUME NEW u \in cs[j].units PROVE u <= y
  <2>1. u \in Nat /\ u <= h
    BY StartIs DEF EndsBy
  <2> QED
    BY <1>2, <2>1
<1> QED
  BY <1>1, <1>3, <1>4 DEF EndsBy

(* A list has the chunks of some lists, and these only.                      *)
MadeOf(cs, seqs, n) ==
  /\ \A p \in DOMAIN cs : \E j \in 1 .. n : \E i \in DOMAIN seqs[j] : cs[p] = seqs[j][i]
  /\ \A j \in 1 .. n : \A i \in DOMAIN seqs[j] : \E p \in DOMAIN cs : cs[p] = seqs[j][i]

(* The regions of nodes one behind the other: where their chunks start, and  *)
(* the lines W of definitions in them.  The next region may start on the     *)
(* line where one ends when its first line goes to a chunk of its own.       *)
Regions(seqs, lo, hi, W, n) ==
  /\ \A k \in 1 .. n : StartsIn(seqs[k], lo[k], hi[k]) /\ W[k] \subseteq 0 .. hi[k] /\ \A l \in W[k] : Hits(seqs[k], l)
  /\ \A k \in 1 .. n : \A j \in 1 .. k - 1 : hi[j] <= lo[k]
  /\ \A k \in 1 .. n : Calm(seqs[k], lo[k]) \/ \A j \in 1 .. k - 1 : W[j] = {} \/ hi[j] < lo[k]

(* What a list made of the first k has.                                      *)
Attends(cs, seqs, W, k) ==
  /\ MadeOf(cs, seqs, k)
  /\ \A j \in 1 .. k : \A l \in W[j] : Hits(cs, l)
  /\ \A a \in Nat : (\A j \in 1 .. k : Calm(seqs[j], a)) => Calm(cs, a)

(* A chunk of two lists put together is of one of them.                      *)
LEMMA JoinedOf ==
  ASSUME NEW cs \in Seq(Spanning), NEW ds \in Seq(Spanning)
  PROVE  /\ cs \o ds \in Seq(Spanning)
         /\ \A j \in DOMAIN cs : j \in DOMAIN (cs \o ds) /\ (cs \o ds)[j] = cs[j]
         /\ \A j \in DOMAIN ds : \E i \in DOMAIN (cs \o ds) : (cs \o ds)[i] = ds[j]
         /\ \A j \in DOMAIN (cs \o ds) :
              (j \in DOMAIN cs /\ (cs \o ds)[j] = cs[j]) \/ (\E i \in DOMAIN ds : (cs \o ds)[j] = ds[i])
<1> DEFINE r == cs \o ds
<1>1. /\ r \in Seq(Spanning)
      /\ \A j \in DOMAIN cs : j \in DOMAIN r /\ r[j] = cs[j]
      /\ \A j \in DOMAIN ds : Len(cs) + j \in DOMAIN r /\ r[Len(cs) + j] = ds[j]
      /\ \A j \in DOMAIN r : j \in DOMAIN cs \/ (j - Len(cs) \in DOMAIN ds /\ j = Len(cs) + (j - Len(cs)))
  BY Joined
<1> HIDE DEF r
<1>2. /\ \A j \in DOMAIN ds : \E i \in DOMAIN r : r[i] = ds[j]
      /\ \A j \in DOMAIN r : (j \in DOMAIN cs /\ r[j] = cs[j]) \/ (\E i \in DOMAIN ds : r[j] = ds[i])
  BY <1>1
<1> QED
  BY <1>1, <1>2 DEF r

(* One list more.                                                            *)
LEMMA MadeMore ==
  ASSUME NEW n \in Nat, NEW seqs \in [1 .. n -> Seq(Spanning)], NEW k \in 1 .. n, NEW cs \in Seq(Spanning),
         MadeOf(cs, seqs, k - 1)
  PROVE  MadeOf(cs \o seqs[k], seqs, k)
<1> DEFINE ds == seqs[k]
           r == cs \o ds
<1>1. ds \in Seq(Spanning)
  OBVIOUS
<1>2. /\ \A j \in DOMAIN cs : j \in DOMAIN r /\ r[j] = cs[j]
      /\ \A j \in DOMAIN ds : \E i \in DOMAIN r : r[i] = ds[j]
      /\ \A j \in DOMAIN r : (j \in DOMAIN cs /\ r[j] = cs[j]) \/ (\E i \in DOMAIN ds : r[j] = ds[i])
  BY <1>1, JoinedOf
<1>3. k \in 1 .. k /\ \A j \in 1 .. k - 1 : j \in 1 .. k
  OBVIOUS
<1>4. \A j \in 1 .. k : j = k \/ j \in 1 .. k - 1
  OBVIOUS
<1>5. ASSUME NEW p \in DOMAIN r PROVE \E j \in 1 .. k : \E i \in DOMAIN seqs[j] : r[p] = seqs[j][i]
  <2> HIDE DEF r
  <2>1. CASE p \in DOMAIN cs /\ r[p] = cs[p]
    <3>1. PICK j \in 1 .. k - 1 : \E i \in DOMAIN seqs[j] : cs[p] = seqs[j][i]
      BY <2>1 DEF MadeOf
    <3> QED
      BY <1>3, <2>1, <3>1
  <2>2. CASE \E i \in DOMAIN ds : r[p] = ds[i]
    BY <1>3, <2>2
  <2> QED
    BY <1>2, <2>1, <2>2
<1>6. ASSUME NEW j \in 1 .. k, NEW i \in DOMAIN seqs[j] PROVE \E p \in DOMAIN r : r[p] = seqs[j][i]
  <2> HIDE DEF r
  <2>1. CASE j = k
    BY <1>2, <2>1
  <2>2. CASE j \in 1 .. k - 1
    <3>1. PICK p \in DOMAIN cs : cs[p] = seqs[j][i]
      BY <2>2 DEF MadeOf
    <3> QED
      BY <1>2, <3>1
  <2> QED
    BY <1>4, <2>1, <2>2
<1> QED
  BY <1>5, <1>6 DEF MadeOf

(* A list that attends to some regions attends to the next one as well.      *)
LEMMA AttendsMore ==
  ASSUME NEW n \in Nat, NEW seqs \in [1 .. n -> Seq(Spanning)],
         NEW lo \in [1 .. n -> Nat], NEW hi \in [1 .. n -> Nat], NEW W, Regions(seqs, lo, hi, W, n),
         NEW k \in 1 .. n, NEW cs \in Seq(Spanning), Attends(cs, seqs, W, k - 1)
  PROVE  Attends(cs \o seqs[k], seqs, W, k)
<1> DEFINE ds == seqs[k]
<1>1. ds \in Seq(Spanning) /\ lo[k] \in Nat /\ hi[k] \in Nat
  OBVIOUS
<1>2. \A i \in DOMAIN ds : ds[i].start \in Nat /\ lo[k] <= ds[i].start
  BY <1>1, StartIs DEF Regions, StartsIn
<1>3. ASSUME NEW p \in DOMAIN cs PROVE cs[p].start \in Nat /\ cs[p].start <= lo[k] /\ EndsBy(cs[p], lo[k])
  <2>0. PICK j \in 1 .. k - 1 : \E i \in DOMAIN seqs[j] : cs[p] = seqs[j][i]
    BY DEF Attends, MadeOf
  <2>1. PICK i \in DOMAIN seqs[j] : cs[p] = seqs[j][i]
    BY <2>0
  <2>2. j \in 1 .. n /\ hi[j] \in Nat
    OBVIOUS
  <2>3. seqs[j][i].start <= hi[j] /\ EndsBy(seqs[j][i], hi[j]) /\ hi[j] <= lo[k]
    BY <2>1, <2>2 DEF Regions, StartsIn
  <2>4. cs[p].start \in Nat
    BY StartIs
  <2>5. PICK a \in Nat, b \in Nat, c \in Nat : a = cs[p].start /\ b = hi[j] /\ c = lo[k]
    BY <1>1, <2>2, <2>4
  <2>6. a <= b /\ b <= c
    BY <2>1, <2>3, <2>5
  <2>7. a <= c
    BY <2>6
  <2>8. ASSUME NEW u \in cs[p].units PROVE u <= c
    <3>1. u \in Nat /\ u <= b
      BY <2>1, <2>3, <2>5, StartIs DEF EndsBy
    <3> QED
      BY <2>6, <3>1
  <2> QED
    BY <2>4, <2>5, <2>7, <2>8 DEF EndsBy
<1>4. \A l : Yields(cs, ds, l)
  BY <1>1, <1>2, <1>3, EndYields
<1>5. ASSUME NEW l \in Nat, Hits(ds, l) PROVE Hits(cs \o ds, l)
  BY <1>1, <1>4, <1>5, HitsRight
<1>6. ASSUME NEW l \in Nat, Hits(cs, l), \A i \in DOMAIN ds : ~(ds[i].start <= l) PROVE Hits(cs \o ds, l)
  BY <1>1, <1>6, HitsLeft
<1>7. \A j \in 1 .. k : j = k \/ j \in 1 .. k - 1
  OBVIOUS
<1>8. k \in 1 .. k /\ \A j \in 1 .. k - 1 : j \in 1 .. k
  OBVIOUS
<1>9. ASSUME NEW j \in 1 .. k, NEW l \in W[j] PROVE Hits(cs \o ds, l)
  <2>1. j \in 1 .. n /\ hi[j] \in Nat
    OBVIOUS
  <2>2. l \in 0 .. hi[j]
    BY <2>1 DEF Regions
  <2>3. l \in Nat /\ l <= hi[j]
    BY <2>1, <2>2
  <2>4. CASE j = k
    <3>1. Hits(ds, l)
      BY <2>4 DEF Regions
    <3> QED
      BY <1>5, <2>3, <3>1
  <2>5. CASE j \in 1 .. k - 1
    <3>1. Hits(cs, l)
      BY <2>5 DEF Attends
    <3>2. hi[j] <= lo[k]
      BY <2>5 DEF Regions
    <3>3. CASE \A i \in DOMAIN ds : ~(ds[i].start <= l)
      BY <1>6, <2>3, <3>1, <3>3
    <3>4. CASE \E i \in DOMAIN ds : ds[i].start <= l
      <4>1. PICK i \in DOMAIN ds : ds[i].start <= l
        BY <3>4
      <4>2. l = lo[k] /\ ~(hi[j] < lo[k])
        BY <1>1, <1>2, <2>1, <2>3, <3>2, <4>1
      <4>3. Calm(ds, lo[k])
        BY <2>5, <4>2 DEF Regions
      <4>4. Hits(ds, l)
        BY <4>1, <4>2, <4>3 DEF Calm
      <4> QED
        BY <1>5, <2>3, <4>4
    <3> QED
      BY <3>3, <3>4
  <2> QED
    BY <1>7, <2>4, <2>5
<1>10. ASSUME NEW a \in Nat, \A j \in 1 .. k : Calm(seqs[j], a) PROVE Calm(cs \o ds, a)
  <2>1. Calm(ds, a) /\ Calm(cs, a)
    BY <1>8, <1>10 DEF Attends
  <2>2. CASE \E i \in DOMAIN ds : ds[i].start <= a
    <3>1. Hits(cs \o ds, a)
      BY <1>5, <2>1, <2>2 DEF Calm
    <3> QED
      BY <3>1 DEF Calm
  <2>3. CASE \A i \in DOMAIN ds : ~(ds[i].start <= a)
    <3>1. CASE \E p \in DOMAIN cs : cs[p].start <= a
      <4>1. Hits(cs \o ds, a)
        BY <1>6, <2>1, <2>3, <3>1 DEF Calm
      <4> QED
        BY <4>1 DEF Calm
    <3>2. CASE \A p \in DOMAIN cs : ~(cs[p].start <= a)
      <4>1. \A p \in DOMAIN (cs \o ds) : ~((cs \o ds)[p].start <= a)
        <5>1. \A p \in DOMAIN (cs \o ds) : (p \in DOMAIN cs /\ (cs \o ds)[p] = cs[p]) \/ \E i \in DOMAIN ds : (cs \o ds)[p] = ds[i]
          BY <1>1, JoinedOf
        <5> QED
          BY <2>3, <3>2, <5>1
      <4> QED
        BY <4>1 DEF Calm
    <3> QED
      BY <3>1, <3>2
  <2> QED
    BY <2>2, <2>3
<1>11. MadeOf(cs \o ds, seqs, k)
  BY MadeMore DEF Attends
<1> QED
  BY <1>9, <1>10, <1>11 DEF Attends

(* All of the lists, flattened.                                              *)
LEMMA FlatAttends ==
  ASSUME NEW n \in Nat, NEW seqs \in [1 .. n -> Seq(Spanning)],
         NEW lo \in [1 .. n -> Nat], NEW hi \in [1 .. n -> Nat], NEW W, Regions(seqs, lo, hi, W, n)
  PROVE  FlattenSeq(seqs) \in Seq(Spanning) /\ Attends(FlattenSeq(seqs), seqs, W, n)
<1>1. PICK g \in [0 .. n -> Seq(Spanning)] : Grows(g, seqs, n) /\ FlattenSeq(seqs) = g[n]
  BY FlattenGrows
<1> DEFINE Good == {k \in 0 .. n : Attends(g[k], seqs, W, k)}
<1>2. 0 \in Good
  <2>1. g[0] = <<>>
    BY <1>1 DEF Grows
  <2>2. Attends(<<>>, seqs, W, 0)
    BY DEF Attends, MadeOf, Calm
  <2> QED
    BY <2>1, <2>2
<1>3. \A k \in 1 .. n : k - 1 \in Good => k \in Good
  <2> SUFFICES ASSUME NEW k \in 1 .. n, k - 1 \in Good PROVE k \in Good
    OBVIOUS
  <2>0. k \in 0 .. n /\ k - 1 \in 0 .. n
    OBVIOUS
  <2>1. g[k - 1] \in Seq(Spanning) /\ g[k] = g[k - 1] \o seqs[k] /\ k \in 0 .. n
    <3> HIDE DEF Good
    <3> QED
      BY <1>1, <2>0 DEF Grows
  <2>2. Attends(g[k - 1] \o seqs[k], seqs, W, k)
    BY <2>1, AttendsMore
  <2> QED
    BY <2>1, <2>2
<1>4. n \in Good
  <2> HIDE DEF Good
  <2>1. \A k \in 0 .. n : k \in Good
    BY <1>2, <1>3, UpTo
  <2> QED
    BY <2>1
<1> QED
  BY <1>1, <1>4

(* Each definition of D is whole in a chunk; each line of one goes to a      *)
(* chunk that has it.                                                        *)
CoversAll(cs, D) == \A d \in D : \E k \in DOMAIN cs : d \subseteq cs[k].units
HitsAll(cs, D) == \A d \in D : \A l \in d : Hits(cs, l)

(* A node's own chunks lead when the first line goes to one of them.         *)
Leads(of, nodes) ==
  \A k \in DOMAIN nodes : Calm(of[k], nodes[k].lo) \/ \A j \in 1 .. k - 1 : nodes[j].hi < nodes[k].lo

(* Each chunk is on the lines of a node.                                     *)
ChunkedBy(cs, nodes) ==
  \A p \in DOMAIN cs : \E k \in DOMAIN nodes : nodes[k].lo <= cs[p].start /\ EndsBy(cs[p], nodes[k].hi)

(* What the chunks of nodes, one behind the other, are to the definitions    *)
(* all of them: the k-th node has those of D[k] and the chunks of[k].        *)
Gathered(flat, nodes, of, D, all) ==
  /\ flat \in Seq(Spanning)
  /\ \A a, b \in Nat : (\A k \in DOMAIN nodes : a <= nodes[k].lo /\ nodes[k].hi <= b) => StartsIn(flat, a, b)
  /\ ChunkedBy(flat, nodes)
  /\ \A k \in DOMAIN nodes : \A i \in DOMAIN of[k] : \E p \in DOMAIN flat : flat[p] = of[k][i]
  /\ \A a \in Nat : (\A k \in DOMAIN nodes : Calm(of[k], a)) => Calm(flat, a)
  /\ (\A k \in DOMAIN nodes : CoversAll(of[k], D[k])) => CoversAll(flat, all)
  /\ (\A k \in DOMAIN nodes : HitsAll(of[k], D[k])) /\ Leads(of, nodes) => HitsAll(flat, all)

LEMMA NodesAttend ==
  ASSUME NEW nodes \in Seq(Nodes), Successive(nodes), NEW of \in [DOMAIN nodes -> Seq(Spanning)], NEW D,
         \A k \in DOMAIN nodes : StartsIn(of[k], nodes[k].lo, nodes[k].hi) /\ \A d \in D[k] : d \subseteq LinesOf(nodes[k])
  PROVE  Gathered(FlattenSeq(of), nodes, of, D, UNION {D[k] : k \in DOMAIN nodes})
<1> DEFINE flat == FlattenSeq(of)
           all == UNION {D[k] : k \in DOMAIN nodes}
<1>1. PICK n \in Nat : n = Len(nodes) /\ DOMAIN nodes = 1 .. n
  BY LenProperties
<1> DEFINE lo == [k \in 1 .. n |-> nodes[k].lo]
           hi == [k \in 1 .. n |-> nodes[k].hi]
<1>2. \A k \in 1 .. n : nodes[k] \in Nodes /\ nodes[k].lo \in Nat /\ nodes[k].hi \in Nat
        /\ LinesOf(nodes[k]) \subseteq 0 .. nodes[k].hi
  <2> SUFFICES ASSUME NEW k \in 1 .. n
               PROVE  nodes[k] \in Nodes /\ nodes[k].lo \in Nat /\ nodes[k].hi \in Nat
                        /\ LinesOf(nodes[k]) \subseteq 0 .. nodes[k].hi
    OBVIOUS
  <2>1. nodes[k] \in Nodes
    BY <1>1
  <2>2. nodes[k].lo \in Nat /\ nodes[k].hi \in Nat
    BY <2>1, NodeIs
  <2> QED
    BY <2>1, <2>2 DEF LinesOf
<1>3. lo \in [1 .. n -> Nat] /\ hi \in [1 .. n -> Nat] /\ of \in [1 .. n -> Seq(Spanning)]
  BY <1>1, <1>2
<1>4. \A k \in 1 .. n : \A j \in 1 .. k - 1 : j \in 1 .. n /\ hi[j] <= lo[k]
  BY <1>1 DEF Successive
<1>5. \A k \in 1 .. n : StartsIn(of[k], lo[k], hi[k]) /\ lo[k] = nodes[k].lo /\ hi[k] = nodes[k].hi
  BY <1>1
<1> HIDE DEF lo, hi
<1> DEFINE none == [k \in 1 .. n |-> {}]
<1>6. Regions(of, lo, hi, none, n)
  BY <1>3, <1>4, <1>5 DEF Regions
<1>7. flat \in Seq(Spanning) /\ Attends(flat, of, none, n)
  BY <1>3, <1>6, FlatAttends
<1> HIDE DEF flat
<1>8. ASSUME NEW a \in Nat, NEW b \in Nat, \A k \in DOMAIN nodes : a <= nodes[k].lo /\ nodes[k].hi <= b
      PROVE  StartsIn(flat, a, b)
  <2> SUFFICES ASSUME NEW p \in DOMAIN flat PROVE a <= flat[p].start /\ flat[p].start <= b /\ EndsBy(flat[p], b)
    BY DEF StartsIn
  <2>1. PICK j \in 1 .. n : \E i \in DOMAIN of[j] : flat[p] = of[j][i]
    BY <1>7 DEF Attends, MadeOf
  <2>2. PICK i \in DOMAIN of[j] : flat[p] = of[j][i]
    BY <2>1
  <2>3. lo[j] <= of[j][i].start /\ of[j][i].start <= hi[j] /\ EndsBy(of[j][i], hi[j]) /\ a <= lo[j] /\ hi[j] <= b
    BY <1>1, <1>5, <1>8 DEF StartsIn
  <2>4. flat[p].start \in Nat
    BY <1>7, StartIs
  <2>5. PICK x \in Nat, y \in Nat, z \in Nat : x = flat[p].start /\ y = lo[j] /\ z = hi[j]
    BY <1>3, <2>4
  <2>6. a <= y /\ y <= x /\ x <= z /\ z <= b
    BY <2>2, <2>3, <2>5
  <2>7. a <= x /\ x <= b
    BY <2>6
  <2>8. ASSUME NEW u \in flat[p].units PROVE u <= b
    <3>1. u \in Nat /\ u <= z
      BY <1>7, <2>2, <2>3, <2>5, StartIs DEF EndsBy
    <3> QED
      BY <2>6, <3>1
  <2> QED
    BY <2>5, <2>7, <2>8 DEF EndsBy
<1>9. ChunkedBy(flat, nodes)
  <2> SUFFICES ASSUME NEW p \in DOMAIN flat
               PROVE  \E k \in DOMAIN nodes : nodes[k].lo <= flat[p].start /\ EndsBy(flat[p], nodes[k].hi)
    BY DEF ChunkedBy
  <2>1. PICK j \in 1 .. n : \E i \in DOMAIN of[j] : flat[p] = of[j][i]
    BY <1>7 DEF Attends, MadeOf
  <2> QED
    BY <1>1, <1>5, <2>1 DEF StartsIn
<1>10. \A k \in DOMAIN nodes : \A i \in DOMAIN of[k] : \E p \in DOMAIN flat : flat[p] = of[k][i]
  BY <1>1, <1>7 DEF Attends, MadeOf
<1>11. ASSUME NEW a \in Nat, \A k \in DOMAIN nodes : Calm(of[k], a) PROVE Calm(flat, a)
  BY <1>1, <1>7, <1>11 DEF Attends
<1>12. ASSUME \A k \in DOMAIN nodes : CoversAll(of[k], D[k]) PROVE CoversAll(flat, all)
  <2> SUFFICES ASSUME NEW k \in 1 .. n, NEW d \in D[k] PROVE \E p \in DOMAIN flat : d \subseteq flat[p].units
    BY <1>1 DEF CoversAll
  <2>1. PICK i \in DOMAIN of[k] : d \subseteq of[k][i].units
    BY <1>1, <1>12 DEF CoversAll
  <2>2. PICK p \in DOMAIN flat : flat[p] = of[k][i]
    BY <1>7 DEF Attends, MadeOf
  <2> QED
    BY <2>1, <2>2
<1>13. ASSUME \A k \in DOMAIN nodes : HitsAll(of[k], D[k]), Leads(of, nodes) PROVE HitsAll(flat, all)
  <2> DEFINE W == [k \in 1 .. n |-> UNION D[k]]
  <2>1. \A k \in 1 .. n : W[k] \subseteq 0 .. hi[k]
    <3> SUFFICES ASSUME NEW k \in 1 .. n, NEW d \in D[k] PROVE d \subseteq 0 .. hi[k]
      OBVIOUS
    <3>1. d \subseteq LinesOf(nodes[k])
      BY <1>1
    <3> QED
      BY <1>2, <1>5, <3>1
  <2>2. \A k \in 1 .. n : \A l \in W[k] : Hits(of[k], l)
    BY <1>1, <1>13 DEF HitsAll
  <2>3. \A k \in 1 .. n : Calm(of[k], lo[k]) \/ \A j \in 1 .. k - 1 : hi[j] < lo[k]
    BY <1>1, <1>4, <1>5, <1>13 DEF Leads
  <2> HIDE DEF W
  <2>4. Regions(of, lo, hi, W, n)
    BY <1>4, <1>5, <2>1, <2>2, <2>3 DEF Regions
  <2>5. Attends(flat, of, W, n)
    BY <1>3, <2>4, FlatAttends DEF flat
  <2>6. \A k \in 1 .. n : \A l \in W[k] : Hits(flat, l)
    BY <2>5 DEF Attends
  <2> QED
    BY <1>1, <2>6 DEF HitsAll, W
<1> QED
  BY <1>7, <1>8, <1>9, <1>10, <1>11, <1>12, <1>13 DEF flat, Gathered

(* The same from an earlier line on.                                         *)
LEMMA StartsEarlier ==
  ASSUME NEW cs \in Seq(Spanning), NEW a \in Nat, NEW h \in Nat, NEW b, a <= h, StartsIn(cs, h, b)
  PROVE  StartsIn(cs, a, b)
<1> SUFFICES ASSUME NEW k \in DOMAIN cs PROVE a <= cs[k].start
  BY DEF StartsIn
<1>1. cs[k].start \in Nat /\ h <= cs[k].start
  BY StartIs DEF StartsIn
<1> QED
  BY <1>1

(* Chunks behind others that start no later.                                 *)
LEMMA JoinAttends ==
  ASSUME NEW cs \in Seq(Spanning), NEW ds \in Seq(Spanning), NEW a \in Nat, NEW b \in Nat,
         StartsIn(cs, a, b), StartsIn(ds, a, b)
  PROVE  /\ StartsIn(cs \o ds, a, b)
         /\ \A D \in SUBSET SUBSET Nat :
              /\ CoversAll(ds, D) => CoversAll(cs \o ds, D)
              /\ HitsAll(ds, D) /\ (\A d \in D : \A l \in d : Yields(cs, ds, l)) => HitsAll(cs \o ds, D)
         /\ \A x \in Nat : Calm(cs, x) /\ Calm(ds, x) /\ Yields(cs, ds, x) => Calm(cs \o ds, x)
<1> DEFINE r == cs \o ds
<1>1. /\ r \in Seq(Spanning)
      /\ \A j \in DOMAIN cs : j \in DOMAIN r /\ r[j] = cs[j]
      /\ \A j \in DOMAIN ds : \E i \in DOMAIN r : r[i] = ds[j]
      /\ \A j \in DOMAIN r : (j \in DOMAIN cs /\ r[j] = cs[j]) \/ (\E i \in DOMAIN ds : r[j] = ds[i])
  BY JoinedOf
<1>2. ASSUME NEW l \in Nat, Hits(ds, l), Yields(cs, ds, l) PROVE Hits(r, l)
  BY <1>2, HitsRight
<1>3. ASSUME NEW l \in Nat, Hits(cs, l), \A i \in DOMAIN ds : ~(ds[i].start <= l) PROVE Hits(r, l)
  BY <1>3, HitsLeft
<1> HIDE DEF r
<1>4. StartsIn(r, a, b)
  BY <1>1 DEF StartsIn
<1>5. ASSUME NEW D \in SUBSET SUBSET Nat, CoversAll(ds, D) PROVE CoversAll(r, D)
  <2> SUFFICES ASSUME NEW d \in D PROVE \E p \in DOMAIN r : d \subseteq r[p].units
    BY DEF CoversAll
  <2>1. PICK k \in DOMAIN ds : d \subseteq ds[k].units
    BY <1>5 DEF CoversAll
  <2> QED
    BY <1>1, <2>1
<1>6. ASSUME NEW D \in SUBSET SUBSET Nat, HitsAll(ds, D), \A d \in D : \A l \in d : Yields(cs, ds, l) PROVE HitsAll(r, D)
  BY <1>2, <1>6 DEF HitsAll
<1>7. ASSUME NEW x \in Nat, Calm(cs, x), Calm(ds, x), Yields(cs, ds, x) PROVE Calm(r, x)
  <2>1. CASE \E i \in DOMAIN ds : ds[i].start <= x
    BY <1>2, <1>7, <2>1 DEF Calm
  <2>2. CASE \A i \in DOMAIN ds : ~(ds[i].start <= x)
    <3>1. CASE \E p \in DOMAIN cs : cs[p].start <= x
      BY <1>3, <1>7, <2>2, <3>1 DEF Calm
    <3>2. CASE \A p \in DOMAIN cs : ~(cs[p].start <= x)
      BY <1>1, <2>2, <3>2 DEF Calm
    <3> QED
      BY <3>1, <3>2
  <2> QED
    BY <2>1, <2>2
<1> QED
  BY <1>4, <1>5, <1>6, <1>7 DEF r

(* Some nodes of a list are in the order of the list.                        *)
LEMMA PickedOrder ==
  ASSUME NEW nodes \in Seq(Nodes), NEW P \in SUBSET (DOMAIN nodes)
  PROVE  LET r == Picked(nodes, P)
         IN  /\ r \in Seq(Nodes) /\ Range(r) = {nodes[k] : k \in P}
             /\ Successive(nodes) => Successive(r)
             /\ ObjectsApart(nodes) => ObjectsApart(r)
<1> DEFINE r == Picked(nodes, P)
           E == {nodes[i] : i \in P}
<1>1. r \in Seq(E)
  BY PickedKeeps
<1>2. E \subseteq Nodes
  OBVIOUS
<1>3. r \in Seq(Nodes)
  <2> HIDE DEF E, r
  <2> QED
    BY <1>1, <1>2, SeqOfMore
<1>4. PICK size \in Nat : \E spot : Spots(spot, nodes, P, size)
  BY PickedKeeps
<1>5. PICK spot : Spots(spot, nodes, P, size)
  BY <1>4
<1>6. /\ spot \in [1 .. size -> P] /\ \A i \in P : \E m \in 1 .. size : spot[m] = i
      /\ \A k, m \in 1 .. size : k < m => spot[k] < spot[m]
      /\ DOMAIN r = 1 .. size /\ \A m \in 1 .. size : r[m] = nodes[spot[m]] /\ spot[m] \in P
  BY <1>5 DEF Spots
<1> HIDE DEF r
<1>7. Range(r) = E
  <2>1. \A x \in Range(r) : x \in E
    BY <1>6 DEF Range
  <2>2. \A i \in P : nodes[i] \in Range(r)
    BY <1>6 DEF Range
  <2> QED
    BY <2>1, <2>2
<1>8. \A k \in DOMAIN r : \A j \in 1 .. k - 1 :
        j \in 1 .. size /\ spot[k] \in DOMAIN nodes /\ spot[j] \in 1 .. spot[k] - 1
        /\ r[j] = nodes[spot[j]] /\ r[k] = nodes[spot[k]]
  <2> SUFFICES ASSUME NEW k \in DOMAIN r, NEW j \in 1 .. k - 1
               PROVE  j \in 1 .. size /\ spot[k] \in DOMAIN nodes /\ spot[j] \in 1 .. spot[k] - 1
                      /\ r[j] = nodes[spot[j]] /\ r[k] = nodes[spot[k]]
    OBVIOUS
  <2>1. k \in 1 .. size /\ j \in 1 .. size /\ j < k
    BY <1>6
  <2>2. PICK n \in Nat : DOMAIN nodes = 1 .. n
    BY LenProperties
  <2>3. spot[k] \in 1 .. n /\ spot[j] \in 1 .. n /\ spot[j] < spot[k]
    BY <1>6, <2>1, <2>2
  <2> QED
    BY <1>6, <2>1, <2>2, <2>3
<1>9. Successive(nodes) => Successive(r)
  BY <1>8 DEF Successive
<1>10. ObjectsApart(nodes) => ObjectsApart(r)
  BY <1>8 DEF ObjectsApart
<1> QED
  BY <1>3, <1>7, <1>9, <1>10 DEF r

(* So are those of some types.                                               *)
LEMMA OfTypeOrder ==
  ASSUME NEW nodes \in Seq(Nodes), NEW types
  PROVE  LET r == OfType(nodes, types)
         IN  /\ r \in Seq(Nodes) /\ Range(r) = {n \in Range(nodes) : n.type \in types}
             /\ Successive(nodes) => Successive(r)
             /\ ObjectsApart(nodes) => ObjectsApart(r)
<1> DEFINE P == {k \in DOMAIN nodes : nodes[k].type \in types}
           r == Picked(nodes, P)
<1>1. P \in SUBSET (DOMAIN nodes)
  OBVIOUS
<1>2. {nodes[k] : k \in P} = {n \in Range(nodes) : n.type \in types}
  BY DEF Range
<1> HIDE DEF P
<1>3. /\ r \in Seq(Nodes) /\ Range(r) = {nodes[k] : k \in P}
      /\ Successive(nodes) => Successive(r)
      /\ ObjectsApart(nodes) => ObjectsApart(r)
  BY <1>1, PickedOrder
<1>4. OfType(nodes, types) = r
  BY DEF OfType, P
<1> QED
  BY <1>2, <1>3, <1>4

(* The members of a node are in order, and within it unless it is a script.  *)
LEMMA KidsSucceed ==
  ASSUME NEW n \in Nodes
  PROVE  /\ n.kids \in Seq(Nodes) /\ Successive(n.kids)
         /\ n.type # "script" => \A m \in Range(n.kids) : m \in Nodes /\ n.head <= m.lo /\ m.hi <= n.hi /\ LinesOf(m) \subseteq LinesOf(n)
<1>1. n.kids \in Seq(Nodes) /\ Successive(n.kids)
  BY NodesAssumption
<1>2. ASSUME n.type # "script", NEW m \in Range(n.kids)
      PROVE  m \in Nodes /\ n.head <= m.lo /\ m.hi <= n.hi /\ LinesOf(m) \subseteq LinesOf(n)
  <2>1. PICK k \in DOMAIN n.kids : m = n.kids[k]
    BY <1>2 DEF Range
  <2>2. m \in Nodes /\ n.head <= m.lo /\ m.hi <= n.hi
    BY <1>1, <1>2, <2>1, NodeIs
  <2>3. n.lo \in Nat /\ n.head \in Nat /\ n.hi \in Nat /\ n.lo <= n.head /\ m.lo \in Nat /\ m.hi \in Nat
    BY <2>2, NodeIs
  <2>4. LinesOf(m) \subseteq LinesOf(n)
    BY <2>2, <2>3 DEF LinesOf
  <2> QED
    BY <2>2, <2>4
<1> QED
  BY <1>1, <1>2

(* The one chunk of a node has the lines of the node.                        *)
LEMMA OneNode ==
  ASSUME NEW n \in Nodes, NEW kind \in Labels
  PROVE  LET cs == <<NodeChunk(n, kind)>>
         IN  /\ cs \in Seq(Spanning) /\ StartsIn(cs, n.lo, n.hi)
             /\ \A a \in Nat : a <= n.lo => Calm(cs, a)
             /\ \A D \in SUBSET SUBSET LinesOf(n) : CoversAll(cs, D) /\ HitsAll(cs, D)
<1> DEFINE c == NodeChunk(n, kind)
           cs == <<c>>
<1>1. n.lo \in Nat /\ n.hi \in Nat /\ n.lo <= n.hi /\ n.type \in Labels
  BY NodeIs
<1>2. c \in Spanning
  BY NodeChunkIs
<1>3. c.units = LinesOf(n) /\ c.start = n.lo
  <2>1. PICK a \in Nat, b \in Nat : a = n.lo /\ b = n.hi
    BY <1>1
  <2>2. a .. b \in SUBSET Nat /\ a \in a .. b
    BY <1>1, <2>1
  <2>3. Min(a .. b) \in a .. b /\ Min(a .. b) <= a
    BY <2>2, MinIs
  <2>4. Min(a .. b) = a
    <3>1. PICK m \in a .. b : m = Min(a .. b)
      BY <2>3
    <3> QED
      BY <2>3, <3>1
  <2>5. c = Chunk(a .. b, Min(a .. b), Max(a .. b), n.type, kind)
    BY <2>1 DEF NodeChunk, LineChunk, LinesOf
  <2>6. c.units = a .. b /\ c.start = Min(a .. b)
    BY <2>5 DEF Chunk
  <2> QED
    BY <2>1, <2>4, <2>6 DEF LinesOf
<1> HIDE DEF c
<1>4. cs \in Seq(Spanning) /\ DOMAIN cs = {1} /\ cs[1] = c
  BY <1>2
<1> HIDE DEF cs
<1>5. ASSUME NEW l \in LinesOf(n) PROVE Hits(cs, l)
  <2>1. n.lo <= l /\ l \in Int
    BY <1>1, <1>5 DEF LinesOf
  <2>2. cs[1].start <= l /\ cs[1].start \in Int /\ l \in cs[1].units /\ DOMAIN cs = {1}
    BY <1>1, <1>3, <1>4, <1>5, <2>1
  <2> QED
    BY <2>1, <2>2, AloneHits
<1>6. StartsIn(cs, n.lo, n.hi)
  BY <1>1, <1>3, <1>4 DEF StartsIn, EndsBy, LinesOf
<1>7. ASSUME NEW a \in Nat, a <= n.lo PROVE Calm(cs, a)
  <2> SUFFICES ASSUME n.lo <= a PROVE Hits(cs, a)
    BY <1>3, <1>4 DEF Calm
  <2>1. a \in LinesOf(n)
    BY <1>1, <1>7 DEF LinesOf
  <2> QED
    BY <1>5, <2>1
<1>8. ASSUME NEW D \in SUBSET SUBSET LinesOf(n) PROVE CoversAll(cs, D) /\ HitsAll(cs, D)
  BY <1>3, <1>4, <1>5 DEF CoversAll, HitsAll
<1> QED
  BY <1>4, <1>6, <1>7, <1>8 DEF cs, c

(* The lines of some nodes, each node for itself.                            *)
LinesOfEach(S) == {LinesOf(m) : m \in S}
MembersOf(n, types) == {m \in Range(n.kids) : m.type \in types}

(* The members of a node that have chunks of their own.                      *)
LEMMA MembersAttend ==
  ASSUME NEW n \in Nodes, n.type # "script", NEW types
  PROVE  LET cs == ChunksOfAll(LAMBDA m : <<NodeChunk(m, "method")>>, OfType(n.kids, types))
             D == LinesOfEach(MembersOf(n, types))
         IN  /\ cs \in Seq(Spanning) /\ StartsIn(cs, n.head, n.hi) /\ ChunkedBy(cs, OfType(n.kids, types))
             /\ CoversAll(cs, D) /\ HitsAll(cs, D)
             /\ \A a \in Nat : a <= n.head => Calm(cs, a)
<1> DEFINE members == OfType(n.kids, types)
           of == [k \in DOMAIN members |-> <<NodeChunk(members[k], "method")>>]
           D == [k \in DOMAIN members |-> {LinesOf(members[k])}]
           all == UNION {D[k] : k \in DOMAIN members}
           flat == FlattenSeq(of)
<1>1. n.head \in Nat /\ n.hi \in Nat
  BY NodeIs
<1>2. members \in Seq(Nodes) /\ Successive(members) /\ Range(members) = MembersOf(n, types)
  BY KidsSucceed, OfTypeOrder DEF MembersOf
<1>3. \A k \in DOMAIN members : members[k] \in Nodes /\ n.head <= members[k].lo /\ members[k].hi <= n.hi
  <2> SUFFICES ASSUME NEW k \in DOMAIN members
               PROVE  members[k] \in Nodes /\ n.head <= members[k].lo /\ members[k].hi <= n.hi
    OBVIOUS
  <2>1. members[k] \in Range(n.kids)
    <3> HIDE DEF members
    <3> QED
      BY <1>2 DEF MembersOf, Range
  <2> HIDE DEF members
  <2> QED
    BY <2>1, KidsSucceed
<1>4. LinesOfEach(MembersOf(n, types)) = all
  <2> HIDE DEF members
  <2>1. \A d : d \in all <=> \E k \in DOMAIN members : d = LinesOf(members[k])
    OBVIOUS
  <2>2. \A d : d \in LinesOfEach(MembersOf(n, types)) <=> \E k \in DOMAIN members : d = LinesOf(members[k])
    BY <1>2 DEF LinesOfEach, Range
  <2> HIDE DEF all
  <2> QED
    BY <2>1, <2>2
<1>5. flat = ChunksOfAll(LAMBDA m : <<NodeChunk(m, "method")>>, members)
  BY DEF ChunksOfAll
<1> HIDE DEF members
<1>6. \A k \in DOMAIN members :
        /\ of[k] \in Seq(Spanning) /\ StartsIn(of[k], members[k].lo, members[k].hi)
        /\ \A a \in Nat : a <= members[k].lo => Calm(of[k], a)
        /\ CoversAll(of[k], D[k]) /\ HitsAll(of[k], D[k])
  <2> SUFFICES ASSUME NEW k \in DOMAIN members
               PROVE  /\ of[k] \in Seq(Spanning) /\ StartsIn(of[k], members[k].lo, members[k].hi)
                      /\ \A a \in Nat : a <= members[k].lo => Calm(of[k], a)
                      /\ CoversAll(of[k], D[k]) /\ HitsAll(of[k], D[k])
    OBVIOUS
  <2>1. of[k] = <<NodeChunk(members[k], "method")>> /\ D[k] = {LinesOf(members[k])}
    OBVIOUS
  <2>2. D[k] \in SUBSET SUBSET LinesOf(members[k])
    BY <2>1
  <2> HIDE DEF of, D
  <2> QED
    BY <1>3, <2>1, <2>2, OneNode, KindsAre
<1>7. \A k \in DOMAIN members : \A d \in D[k] : d \subseteq LinesOf(members[k])
  OBVIOUS
<1>8. of \in [DOMAIN members -> Seq(Spanning)]
  BY <1>6
<1>9. \A k \in DOMAIN members : members[k].lo \in Nat
  BY <1>3, NodeIs
<1> HIDE DEF of, D
<1>10. \A k \in DOMAIN members : Calm(of[k], members[k].lo)
  <2>1. \A x \in Nat : x <= x
    OBVIOUS
  <2> QED
    BY <1>6, <1>9, <2>1
<1>11. Leads(of, members)
  BY <1>10 DEF Leads
<1>12. /\ flat \in Seq(Spanning) /\ ChunkedBy(flat, members)
       /\ \A a, b \in Nat : (\A k \in DOMAIN members : a <= members[k].lo /\ members[k].hi <= b) => StartsIn(flat, a, b)
       /\ \A a \in Nat : (\A k \in DOMAIN members : Calm(of[k], a)) => Calm(flat, a)
       /\ CoversAll(flat, all)
       /\ HitsAll(flat, all)
  <2>1. /\ flat \in Seq(Spanning)
        /\ \A a, b \in Nat : (\A k \in DOMAIN members : a <= members[k].lo /\ members[k].hi <= b) => StartsIn(flat, a, b)
        /\ ChunkedBy(flat, members) /\ \A k \in DOMAIN members : \A i \in DOMAIN of[k] : \E p \in DOMAIN flat : flat[p] = of[k][i]
        /\ \A a \in Nat : (\A k \in DOMAIN members : Calm(of[k], a)) => Calm(flat, a)
        /\ (\A k \in DOMAIN members : CoversAll(of[k], D[k])) => CoversAll(flat, all)
        /\ (\A k \in DOMAIN members : HitsAll(of[k], D[k])) /\ Leads(of, members) => HitsAll(flat, all)
    <3>1. \A k \in DOMAIN members : StartsIn(of[k], members[k].lo, members[k].hi) /\ \A d \in D[k] : d \subseteq LinesOf(members[k])
      BY <1>6, <1>7
    <3>2. Gathered(flat, members, of, D, all)
      BY <1>2, <1>8, <3>1, NodesAttend
    <3> QED
      BY <3>2 DEF Gathered
  <2> HIDE DEF flat, all
  <2> QED
    BY <1>6, <1>11, <2>1
<1> HIDE DEF flat, all
<1>13. StartsIn(flat, n.head, n.hi)
  BY <1>1, <1>3, <1>12
<1>14. ASSUME NEW a \in Nat, a <= n.head PROVE Calm(flat, a)
  <2>1. \A k \in DOMAIN members : a <= members[k].lo
    <3> SUFFICES ASSUME NEW k \in DOMAIN members PROVE a <= members[k].lo
      OBVIOUS
    <3>1. PICK x \in Nat, y \in Nat : x = n.head /\ y = members[k].lo
      BY <1>1, <1>9
    <3>2. a <= x /\ x <= y
      BY <1>3, <1>14, <3>1
    <3> QED
      BY <3>1, <3>2
  <2> QED
    BY <1>6, <1>12, <2>1
<1> QED
  BY <1>4, <1>5, <1>12, <1>13, <1>14 DEF members

(* The chunks of a shell have no lines of the members behind them, so these  *)
(* keep theirs: each of its lines is before a member or behind it.           *)
Shelled(shell, n, types) ==
  \A j \in DOMAIN shell :
    /\ shell[j].start <= n.head
    /\ Scattered(shell[j]) \/ shell[j].units \subseteq (0 .. n.head) \cup LinesNotOf(n.kids, types)

LEMMA ShellYields ==
  ASSUME NEW n \in Nodes, n.type # "script", NEW types, NEW shell \in Seq(Spanning), Shelled(shell, n, types),
         NEW ds \in Seq(Spanning), ChunkedBy(ds, OfType(n.kids, types)), NEW l
  PROVE  Yields(shell, ds, l)
<1> SUFFICES ASSUME NEW k \in DOMAIN ds, l \in ds[k].units, NEW j \in DOMAIN shell
             PROVE  shell[j].start <= ds[k].start /\ (Reaches(shell[j], l) \/ EndsBy(shell[j], ds[k].start))
  BY DEF Yields, Goes
<1> DEFINE own == OfType(n.kids, types)
<1>1. n.head \in Nat /\ n.kids \in Seq(Nodes) /\ Successive(n.kids)
  BY NodeIs, KidsSucceed
<1>2. PICK x \in DOMAIN own : own[x].lo <= ds[k].start /\ EndsBy(ds[k], own[x].hi)
  BY DEF ChunkedBy
<1>3. own[x] \in Range(n.kids) /\ own[x].type \in types
  <2>1. Range(own) = {m \in Range(n.kids) : m.type \in types}
    BY <1>1, OfTypeOrder
  <2>2. own[x] \in Range(own)
    BY DEF Range
  <2> HIDE DEF own
  <2> QED
    BY <2>1, <2>2
<1> HIDE DEF own
<1>4. PICK i \in DOMAIN n.kids : n.kids[i] = own[x]
  BY <1>3 DEF Range
<1>5. n.kids[i] \in Nodes /\ n.kids[i].type \in types /\ n.head <= n.kids[i].lo
  BY <1>1, <1>3, <1>4, KidsSucceed
<1>6. PICK a \in Nat, b \in Nat, s \in Nat : a = n.kids[i].lo /\ b = n.kids[i].hi /\ s = ds[k].start
  BY <1>5, NodeIs, StartIs
<1>7. a <= s /\ l <= b /\ n.head <= a /\ l \in Nat
  BY <1>2, <1>4, <1>5, <1>6, StartIs DEF EndsBy
<1>8. shell[j].start <= s
  <2>1. shell[j].start \in Nat /\ shell[j].start <= n.head
    BY StartIs DEF Shelled
  <2> QED
    BY <1>1, <1>7, <2>1
<1>9. CASE Scattered(shell[j])
  BY <1>6, <1>8, <1>9 DEF Reaches
<1>10. CASE ~Scattered(shell[j]) /\ \E u \in shell[j].units : l <= u
  BY <1>6, <1>8, <1>10 DEF Reaches
<1>11. CASE ~Scattered(shell[j]) /\ \A u \in shell[j].units : ~(l <= u)
  <2>1. ASSUME NEW u \in shell[j].units PROVE u <= s
    <3>1. u \in Nat /\ u < l
      BY <1>7, <1>11, StartIs
    <3>2. CASE u \in 0 .. n.head
      BY <1>1, <1>7, <3>2
    <3>3. CASE u \in LinesNotOf(n.kids, types)
      <4>1. PICK y \in DOMAIN n.kids : n.kids[y].type \notin types /\ u \in LinesOf(n.kids[y])
        BY <3>3 DEF LinesNotOf
      <4>2. n.kids[y] \in Nodes /\ y # i
        BY <1>1, <1>5, <4>1
      <4>3. PICK c \in Nat, e \in Nat : c = n.kids[y].lo /\ e = n.kids[y].hi
        BY <4>2, NodeIs
      <4>4. c <= u /\ u <= e
        BY <4>1, <4>3 DEF LinesOf
      <4>5. PICK m \in Nat : DOMAIN n.kids = 1 .. m
        BY <1>1, LenProperties
      <4>6. y \in 1 .. i - 1 \/ i \in 1 .. y - 1
        BY <4>2, <4>5
      <4>7. CASE y \in 1 .. i - 1
        <5>1. e <= a
          BY <1>1, <1>6, <4>3, <4>7 DEF Successive
        <5> QED
          BY <1>7, <3>1, <4>4, <5>1
      <4>8. CASE i \in 1 .. y - 1
        <5>1. b <= c
          BY <1>1, <1>6, <4>3, <4>8 DEF Successive
        <5> QED
          BY <1>7, <3>1, <4>4, <5>1
      <4> QED
        BY <4>6, <4>7, <4>8
    <3> QED
      BY <1>11, <3>2, <3>3 DEF Shelled
  <2> QED
    BY <1>6, <1>8, <2>1 DEF EndsBy
<1> QED
  BY <1>9, <1>10, <1>11

(* Chunks up to a line end there.                                            *)
LEMMA UptoEnds ==
  ASSUME NEW h \in Nat, NEW c \in Upto(h)
  PROVE  c \in Spanning /\ EndsBy(c, h)
BY DEF Upto, EndsBy

(* A shell and the members behind it.                                        *)
LEMMA ShellAttends ==
  ASSUME NEW n \in Nodes, n.type # "script", NEW types,
         NEW shell \in Seq(Spanning), StartsIn(shell, n.lo, n.hi), Shelled(shell, n, types)
  PROVE  LET cs == shell \o ChunksOfAll(LAMBDA m : <<NodeChunk(m, "method")>>, OfType(n.kids, types))
             D == LinesOfEach(MembersOf(n, types))
         IN  /\ cs \in Seq(Spanning) /\ StartsIn(cs, n.lo, n.hi)
             /\ CoversAll(cs, D) /\ HitsAll(cs, D)
             /\ Calm(shell, n.lo) => Calm(cs, n.lo)
<1> DEFINE ds == ChunksOfAll(LAMBDA m : <<NodeChunk(m, "method")>>, OfType(n.kids, types))
           D == LinesOfEach(MembersOf(n, types))
<1>1. n.lo \in Nat /\ n.head \in Nat /\ n.hi \in Nat /\ n.lo <= n.head /\ n.head <= n.hi
  BY NodeIs
<1>2. /\ ds \in Seq(Spanning) /\ StartsIn(ds, n.head, n.hi) /\ ChunkedBy(ds, OfType(n.kids, types))
      /\ CoversAll(ds, D) /\ HitsAll(ds, D)
      /\ \A a \in Nat : a <= n.head => Calm(ds, a)
  BY MembersAttend
<1>3. D \in SUBSET SUBSET Nat
  <2>1. \A m \in MembersOf(n, types) : LinesOf(m) \in SUBSET Nat
    <3> SUFFICES ASSUME NEW m \in MembersOf(n, types) PROVE LinesOf(m) \in SUBSET Nat
      OBVIOUS
    <3>1. m \in Nodes
      BY KidsSucceed DEF MembersOf
    <3>2. m.lo \in Nat /\ m.hi \in Nat
      BY <3>1, NodeIs
    <3> QED
      BY <3>2 DEF LinesOf
  <2> QED
    BY <2>1 DEF LinesOfEach
<1> HIDE DEF ds, D
<1>4. \A l : Yields(shell, ds, l)
  BY <1>2, ShellYields
<1>5. StartsIn(ds, n.lo, n.hi)
  BY <1>1, <1>2, StartsEarlier
<1>6. /\ StartsIn(shell \o ds, n.lo, n.hi)
      /\ CoversAll(shell \o ds, D) /\ HitsAll(shell \o ds, D)
      /\ \A x \in Nat : Calm(shell, x) /\ Calm(ds, x) => Calm(shell \o ds, x)
  BY <1>1, <1>2, <1>3, <1>4, <1>5, JoinAttends
<1>7. shell \o ds \in Seq(Spanning)
  BY <1>2, ConcatProperties
<1> QED
  BY <1>1, <1>2, <1>6, <1>7 DEF ds, D

(* A shell alone, from a line on.                                            *)
LEMMA ShellStarts ==
  ASSUME NEW n \in Nodes, NEW c \in Spanning, c.start \in {n.lo, n.head}, EndsBy(c, n.hi), NEW types,
         Scattered(c) \/ c.units \subseteq (0 .. n.head) \cup LinesNotOf(n.kids, types)
  PROVE  /\ <<c>> \in Seq(Spanning) /\ StartsIn(<<c>>, n.lo, n.hi) /\ Shelled(<<c>>, n, types)
         /\ c.start \in c.units => Calm(<<c>>, n.lo)
         /\ <<>> \in Seq(Spanning) /\ StartsIn(<<>>, n.lo, n.hi) /\ Shelled(<<>>, n, types)
<1> DEFINE cs == <<c>>
<1>1. n.lo \in Nat /\ n.head \in Nat /\ n.hi \in Nat /\ n.lo <= n.head /\ n.head <= n.hi
  BY NodeIs
<1>2. cs \in Seq(Spanning) /\ DOMAIN cs = {1} /\ cs[1] = c
  OBVIOUS
<1> HIDE DEF cs
<1>3. c.start \in Nat /\ n.lo <= c.start /\ c.start <= n.head /\ c.start <= n.hi
  BY <1>1
<1>4. StartsIn(cs, n.lo, n.hi)
  BY <1>2, <1>3 DEF StartsIn
<1>5. ASSUME c.start \in c.units PROVE Calm(cs, n.lo)
  <2> SUFFICES ASSUME c.start <= n.lo PROVE Hits(cs, n.lo)
    BY <1>2 DEF Calm
  <2>1. n.lo = c.start
    BY <1>1, <1>3
  <2> QED
    BY <1>1, <1>2, <1>5, <2>1, AloneHits
<1>6. Shelled(cs, n, types)
  BY <1>2, <1>3 DEF Shelled
<1>7. <<>> \in Seq(Spanning) /\ StartsIn(<<>>, n.lo, n.hi) /\ Shelled(<<>>, n, types)
  BY DEF StartsIn, Shelled
<1> QED
  BY <1>2, <1>4, <1>5, <1>6, <1>7 DEF cs

(* Fewer definitions.                                                        *)
LEMMA FewerAttend ==
  ASSUME NEW cs, NEW S, NEW R \in SUBSET S
  PROVE  /\ CoversAll(cs, LinesOfEach(S)) => CoversAll(cs, LinesOfEach(R))
         /\ HitsAll(cs, LinesOfEach(S)) => HitsAll(cs, LinesOfEach(R))
<1>1. LinesOfEach(R) \subseteq LinesOfEach(S)
  BY DEF LinesOfEach
<1> QED
  BY <1>1 DEF CoversAll, HitsAll

(* What the chunks of a node are to its definitions S.                       *)
Serves(cs, n, S) ==
  cs \in Seq(Spanning) /\ StartsIn(cs, n.lo, n.hi) /\ CoversAll(cs, LinesOfEach(S))

(* The classes.                                                              *)
LEMMA PyClassAttends ==
  ASSUME NEW n \in Nodes, n.type = "class"
  PROVE  Serves(PyClass(n), n, MembersOf(n, {"function"})) /\ HitsAll(PyClass(n), LinesOfEach(MembersOf(n, {"function"})))
<1> DEFINE text == PyShell(n)
           c == Shell(text, n.lo, n.hi, n.type, "shell")
           shell == IF text = <<>> THEN <<>> ELSE <<c>>
           Others == {n.head} \cup LinesNotOf(n.kids, {"function"})
<1>1. n.type # "script" /\ n.head \in Nat /\ n.lo \in Nat /\ n.hi \in Nat /\ n.lo <= n.head /\ n.head <= n.hi
  BY NodeIs
<1>2. text \in Seq((n.lo .. n.hi) \cup {NoLine}) /\ text \in Seq(Others)
  BY PyShellWithin, PyShellIs
<1>3. PyClass(n) = shell \o ChunksOfAll(LAMBDA m : <<NodeChunk(m, "method")>>, OfType(n.kids, {"function"}))
  BY DEF PyClass
<1> HIDE DEF text, Others, shell
<1>4. c \in Upto(n.hi) /\ c.start = n.lo /\ c.units = Range(text) \ {NoLine}
  <2>1. n.lo \in {n.lo, n.head} /\ text \in Seq((n.lo .. n.hi) \cup {NoLine}) /\ "shell" \in Labels
    BY <1>2, KindsAre
  <2> QED
    BY <2>1, ShellIs
<1> HIDE DEF c
<1>5. c \in Spanning /\ EndsBy(c, n.hi)
  BY <1>1, <1>4, UptoEnds
<1>6. c.units \subseteq (0 .. n.head) \cup LinesNotOf(n.kids, {"function"})
  <2>1. Range(text) \subseteq Others
    BY <1>2 DEF Range
  <2> QED
    BY <1>1, <1>4, <2>1 DEF Others
<1>7. shell \in Seq(Spanning) /\ StartsIn(shell, n.lo, n.hi) /\ Shelled(shell, n, {"function"})
  BY <1>4, <1>5, <1>6, ShellStarts DEF shell
<1> QED
  BY <1>1, <1>3, <1>7, ShellAttends DEF Serves

(* A shell that is closed by a brace has a text that is scattered.           *)
LEMMA ClosedIsScattered ==
  ASSUME NEW c \in AnyChunk, NEW i \in DOMAIN c.text, c.text[i] = NoLine
  PROVE  Scattered(c)
<1>1. c.start \in Nat /\ i \in Nat /\ 1 <= i
  <2>1. c.start \in Nat /\ c.text \in Seq(Int)
    BY PartsOf
  <2>2. DOMAIN c.text = 1 .. Len(c.text) /\ Len(c.text) \in Nat
    BY <2>1, LenProperties
  <2> QED
    BY <2>1, <2>2
<1>2. c.text[i] # c.start + i - 1
  BY <1>1 DEF NoLine
<1> QED
  BY <1>2 DEF Scattered

LEMMA AppendedClose ==
  ASSUME NEW B, NEW front \in Seq(B)
  PROVE  \E i \in DOMAIN (front \o <<NoLine>>) : (front \o <<NoLine>>)[i] = NoLine
<1>1. Len(front) \in Nat
  OBVIOUS
<1>2. DOMAIN (front \o <<NoLine>>) = 1 .. Len(front) + 1
  OBVIOUS
<1>3. (front \o <<NoLine>>)[Len(front) + 1] = NoLine
  OBVIOUS
<1> QED
  BY <1>1, <1>2, <1>3

LEMMA ClosedShell ==
  ASSUME NEW n \in Nodes, NEW start \in {n.lo, n.head},
         NEW text \in Seq((start .. n.hi) \cup {NoLine}), start \in Range(text), NEW i \in DOMAIN text, text[i] = NoLine, NEW types
  PROVE  LET c == Shell(text, start, n.hi, n.type, "shell")
         IN  <<c>> \in Seq(Spanning) /\ StartsIn(<<c>>, n.lo, n.hi) /\ Shelled(<<c>>, n, types) /\ Calm(<<c>>, n.lo)
<1> DEFINE c == Shell(text, start, n.hi, n.type, "shell")
<1>1. c \in Upto(n.hi) /\ c.start = start /\ c.units = Range(text) \ {NoLine}
  <2>1. "shell" \in Labels
    BY KindsAre
  <2>2. CASE start = n.lo
    <3>1. text \in Seq((n.lo .. n.hi) \cup {NoLine})
      BY <2>2
    <3>2. /\ Shell(text, n.lo, n.hi, n.type, "shell") \in Upto(n.hi)
          /\ Shell(text, n.lo, n.hi, n.type, "shell").start = n.lo
          /\ Shell(text, n.lo, n.hi, n.type, "shell").units = Range(text) \ {NoLine}
      BY <2>1, <3>1, ShellIs
    <3> QED
      BY <2>2, <3>2
  <2>3. CASE start = n.head
    <3>1. text \in Seq((n.head .. n.hi) \cup {NoLine})
      BY <2>3
    <3>2. /\ Shell(text, n.head, n.hi, n.type, "shell") \in Upto(n.hi)
          /\ Shell(text, n.head, n.hi, n.type, "shell").start = n.head
          /\ Shell(text, n.head, n.hi, n.type, "shell").units = Range(text) \ {NoLine}
      BY <2>1, <3>1, ShellIs
    <3> QED
      BY <2>3, <3>2
  <2> QED
    BY <2>2, <2>3
<1>2. c.text = text
  BY DEF Shell
<1> HIDE DEF c
<1>3. n.lo \in Nat /\ n.head \in Nat /\ n.hi \in Nat
  BY NodeIs
<1>4. c \in Spanning /\ c \in AnyChunk /\ EndsBy(c, n.hi)
  <2>1. c \in Spanning /\ EndsBy(c, n.hi)
    BY <1>1, <1>3, UptoEnds
  <2> QED
    BY <2>1, SpanningAny
<1>5. i \in DOMAIN c.text /\ c.text[i] = NoLine
  BY <1>2
<1>6. Scattered(c)
  BY <1>4, <1>5, ClosedIsScattered
<1>7. c.start \in c.units
  <2>1. start # NoLine
    BY <1>3 DEF NoLine
  <2> QED
    BY <1>1, <2>1
<1> QED
  BY <1>1, <1>4, <1>6, <1>7, ShellStarts DEF c

(* TypeScript: the members that are methods are among those with a chunk.    *)
LEMMA TsClassAttends ==
  ASSUME NEW n \in Nodes, n.type = "class"
  PROVE  /\ Serves(TsClass(n), n, MembersOf(n, {"method"})) /\ HitsAll(TsClass(n), LinesOfEach(MembersOf(n, {"method"})))
         /\ Calm(TsClass(n), n.lo)
<1> DEFINE text == TsShell(n)
           shell == <<Shell(text, n.head, n.hi, n.type, "shell")>>
           rest == TextOfAll(NotOfType(n.kids, TsMembers))
           front == <<n.head>> \o rest
<1>1. n.type # "script"
  OBVIOUS
<1>2. text \in Seq((n.head .. n.hi) \cup {NoLine}) /\ n.head \in Range(text)
  BY TsShellIs
<1>3. front \in Seq(Int) /\ text = front \o <<NoLine>>
  <2>1. n.kids \in Seq(Nodes)
    BY KidsSucceed
  <2>2. rest \in Seq(LinesNotOf(n.kids, TsMembers)) /\ LinesNotOf(n.kids, TsMembers) \subseteq n.head .. n.hi
    BY <1>1, <2>1, TextNotOf, LinesNotOfKids
  <2>3. n.head \in Int /\ n.head .. n.hi \subseteq Int
    BY NodeIs
  <2> HIDE DEF rest
  <2>4. rest \in Seq(Int) /\ <<n.head>> \in Seq(Int)
    BY <2>2, <2>3, SeqOfMore
  <2>5. front \in Seq(Int)
    BY <2>4, ConcatProperties
  <2> QED
    BY <2>5 DEF TsShell, rest
<1>4. TsClass(n) = shell \o ChunksOfAll(LAMBDA m : <<NodeChunk(m, "method")>>, OfType(n.kids, TsMembers))
  BY DEF TsClass
<1> HIDE DEF text, front
<1>5. shell \in Seq(Spanning) /\ StartsIn(shell, n.lo, n.hi) /\ Shelled(shell, n, TsMembers) /\ Calm(shell, n.lo)
  <2>1. PICK i \in DOMAIN text : text[i] = NoLine
    BY <1>3, AppendedClose
  <2> QED
    BY <1>2, <2>1, ClosedShell
<1> HIDE DEF shell
<1>6. /\ TsClass(n) \in Seq(Spanning) /\ StartsIn(TsClass(n), n.lo, n.hi)
      /\ CoversAll(TsClass(n), LinesOfEach(MembersOf(n, TsMembers))) /\ HitsAll(TsClass(n), LinesOfEach(MembersOf(n, TsMembers)))
      /\ Calm(TsClass(n), n.lo)
  BY <1>1, <1>4, <1>5, ShellAttends
<1>7. MembersOf(n, {"method"}) \in SUBSET MembersOf(n, TsMembers)
  BY DEF MembersOf, TsMembers
<1> QED
  BY <1>6, <1>7, FewerAttend DEF Serves

(* PHP.                                                                      *)
LEMMA PhpShellCloses ==
  ASSUME NEW n \in Nodes, n.type = "class"
  PROVE  \E front \in Seq(Int) : PhpShell(n) = front \o <<NoLine>>
<1> DEFINE member(m) == m.lo .. (IF m.type = "method" THEN m.head - 1 ELSE m.hi)
           first == Ordered(n.lo .. n.head)
           of == [k \in DOMAIN n.kids |-> Ordered(member(n.kids[k]))]
<1>1. n.head \in Nat /\ n.lo \in Nat /\ n.kids \in Seq(Nodes)
  BY NodeIs
<1>2. first \in Seq(Int)
  <2>1. n.lo .. n.head \in SUBSET Nat /\ IsFiniteSet(n.lo .. n.head)
    <3>1. n.lo \in Int /\ n.head \in Int
      BY <1>1
    <3>2. IsFiniteSet(n.lo .. n.head)
      BY <3>1, FS_Interval
    <3> QED
      BY <1>1, <3>2
  <2> QED
    BY <2>1, OrderedTells
<1>3. ASSUME NEW k \in DOMAIN n.kids PROVE of[k] \in Seq(Int)
  <2> DEFINE m == n.kids[k]
             S == member(m)
  <2>1. m \in Nodes
    BY <1>1
  <2> HIDE DEF m
  <2>2. m.lo \in Nat /\ m.head \in Nat /\ m.hi \in Nat
    BY <2>1, NodeIs
  <2>3. S \in SUBSET Nat /\ IsFiniteSet(S)
    <3>1. m.lo \in Int /\ m.head - 1 \in Int /\ m.hi \in Int
      BY <2>2
    <3>2. IsFiniteSet(m.lo .. m.head - 1) /\ IsFiniteSet(m.lo .. m.hi)
      BY <3>1, FS_Interval
    <3> QED
      BY <2>2, <3>2
  <2> HIDE DEF S
  <2>4. Ordered(S) \in Seq(Int)
    BY <2>3, OrderedTells
  <2> QED
    BY <2>4 DEF S, m
<1>4. of \in [DOMAIN n.kids -> Seq(Int)]
  BY <1>3
<1>5. PhpShell(n) = (first \o FlattenSeq(of)) \o <<NoLine>>
  BY DEF PhpShell
<1> HIDE DEF first, of
<1>6. FlattenSeq(of) \in Seq(Int)
  BY <1>1, <1>4, AllAre
<1>7. first \o FlattenSeq(of) \in Seq(Int)
  BY <1>2, <1>6, ConcatProperties
<1> QED
  BY <1>5, <1>7

LEMMA PhpClassAttends ==
  ASSUME NEW n \in Nodes, n.type = "class"
  PROVE  /\ Serves(PhpNode(n), n, MembersOf(n, {"method"})) /\ HitsAll(PhpNode(n), LinesOfEach(MembersOf(n, {"method"})))
         /\ Calm(PhpNode(n), n.lo)
<1> DEFINE text == PhpShell(n)
           shell == <<Shell(text, n.lo, n.hi, n.type, "shell")>>
<1>1. n.type # "script"
  OBVIOUS
<1>2. text \in Seq((n.lo .. n.hi) \cup {NoLine}) /\ n.lo \in Range(text)
  BY PhpShellIs
<1>3. PICK front \in Seq(Int) : text = front \o <<NoLine>>
  BY PhpShellCloses
<1>4. PhpNode(n) = shell \o ChunksOfAll(LAMBDA m : <<NodeChunk(m, "method")>>, OfType(n.kids, {"method"}))
  BY DEF PhpNode
<1> HIDE DEF text
<1>5. shell \in Seq(Spanning) /\ StartsIn(shell, n.lo, n.hi) /\ Shelled(shell, n, {"method"}) /\ Calm(shell, n.lo)
  <2>1. PICK i \in DOMAIN text : text[i] = NoLine
    BY <1>3, AppendedClose
  <2> QED
    BY <1>2, <2>1, ClosedShell
<1> HIDE DEF shell
<1> QED
  BY <1>1, <1>4, <1>5, ShellAttends DEF Serves

(* Objects within objects, level by level: those found in an object.         *)
ObjectKids(n) == {m \in Range(n.kids) : m.type = "object"}
FoundBy(f) ==
  /\ f \in [0 .. Nesting -> [Nodes -> SUBSET Nodes]]
  /\ f[0] = [n \in Nodes |-> {n}]
  /\ \A k \in 1 .. Nesting : f[k] = [n \in Nodes |-> {n} \cup UNION {f[k - 1][o] : o \in ObjectKids(n)}]

(* The recursion of ObjectsIn.                                               *)
LEMMA FoundRecursion ==
  \E f : FoundBy(f) /\ \A n \in Nodes : ObjectsIn(n) = f[Nesting][n]
<1> DEFINE N == Nesting
           Lists == [Nodes -> SUBSET Nodes]
           first == [n \in Nodes |-> {n}]
           more(h) == [n \in Nodes |-> {n} \cup UNION {h[o] : o \in ObjectKids(n)}]
           step == [k \in 1 .. N |-> [h \in Lists |-> more(h)]]
           Is(g) == g = [left \in 0 .. N |-> [n \in Nodes |->
                           {n} \cup IF left = 0 THEN {} ELSE UNION {g[left - 1][o] : o \in ObjectKids(n)}]]
           found == CHOOSE g : Is(g)
<1>1. N \in Nat
  BY FilesAssumption
<1>2. first \in Lists
  OBVIOUS
<1>3. \A h \in Lists : more(h) \in Lists
  <2>1. \A n \in Nodes : ObjectKids(n) \subseteq Nodes
    BY KidsSucceed DEF ObjectKids, Range
  <2> QED
    BY <2>1
<1>4. step \in [1 .. N -> [Lists -> Lists]]
  <2> HIDE DEF more, Lists
  <2> QED
    BY <1>3
<1>5. PICK g \in [0 .. N -> Lists] : Follows(g, N, first, step)
  <2> HIDE DEF first, step, N, Lists
  <2> QED
    BY <1>1, <1>2, <1>4, RecursionIsThere
<1>6. g[0] = first /\ \A k \in 1 .. N : g[k] = more(g[k - 1])
  <2>1. \A k \in 1 .. N : k - 1 \in 0 .. N /\ g[k - 1] \in Lists
    BY <1>1
  <2>2. g[0] = first /\ \A k \in 1 .. N : g[k] = step[k][g[k - 1]]
    <3> HIDE DEF step, first
    <3> QED
      BY <1>5 DEF Follows
  <2> HIDE DEF more, Lists, first
  <2> QED
    BY <2>1, <2>2
<1>7. Is(g)
  <2>1. \A k \in 0 .. N : g[k] = [n \in Nodes |-> {n} \cup IF k = 0 THEN {} ELSE UNION {g[k - 1][o] : o \in ObjectKids(n)}]
    <3> SUFFICES ASSUME NEW k \in 0 .. N
                 PROVE  g[k] = [n \in Nodes |-> {n} \cup IF k = 0 THEN {} ELSE UNION {g[k - 1][o] : o \in ObjectKids(n)}]
      OBVIOUS
    <3>1. CASE k = 0
      BY <1>6, <3>1
    <3>2. CASE k # 0
      <4>1. k \in 1 .. N
        BY <1>1, <3>2
      <4> QED
        BY <1>6, <3>2, <4>1
    <3> QED
      BY <3>1, <3>2
  <2> HIDE DEF N
  <2>2. g = [k \in 0 .. N |-> g[k]]
    OBVIOUS
  <2> QED
    BY <2>1, <2>2
<1>8. Is(found)
  <2> HIDE DEF Is
  <2> QED
    BY <1>7
<1>9. \A n \in Nodes : ObjectsIn(n) = found[N][n]
  BY DEF ObjectsIn, ObjectKids
<1> HIDE DEF found
<1>10. \A k \in 0 .. N : found[k] = [n \in Nodes |-> {n} \cup IF k = 0 THEN {} ELSE UNION {found[k - 1][o] : o \in ObjectKids(n)}]
  BY <1>8
<1>11. found[0] = first /\ \A k \in 1 .. N : found[k] = more(found[k - 1])
  <2>1. found[0] = first
    BY <1>1, <1>10
  <2>2. ASSUME NEW k \in 1 .. N PROVE found[k] = more(found[k - 1])
    <3>1. k \in 0 .. N /\ k # 0
      BY <1>1
    <3> HIDE DEF Is, N
    <3>2. found[k] = [n \in Nodes |-> {n} \cup IF k = 0 THEN {} ELSE UNION {found[k - 1][o] : o \in ObjectKids(n)}]
      BY <1>10, <3>1
    <3> QED
      BY <3>1, <3>2
  <2> QED
    BY <2>1, <2>2
<1> DEFINE Good == {k \in 0 .. N : found[k] \in Lists}
<1>12. 0 \in Good
  BY <1>1, <1>2, <1>11
<1>13. \A k \in 1 .. N : k - 1 \in Good => k \in Good
  <2> SUFFICES ASSUME NEW k \in 1 .. N, k - 1 \in Good PROVE k \in Good
    OBVIOUS
  <2> HIDE DEF more, Lists
  <2>1. found[k - 1] \in Lists /\ found[k] = more(found[k - 1])
    BY <1>11
  <2>2. found[k] \in Lists
    BY <1>3, <2>1
  <2> QED
    BY <1>1, <2>2
<1>14. \A k \in 0 .. N : found[k] \in Lists
  <2> HIDE DEF Good, N
  <2>1. \A k \in 0 .. N : k \in Good
    BY <1>1, <1>12, <1>13, UpTo
  <2> QED
    BY <2>1 DEF Good
<1>15. found \in [0 .. N -> Lists]
  <2> HIDE DEF Lists, N
  <2>1. found = [k \in 0 .. N |-> [n \in Nodes |-> {n} \cup IF k = 0 THEN {} ELSE UNION {found[k - 1][o] : o \in ObjectKids(n)}]]
    BY <1>8
  <2> HIDE DEF Is
  <2> DEFINE body(k) == [n \in Nodes |-> {n} \cup IF k = 0 THEN {} ELSE UNION {found[k - 1][o] : o \in ObjectKids(n)}]
  <2>2. found = [k \in 0 .. N |-> body(k)]
    BY <2>1
  <2> HIDE DEF body
  <2> QED
    BY <1>14, <2>2
<1>16. FoundBy(found)
  BY <1>11, <1>15 DEF FoundBy
<1> QED
  BY <1>9, <1>16

(* What is found in an object are objects on its lines.                      *)
LEMMA FoundWithin ==
  ASSUME NEW f, FoundBy(f)
  PROVE  \A k \in 0 .. Nesting : \A n \in Nodes : n.type = "object" =>
           /\ n \in f[k][n]
           /\ \A o \in f[k][n] : o \in Nodes /\ o.type = "object" /\ LinesOf(o) \subseteq LinesOf(n)
<1> DEFINE N == Nesting
           Fine(k) == \A n \in Nodes : n.type = "object" =>
             /\ n \in f[k][n]
             /\ \A o \in f[k][n] : o \in Nodes /\ o.type = "object" /\ LinesOf(o) \subseteq LinesOf(n)
           Good == {k \in 0 .. N : Fine(k)}
<1>1. N \in Nat
  BY FilesAssumption
<1>2. 0 \in Good
  <2>1. \A n \in Nodes : f[0][n] = {n}
    BY DEF FoundBy
  <2>2. Fine(0)
    BY <2>1
  <2> QED
    BY <1>1, <2>2
<1>3. ASSUME NEW k \in 1 .. N, k - 1 \in Good PROVE k \in Good
  <2>1. Fine(k - 1)
    BY <1>3
  <2>2. \A n \in Nodes : f[k][n] = {n} \cup UNION {f[k - 1][o] : o \in ObjectKids(n)}
    BY DEF FoundBy
  <2>3. ASSUME NEW n \in Nodes, n.type = "object", NEW o \in f[k][n]
        PROVE  o \in Nodes /\ o.type = "object" /\ LinesOf(o) \subseteq LinesOf(n)
    <3>1. CASE o = n
      BY <2>3, <3>1
    <3>2. CASE o # n
      <4>1. PICK p \in ObjectKids(n) : o \in f[k - 1][p]
        BY <2>2, <2>3, <3>2
      <4>2. p \in Nodes /\ p.type = "object" /\ LinesOf(p) \subseteq LinesOf(n)
        BY <2>3, <4>1, KidsSucceed DEF ObjectKids
      <4>3. o \in Nodes /\ o.type = "object" /\ LinesOf(o) \subseteq LinesOf(p)
        BY <2>1, <4>1, <4>2
      <4> QED
        BY <4>2, <4>3
    <3> QED
      BY <3>1, <3>2
  <2>4. Fine(k)
    BY <2>2, <2>3
  <2> QED
    BY <1>1, <2>4
<1>4. \A k \in 0 .. N : k \in Good
  <2> HIDE DEF Good, N
  <2> QED
    BY <1>1, <1>2, <1>3, UpTo
<1> QED
  BY <1>4

(* What is found in an object, one level more.                               *)
LEMMA FoundMore ==
  ASSUME NEW f, FoundBy(f), NEW n \in Nodes
  PROVE  /\ f[0][n] = {n}
         /\ \A k \in 0 .. Nesting : k # 0 =>
              k \in 1 .. Nesting /\ k - 1 \in 0 .. Nesting /\ f[k][n] = {n} \cup UNION {f[k - 1][o] : o \in ObjectKids(n)}
<1>1. Nesting \in Nat
  BY FilesAssumption
<1>2. \A k \in 1 .. Nesting : f[k][n] = {n} \cup UNION {f[k - 1][o] : o \in ObjectKids(n)}
  <2> SUFFICES ASSUME NEW k \in 1 .. Nesting PROVE f[k][n] = {n} \cup UNION {f[k - 1][o] : o \in ObjectKids(n)}
    OBVIOUS
  <2> DEFINE more(x) == {x} \cup UNION {f[k - 1][o] : o \in ObjectKids(x)}
  <2>1. f[k] = [x \in Nodes |-> more(x)]
    BY DEF FoundBy
  <2> HIDE DEF more
  <2>2. f[k][n] = more(n)
    BY <2>1
  <2> QED
    BY <2>2 DEF more
<1>3. f[0][n] = {n}
  BY DEF FoundBy
<1>4. \A k \in 0 .. Nesting : k # 0 => k \in 1 .. Nesting /\ k - 1 \in 0 .. Nesting
  BY <1>1
<1> QED
  BY <1>2, <1>3, <1>4

(* The functions of objects.                                                 *)
MethodsIn(S) == UNION {{m \in Range(o.kids) : m.type \in {"method", "arrow"}} : o \in S}

(* What the chunks of an object n are to the functions of the objects S in   *)
(* it: on every line when these start on lines of their own.                 *)
Attended(cs, n, S) ==
  /\ Serves(cs, n, MethodsIn(S))
  /\ (\A o \in S : ObjectsApart(o.kids)) => HitsAll(cs, LinesOfEach(MethodsIn(S)))

(* The functions of the objects in an object are on its lines.               *)
LEMMA MethodsWithin ==
  ASSUME NEW n \in Nodes, NEW S, \A o \in S : o \in Nodes /\ o.type = "object" /\ LinesOf(o) \subseteq LinesOf(n)
  PROVE  \A m \in MethodsIn(S) : m \in Nodes /\ LinesOf(m) \subseteq LinesOf(n)
<1> SUFFICES ASSUME NEW m \in MethodsIn(S) PROVE m \in Nodes /\ LinesOf(m) \subseteq LinesOf(n)
  OBVIOUS
<1>1. PICK o \in S : m \in Range(o.kids)
  BY DEF MethodsIn
<1>2. m \in Nodes /\ LinesOf(m) \subseteq LinesOf(o)
  BY <1>1, KidsSucceed
<1> QED
  BY <1>1, <1>2

(* An object that is one chunk.                                              *)
LEMMA WholeAttends ==
  ASSUME NEW f, FoundBy(f), NEW k \in 0 .. Nesting, NEW n \in Nodes, n.type = "object"
  PROVE  Attended(WholeObject(n), n, f[k][n])
<1> DEFINE S == f[k][n]
           R == MethodsIn(S)
<1>1. \A o \in S : o \in Nodes /\ o.type = "object" /\ LinesOf(o) \subseteq LinesOf(n)
  BY FoundWithin
<1>2. \A m \in R : m \in Nodes /\ LinesOf(m) \subseteq LinesOf(n)
  BY <1>1, MethodsWithin
<1>3. CASE n.kids = <<>>
  <2>1. ObjectKids(n) = {} /\ Range(n.kids) = {}
    BY <1>3 DEF ObjectKids, Range
  <2>2. S \subseteq {n}
    <3>1. CASE k = 0
      BY <3>1, FoundMore
    <3>2. CASE k # 0
      BY <2>1, <3>2, FoundMore
    <3> QED
      BY <3>1, <3>2
  <2>3. R = {}
    BY <2>1, <2>2 DEF MethodsIn
  <2>4. WholeObject(n) = <<>> /\ <<>> \in Seq(Spanning) /\ LinesOfEach({}) = {}
    BY <1>3 DEF WholeObject, LinesOfEach
  <2> HIDE DEF S
  <2>5. Attended(<<>>, n, S)
    BY <2>3, <2>4 DEF Attended, Serves, StartsIn, CoversAll, HitsAll
  <2> QED
    BY <2>4, <2>5 DEF S
<1>4. CASE n.kids # <<>>
  <2>1. WholeObject(n) = <<NodeChunk(n, "block")>>
    BY <1>4 DEF WholeObject
  <2>2. LinesOfEach(R) \in SUBSET SUBSET LinesOf(n)
    BY <1>2 DEF LinesOfEach
  <2> HIDE DEF S
  <2>3. /\ <<NodeChunk(n, "block")>> \in Seq(Spanning) /\ StartsIn(<<NodeChunk(n, "block")>>, n.lo, n.hi)
        /\ CoversAll(<<NodeChunk(n, "block")>>, LinesOfEach(R)) /\ HitsAll(<<NodeChunk(n, "block")>>, LinesOfEach(R))
    BY <2>2, OneNode, KindsAre
  <2>4. Attended(<<NodeChunk(n, "block")>>, n, S)
    BY <2>3 DEF Attended, Serves
  <2> QED
    BY <2>1, <2>4 DEF S
<1> QED
  BY <1>3, <1>4

(* An object that is cut.                                                    *)
LEMMA CutAttends ==
  ASSUME NEW f, FoundBy(f), NEW k \in 0 .. Nesting, NEW n \in Nodes, n.type = "object", NEW inner \in ObjectLists,
         \A j \in 0 .. Nesting : \A m \in Nodes : m.type = "object" => Attended(inner[m], m, f[j][m])
  PROVE  Attended(CutObject(n, inner), n, f[k][n])
<1> DEFINE shell == NotOfType(n.kids, OwnChunk)
           text == TextOfAll(shell)
           chunk == Shell(text, n.head, n.hi, n.type, "block")
           first == IF shell = <<>> THEN <<>> ELSE <<chunk>>
           own == OfType(n.kids, OwnChunk)
           member(m) == IF m.type = "object" THEN inner[m] ELSE <<NodeChunk(m, "method")>>
           of == [j \in DOMAIN own |-> member(own[j])]
           flat == FlattenSeq(of)
           cond == OfType(n.kids, {"method", "arrow"}) = <<>> /\ ~NodeChunk(n, "block").split
           S == f[k][n]
           In(m) == IF m.type = "object" THEN (IF k = 0 THEN {} ELSE MethodsIn(f[k - 1][m])) ELSE {m}
           D == [j \in DOMAIN own |-> LinesOfEach(In(own[j]))]
           all == UNION {D[j] : j \in DOMAIN own}
<1>1. /\ n.head \in Nat /\ n.lo \in Nat /\ n.hi \in Nat /\ n.lo <= n.head /\ n.head <= n.hi /\ n.type # "script"
      /\ n.kids \in Seq(Nodes) /\ Successive(n.kids)
  BY NodeIs, KidsSucceed
<1>2. CutObject(n, inner) = IF cond THEN WholeObject(n) ELSE first \o flat
  BY DEF CutObject, ChunksOfAll
<1>3. /\ own \in Seq(Nodes) /\ Successive(own) /\ Range(own) = {m \in Range(n.kids) : m.type \in OwnChunk}
      /\ ObjectsApart(n.kids) => ObjectsApart(own)
  BY <1>1, OfTypeOrder
<1>4. \A j \in DOMAIN own : own[j] \in Range(n.kids) /\ own[j] \in Nodes /\ own[j].type \in OwnChunk
        /\ n.head <= own[j].lo /\ own[j].hi <= n.hi /\ LinesOf(own[j]) \subseteq LinesOf(n)
  <2> SUFFICES ASSUME NEW j \in DOMAIN own
               PROVE  own[j] \in Range(n.kids) /\ own[j] \in Nodes /\ own[j].type \in OwnChunk
                        /\ n.head <= own[j].lo /\ own[j].hi <= n.hi /\ LinesOf(own[j]) \subseteq LinesOf(n)
    OBVIOUS
  <2>1. own[j] \in Range(own)
    BY DEF Range
  <2> HIDE DEF own
  <2> QED
    BY <1>1, <1>3, <2>1, KidsSucceed
<1>5. \A m \in Range(n.kids) : m.type \in OwnChunk => \E j \in DOMAIN own : own[j] = m
  <2> HIDE DEF own
  <2> QED
    BY <1>3 DEF Range
<1> HIDE DEF own
<1>6. first \in Seq(Spanning) /\ StartsIn(first, n.lo, n.hi) /\ Shelled(first, n, OwnChunk)
  <2> DEFINE Rest == LinesNotOf(n.kids, OwnChunk)
  <2>1. text \in Seq(Rest)
    BY <1>1, TextNotOf
  <2>2. Rest \subseteq n.head .. n.hi
    BY <1>1, LinesNotOfKids
  <2> HIDE DEF text, Rest
  <2>3. text \in Seq((n.head .. n.hi) \cup {NoLine})
    BY <2>1, <2>2, SeqOfMore
  <2>4. chunk \in Upto(n.hi) /\ chunk.start = n.head /\ chunk.units = Range(text) \ {NoLine}
    BY <2>3, ShellIs, KindsAre
  <2> HIDE DEF chunk
  <2>5. chunk \in Spanning /\ EndsBy(chunk, n.hi)
    BY <1>1, <2>4, UptoEnds
  <2>6. chunk.units \subseteq (0 .. n.head) \cup LinesNotOf(n.kids, OwnChunk)
    BY <2>1, <2>4 DEF Range, Rest
  <2> QED
    BY <2>4, <2>5, <2>6, ShellStarts
<1> HIDE DEF first
<1>7. ASSUME NEW j \in DOMAIN own
      PROVE  /\ of[j] \in Seq(Spanning) /\ StartsIn(of[j], own[j].lo, own[j].hi)
             /\ \A d \in D[j] : d \subseteq LinesOf(own[j])
             /\ CoversAll(of[j], D[j])
             /\ (\A o \in S : ObjectsApart(o.kids)) => HitsAll(of[j], D[j])
             /\ own[j].type # "object" => Calm(of[j], own[j].lo)
  <2> DEFINE m == own[j]
  <2>1. m \in Nodes /\ m \in Range(n.kids) /\ of[j] = member(m) /\ D[j] = LinesOfEach(In(m)) /\ m.lo \in Nat
    BY <1>4, NodeIs
  <2> HIDE DEF m, of, D
  <2>2. CASE m.type = "object"
    <3>1. of[j] = inner[m]
      BY <2>1, <2>2
    <3>2. 0 \in 0 .. Nesting
      BY FilesAssumption
    <3>3. Attended(inner[m], m, f[0][m])
      BY <2>1, <2>2, <3>2
    <3>4. of[j] \in Seq(Spanning) /\ StartsIn(of[j], m.lo, m.hi)
      BY <3>1, <3>3 DEF Attended, Serves
    <3>5. CASE k = 0
      <4>1. D[j] = {}
        BY <2>1, <2>2, <3>5 DEF LinesOfEach
      <4> QED
        BY <2>2, <3>4, <4>1 DEF CoversAll, HitsAll, m
    <3>6. CASE k # 0
      <4>1. k \in 1 .. Nesting /\ k - 1 \in 0 .. Nesting /\ f[k][n] = {n} \cup UNION {f[k - 1][o] : o \in ObjectKids(n)}
        BY <3>6, FoundMore
      <4>2. Attended(inner[m], m, f[k - 1][m])
        BY <2>1, <2>2, <4>1
      <4>3. D[j] = LinesOfEach(MethodsIn(f[k - 1][m]))
        BY <2>1, <2>2, <3>6
      <4>4. f[k - 1][m] \subseteq S
        <5>1. m \in ObjectKids(n)
          BY <2>1, <2>2 DEF ObjectKids
        <5> QED
          BY <4>1, <5>1
      <4>5. \A x \in MethodsIn(f[k - 1][m]) : LinesOf(x) \subseteq LinesOf(m)
        <5>1. \A o \in f[k - 1][m] : o \in Nodes /\ o.type = "object" /\ LinesOf(o) \subseteq LinesOf(m)
          BY <2>1, <2>2, <4>1, FoundWithin
        <5> QED
          BY <2>1, <5>1, MethodsWithin
      <4>6. \A d \in D[j] : d \subseteq LinesOf(m)
        BY <4>3, <4>5 DEF LinesOfEach
      <4>7. CoversAll(of[j], D[j]) /\ ((\A o \in f[k - 1][m] : ObjectsApart(o.kids)) => HitsAll(of[j], D[j]))
        BY <3>1, <4>2, <4>3 DEF Attended, Serves
      <4> HIDE DEF S
      <4> QED
        BY <2>2, <3>4, <4>4, <4>6, <4>7 DEF m
    <3> QED
      BY <3>5, <3>6
  <2>3. CASE m.type # "object"
    <3>1. of[j] = <<NodeChunk(m, "method")>> /\ D[j] = {LinesOf(m)}
      BY <2>1, <2>3 DEF LinesOfEach
    <3>2. D[j] \in SUBSET SUBSET LinesOf(m) /\ m.lo <= m.lo
      BY <2>1, <3>1
    <3>3. /\ <<NodeChunk(m, "method")>> \in Seq(Spanning) /\ StartsIn(<<NodeChunk(m, "method")>>, m.lo, m.hi)
          /\ Calm(<<NodeChunk(m, "method")>>, m.lo)
          /\ CoversAll(<<NodeChunk(m, "method")>>, D[j]) /\ HitsAll(<<NodeChunk(m, "method")>>, D[j])
      BY <2>1, <3>2, OneNode, KindsAre
    <3> HIDE DEF S
    <3> QED
      BY <3>1, <3>2, <3>3 DEF m
  <2> QED
    BY <2>2, <2>3
<1>8. of \in [DOMAIN own -> Seq(Spanning)]
  BY <1>7
<1>9. LinesOfEach(MethodsIn(S)) \subseteq all
  <2> SUFFICES ASSUME NEW m \in MethodsIn(S) PROVE \E j \in DOMAIN own : m \in In(own[j])
    BY DEF LinesOfEach
  <2>1. PICK o \in S : m \in Range(o.kids) /\ m.type \in {"method", "arrow"}
    BY DEF MethodsIn
  <2>2. CASE o = n
    <3>1. PICK j \in DOMAIN own : own[j] = m
      BY <1>5, <2>1, <2>2 DEF OwnChunk
    <3> QED
      BY <2>1, <3>1
  <2>3. CASE o # n
    <3>1. k # 0
      BY <2>1, <2>3, FoundMore
    <3>3. f[k][n] = {n} \cup UNION {f[k - 1][p] : p \in ObjectKids(n)}
      BY <3>1, FoundMore
    <3>4. PICK p \in ObjectKids(n) : o \in f[k - 1][p]
      BY <2>1, <2>3, <3>3
    <3>5. p \in Range(n.kids) /\ p.type = "object"
      BY <3>4 DEF ObjectKids
    <3>6. PICK j \in DOMAIN own : own[j] = p
      BY <1>5, <3>5 DEF OwnChunk
    <3>7. m \in MethodsIn(f[k - 1][p])
      BY <2>1, <3>4 DEF MethodsIn
    <3> QED
      BY <3>1, <3>5, <3>6, <3>7
  <2> QED
    BY <2>2, <2>3
<1>10. n \in S
  <2>1. n \in f[k][n]
    BY FoundWithin
  <2> QED
    BY <2>1
<1>11. \A d \in all : d \in SUBSET Nat
  <2> SUFFICES ASSUME NEW d \in all PROVE d \in SUBSET Nat
    OBVIOUS
  <2>0. PICK j \in DOMAIN own : d \in D[j]
    <3> HIDE DEF D
    <3> QED
      OBVIOUS
  <2>1. own[j].lo \in Nat /\ own[j].hi \in Nat
    BY <1>4, NodeIs
  <2>2. LinesOf(own[j]) \subseteq Nat
    BY <2>1 DEF LinesOf
  <2> HIDE DEF D
  <2> QED
    BY <1>7, <2>0, <2>2
<1> HIDE DEF of, D, S
<1>12. /\ flat \in Seq(Spanning) /\ ChunkedBy(flat, own)
       /\ \A a, b \in Nat : (\A j \in DOMAIN own : a <= own[j].lo /\ own[j].hi <= b) => StartsIn(flat, a, b)
       /\ CoversAll(flat, all)
       /\ (\A j \in DOMAIN own : HitsAll(of[j], D[j])) /\ Leads(of, own) => HitsAll(flat, all)
  <2>1. \A j \in DOMAIN own : StartsIn(of[j], own[j].lo, own[j].hi) /\ \A d \in D[j] : d \subseteq LinesOf(own[j])
    BY <1>7
  <2>2. /\ flat \in Seq(Spanning) /\ ChunkedBy(flat, own)
        /\ \A a, b \in Nat : (\A j \in DOMAIN own : a <= own[j].lo /\ own[j].hi <= b) => StartsIn(flat, a, b)
        /\ (\A j \in DOMAIN own : CoversAll(of[j], D[j])) => CoversAll(flat, all)
        /\ (\A j \in DOMAIN own : HitsAll(of[j], D[j])) /\ Leads(of, own) => HitsAll(flat, all)
    <3>1. Gathered(flat, own, of, D, all)
      BY <1>3, <1>8, <2>1, NodesAttend
    <3> QED
      BY <3>1 DEF Gathered
  <2> HIDE DEF flat, all
  <2> QED
    BY <1>7, <2>2
<1> HIDE DEF flat, all
<1>13. StartsIn(flat, n.lo, n.hi)
  <2>1. StartsIn(flat, n.head, n.hi)
    BY <1>1, <1>4, <1>12
  <2> QED
    BY <1>1, <1>12, <2>1, StartsEarlier
<1>14. (\A o \in S : ObjectsApart(o.kids)) => HitsAll(flat, all)
  <2> SUFFICES ASSUME \A o \in S : ObjectsApart(o.kids) PROVE HitsAll(flat, all)
    OBVIOUS
  <2>1. ObjectsApart(own)
    BY <1>3, <1>10
  <2>2. Leads(of, own)
    BY <1>7, <2>1 DEF Leads, ObjectsApart
  <2> QED
    BY <1>7, <1>12, <2>2
<1>15. /\ first \o flat \in Seq(Spanning) /\ StartsIn(first \o flat, n.lo, n.hi)
       /\ CoversAll(first \o flat, all) /\ (HitsAll(flat, all) => HitsAll(first \o flat, all))
  <2>1. all \in SUBSET SUBSET Nat
    BY <1>11
  <2>2. first \o flat \in Seq(Spanning)
    BY <1>6, <1>12, ConcatProperties
  <2>3. \A l : Yields(first, flat, l)
    BY <1>1, <1>6, <1>12, ShellYields DEF own
  <2>4. /\ StartsIn(first \o flat, n.lo, n.hi)
        /\ \A E \in SUBSET SUBSET Nat : (CoversAll(flat, E) => CoversAll(first \o flat, E)) /\ (HitsAll(flat, E) => HitsAll(first \o flat, E))
    BY <1>1, <1>6, <1>12, <1>13, <2>3, JoinAttends
  <2> QED
    BY <1>12, <2>1, <2>2, <2>4
<1>16. Attended(first \o flat, n, S)
  <2>1. CoversAll(first \o flat, LinesOfEach(MethodsIn(S)))
    BY <1>9, <1>15 DEF CoversAll
  <2>2. HitsAll(first \o flat, all) => HitsAll(first \o flat, LinesOfEach(MethodsIn(S)))
    BY <1>9 DEF HitsAll
  <2> QED
    BY <1>14, <1>15, <2>1, <2>2 DEF Attended, Serves
<1>17. Attended(WholeObject(n), n, S)
  BY WholeAttends DEF S
<1> HIDE DEF cond
<1> QED
  BY <1>2, <1>16, <1>17 DEF S

(* An object, however deep objects nest and however deep they are cut.       *)
LEMMA ObjectAttends ==
  ASSUME NEW n \in Nodes, n.type = "object"
  PROVE  Attended(TsObject(n), n, ObjectsIn(n))
<1>1. PICK f : FoundBy(f) /\ \A m \in Nodes : ObjectsIn(m) = f[Nesting][m]
  BY FoundRecursion
<1>2. PICK g : CutBy(g) /\ \A m \in Nodes : TsObject(m) = g[ObjectDepth][m]
  BY ObjectRecursion
<1> DEFINE D == ObjectDepth
           Fine(left) == \A j \in 0 .. Nesting : \A m \in Nodes : m.type = "object" => Attended(g[left][m], m, f[j][m])
           Good == {left \in 0 .. D : Fine(left)}
<1>3. D \in Nat /\ Nesting \in Nat
  BY NodesAssumption, FilesAssumption
<1>4. 0 \in Good
  <2>1. \A m \in Nodes : g[0][m] = WholeObject(m)
    BY <1>2 DEF CutBy
  <2>2. Fine(0)
    BY <1>1, <2>1, WholeAttends
  <2> QED
    BY <1>3, <2>2
<1>5. ASSUME NEW left \in 1 .. D, left - 1 \in Good PROVE left \in Good
  <2>1. Fine(left - 1) /\ left - 1 \in 0 .. D
    BY <1>3, <1>5
  <2>2. g[left - 1] \in ObjectLists
    BY <1>2, <2>1 DEF CutBy
  <2>3. \A m \in Nodes : g[left][m] = CutObject(m, g[left - 1])
    <3>1. g[left] = [m \in Nodes |-> CutObject(m, g[left - 1])]
      BY <1>2 DEF CutBy
    <3> QED
      BY <3>1
  <2>4. Fine(left)
    BY <1>1, <2>1, <2>2, <2>3, CutAttends
  <2> QED
    BY <1>3, <2>4
<1>6. Fine(D)
  <2> HIDE DEF Good, D
  <2>1. \A left \in 0 .. D : left \in Good
    BY <1>3, <1>4, <1>5, UpTo
  <2> QED
    BY <1>3, <2>1 DEF Good
<1>7. Nesting \in 0 .. Nesting
  BY <1>3
<1> QED
  BY <1>1, <1>2, <1>6, <1>7

(* A text of lines that are not looked into is one chunk.                    *)
LEMMA WholeTextHits ==
  ASSUME NEW h \in Nat
  PROVE  LET cs == FallbackChunks([l \in 1 .. h |-> "text"])
         IN  \A D \in SUBSET SUBSET (1 .. h) : {} \notin D => CoversAll(cs, D) /\ HitsAll(cs, D)
<1> DEFINE text == [l \in 1 .. h |-> "text"]
           cs == FallbackChunks(text)
<1>1. text \in Seq({"text"}) /\ Len(text) = h /\ \A l \in 1 .. h : text[l] = "text"
  OBVIOUS
<1>2. cs \in Seq(Spanning) /\ Once(cs, 1 .. h)
  BY WholeTextKept
<1> HIDE DEF text
<1>3. ASSUME h # 0 PROVE DOMAIN cs = {1} /\ cs[1].start = 1
  <2> DEFINE starts == Ordered({1})
             last(s) == Max({l \in s .. Len(text) : s .. l \subseteq Ink(text)})
             line(s) == IF s = 2 /\ text[1] = "blank" THEN 1 ELSE s
             block(s) == Chunk(s .. last(s), line(s), line(s) + last(s) - s, "", "block")
  <2>1. BlockStarts(text) = {1}
    <3>1. \A l \in 1 .. h : l \in Ink(text)
      BY <1>1, TextIs
    <3>2. Ink(text) \subseteq 1 .. h /\ 1 \in 1 .. h
      BY <1>1, <1>3, TextIs
    <3>3. \A l \in 1 .. h : l # 1 => l - 1 \in 1 .. h
      OBVIOUS
    <3>4. \A l \in 1 .. h : text[l] # "blank"
      BY <1>1
    <3> QED
      BY <3>1, <3>2, <3>3, <3>4 DEF BlockStarts
  <2>2. DOMAIN starts = {1} /\ starts[1] = 1
    <3>1. IsFiniteSet({1}) /\ Cardinality({1}) = 1 /\ {1} \in SUBSET Nat
      BY FS_Singleton
    <3>2. starts \in Seq({1}) /\ DOMAIN starts = 1 .. 1
      BY <3>1, OrderedIs
    <3> QED
      BY <3>2
  <2>3. cs = [k \in DOMAIN starts |-> block(starts[k])]
    BY <2>1 DEF FallbackChunks
  <2> HIDE DEF starts, cs
  <2>4. DOMAIN cs = {1} /\ cs[1] = block(1)
    BY <2>2, <2>3
  <2>5. line(1) = 1
    OBVIOUS
  <2>6. block(1).start = line(1)
    BY DEF Chunk
  <2> QED
    BY <2>4, <2>5, <2>6
<1> HIDE DEF cs
<1>4. ASSUME h # 0 PROVE 1 .. h \subseteq cs[1].units
  BY <1>2, <1>3, <1>4 DEF Once
<1>5. ASSUME NEW l \in 1 .. h PROVE Hits(cs, l)
  <2>1. h # 0
    BY <1>5
  <2>2. l \in cs[1].units
    BY <1>4, <2>1
  <2>3. cs[1].start <= l /\ DOMAIN cs = {1}
    BY <1>3, <2>1
  <2> QED
    BY <1>3, <2>1, <2>2, <2>3, AloneHits
<1>6. ASSUME NEW D \in SUBSET SUBSET (1 .. h), {} \notin D PROVE CoversAll(cs, D) /\ HitsAll(cs, D)
  <2>1. ASSUME NEW d \in D PROVE d \subseteq cs[1].units /\ 1 \in DOMAIN cs
    <3>1. d \subseteq 1 .. h /\ d # {}
      BY <1>6
    <3>2. h # 0
      <4>1. PICK l \in d : l \in 1 .. h
        BY <3>1
      <4> QED
        BY <4>1
    <3> QED
      BY <1>3, <1>4, <3>1, <3>2
  <2>2. \A d \in D : \A l \in d : l \in 1 .. h
    OBVIOUS
  <2> QED
    BY <1>5, <2>1, <2>2 DEF CoversAll, HitsAll
<1> QED
  BY <1>6 DEF cs, text

(* So no fallback loses a definition.                                        *)
LEMMA OrFallbackAttends ==
  ASSUME NEW f, f.text \in Seq(Nodes), NEW made \in Seq(Spanning),
         NEW D \in SUBSET SUBSET (1 .. TextHeight(f.text)), {} \notin D
  PROVE  /\ CoversAll(made, D) => CoversAll(OrFallback(f, made), D)
         /\ HitsAll(made, D) => HitsAll(OrFallback(f, made), D)
<1> DEFINE h == TextHeight(f.text)
<1>1. h \in Nat
  BY HeightIs
<1> HIDE DEF h
<1>2. D \in SUBSET SUBSET (1 .. h)
  BY DEF h
<1>3. CoversAll(FallbackChunks([l \in 1 .. h |-> "text"]), D) /\ HitsAll(FallbackChunks([l \in 1 .. h |-> "text"]), D)
  BY <1>1, <1>2, WholeTextHits
<1> QED
  BY <1>3 DEF OrFallback, h

(* Definitions of a node are nodes on its lines.                             *)
LEMMA DefinitionsWithin ==
  ASSUME NEW n \in Nodes, NEW format
  PROVE  \A m \in DefinitionsOf(n, format) : m \in Nodes /\ LinesOf(m) \subseteq LinesOf(n) /\ LinesOf(m) # {}
<1> SUFFICES ASSUME NEW m \in DefinitionsOf(n, format)
             PROVE  m \in Nodes /\ LinesOf(m) \subseteq LinesOf(n)
  <2>1. \A x \in Nodes : LinesOf(x) # {}
    <3> SUFFICES ASSUME NEW x \in Nodes PROVE LinesOf(x) # {}
      OBVIOUS
    <3>1. x.lo \in Nat /\ x.hi \in Nat /\ x.lo <= x.hi
      BY NodeIs
    <3>2. x.lo \in LinesOf(x)
      BY <3>1 DEF LinesOf
    <3> QED
      BY <3>2
  <2> QED
    BY <2>1
<1>1. CASE n.type = "function"
  BY <1>1 DEF DefinitionsOf
<1>2. CASE n.type = "class"
  <2>1. m \in Range(n.kids)
    BY <1>2 DEF DefinitionsOf
  <2> QED
    BY <1>2, <2>1, KidsSucceed
<1>3. CASE n.type = "object"
  <2>1. m \in MethodsIn(ObjectsIn(n))
    BY <1>3 DEF DefinitionsOf, MethodsIn
  <2>2. PICK f : FoundBy(f) /\ \A x \in Nodes : ObjectsIn(x) = f[Nesting][x]
    BY FoundRecursion
  <2>3. Nesting \in 0 .. Nesting
    <3>1. Nesting \in Nat
      BY FilesAssumption
    <3> QED
      BY <3>1
  <2>4. \A o \in f[Nesting][n] : o \in Nodes /\ o.type = "object" /\ LinesOf(o) \subseteq LinesOf(n)
    BY <1>3, <2>2, <2>3, FoundWithin
  <2> QED
    BY <2>1, <2>2, <2>4, MethodsWithin
<1>4. CASE n.type \notin {"function", "class", "object"}
  BY <1>4 DEF DefinitionsOf
<1> QED
  BY <1>1, <1>2, <1>3, <1>4

(* What the chunks of a list of nodes are to their definitions D.            *)
Sourced(flat, nodes, of, format, D) ==
  /\ flat \in Seq(Spanning)
  /\ \A b \in Nat : (\A k \in DOMAIN nodes : nodes[k].hi <= b) => StartsIn(flat, 1, b)
  /\ CoversAll(flat, D)
  /\ (\A k \in DOMAIN nodes : HitsAll(of[k], LinesOfEach(DefinitionsOf(nodes[k], format)))) /\ Leads(of, nodes)
       => HitsAll(flat, D)
  /\ \A k \in DOMAIN nodes : \A d \in LinesOfEach(DefinitionsOf(nodes[k], format)) :
       \E i \in DOMAIN flat : d \subseteq flat[i].units /\ nodes[k].lo <= flat[i].start

(* The chunks of a list of nodes, when those of each node serve it.          *)
LEMMA SourceAttends ==
  ASSUME NEW format, NEW nodes \in Seq(Nodes), Successive(nodes), NEW of \in [DOMAIN nodes -> Seq(Spanning)],
         \A k \in DOMAIN nodes : Serves(of[k], nodes[k], DefinitionsOf(nodes[k], format))
  PROVE  Sourced(FlattenSeq(of), nodes, of, format, LinesOfEach(Definitions(nodes, format)))
<1> DEFINE flat == FlattenSeq(of)
           D == [k \in DOMAIN nodes |-> LinesOfEach(DefinitionsOf(nodes[k], format))]
           all == UNION {D[k] : k \in DOMAIN nodes}
<1>1. all = LinesOfEach(Definitions(nodes, format))
  <2>1. \A d : d \in all <=> \E k \in DOMAIN nodes : d \in LinesOfEach(DefinitionsOf(nodes[k], format))
    OBVIOUS
  <2>2. \A d : d \in LinesOfEach(Definitions(nodes, format))
                 <=> \E k \in DOMAIN nodes : d \in LinesOfEach(DefinitionsOf(nodes[k], format))
    BY DEF LinesOfEach, Definitions, Range
  <2> HIDE DEF all
  <2> QED
    BY <2>1, <2>2
<1>2. \A k \in DOMAIN nodes : D[k] = LinesOfEach(DefinitionsOf(nodes[k], format)) /\ nodes[k] \in Nodes
  OBVIOUS
<1> HIDE DEF D
<1>3. \A k \in DOMAIN nodes : StartsIn(of[k], nodes[k].lo, nodes[k].hi) /\ \A d \in D[k] : d \subseteq LinesOf(nodes[k])
  <2> SUFFICES ASSUME NEW k \in DOMAIN nodes
               PROVE  StartsIn(of[k], nodes[k].lo, nodes[k].hi) /\ \A d \in D[k] : d \subseteq LinesOf(nodes[k])
    OBVIOUS
  <2>1. \A d \in D[k] : \E m \in DefinitionsOf(nodes[k], format) : d = LinesOf(m)
    BY <1>2 DEF LinesOfEach
  <2>2. \A m \in DefinitionsOf(nodes[k], format) : LinesOf(m) \subseteq LinesOf(nodes[k])
    BY <1>2, DefinitionsWithin
  <2>3. StartsIn(of[k], nodes[k].lo, nodes[k].hi)
    BY DEF Serves
  <2> QED
    BY <2>1, <2>2, <2>3
<1>4. /\ flat \in Seq(Spanning)
      /\ \A a, b \in Nat : (\A k \in DOMAIN nodes : a <= nodes[k].lo /\ nodes[k].hi <= b) => StartsIn(flat, a, b)
      /\ (\A k \in DOMAIN nodes : CoversAll(of[k], D[k])) => CoversAll(flat, all)
      /\ (\A k \in DOMAIN nodes : HitsAll(of[k], D[k])) /\ Leads(of, nodes) => HitsAll(flat, all)
      /\ \A k \in DOMAIN nodes : \A i \in DOMAIN of[k] : \E p \in DOMAIN flat : flat[p] = of[k][i]
  <2>1. Gathered(flat, nodes, of, D, all)
    BY <1>3, NodesAttend
  <2> QED
    BY <2>1 DEF Gathered
<1> HIDE DEF flat, all
<1>5. \A k \in DOMAIN nodes : CoversAll(of[k], D[k])
  BY <1>2 DEF Serves
<1>6. \A k \in DOMAIN nodes : 1 <= nodes[k].lo
  BY <1>2, NodeIs
<1>7. \A b \in Nat : (\A k \in DOMAIN nodes : nodes[k].hi <= b) => StartsIn(flat, 1, b)
  BY <1>4, <1>6
<1>8. ASSUME NEW k \in DOMAIN nodes, NEW d \in D[k]
      PROVE  \E i \in DOMAIN flat : d \subseteq flat[i].units /\ nodes[k].lo <= flat[i].start
  <2>1. PICK i \in DOMAIN of[k] : d \subseteq of[k][i].units
    BY <1>5 DEF CoversAll
  <2>2. nodes[k].lo <= of[k][i].start
    BY <1>3 DEF StartsIn
  <2>3. PICK p \in DOMAIN flat : flat[p] = of[k][i]
    BY <1>4
  <2> QED
    BY <2>1, <2>2, <2>3
<1>9. CoversAll(flat, all)
  BY <1>4, <1>5
<1>10. (\A k \in DOMAIN nodes : HitsAll(of[k], LinesOfEach(DefinitionsOf(nodes[k], format)))) /\ Leads(of, nodes)
         => HitsAll(flat, all)
  BY <1>2, <1>4
<1>11. \A k \in DOMAIN nodes : \A d \in LinesOfEach(DefinitionsOf(nodes[k], format)) :
         \E i \in DOMAIN flat : d \subseteq flat[i].units /\ nodes[k].lo <= flat[i].start
  BY <1>2, <1>8
<1>12. Sourced(flat, nodes, of, format, all)
  BY <1>4, <1>7, <1>9, <1>10, <1>11 DEF Sourced
<1> QED
  BY <1>1, <1>12 DEF flat

(* Definitions of a text are on lines of the text.                           *)
LEMMA DefinitionsInText ==
  ASSUME NEW nodes \in Seq(Nodes), NEW format
  PROVE  /\ LinesOfEach(Definitions(nodes, format)) \in SUBSET SUBSET (1 .. TextHeight(nodes))
         /\ {} \notin LinesOfEach(Definitions(nodes, format))
<1> SUFFICES ASSUME NEW m \in Definitions(nodes, format)
             PROVE  LinesOf(m) \subseteq 1 .. TextHeight(nodes) /\ LinesOf(m) # {}
  BY DEF LinesOfEach
<1>1. PICK k \in DOMAIN nodes : m \in DefinitionsOf(nodes[k], format)
  BY DEF Definitions, Range
<1>2. nodes[k] \in Nodes
  OBVIOUS
<1>3. LinesOf(m) \subseteq LinesOf(nodes[k]) /\ LinesOf(m) # {}
  BY <1>1, <1>2, DefinitionsWithin
<1>4. LinesOf(nodes[k]) \subseteq LinesOfAll(nodes)
  BY DEF LinesOfAll
<1> QED
  BY <1>3, <1>4, HeightIs

(* None of some types starts before the first of them.                       *)
LEMMA FirstIsFirst ==
  ASSUME NEW nodes \in Seq(Nodes), Successive(nodes), NEW types, NEW k \in DOMAIN nodes, nodes[k].type \in types
  PROVE  OfType(nodes, types) # <<>> /\ OfType(nodes, types)[1] \in Nodes /\ OfType(nodes, types)[1].lo <= nodes[k].lo
<1> DEFINE defs == OfType(nodes, types)
<1>1. defs \in Seq(Nodes) /\ Successive(defs) /\ Range(defs) = {n \in Range(nodes) : n.type \in types}
  BY OfTypeOrder
<1> HIDE DEF defs
<1>2. nodes[k] \in Range(nodes)
  BY DEF Range
<1>3. PICK j \in DOMAIN defs : defs[j] = nodes[k]
  BY <1>1, <1>2 DEF Range
<1>4. DOMAIN defs = 1 .. Len(defs) /\ Len(defs) \in Nat
  BY <1>1, LenProperties
<1>5. 1 \in DOMAIN defs /\ (j = 1 \/ 1 \in 1 .. j - 1)
  BY <1>4
<1>6. defs[1] \in Nodes /\ defs[j] \in Nodes
  BY <1>1, <1>5
<1>7. PICK a \in Nat, b \in Nat, c \in Nat : a = defs[1].lo /\ b = defs[1].hi /\ c = nodes[k].lo
  BY <1>3, <1>6, NodeIs
<1>8. a <= b
  <2>1. defs[1].lo <= defs[1].head /\ defs[1].head <= defs[1].hi /\ defs[1].head \in Nat
    BY <1>6, NodeIs
  <2> QED
    BY <1>7, <2>1
<1>9. j = 1 => a = c
  BY <1>3, <1>7
<1>10. j # 1 => b <= c
  BY <1>1, <1>3, <1>5, <1>7 DEF Successive
<1>11. a <= c
  BY <1>5, <1>8, <1>9, <1>10
<1>12. defs # <<>>
  BY <1>5
<1> QED
  BY <1>6, <1>7, <1>11, <1>12 DEF defs

(* The preamble starts where the text does and ends before the definitions.  *)
LEMMA PreambleStarts ==
  ASSUME NEW nodes \in Seq(Nodes), Successive(nodes), NEW types
  PROVE  LET pre == Preamble(nodes, types)
         IN  /\ pre \in Seq(Spanning)
             /\ \A p \in DOMAIN pre : pre[p].start = 1
             /\ \A k \in DOMAIN nodes : nodes[k].type \in types => \A p \in DOMAIN pre : EndsBy(pre[p], nodes[k].lo)
<1> DEFINE defs == OfType(nodes, types)
           before == IF defs = <<>> THEN {} ELSE 1 .. defs[1].lo - 1
           units == Strip(before, before \ InkOfAll(nodes))
           noise == Len(nodes) > 0 /\ units = InkOf(nodes[1]) /\ nodes[1].brief
           c == Chunk(units, 1, Max(before), "", "module")
           pre == Preamble(nodes, types)
<1>1. pre \in Seq(Spanning)
  BY PreambleIs
<1>2. pre = IF noise THEN <<>> ELSE IfAny(units, c)
  BY DEF Preamble
<1>3. \A k \in DOMAIN nodes : nodes[k].type \in types => \A u \in units : u <= nodes[k].lo
  <2> SUFFICES ASSUME NEW k \in DOMAIN nodes, nodes[k].type \in types PROVE \A u \in units : u <= nodes[k].lo
    OBVIOUS
  <2>1. defs # <<>> /\ defs[1] \in Nodes /\ defs[1].lo <= nodes[k].lo
    BY FirstIsFirst
  <2> HIDE DEF defs
  <2>2. nodes[k] \in Nodes
    OBVIOUS
  <2>3. PICK a \in Nat, b \in Nat : a = defs[1].lo /\ b = nodes[k].lo
    BY <2>1, <2>2, NodeIs
  <2>4. before = 1 .. a - 1 /\ a - 1 \in Int
    BY <2>1, <2>3
  <2> HIDE DEF before
  <2>5. units \subseteq 1 .. a - 1
    BY <2>4, StripKeeps
  <2> HIDE DEF units
  <2> QED
    BY <2>1, <2>3, <2>5
<1>4. c.start = 1 /\ c.units = units
  BY DEF Chunk
<1> HIDE DEF c, units, noise, pre
<1>5. \A p \in DOMAIN pre : pre[p] = c
  BY <1>2 DEF IfAny
<1> QED
  BY <1>1, <1>3, <1>4, <1>5 DEF EndsBy, pre

(* A node that is one chunk, and one that has none.                          *)
LEMMA PlainAttends ==
  ASSUME NEW n \in Nodes, NEW kind \in Labels, NEW S \in SUBSET {n}
  PROVE  /\ Serves(<<NodeChunk(n, kind)>>, n, S) /\ HitsAll(<<NodeChunk(n, kind)>>, LinesOfEach(S))
         /\ Calm(<<NodeChunk(n, kind)>>, n.lo)
         /\ Serves(<<>>, n, {}) /\ HitsAll(<<>>, LinesOfEach({})) /\ Calm(<<>>, n.lo)
<1>1. LinesOfEach(S) \in SUBSET SUBSET LinesOf(n)
  BY DEF LinesOfEach
<1>2. n.lo \in Nat /\ n.lo <= n.lo
  <2>1. n.lo \in Nat
    BY NodeIs
  <2> QED
    BY <2>1
<1>3. /\ <<NodeChunk(n, kind)>> \in Seq(Spanning) /\ StartsIn(<<NodeChunk(n, kind)>>, n.lo, n.hi)
      /\ Calm(<<NodeChunk(n, kind)>>, n.lo)
      /\ CoversAll(<<NodeChunk(n, kind)>>, LinesOfEach(S)) /\ HitsAll(<<NodeChunk(n, kind)>>, LinesOfEach(S))
  BY <1>1, <1>2, OneNode
<1>4. <<>> \in Seq(Spanning) /\ StartsIn(<<>>, n.lo, n.hi) /\ CoversAll(<<>>, LinesOfEach({})) /\ HitsAll(<<>>, LinesOfEach({}))
      /\ Calm(<<>>, n.lo)
  BY DEF StartsIn, CoversAll, HitsAll, LinesOfEach, Calm
<1> QED
  BY <1>3, <1>4 DEF Serves

(* A node of each language: its definitions are on lines that go to chunks   *)
(* that have them.                                                           *)
LEMMA TsNodeAttends ==
  ASSUME NEW n \in Nodes, NEW format \in {"typescript", "vue"}
  PROVE  LET S == DefinitionsOf(n, format)
         IN  /\ Serves(TsNode(n), n, S)
             /\ n.type # "object" \/ (\A o \in ObjectsIn(n) : ObjectsApart(o.kids)) => HitsAll(TsNode(n), LinesOfEach(S))
             /\ n.type # "object" => Calm(TsNode(n), n.lo)
<1> DEFINE S == DefinitionsOf(n, format)
<1>1. Serves(<<>>, n, {}) /\ HitsAll(<<>>, LinesOfEach({})) /\ Calm(<<>>, n.lo)
  BY PlainAttends, KindsAre
<1>2. CASE n.type = "class"
  <2>1. TsNode(n) = TsClass(n)
    BY <1>2 DEF TsNode, TsDeclarations
  <2>2. S = MembersOf(n, {"method"})
    BY <1>2 DEF DefinitionsOf, MembersOf
  <2> HIDE DEF S
  <2>3. /\ Serves(TsClass(n), n, S) /\ HitsAll(TsClass(n), LinesOfEach(S)) /\ Calm(TsClass(n), n.lo)
    BY <1>2, <2>2, TsClassAttends
  <2> QED
    BY <2>1, <2>3 DEF S
<1>3. CASE n.type = "object" /\ n.exported
  <2>1. TsNode(n) = TsObject(n)
    BY <1>3 DEF TsNode
  <2>2. S = MethodsIn(ObjectsIn(n))
    BY <1>3 DEF DefinitionsOf, MethodsIn
  <2> HIDE DEF S
  <2>3. Attended(TsObject(n), n, ObjectsIn(n))
    BY <1>3, ObjectAttends
  <2> QED
    BY <1>3, <2>1, <2>2, <2>3 DEF Attended, S
<1>4. CASE n.type = "object" /\ ~n.exported
  <2>1. TsNode(n) = <<>> /\ S = {}
    BY <1>4 DEF TsNode, TsDeclarations, DefinitionsOf
  <2> HIDE DEF S
  <2> QED
    BY <1>1, <2>1 DEF S
<1>5. CASE n.type = "function"
  <2>1. TsNode(n) = <<NodeChunk(n, "function")>> /\ S = {n}
    BY <1>5 DEF TsNode, TsDeclarations, DefinitionsOf
  <2> HIDE DEF S
  <2>2. /\ Serves(<<NodeChunk(n, "function")>>, n, S) /\ HitsAll(<<NodeChunk(n, "function")>>, LinesOfEach(S))
        /\ Calm(<<NodeChunk(n, "function")>>, n.lo)
    BY <2>1, PlainAttends, KindsAre
  <2> QED
    BY <2>1, <2>2 DEF S
<1>6. CASE n.type \notin {"class", "object", "function"}
  <2>1. (TsNode(n) = <<>> \/ TsNode(n) = <<NodeChunk(n, "block")>>) /\ S = {}
    BY <1>6 DEF TsNode, DefinitionsOf
  <2> HIDE DEF S
  <2>2. /\ Serves(<<NodeChunk(n, "block")>>, n, {}) /\ HitsAll(<<NodeChunk(n, "block")>>, LinesOfEach({}))
        /\ Calm(<<NodeChunk(n, "block")>>, n.lo)
    BY PlainAttends, KindsAre
  <2> QED
    BY <1>1, <2>1, <2>2 DEF S
<1> QED
  BY <1>2, <1>3, <1>4, <1>5, <1>6

(* Python.                                                                   *)
LEMMA PyNodeAttends ==
  ASSUME NEW n \in Nodes
  PROVE  LET S == DefinitionsOf(n, "python")
         IN  /\ Serves(PyNode(n), n, S) /\ HitsAll(PyNode(n), LinesOfEach(S))
             /\ n.type # "class" => Calm(PyNode(n), n.lo)
<1> DEFINE S == DefinitionsOf(n, "python")
<1>1. Serves(<<>>, n, {}) /\ HitsAll(<<>>, LinesOfEach({})) /\ Calm(<<>>, n.lo)
  BY PlainAttends, KindsAre
<1>2. CASE n.type = "class"
  <2>1. PyNode(n) = PyClass(n)
    BY <1>2 DEF PyNode
  <2>2. S = MembersOf(n, {"function"})
    BY <1>2 DEF DefinitionsOf, MembersOf
  <2> HIDE DEF S
  <2>3. Serves(PyClass(n), n, S) /\ HitsAll(PyClass(n), LinesOfEach(S))
    BY <1>2, <2>2, PyClassAttends
  <2> QED
    BY <1>2, <2>1, <2>3 DEF S
<1>3. CASE n.type = "function"
  <2>1. PyNode(n) = <<NodeChunk(n, "function")>> /\ S = {n}
    BY <1>3 DEF PyNode, DefinitionsOf
  <2> HIDE DEF S
  <2>2. /\ Serves(<<NodeChunk(n, "function")>>, n, S) /\ HitsAll(<<NodeChunk(n, "function")>>, LinesOfEach(S))
        /\ Calm(<<NodeChunk(n, "function")>>, n.lo)
    BY <2>1, PlainAttends, KindsAre
  <2> QED
    BY <2>1, <2>2 DEF S
<1>4. CASE n.type \notin {"class", "function"}
  <2>1. (PyNode(n) = <<>> \/ PyNode(n) = <<NodeChunk(n, "module")>>) /\ S = {}
    BY <1>4 DEF PyNode, DefinitionsOf
  <2> HIDE DEF S
  <2>2. /\ Serves(<<NodeChunk(n, "module")>>, n, {}) /\ HitsAll(<<NodeChunk(n, "module")>>, LinesOfEach({}))
        /\ Calm(<<NodeChunk(n, "module")>>, n.lo)
    BY PlainAttends, KindsAre
  <2> QED
    BY <1>1, <2>1, <2>2 DEF S
<1> QED
  BY <1>2, <1>3, <1>4

(* PHP.                                                                      *)
LEMMA PhpNodeAttends ==
  ASSUME NEW n \in Nodes
  PROVE  LET S == DefinitionsOf(n, "php")
         IN  Serves(PhpNode(n), n, S) /\ HitsAll(PhpNode(n), LinesOfEach(S)) /\ (n.lo \in InkOf(n) => Calm(PhpNode(n), n.lo))
<1> DEFINE S == DefinitionsOf(n, "php")
<1>1. Serves(<<>>, n, {}) /\ HitsAll(<<>>, LinesOfEach({})) /\ Calm(<<>>, n.lo)
  BY PlainAttends, KindsAre
<1>2. CASE n.type = "class"
  <2>1. S = MembersOf(n, {"method"})
    BY <1>2 DEF DefinitionsOf, MembersOf
  <2> HIDE DEF S
  <2>2. Serves(PhpNode(n), n, S) /\ HitsAll(PhpNode(n), LinesOfEach(S)) /\ Calm(PhpNode(n), n.lo)
    BY <1>2, <2>1, PhpClassAttends
  <2> QED
    BY <2>2 DEF S
<1>3. CASE n.type = "function"
  <2>1. PhpNode(n) = <<NodeChunk(n, "function")>> /\ S = {n}
    BY <1>3 DEF PhpNode, DefinitionsOf
  <2> HIDE DEF S
  <2>2. /\ Serves(<<NodeChunk(n, "function")>>, n, S) /\ HitsAll(<<NodeChunk(n, "function")>>, LinesOfEach(S))
        /\ Calm(<<NodeChunk(n, "function")>>, n.lo)
    BY <2>1, PlainAttends, KindsAre
  <2> QED
    BY <2>1, <2>2 DEF S
<1>4. CASE n.type \notin {"class", "function"}
  <2> DEFINE c == Chunk(InkOf(n), n.lo, n.hi, n.type, "block")
  <2>1. (PhpNode(n) = <<>> \/ PhpNode(n) = <<c>>) /\ S = {}
    BY <1>4 DEF PhpNode, DefinitionsOf
  <2> HIDE DEF S
  <2>2. n.lo \in Nat /\ n.head \in Nat /\ n.hi \in Nat /\ n.lo <= n.head /\ n.head <= n.hi /\ n.type \in Labels
    BY NodeIs
  <2>3. InkOf(n) \in SUBSET Nat /\ \A u \in InkOf(n) : n.lo <= u /\ u <= n.hi
    BY <2>2 DEF InkOf
  <2>4. c.start = n.lo /\ c.units = InkOf(n)
    BY DEF Chunk
  <2>5. c \in Spanning
    <3>1. n.lo <= n.hi
      BY <2>2
    <3> QED
      BY <2>2, <2>3, <3>1, ChunkType, KindsAre
  <2> HIDE DEF c
  <2> DEFINE cs == <<c>>
  <2>6. cs \in Seq(Spanning) /\ DOMAIN cs = {1} /\ cs[1] = c
    BY <2>5
  <2> HIDE DEF cs
  <2>7. StartsIn(cs, n.lo, n.hi)
    <3>1. n.lo <= n.lo /\ n.lo <= n.hi
      BY <2>2
    <3> QED
      BY <2>3, <2>4, <2>6, <3>1 DEF StartsIn, EndsBy
  <2>8. n.lo \in InkOf(n) => Calm(cs, n.lo)
    <3>1. n.lo \in Int
      BY <2>2
    <3>2. n.lo \in InkOf(n) => Hits(cs, n.lo)
      BY <2>4, <2>6, <3>1, AloneHits
    <3> QED
      BY <3>2 DEF Calm
  <2>9. Serves(cs, n, {}) /\ HitsAll(cs, LinesOfEach({}))
    BY <2>6, <2>7 DEF Serves, CoversAll, HitsAll, LinesOfEach
  <2> QED
    BY <1>1, <2>1, <2>8, <2>9 DEF S, cs
<1> QED
  BY <1>2, <1>3, <1>4

(* The source of a script or a file of TypeScript.                           *)
LEMMA TsSourceAttends ==
  ASSUME NEW nodes \in Seq(Nodes), Successive(nodes), NEW format \in {"typescript", "vue"}
  PROVE  LET D == LinesOfEach(Definitions(nodes, format))
         IN  /\ TsSource(nodes) \in Seq(Spanning)
             /\ \A b \in Nat : (\A k \in DOMAIN nodes : nodes[k].hi <= b) => StartsIn(TsSource(nodes), 1, b)
             /\ CoversAll(TsSource(nodes), D)
             /\ AllApart(nodes) => HitsAll(TsSource(nodes), D)
<1> DEFINE of == [k \in DOMAIN nodes |-> TsNode(nodes[k])]
           S(k) == DefinitionsOf(nodes[k], format)
           D == LinesOfEach(Definitions(nodes, format))
<1>1. TsSource(nodes) = FlattenSeq(of)
  BY DEF TsSource, ChunksOfAll
<1>2. \A k \in DOMAIN nodes :
        /\ of[k] = TsNode(nodes[k]) /\ nodes[k] \in Range(nodes) /\ Serves(of[k], nodes[k], S(k))
        /\ nodes[k].type # "object" \/ (\A o \in ObjectsIn(nodes[k]) : ObjectsApart(o.kids)) => HitsAll(of[k], LinesOfEach(S(k)))
        /\ nodes[k].type # "object" => Calm(of[k], nodes[k].lo)
  <2> SUFFICES ASSUME NEW k \in DOMAIN nodes
               PROVE  /\ nodes[k] \in Range(nodes) /\ Serves(TsNode(nodes[k]), nodes[k], S(k))
                      /\ nodes[k].type # "object" \/ (\A o \in ObjectsIn(nodes[k]) : ObjectsApart(o.kids)) => HitsAll(TsNode(nodes[k]), LinesOfEach(S(k)))
                      /\ nodes[k].type # "object" => Calm(TsNode(nodes[k]), nodes[k].lo)
    OBVIOUS
  <2>1. nodes[k] \in Nodes /\ nodes[k] \in Range(nodes)
    BY DEF Range
  <2> QED
    BY <2>1, TsNodeAttends
<1>3. DOMAIN of = DOMAIN nodes
  OBVIOUS
<1>4. of \in [DOMAIN nodes -> Seq(Spanning)]
  <2>1. \A k \in DOMAIN nodes : TsNode(nodes[k]) \in Seq(Spanning)
    BY <1>2 DEF Serves
  <2> QED
    BY <2>1
<1> HIDE DEF of, S
<1>5. /\ FlattenSeq(of) \in Seq(Spanning)
      /\ \A b \in Nat : (\A k \in DOMAIN nodes : nodes[k].hi <= b) => StartsIn(FlattenSeq(of), 1, b)
      /\ CoversAll(FlattenSeq(of), D)
      /\ (\A k \in DOMAIN nodes : HitsAll(of[k], LinesOfEach(DefinitionsOf(nodes[k], format)))) /\ Leads(of, nodes)
           => HitsAll(FlattenSeq(of), D)
  <2>1. \A k \in DOMAIN nodes : Serves(of[k], nodes[k], DefinitionsOf(nodes[k], format))
    BY <1>2 DEF S
  <2> HIDE DEF D
  <2> QED
    <3>1. Sourced(FlattenSeq(of), nodes, of, format, D)
      BY <1>4, <2>1, SourceAttends DEF D
    <3> QED
      BY <3>1 DEF Sourced
<1>6. ASSUME AllApart(nodes) PROVE HitsAll(FlattenSeq(of), D)
  <2>1. \A k \in DOMAIN nodes : HitsAll(of[k], LinesOfEach(DefinitionsOf(nodes[k], format)))
    BY <1>2, <1>6 DEF AllApart, S
  <2>2. Leads(of, nodes)
    BY <1>2, <1>6 DEF Leads, AllApart, ObjectsApart
  <2> QED
    BY <1>5, <2>1, <2>2
<1> QED
  BY <1>1, <1>5, <1>6

(* A file of each language: TypeScript.                                      *)
LEMMA TsFileAttends ==
  ASSUME NEW f, f.text \in Seq(Nodes), Successive(f.text)
  PROVE  LET D == LinesOfEach(Definitions(f.text, "typescript"))
         IN  CoversAll(TsChunks(f), D) /\ (AllApart(f.text) => HitsAll(TsChunks(f), D))
<1> DEFINE D == LinesOfEach(Definitions(f.text, "typescript"))
<1>1. D \in SUBSET SUBSET (1 .. TextHeight(f.text)) /\ {} \notin D
  BY DefinitionsInText
<1>2. /\ TsSource(f.text) \in Seq(Spanning) /\ CoversAll(TsSource(f.text), D)
      /\ AllApart(f.text) => HitsAll(TsSource(f.text), D)
  BY TsSourceAttends
<1> HIDE DEF D
<1>3. /\ CoversAll(TsSource(f.text), D) => CoversAll(OrFallback(f, TsSource(f.text)), D)
      /\ HitsAll(TsSource(f.text), D) => HitsAll(OrFallback(f, TsSource(f.text)), D)
  BY <1>1, <1>2, OrFallbackAttends
<1> QED
  BY <1>2, <1>3 DEF TsChunks, D

(* A preamble and the chunks of nodes, each of which serves its node: no     *)
(* line of the preamble is behind the start of a definition.                 *)
LEMMA FileAttends ==
  ASSUME NEW f, f.text \in Seq(Nodes), Successive(f.text), NEW types, NEW format,
         \A n : DefinitionsOf(n, format) # {} => n.type \in types,
         NEW nodes \in Seq(Nodes), Successive(nodes), Definitions(f.text, format) \subseteq Definitions(nodes, format),
         Range(nodes) \subseteq Range(f.text),
         NEW of \in [DOMAIN nodes -> Seq(Spanning)], Leads(of, nodes),
         \A k \in DOMAIN nodes :
           Serves(of[k], nodes[k], DefinitionsOf(nodes[k], format)) /\ HitsAll(of[k], LinesOfEach(DefinitionsOf(nodes[k], format)))
  PROVE  LET cs == OrFallback(f, Preamble(f.text, types) \o FlattenSeq(of))
             D == LinesOfEach(Definitions(f.text, format))
         IN  CoversAll(cs, D) /\ HitsAll(cs, D)
<1> DEFINE D == LinesOfEach(Definitions(f.text, format))
           E == LinesOfEach(Definitions(nodes, format))
           pre == Preamble(f.text, types)
           flat == FlattenSeq(of)
           made == pre \o flat
           b == TextHeight(f.text)
<1>1. D \in SUBSET SUBSET (1 .. b) /\ {} \notin D /\ D \in SUBSET SUBSET Nat
  <2>1. D \in SUBSET SUBSET (1 .. b) /\ {} \notin D
    BY DefinitionsInText
  <2>2. 1 .. b \subseteq Nat
    BY HeightIs
  <2> HIDE DEF D, b
  <2> QED
    BY <2>1, <2>2
<1>2. D \subseteq E
  BY DEF LinesOfEach
<1>3. b \in Nat /\ (\A k \in DOMAIN nodes : nodes[k].hi <= b) /\ \A k \in DOMAIN nodes : \E j \in DOMAIN f.text : nodes[k] = f.text[j]
  <2>1. b \in Nat /\ \A k \in DOMAIN f.text : f.text[k].hi <= b
    BY HeightIs
  <2>2. \A k \in DOMAIN nodes : \E j \in DOMAIN f.text : nodes[k] = f.text[j]
    BY DEF Range
  <2> QED
    BY <2>1, <2>2
<1>4. /\ flat \in Seq(Spanning) /\ CoversAll(flat, E) /\ HitsAll(flat, E)
      /\ \A x \in Nat : (\A k \in DOMAIN nodes : nodes[k].hi <= x) => StartsIn(flat, 1, x)
      /\ \A k \in DOMAIN nodes : \A d \in LinesOfEach(DefinitionsOf(nodes[k], format)) :
           \E i \in DOMAIN flat : d \subseteq flat[i].units /\ nodes[k].lo <= flat[i].start
  <2>1. Sourced(flat, nodes, of, format, E)
    BY SourceAttends
  <2> QED
    BY <2>1 DEF Sourced
<1>5. /\ pre \in Seq(Spanning)
      /\ \A p \in DOMAIN pre : pre[p].start = 1
      /\ \A k \in DOMAIN f.text : f.text[k].type \in types => \A p \in DOMAIN pre : EndsBy(pre[p], f.text[k].lo)
  BY PreambleStarts
<1>6. \A d \in D : \E k \in DOMAIN nodes : d \in LinesOfEach(DefinitionsOf(nodes[k], format)) /\ nodes[k].type \in types
  <2> SUFFICES ASSUME NEW m \in Definitions(f.text, format)
               PROVE  \E k \in DOMAIN nodes : LinesOf(m) \in LinesOfEach(DefinitionsOf(nodes[k], format)) /\ nodes[k].type \in types
    BY DEF LinesOfEach
  <2>1. PICK k \in DOMAIN nodes : m \in DefinitionsOf(nodes[k], format)
    BY DEF Definitions, Range
  <2> QED
    BY <2>1 DEF LinesOfEach
<1> HIDE DEF D, E, b, flat, pre
<1>7. CoversAll(flat, D) /\ HitsAll(flat, D)
  BY <1>2, <1>4 DEF CoversAll, HitsAll
<1>8. StartsIn(flat, 1, b)
  BY <1>3, <1>4
<1>9. ASSUME NEW d \in D, NEW l \in d PROVE Yields(pre, flat, l)
  <2> SUFFICES ASSUME NEW i \in DOMAIN flat, Goes(flat, i, l), NEW p \in DOMAIN pre
               PROVE  pre[p].start <= flat[i].start /\ EndsBy(pre[p], flat[i].start)
    BY DEF Yields
  <2>1. PICK k \in DOMAIN nodes : d \in LinesOfEach(DefinitionsOf(nodes[k], format)) /\ nodes[k].type \in types
    BY <1>6, <1>9
  <2>2. PICK j \in DOMAIN flat : d \subseteq flat[j].units /\ nodes[k].lo <= flat[j].start
    BY <1>4, <2>1
  <2>3. nodes[k] \in Nodes
    OBVIOUS
  <2>4. PICK lo \in Nat, s \in Nat, t \in Nat : lo = nodes[k].lo /\ s = flat[j].start /\ t = flat[i].start
    BY <1>4, <2>3, NodeIs, StartIs
  <2>5. l \in Nat /\ s <= l /\ lo <= s /\ 1 <= lo
    <3>1. l \in flat[j].units
      BY <1>9, <2>2
    <3>2. flat[j] \in Spanning
      BY <1>4
    <3>3. flat[j].units \in SUBSET Nat /\ flat[j].start <= l
      BY <3>1, <3>2, SpanningParts
    <3> QED
      BY <2>2, <2>3, <2>4, <3>1, <3>3, NodeIs
  <2>6. s <= t
    <3>1. s < t \/ s = t
      BY <2>4, <2>5 DEF Goes, Foremost
    <3> QED
      BY <3>1
  <2>7. \A u \in pre[p].units : u \in Nat /\ u <= lo
    <3>1. EndsBy(pre[p], lo)
      BY <1>3, <1>5, <2>1, <2>4
    <3>2. pre[p] \in Spanning
      BY <1>5
    <3> QED
      BY <3>1, <3>2, SpanningParts DEF EndsBy
  <2>8. EndsBy(pre[p], t)
    <3> SUFFICES ASSUME NEW u \in pre[p].units PROVE u <= t
      BY DEF EndsBy
    <3>1. u \in Nat /\ u <= lo
      BY <2>7
    <3> QED
      BY <2>5, <2>6, <3>1
  <2> QED
    BY <1>5, <2>4, <2>5, <2>6, <2>8
<1>10. ASSUME NEW d \in D PROVE StartsIn(pre, 1, b)
  <2>1. PICK k \in DOMAIN nodes : nodes[k].type \in types
    BY <1>6, <1>10
  <2>2. nodes[k] \in Nodes
    OBVIOUS
  <2>3. PICK lo \in Nat, head \in Nat, hi \in Nat : lo = nodes[k].lo /\ head = nodes[k].head /\ hi = nodes[k].hi
    BY <2>2, NodeIs
  <2>4. 1 <= lo /\ lo <= head /\ head <= hi /\ hi <= b
    BY <1>3, <2>2, <2>3, NodeIs
  <2> SUFFICES ASSUME NEW p \in DOMAIN pre PROVE 1 <= pre[p].start /\ pre[p].start <= b /\ EndsBy(pre[p], b)
    BY DEF StartsIn
  <2>5. EndsBy(pre[p], lo) /\ pre[p] \in Spanning
    BY <1>3, <1>5, <2>1, <2>3
  <2>6. ASSUME NEW u \in pre[p].units PROVE u <= b
    <3>1. u \in Nat /\ u <= lo
      BY <2>5, SpanningParts DEF EndsBy
    <3> QED
      BY <1>3, <2>4, <3>1
  <2> QED
    BY <1>3, <1>5, <2>4, <2>6 DEF EndsBy
<1>11. CoversAll(OrFallback(f, made), D) /\ HitsAll(OrFallback(f, made), D)
  <2>1. CASE D = {}
    BY <2>1 DEF CoversAll, HitsAll
  <2>2. CASE D # {}
    <3>1. StartsIn(pre, 1, b)
      BY <1>10, <2>2
    <3>2. /\ CoversAll(flat, D) => CoversAll(made, D)
          /\ HitsAll(flat, D) /\ (\A d \in D : \A l \in d : Yields(pre, flat, l)) => HitsAll(made, D)
      BY <1>1, <1>3, <1>4, <1>5, <1>8, <3>1, JoinAttends
    <3>3. made \in Seq(Spanning) /\ CoversAll(made, D) /\ HitsAll(made, D)
      BY <1>4, <1>5, <1>7, <1>9, <3>2, ConcatProperties
    <3> HIDE DEF made
    <3>4. D \in SUBSET SUBSET (1 .. TextHeight(f.text))
      BY <1>1 DEF b
    <3> QED
      BY <1>1, <3>3, <3>4, OrFallbackAttends
  <2> QED
    BY <2>1, <2>2
<1> QED
  BY <1>11 DEF made, pre, flat, D

(* Python.  What precedes a class ends on a line before it.                  *)
LEMMA PyFileAttends ==
  ASSUME NEW f, f.text \in Seq(Nodes), Successive(f.text),
         \A k \in DOMAIN f.text : f.text[k].type = "class" => \A j \in 1 .. k - 1 : f.text[j].hi < f.text[k].lo
  PROVE  LET D == LinesOfEach(Definitions(f.text, "python"))
         IN  CoversAll(PyChunks(f), D) /\ HitsAll(PyChunks(f), D)
<1> DEFINE nodes == f.text
           of == [k \in DOMAIN nodes |-> PyNode(nodes[k])]
<1>1. \A k \in DOMAIN nodes :
        /\ of[k] = PyNode(nodes[k]) /\ of[k] \in Seq(Spanning)
        /\ Serves(of[k], nodes[k], DefinitionsOf(nodes[k], "python")) /\ HitsAll(of[k], LinesOfEach(DefinitionsOf(nodes[k], "python")))
        /\ nodes[k].type # "class" => Calm(of[k], nodes[k].lo)
  <2> SUFFICES ASSUME NEW k \in DOMAIN nodes
               PROVE  /\ Serves(PyNode(nodes[k]), nodes[k], DefinitionsOf(nodes[k], "python"))
                      /\ HitsAll(PyNode(nodes[k]), LinesOfEach(DefinitionsOf(nodes[k], "python")))
                      /\ nodes[k].type # "class" => Calm(PyNode(nodes[k]), nodes[k].lo)
    BY DEF Serves
  <2>1. nodes[k] \in Nodes
    OBVIOUS
  <2> QED
    BY <2>1, PyNodeAttends
<1>2. of \in [DOMAIN nodes -> Seq(Spanning)]
  BY <1>1
<1>3. PyChunks(f) = OrFallback(f, Preamble(f.text, {"class", "function"}) \o FlattenSeq(of))
  BY DEF PyChunks, ChunksOfAll
<1> HIDE DEF of
<1>4. Leads(of, nodes)
  BY <1>1 DEF Leads
<1>5. LET cs == OrFallback(f, Preamble(f.text, {"class", "function"}) \o FlattenSeq(of))
          D == LinesOfEach(Definitions(f.text, "python"))
      IN  CoversAll(cs, D) /\ HitsAll(cs, D)
  <2>1. \A n : DefinitionsOf(n, "python") # {} => n.type \in {"class", "function"}
    BY DEF DefinitionsOf
  <2> QED
    BY <1>1, <1>2, <1>4, <2>1, FileAttends
<1> QED
  BY <1>3, <1>5

(* PHP.  No definition starts before the first one does.                     *)
LEMMA PhpRestKeeps ==
  ASSUME NEW nodes \in Seq(Nodes), Successive(nodes)
  PROVE  /\ PhpRest(nodes) \in Seq(Nodes) /\ Successive(PhpRest(nodes))
         /\ Range(PhpRest(nodes)) \subseteq Range(nodes)
         /\ Definitions(nodes, "php") \subseteq Definitions(PhpRest(nodes), "php")
<1> DEFINE defs == OfType(nodes, PhpDefinitions)
           P == {k \in DOMAIN nodes : nodes[k].head >= defs[1].lo}
           r == Picked(nodes, P)
<1>1. CASE defs = <<>>
  <2>1. PhpRest(nodes) = nodes
    BY <1>1 DEF PhpRest
  <2> QED
    BY <2>1
<1>2. CASE defs # <<>>
  <2>1. PhpRest(nodes) = r
    BY <1>2 DEF PhpRest
  <2>2. P \in SUBSET (DOMAIN nodes)
    OBVIOUS
  <2>4. \A k \in DOMAIN nodes : nodes[k].type \in PhpDefinitions => k \in P
    <3> SUFFICES ASSUME NEW k \in DOMAIN nodes, nodes[k].type \in PhpDefinitions
                 PROVE  nodes[k].head >= defs[1].lo
      OBVIOUS
    <3>1. defs[1] \in Nodes /\ defs[1].lo <= nodes[k].lo
      BY FirstIsFirst
    <3> HIDE DEF defs
    <3>2. nodes[k] \in Nodes /\ nodes[k].lo <= nodes[k].head
      BY NodeIs
    <3>3. PICK a \in Nat, c \in Nat, d \in Nat : a = defs[1].lo /\ c = nodes[k].lo /\ d = nodes[k].head
      BY <3>1, <3>2, NodeIs
    <3>4. a <= d
      BY <3>1, <3>2, <3>3
    <3> QED
      BY <3>3, <3>4
  <2> HIDE DEF P
  <2>5. r \in Seq(Nodes) /\ Range(r) = {nodes[k] : k \in P} /\ Successive(r)
    BY <2>2, PickedOrder
  <2>6. Range(r) \subseteq Range(nodes)
    BY <2>2, <2>5 DEF Range
  <2>7. \A n \in Range(nodes) : n.type \in PhpDefinitions => n \in Range(r)
    BY <2>4, <2>5 DEF Range
  <2>8. \A n : DefinitionsOf(n, "php") # {} => n.type \in PhpDefinitions
    BY DEF DefinitionsOf, PhpDefinitions
  <2>9. Definitions(nodes, "php") \subseteq Definitions(r, "php")
    <3> SUFFICES ASSUME NEW n \in Range(nodes), NEW m \in DefinitionsOf(n, "php") PROVE m \in Definitions(r, "php")
      BY DEF Definitions
    <3>1. n \in Range(r)
      BY <2>7, <2>8
    <3> QED
      BY <3>1 DEF Definitions
  <2> QED
    BY <2>1, <2>5, <2>6, <2>9
<1> QED
  BY <1>1, <1>2

(* PHP, whose nodes before the first definition are passed over.             *)
LEMMA PhpFileAttends ==
  ASSUME NEW f, f.text \in Seq(Nodes), Successive(f.text)
  PROVE  LET D == LinesOfEach(Definitions(f.text, "php"))
         IN  CoversAll(PhpChunks(f), D) /\ HitsAll(PhpChunks(f), D)
<1> DEFINE nodes == PhpRest(f.text)
           of == [k \in DOMAIN nodes |-> PhpNode(nodes[k])]
<1>1. PhpChunks(f) = OrFallback(f, Preamble(f.text, PhpDefinitions) \o FlattenSeq(of))
  BY DEF PhpChunks, ChunksOfAll
<1>2. /\ nodes \in Seq(Nodes) /\ Successive(nodes) /\ Range(nodes) \subseteq Range(f.text)
      /\ Definitions(f.text, "php") \subseteq Definitions(nodes, "php")
  BY PhpRestKeeps
<1> HIDE DEF nodes
<1>3. \A k \in DOMAIN nodes :
        /\ of[k] = PhpNode(nodes[k]) /\ of[k] \in Seq(Spanning)
        /\ Serves(of[k], nodes[k], DefinitionsOf(nodes[k], "php")) /\ HitsAll(of[k], LinesOfEach(DefinitionsOf(nodes[k], "php")))
        /\ nodes[k].lo \in InkOf(nodes[k]) => Calm(of[k], nodes[k].lo)
  <2> SUFFICES ASSUME NEW k \in DOMAIN nodes
               PROVE  /\ Serves(PhpNode(nodes[k]), nodes[k], DefinitionsOf(nodes[k], "php"))
                      /\ HitsAll(PhpNode(nodes[k]), LinesOfEach(DefinitionsOf(nodes[k], "php")))
                      /\ nodes[k].lo \in InkOf(nodes[k]) => Calm(PhpNode(nodes[k]), nodes[k].lo)
    BY DEF Serves
  <2>1. nodes[k] \in Nodes
    BY <1>2
  <2> QED
    BY <2>1, PhpNodeAttends
<1>4. of \in [DOMAIN nodes -> Seq(Spanning)]
  BY <1>3
<1> HIDE DEF of
<1>5. Leads(of, nodes)
  <2> SUFFICES ASSUME NEW k \in DOMAIN nodes, nodes[k].lo \notin InkOf(nodes[k]), NEW j \in 1 .. k - 1
               PROVE  nodes[j].hi < nodes[k].lo
    BY <1>3 DEF Leads
  <2>1. nodes[j].hi <= nodes[k].lo /\ nodes[j].hi # nodes[k].lo
    BY <1>2 DEF Successive
  <2>2. j \in DOMAIN nodes
    <3>1. PICK m \in Nat : DOMAIN nodes = 1 .. m
      BY <1>2, LenProperties
    <3> QED
      BY <3>1
  <2>3. nodes[j] \in Nodes /\ nodes[k] \in Nodes
    BY <1>2, <2>2
  <2>4. nodes[j].hi \in Nat /\ nodes[k].lo \in Nat
    BY <2>3, NodeIs
  <2> QED
    BY <2>1, <2>4
<1>6. LET cs == OrFallback(f, Preamble(f.text, PhpDefinitions) \o FlattenSeq(of))
          D == LinesOfEach(Definitions(f.text, "php"))
      IN  CoversAll(cs, D) /\ HitsAll(cs, D)
  <2>1. \A n : DefinitionsOf(n, "php") # {} => n.type \in PhpDefinitions
    BY DEF DefinitionsOf, PhpDefinitions
  <2> QED
    BY <1>2, <1>3, <1>4, <1>5, <2>1, FileAttends
<1> QED
  BY <1>1, <1>6

(* Chunks cs become ds: they may get more lines, and the chunks that are     *)
(* added start, from line a to line b.                                       *)
Enlarged(cs, ds, a, b) ==
  /\ \A k \in DOMAIN cs : /\ k \in DOMAIN ds /\ ds[k].start = cs[k].start /\ cs[k].units \subseteq ds[k].units
                          /\ ds[k] = cs[k] \/ \E u \in ds[k].units : a <= u
  /\ \A k \in DOMAIN ds : /\ k \in DOMAIN cs \/ (a <= ds[k].start /\ ds[k].start <= b)
                          /\ \A u \in ds[k].units : u <= b \/ (k \in DOMAIN cs /\ u \in cs[k].units)

(* Chunks that start and end by a line do so by a later one.                 *)
LEMMA StartsLater ==
  ASSUME NEW cs \in Seq(Spanning), NEW a, NEW h \in Nat, NEW b \in Nat, h <= b, StartsIn(cs, a, h)
  PROVE  StartsIn(cs, a, b)
<1> SUFFICES ASSUME NEW k \in DOMAIN cs PROVE cs[k].start <= b /\ EndsBy(cs[k], b)
  BY DEF StartsIn
<1>1. cs[k].start \in Nat /\ cs[k].start <= h
  BY StartIs DEF StartsIn
<1>2. ASSUME NEW u \in cs[k].units PROVE u <= b
  <2>1. u \in Nat /\ u <= h
    BY StartIs DEF StartsIn, EndsBy
  <2> QED
    BY <2>1
<1> QED
  BY <1>1, <1>2 DEF EndsBy

(* So nothing that is whole in a chunk, or goes to one, is lost.             *)
LEMMA EnlargedKeeps ==
  ASSUME NEW cs \in Seq(Spanning), NEW ds \in Seq(Spanning), NEW a \in Nat, NEW b \in Nat, a <= b, Enlarged(cs, ds, a, b)
  PROVE  /\ StartsIn(cs, 0, a) => StartsIn(ds, 0, b)
         /\ \A D : CoversAll(cs, D) => CoversAll(ds, D)
         /\ \A D \in SUBSET SUBSET (0 .. a - 1) : HitsAll(cs, D) => HitsAll(ds, D)
<1>1. ASSUME StartsIn(cs, 0, a), NEW k \in DOMAIN ds PROVE 0 <= ds[k].start /\ ds[k].start <= b /\ EndsBy(ds[k], b)
  <2>1. ds[k].start \in Nat /\ ds[k].units \subseteq Nat
    BY StartIs
  <2>2. k \in DOMAIN cs => ds[k].start <= a
    BY <1>1 DEF Enlarged, StartsIn
  <2>3. 0 <= ds[k].start /\ ds[k].start <= b
    BY <2>1, <2>2 DEF Enlarged
  <2>4. ASSUME NEW u \in ds[k].units PROVE u <= b
    <3>1. u <= b \/ u <= a
      BY <1>1 DEF Enlarged, StartsIn, EndsBy
    <3>2. u \in Nat
      BY <2>1
    <3> QED
      BY <3>1, <3>2
  <2> QED
    BY <2>3, <2>4 DEF EndsBy
<1>2. ASSUME NEW D, CoversAll(cs, D), NEW d \in D PROVE \E k \in DOMAIN ds : d \subseteq ds[k].units
  <2>1. PICK k \in DOMAIN cs : d \subseteq cs[k].units
    BY <1>2 DEF CoversAll
  <2> QED
    BY <2>1 DEF Enlarged
<1>3. ASSUME NEW l \in 0 .. a - 1, Hits(cs, l) PROVE Hits(ds, l)
  <2>1. PICK k \in DOMAIN cs : Foremost(cs, k, l) /\ l \in cs[k].units /\ Clear(cs, k, l)
    BY <1>3 DEF Hits, Goes
  <2>2. k \in DOMAIN ds /\ ds[k].start = cs[k].start /\ l \in ds[k].units
    BY <2>1 DEF Enlarged
  <2>3. ASSUME NEW j \in DOMAIN ds, ds[j].start <= l PROVE j \in DOMAIN cs /\ ds[j].start = cs[j].start
    <3>1. ds[j].start \in Nat /\ ~(a <= l) /\ l \in Nat
      BY StartIs
    <3>2. ~(a <= ds[j].start)
      BY <2>3, <3>1
    <3>3. j \in DOMAIN cs
      BY <3>2 DEF Enlarged
    <3> QED
      BY <3>3 DEF Enlarged
  <2>4. Foremost(ds, k, l)
    BY <2>1, <2>2, <2>3 DEF Foremost
  <2>5. Clear(ds, k, l)
    <3> SUFFICES ASSUME NEW j \in DOMAIN ds, ds[j].start <= ds[k].start
                 PROVE  Reaches(ds[j], l) \/ (j < k /\ EndsBy(ds[j], ds[k].start))
      BY DEF Clear
    <3>1. ds[j].start <= l
      <4>1. ds[j].start \in Nat /\ ds[k].start \in Nat /\ ds[k].start <= l
        BY <2>2, <2>4, StartIs DEF Foremost
      <4> QED
        BY <4>1
    <3>2. j \in DOMAIN cs /\ ds[j].start = cs[j].start
      BY <2>3, <3>1
    <3>3. CASE ds[j] = cs[j]
      <4>1. Reaches(cs[j], l) \/ (j < k /\ EndsBy(cs[j], cs[k].start))
        BY <2>1, <2>2, <3>2 DEF Clear
      <4> QED
        BY <2>2, <3>3, <4>1
    <3>4. CASE \E u \in ds[j].units : a <= u
      <4>1. PICK u \in ds[j].units : a <= u
        BY <3>4
      <4>2. u \in Nat
        BY StartIs
      <4>3. l <= u
        BY <4>1, <4>2
      <4> QED
        BY <4>3 DEF Reaches
    <3> QED
      BY <3>2, <3>3, <3>4 DEF Enlarged
  <2> QED
    BY <2>2, <2>4, <2>5 DEF Hits, Goes
<1>4. ASSUME NEW D \in SUBSET SUBSET (0 .. a - 1), HitsAll(cs, D) PROVE HitsAll(ds, D)
  <2>1. \A d \in D : \A l \in d : l \in 0 .. a - 1
    OBVIOUS
  <2> QED
    BY <1>3, <1>4, <2>1 DEF HitsAll
<1> QED
  BY <1>1, <1>2, <1>4 DEF StartsIn, CoversAll

(* One step after the other.                                                 *)
LEMMA EnlargedAgain ==
  ASSUME NEW cs, NEW ds, NEW es, NEW a, NEW b, Enlarged(cs, ds, a, b), Enlarged(ds, es, a, b)
  PROVE  Enlarged(cs, es, a, b)
<1>1. ASSUME NEW k \in DOMAIN cs
      PROVE  /\ k \in DOMAIN es /\ es[k].start = cs[k].start /\ cs[k].units \subseteq es[k].units
             /\ es[k] = cs[k] \/ \E u \in es[k].units : a <= u
  <2>1. /\ k \in DOMAIN ds /\ ds[k].start = cs[k].start /\ cs[k].units \subseteq ds[k].units
        /\ ds[k] = cs[k] \/ \E u \in ds[k].units : a <= u
    BY DEF Enlarged
  <2>2. /\ k \in DOMAIN es /\ es[k].start = ds[k].start /\ ds[k].units \subseteq es[k].units
        /\ es[k] = ds[k] \/ \E u \in es[k].units : a <= u
    BY <2>1 DEF Enlarged
  <2> QED
    BY <2>1, <2>2
<1>2. ASSUME NEW k \in DOMAIN es, NEW u \in es[k].units PROVE u <= b \/ (k \in DOMAIN cs /\ u \in cs[k].units)
  <2>1. u <= b \/ (k \in DOMAIN ds /\ u \in ds[k].units)
    BY DEF Enlarged
  <2> QED
    BY <2>1 DEF Enlarged
<1>3. ASSUME NEW k \in DOMAIN es PROVE k \in DOMAIN cs \/ (a <= es[k].start /\ es[k].start <= b)
  <2>1. CASE k \in DOMAIN ds
    <3>1. es[k].start = ds[k].start
      BY <2>1 DEF Enlarged
    <3> QED
      BY <2>1, <3>1 DEF Enlarged
  <2>2. CASE k \notin DOMAIN ds
    BY <2>2 DEF Enlarged
  <2> QED
    BY <2>1, <2>2
<1> QED
  BY <1>1, <1>2, <1>3 DEF Enlarged

(* A span that is emitted.                                                   *)
LEMMA SpanEnlarges ==
  ASSUME NEW cs \in Seq(Spanning), NEW lo \in Nat, NEW hi \in Int, NEW name \in Labels, NEW blanks,
         NEW a \in Nat, NEW b \in Nat, a <= lo, hi <= b
  PROVE  Enlarged(cs, EmitSpan(cs, lo, hi, name, blanks), a, b)
<1> DEFINE units == Strip(lo .. hi, blanks)
           r == EmitSpan(cs, lo, hi, name, blanks)
<1>1. units \subseteq lo .. hi
  BY SpanUnits
<1>2. CASE units = {}
  <2>1. r = cs
    BY <1>2 DEF EmitSpan
  <2> HIDE DEF r
  <2> QED
    BY <2>1 DEF Enlarged, r
<1>3. CASE units # {} /\ ExtendsPrevious(cs, units, name)
  <2>1. r = Extended(cs, units)
    BY <1>3 DEF EmitSpan
  <2>2. PICK c \in Spanning : /\ cs # <<>> /\ Extended(cs, units) = Append(Front(cs), c)
                              /\ c.units = Last(cs).units \cup units /\ c.start = Last(cs).start
    <3> HIDE DEF units
    <3> QED
      BY <1>3, FoldedIs DEF units
  <2> DEFINE n == Len(cs)
  <2>3. /\ DOMAIN r = DOMAIN cs /\ n \in DOMAIN cs /\ Last(cs) = cs[n]
        /\ \A k \in DOMAIN cs : r[k] = IF k = n THEN c ELSE cs[k]
    <3> HIDE DEF r, units
    <3> QED
      BY <2>1, <2>2, ExtendedIs
  <2> HIDE DEF r, units, n
  <2>4. \A k \in DOMAIN cs : /\ r[k].start = cs[k].start /\ cs[k].units \subseteq r[k].units
                             /\ r[k] = cs[k] \/ units \subseteq r[k].units
                             /\ \A u \in r[k].units : u \in units \/ u \in cs[k].units
    BY <2>2, <2>3
  <2>5. units # {} /\ \A u \in units : a <= u /\ u <= b
    <3>1. \A u \in lo .. hi : a <= u /\ u <= b
      OBVIOUS
    <3> QED
      BY <1>1, <1>3, <3>1
  <2> QED
    BY <2>3, <2>4, <2>5 DEF Enlarged, r
<1>4. CASE units # {} /\ ~ExtendsPrevious(cs, units, name)
  <2> DEFINE c == LineChunk(units, name, "block")
  <2>1. r = Append(cs, c)
    BY <1>4 DEF EmitSpan
  <2>2. c \in Spanning /\ c.start = Min(units) /\ Min(units) \in units
    <3>1. "block" \in Labels
      BY KindsAre
    <3>2. c \in Spanning /\ Min(units) \in units
      <4> HIDE DEF units
      <4> QED
        BY <1>4, <3>1, SpanUnits DEF units
    <3>3. c.start = Min(units)
      <4> HIDE DEF units
      <4> QED
        BY DEF LineChunk, Chunk
    <3> QED
      BY <3>2, <3>3
  <2>3. a <= c.start /\ c.start <= b
    <3> HIDE DEF c, units
    <3>1. PICK x \in lo .. hi : x = c.start
      BY <1>1, <2>2
    <3>2. x \in Int /\ lo <= x /\ x <= hi
      OBVIOUS
    <3> QED
      BY <3>1, <3>2
  <2>8. \A u \in c.units : u <= b
    <3>1. c.units = units
      <4> HIDE DEF units
      <4> QED
        BY DEF LineChunk, Chunk
    <3>2. \A u \in lo .. hi : u <= b
      OBVIOUS
    <3> QED
      BY <1>1, <3>1, <3>2
  <2> HIDE DEF c, r, units
  <2>4. DOMAIN r = 1 .. Len(cs) + 1 /\ r[Len(cs) + 1] = c /\ \A k \in DOMAIN cs : r[k] = cs[k]
    BY <2>1, <2>2, AppendedIs
  <2>5. Len(cs) \in Nat /\ DOMAIN cs = 1 .. Len(cs)
    BY LenProperties
  <2>6. \A k \in DOMAIN r : k \in DOMAIN cs \/ k = Len(cs) + 1
    BY <2>4, <2>5
  <2>7. \A k \in DOMAIN cs : k \in DOMAIN r
    BY <2>4, <2>5
  <2> QED
    BY <2>3, <2>4, <2>6, <2>7, <2>8 DEF Enlarged, r
<1> QED
  BY <1>2, <1>3, <1>4

(* An element that is emitted.                                               *)
LEMMA ElementEnlarges ==
  ASSUME NEW cs \in Seq(Spanning), NEW n \in Nodes, NEW name \in Labels, NEW blanks
  PROVE  Enlarged(cs, EmitElement(cs, n, name, blanks), n.head, n.hi)
<1>1. PICK spans \in Spans : \E emitted \in [0 .. Len(spans) -> Seq(Spanning)] : Taken(cs, n, name, blanks, spans, emitted)
  BY SpansRun
<1> DEFINE m == Len(spans)
<1>2. PICK emitted \in [0 .. m -> Seq(Spanning)] : Taken(cs, n, name, blanks, spans, emitted)
  BY <1>1
<1>3. n.head \in Nat /\ n.hi \in Nat /\ n.hi + 1 \in Nat /\ n.hi + 1 - 1 = n.hi
  BY NodeIs
<1>4. \A k \in 1 .. m : spans[k][1] \in Nat /\ spans[k][2] \in Int /\ n.head <= spans[k][1] /\ spans[k][2] <= n.hi
  BY <1>2, <1>3, TileWithin DEF Taken
<1>5. /\ emitted[0] = cs /\ EmitElement(cs, n, name, blanks) = emitted[m]
      /\ \A k \in 1 .. m : emitted[k] = EmitSpan(emitted[k - 1], spans[k][1], spans[k][2], name, blanks)
  BY <1>2 DEF Taken
<1>6. m \in Nat
  BY LenProperties DEF Spans
<1> DEFINE Good == {k \in 0 .. m : Enlarged(cs, emitted[k], n.head, n.hi)}
<1> HIDE DEF m
<1>7. 0 \in Good
  <2>1. Enlarged(cs, cs, n.head, n.hi)
    BY DEF Enlarged
  <2> QED
    BY <1>5, <1>6, <2>1
<1>8. \A k \in 1 .. m : k - 1 \in Good => k \in Good
  <2> SUFFICES ASSUME NEW k \in 1 .. m, k - 1 \in Good PROVE k \in Good
    OBVIOUS
  <2>1. k \in 0 .. m /\ k - 1 \in 0 .. m /\ emitted[k - 1] \in Seq(Spanning)
    BY <1>6
  <2>2. PICK lo \in Nat, hi \in Int : lo = spans[k][1] /\ hi = spans[k][2] /\ n.head <= lo /\ hi <= n.hi
    BY <1>4
  <2>3. Enlarged(emitted[k - 1], EmitSpan(emitted[k - 1], lo, hi, name, blanks), n.head, n.hi)
    BY <1>3, <2>1, <2>2, SpanEnlarges
  <2>4. Enlarged(emitted[k - 1], emitted[k], n.head, n.hi)
    BY <1>5, <2>2, <2>3
  <2> QED
    BY <2>1, <2>4, EnlargedAgain
<1>9. m \in Good
  <2> HIDE DEF Good
  <2>1. \A k \in 0 .. m : k \in Good
    BY <1>6, <1>7, <1>8, UpTo
  <2> QED
    BY <1>6, <2>1
<1> QED
  BY <1>5, <1>9

(* What a script has, counted from line 1 of it or from line 1 of its file.  *)
Moved(D, tag) == {{tag + l - 1 : l \in d} : d \in D}

(* A script's chunks behind its tag attend to what they did in the script.   *)
LEMMA RebaseAttends ==
  ASSUME NEW h \in Nat, NEW cs \in Seq(Upto(h)), NEW tag \in Nat, 1 <= tag, StartsIn(cs, 1, h),
         NEW D \in SUBSET SUBSET (1 .. h)
  PROVE  /\ StartsIn(Rebase(cs, tag), tag, tag + h - 1)
         /\ CoversAll(cs, D) => CoversAll(Rebase(cs, tag), Moved(D, tag))
         /\ HitsAll(cs, D) => HitsAll(Rebase(cs, tag), Moved(D, tag))
<1> DEFINE r == Rebase(cs, tag)
<1>1. cs \in Seq(Spanning)
  BY SeqOfMore DEF Upto
<1>2. cs \in Seq(AnyChunk)
  BY <1>1, SpanningAny, SeqOfMore
<1>3. ASSUME NEW k \in DOMAIN cs
      PROVE  /\ cs[k].start \in Nat /\ 1 <= cs[k].start /\ cs[k].start <= h
             /\ \A u \in cs[k].units : u \in Nat /\ u <= h
             /\ Scattered(cs[k]) => Scattered(r[k])
             /\ r[k].start = cs[k].start + tag - 1 /\ r[k].units = {u + tag - 1 : u \in cs[k].units}
  <2>1. ShiftedBy(r[k], cs[k], tag)
    BY <1>2, RebaseShifts
  <2> HIDE DEF r
  <2>2. r[k].start = cs[k].start + tag - 1 /\ r[k].units = {u + tag - 1 : u \in cs[k].units}
    BY <2>1 DEF ShiftedBy
  <2>3. r[k].text = ShiftedText(cs[k].text, tag - 1)
    BY <2>1 DEF ShiftedBy
  <2>4. /\ cs[k].start \in Nat /\ 1 <= cs[k].start /\ cs[k].start <= h
        /\ \A u \in cs[k].units : u \in Nat /\ u <= h
    BY <1>1, StartIs DEF StartsIn, EndsBy
  <2>5. Scattered(cs[k]) => Scattered(r[k])
    <3> SUFFICES ASSUME NEW i \in DOMAIN cs[k].text, cs[k].text[i] # cs[k].start + i - 1 PROVE Scattered(r[k])
      BY DEF Scattered
    <3>1. cs[k] \in AnyChunk
      BY <1>2
    <3>2. cs[k].text \in Seq(Int)
      BY <3>1, PartsOf
    <3>3. i \in Nat /\ 1 <= i /\ cs[k].text[i] \in Int
      BY <3>2, LenProperties
    <3>4. i \in DOMAIN r[k].text /\ r[k].text[i] = IF cs[k].text[i] = NoLine THEN NoLine ELSE cs[k].text[i] + (tag - 1)
      BY <2>3 DEF ShiftedText
    <3>5. PICK t \in Int, s \in Nat : t = cs[k].text[i] /\ s = cs[k].start
      BY <2>4, <3>3
    <3>6. t # s + i - 1 /\ r[k].text[i] = IF t = -1 THEN -1 ELSE t + (tag - 1)
      BY <3>4, <3>5 DEF NoLine
    <3>7. (IF t = -1 THEN -1 ELSE t + (tag - 1)) # s + tag - 1 + i - 1
      BY <3>3, <3>6
    <3>8. r[k].text[i] # r[k].start + i - 1
      BY <2>2, <3>5, <3>6, <3>7
    <3> QED
      BY <3>4, <3>8 DEF Scattered
  <2> QED
    BY <2>2, <2>4, <2>5
<1>4. DOMAIN r = DOMAIN cs
  BY DEF Rebase
<1> HIDE DEF r
<1>5. StartsIn(r, tag, tag + h - 1)
  <2> SUFFICES ASSUME NEW k \in DOMAIN cs
               PROVE  tag <= r[k].start /\ r[k].start <= tag + h - 1 /\ EndsBy(r[k], tag + h - 1)
    BY <1>4 DEF StartsIn
  <2>1. PICK s \in Nat : s = cs[k].start
    BY <1>3
  <2>2. 1 <= s /\ s <= h /\ r[k].start = s + tag - 1
    BY <1>3, <2>1
  <2>3. ASSUME NEW u \in cs[k].units PROVE u + tag - 1 <= tag + h - 1
    <3>1. u \in Nat /\ u <= h
      BY <1>3
    <3> QED
      BY <3>1
  <2>4. \A v \in r[k].units : v <= tag + h - 1
    BY <1>3, <2>3
  <2> QED
    BY <2>2, <2>4 DEF EndsBy
<1>6. ASSUME CoversAll(cs, D), NEW d \in D PROVE \E k \in DOMAIN r : {tag + l - 1 : l \in d} \subseteq r[k].units
  <2>1. PICK k \in DOMAIN cs : d \subseteq cs[k].units
    BY <1>6 DEF CoversAll
  <2>2. \A l \in d : l \in Nat
    OBVIOUS
  <2>3. \A l \in d : tag + l - 1 = l + tag - 1
    BY <2>2
  <2>4. r[k].units = {u + tag - 1 : u \in cs[k].units}
    BY <1>3
  <2>5. \A l \in d : l + tag - 1 \in r[k].units
    BY <2>1, <2>4
  <2> QED
    BY <1>4, <2>3, <2>5
<1>7. ASSUME NEW l \in Nat, Hits(cs, l) PROVE Hits(r, tag + l - 1)
  <2>1. PICK k \in DOMAIN cs : Foremost(cs, k, l) /\ l \in cs[k].units /\ Clear(cs, k, l)
    BY <1>7 DEF Hits, Goes
  <2>2. tag + l - 1 \in r[k].units
    <3>1. r[k].units = {u + tag - 1 : u \in cs[k].units}
      BY <1>3
    <3>2. tag + l - 1 = l + tag - 1
      OBVIOUS
    <3> QED
      BY <2>1, <3>1, <3>2
  <2>3. PICK s \in Nat : s = cs[k].start /\ r[k].start = s + tag - 1
    BY <1>3
  <2>4. ASSUME NEW j \in DOMAIN cs, r[j].start <= tag + l - 1
        PROVE  r[j].start < r[k].start \/ (r[j].start = r[k].start /\ j <= k)
    <3>1. PICK t \in Nat : t = cs[j].start /\ r[j].start = t + tag - 1
      BY <1>3
    <3>2. t <= l
      BY <2>4, <3>1
    <3>3. t < s \/ (t = s /\ j <= k)
      BY <2>1, <2>3, <3>1, <3>2 DEF Foremost
    <3> QED
      BY <2>3, <3>1, <3>3
  <2>5. r[k].start <= tag + l - 1
    <3>1. s <= l
      BY <2>1, <2>3 DEF Foremost
    <3> QED
      BY <2>3, <3>1
  <2>6. Foremost(r, k, tag + l - 1)
    BY <1>4, <2>4, <2>5 DEF Foremost
  <2>7. Clear(r, k, tag + l - 1)
    <3> SUFFICES ASSUME NEW j \in DOMAIN cs, r[j].start <= r[k].start
                 PROVE  Reaches(r[j], tag + l - 1) \/ (j < k /\ EndsBy(r[j], r[k].start))
      BY <1>4 DEF Clear
    <3>1. PICK t \in Nat : t = cs[j].start /\ r[j].start = t + tag - 1
      BY <1>3
    <3>2. t <= s
      BY <2>3, <3>1
    <3>3. Reaches(cs[j], l) \/ (j < k /\ EndsBy(cs[j], cs[k].start))
      BY <2>1, <2>3, <3>1, <3>2 DEF Clear
    <3>4. CASE Scattered(cs[j])
      BY <1>3, <3>4 DEF Reaches
    <3>5. CASE \E u \in cs[j].units : l <= u
      <4>1. PICK u \in cs[j].units : l <= u
        BY <3>5
      <4>2. u \in Nat /\ u + tag - 1 \in r[j].units
        BY <1>3
      <4>3. tag + l - 1 <= u + tag - 1
        BY <4>1, <4>2
      <4> QED
        BY <4>2, <4>3 DEF Reaches
    <3>6. CASE j < k /\ EndsBy(cs[j], cs[k].start)
      <4>1. ASSUME NEW u \in cs[j].units PROVE u + tag - 1 <= s + tag - 1
        <5>1. u \in Nat /\ u <= s
          BY <1>3, <2>3, <3>6 DEF EndsBy
        <5> QED
          BY <5>1
      <4>2. \A v \in r[j].units : v <= r[k].start
        BY <1>3, <2>3, <4>1
      <4> QED
        BY <3>6, <4>2 DEF EndsBy
    <3> QED
      BY <3>3, <3>4, <3>5, <3>6 DEF Reaches
  <2> QED
    BY <1>4, <2>2, <2>6, <2>7 DEF Hits, Goes
<1>8. CoversAll(cs, D) => CoversAll(r, Moved(D, tag))
  BY <1>6 DEF CoversAll, Moved
<1>9. ASSUME HitsAll(cs, D) PROVE HitsAll(r, Moved(D, tag))
  <2> SUFFICES ASSUME NEW d \in D, NEW l \in d PROVE Hits(r, tag + l - 1)
    BY DEF HitsAll, Moved
  <2>1. l \in Nat
    OBVIOUS
  <2>2. Hits(cs, l)
    BY <1>9 DEF HitsAll
  <2> QED
    BY <1>7, <2>1, <2>2
<1> QED
  BY <1>5, <1>8, <1>9 DEF r

(* The definitions of a block of a component.                                *)
BlockDefinitions(n) ==
  IF n.type = "script" THEN Moved(LinesOfEach(Definitions(n.kids, "vue")), n.head) ELSE {}

(* They are lines of the block.                                              *)
LEMMA BlockDefinitionsIn ==
  ASSUME NEW n \in Nodes
  PROVE  /\ n.type = "script" =>
              \E h \in Nat : /\ h = n.hi - n.head + 1 /\ \A k \in DOMAIN n.kids : n.kids[k].hi <= h
                             /\ LinesOfEach(Definitions(n.kids, "vue")) \in SUBSET SUBSET (1 .. h)
         /\ BlockDefinitions(n) \in SUBSET SUBSET (n.head .. n.hi) /\ {} \notin BlockDefinitions(n)
<1> DEFINE D == LinesOfEach(Definitions(n.kids, "vue"))
<1>1. n.head \in Nat /\ n.hi \in Nat /\ 1 <= n.head /\ n.head <= n.hi /\ n.kids \in Seq(Nodes)
  BY NodeIs
<1>2. D \in SUBSET SUBSET (1 .. TextHeight(n.kids)) /\ {} \notin D
  BY <1>1, DefinitionsInText
<1>3. CASE n.type = "script"
  <2>1. PICK h \in Nat : h = n.hi - n.head + 1
    <3>1. n.hi - n.head + 1 \in Nat
      BY <1>1
    <3> QED
      BY <3>1
  <2>2. \A k \in DOMAIN n.kids : n.kids[k].hi \in Nat /\ n.kids[k].hi <= h
    <3> SUFFICES ASSUME NEW k \in DOMAIN n.kids PROVE n.kids[k].hi \in Nat /\ n.kids[k].hi <= h
      OBVIOUS
    <3>1. n.kids[k] \in Nodes
      BY <1>1
    <3>2. n.kids[k].hi \in Nat
      BY <3>1, NodeIs
    <3>3. n.head + n.kids[k].hi - 1 <= n.hi
      BY <1>3, NodeIs
    <3> QED
      BY <1>1, <2>1, <3>2, <3>3
  <2>3. \A m \in Definitions(n.kids, "vue") : LinesOf(m) \subseteq 1 .. h
    <3> SUFFICES ASSUME NEW x \in Range(n.kids), NEW m \in DefinitionsOf(x, "vue") PROVE LinesOf(m) \subseteq 1 .. h
      BY DEF Definitions
    <3>1. PICK k \in DOMAIN n.kids : x = n.kids[k]
      BY DEF Range
    <3>2. x \in Nodes
      BY <1>1, <3>1
    <3>3. LinesOf(m) \subseteq LinesOf(x)
      BY <3>2, DefinitionsWithin
    <3>4. x.lo \in Nat /\ 1 <= x.lo /\ x.hi \in Nat /\ x.hi <= h
      BY <2>2, <3>1, <3>2, NodeIs
    <3>5. LinesOf(x) \subseteq 1 .. h
      BY <3>4 DEF LinesOf
    <3> QED
      BY <3>3, <3>5
  <2>4. D \in SUBSET SUBSET (1 .. h)
    BY <2>3 DEF LinesOfEach
  <2> HIDE DEF D
  <2>5. ASSUME NEW d \in D PROVE {n.head + l - 1 : l \in d} \subseteq n.head .. n.hi /\ {n.head + l - 1 : l \in d} # {}
    <3>1. \A l \in d : l \in 1 .. h
      BY <2>4
    <3>2. \A l \in 1 .. h : n.head + l - 1 \in n.head .. n.hi
      BY <1>1, <2>1
    <3>3. d # {}
      BY <1>2
    <3> QED
      BY <3>1, <3>2, <3>3
  <2>6. BlockDefinitions(n) = Moved(D, n.head)
    BY <1>3 DEF BlockDefinitions, D
  <2>7. Moved(D, n.head) \in SUBSET SUBSET (n.head .. n.hi) /\ {} \notin Moved(D, n.head)
    BY <2>5 DEF Moved
  <2> QED
    BY <2>1, <2>2, <2>4, <2>6, <2>7 DEF D
<1>4. CASE n.type # "script"
  BY <1>4 DEF BlockDefinitions
<1> QED
  BY <1>3, <1>4

(* A block of a component keeps what the chunks so far attend to, and adds   *)
(* its own definitions.                                                      *)
LEMMA VueBlockAttends ==
  ASSUME NEW cs \in Seq(Spanning), NEW n \in Nodes, n.lo = n.head, NEW blanks,
         StartsIn(cs, 0, n.head), NEW D \in SUBSET SUBSET (0 .. n.head - 1)
  PROVE  LET r == VueBlock(cs, n, blanks)
             E == D \cup BlockDefinitions(n)
         IN  /\ r \in Seq(Spanning) /\ StartsIn(r, 0, n.hi)
             /\ CoversAll(cs, D) => CoversAll(r, E)
             /\ HitsAll(cs, D) /\ (n.type = "script" => AllApart(n.kids)) => HitsAll(r, E)
<1> DEFINE script == IF n.type = "script" THEN TsSource(n.kids) ELSE <<>>
           name == IF n.type = "script" THEN "script" ELSE BlockName(n)
           r == VueBlock(cs, n, blanks)
           B == BlockDefinitions(n)
           apart == n.type = "script" => AllApart(n.kids)
<1>1. n.head \in Nat /\ n.hi \in Nat /\ 1 <= n.head /\ n.head <= n.hi /\ n.kids \in Seq(Nodes)
  BY NodeIs
<1>2. name \in Labels
  <2>1. "script" \in Labels /\ "template" \in Labels /\ "style" \in Labels /\ "" \in Labels
    BY DEF Labels, Literals
  <2> QED
    BY <2>1 DEF BlockName
<1>3. r \in Seq(Spanning)
  BY VueBlockIs
<1>4. ASSUME n.type = "script"
      PROVE  \E h \in Nat :
               /\ h = n.hi - n.head + 1
               /\ TsSource(n.kids) \in Seq(Upto(h)) /\ StartsIn(TsSource(n.kids), 1, h)
               /\ LinesOfEach(Definitions(n.kids, "vue")) \in SUBSET SUBSET (1 .. h)
               /\ CoversAll(TsSource(n.kids), LinesOfEach(Definitions(n.kids, "vue")))
               /\ AllApart(n.kids) => HitsAll(TsSource(n.kids), LinesOfEach(Definitions(n.kids, "vue")))
               /\ B = Moved(LinesOfEach(Definitions(n.kids, "vue")), n.head)
  <2>1. PICK h \in Nat : /\ h = n.hi - n.head + 1 /\ \A k \in DOMAIN n.kids : n.kids[k].hi <= h
                         /\ LinesOfEach(Definitions(n.kids, "vue")) \in SUBSET SUBSET (1 .. h)
    BY <1>4, BlockDefinitionsIn
  <2>2. TsSource(n.kids) \in Seq(Upto(h))
    <3>1. TsSource(n.kids) \in Seq(Called(h, {m.type : m \in Range(n.kids)} \cup TsCalled))
      BY <1>1, <2>1, TsSourceIs
    <3> QED
      BY <3>1 DEF Called
  <2>3. Successive(n.kids)
    BY KidsSucceed
  <2>4. /\ StartsIn(TsSource(n.kids), 1, h)
        /\ CoversAll(TsSource(n.kids), LinesOfEach(Definitions(n.kids, "vue")))
        /\ AllApart(n.kids) => HitsAll(TsSource(n.kids), LinesOfEach(Definitions(n.kids, "vue")))
    BY <1>1, <2>1, <2>3, TsSourceAttends
  <2>5. B = Moved(LinesOfEach(Definitions(n.kids, "vue")), n.head)
    BY <1>4 DEF BlockDefinitions
  <2> QED
    BY <2>1, <2>2, <2>4, <2>5
<1>5. ASSUME Enlarged(cs, r, n.head, n.hi)
      PROVE  /\ StartsIn(r, 0, n.hi)
             /\ CoversAll(cs, D) => CoversAll(r, D)
             /\ HitsAll(cs, D) => HitsAll(r, D)
  <2> HIDE DEF r
  <2> QED
    BY <1>1, <1>3, <1>5, EnlargedKeeps
<1>6. CASE script # <<>>
  <2> DEFINE moved == Rebase(script, n.head)
  <2>1. n.type = "script" /\ script = TsSource(n.kids)
    BY <1>6
  <2>2. r = cs \o moved
    BY <1>6 DEF VueBlock
  <2> HIDE DEF script, B, r
  <2>3. PICK h \in Nat :
          /\ h = n.hi - n.head + 1
          /\ script \in Seq(Upto(h)) /\ StartsIn(script, 1, h)
          /\ LinesOfEach(Definitions(n.kids, "vue")) \in SUBSET SUBSET (1 .. h)
          /\ CoversAll(script, LinesOfEach(Definitions(n.kids, "vue")))
          /\ AllApart(n.kids) => HitsAll(script, LinesOfEach(Definitions(n.kids, "vue")))
          /\ B = Moved(LinesOfEach(Definitions(n.kids, "vue")), n.head)
    BY <1>4, <2>1
  <2> DEFINE M == LinesOfEach(Definitions(n.kids, "vue"))
  <2> HIDE DEF M
  <2>4. moved \in Seq(Spanning)
    BY <1>1, <2>3, RebaseIs
  <2>5. n.head + h - 1 = n.hi
    BY <1>1, <2>3
  <2>6. M \in SUBSET SUBSET (1 .. h) /\ CoversAll(script, M) /\ (AllApart(n.kids) => HitsAll(script, M)) /\ B = Moved(M, n.head)
    BY <2>3 DEF M
  <2>7. /\ StartsIn(moved, n.head, n.hi) /\ CoversAll(moved, B) /\ (apart => HitsAll(moved, B))
    <3>1. /\ StartsIn(moved, n.head, n.head + h - 1)
          /\ CoversAll(script, M) => CoversAll(moved, Moved(M, n.head))
          /\ HitsAll(script, M) => HitsAll(moved, Moved(M, n.head))
      BY <1>1, <2>3, <2>6, RebaseAttends
    <3> HIDE DEF moved
    <3> QED
      BY <2>1, <2>5, <2>6, <3>1
  <2> HIDE DEF moved, apart
  <2>8. B \in SUBSET SUBSET Nat
    <3>1. B \in SUBSET SUBSET (n.head .. n.hi)
      BY BlockDefinitionsIn DEF B
    <3>2. n.head .. n.hi \subseteq Nat
      BY <1>1
    <3> QED
      BY <3>1, <3>2
  <2>9. CoversAll(r, B) /\ (apart => HitsAll(r, B))
    <3>1. \A l : Yields(cs, moved, l)
      <4>1. \A j \in DOMAIN cs : cs[j].start <= n.head /\ EndsBy(cs[j], n.head)
        BY DEF StartsIn
      <4>2. \A k \in DOMAIN moved : n.head <= moved[k].start
        BY <2>7 DEF StartsIn
      <4> QED
        BY <1>1, <2>4, <4>1, <4>2, EndYields
    <3>2. \A X \in SUBSET SUBSET Nat : (CoversAll(moved, X) => CoversAll(cs \o moved, X)) /\ (HitsAll(moved, X) => HitsAll(cs \o moved, X))
      <4>1. 0 <= n.head /\ 0 \in Nat
        BY <1>1
      <4>2. StartsIn(moved, 0, n.hi)
        BY <1>1, <2>4, <2>7, <4>1, StartsEarlier
      <4>3. StartsIn(cs, 0, n.hi)
        BY <1>1, StartsLater
      <4> QED
        BY <1>1, <2>4, <3>1, <4>1, <4>2, <4>3, JoinAttends
    <3> QED
      BY <2>2, <2>7, <2>8, <3>2
  <2>10. Enlarged(cs, r, n.head, n.hi)
    <3>1. /\ \A k \in DOMAIN cs : k \in DOMAIN r /\ r[k] = cs[k]
          /\ \A k \in DOMAIN r : k \in DOMAIN cs \/ \E j \in DOMAIN moved : r[k] = moved[j]
      <4>1. /\ \A k \in DOMAIN cs : k \in DOMAIN r /\ r[k] = cs[k]
            /\ \A k \in DOMAIN moved : r[Len(cs) + k] = moved[k]
            /\ \A k \in DOMAIN r : k \in DOMAIN cs \/ (k - Len(cs) \in DOMAIN moved /\ k = Len(cs) + (k - Len(cs)))
        BY <2>2, <2>4, Joined
      <4> QED
        BY <4>1
    <3>2. \A k \in DOMAIN r : k \in DOMAIN cs \/ (n.head <= r[k].start /\ r[k].start <= n.hi /\ EndsBy(r[k], n.hi))
      BY <2>7, <3>1 DEF StartsIn
    <3> QED
      BY <3>1, <3>2 DEF Enlarged, EndsBy
  <2>11. /\ StartsIn(r, 0, n.hi)
         /\ CoversAll(cs, D) => CoversAll(r, D)
         /\ HitsAll(cs, D) => HitsAll(r, D)
    BY <1>5, <2>10 DEF r
  <2>12. r \in Seq(Spanning)
    BY <1>3 DEF r
  <2>13. (CoversAll(cs, D) => CoversAll(r, D \cup B)) /\ (HitsAll(cs, D) /\ apart => HitsAll(r, D \cup B))
    BY <2>9, <2>11 DEF CoversAll, HitsAll
  <2> QED
    BY <2>11, <2>12, <2>13 DEF r, B, apart
<1>7. CASE script = <<>>
  <2>1. r = EmitElement(cs, n, name, blanks)
    BY <1>7 DEF VueBlock
  <2>2. B = {}
    <3>1. CASE n.type = "script"
      <4>1. CoversAll(<<>>, LinesOfEach(Definitions(n.kids, "vue")))
        BY <1>4, <1>7, <3>1
      <4>2. LinesOfEach(Definitions(n.kids, "vue")) = {}
        BY <4>1 DEF CoversAll
      <4>3. B = Moved({}, n.head)
        BY <3>1, <4>2 DEF BlockDefinitions
      <4> QED
        BY <4>3 DEF Moved
    <3>2. CASE n.type # "script"
      BY <3>2 DEF BlockDefinitions
    <3> QED
      BY <3>1, <3>2
  <2> HIDE DEF r, B, name
  <2>3. Enlarged(cs, r, n.head, n.hi)
    BY <1>2, <2>1, ElementEnlarges
  <2>4. D \cup B = D
    BY <2>2
  <2> QED
    BY <1>3, <1>5, <2>3, <2>4 DEF r, B
<1> QED
  BY <1>6, <1>7

(* The definitions of the blocks up to k.                                    *)
DefinitionsUpTo(text, k) == UNION {BlockDefinitions(text[j]) : j \in 1 .. k}

(* A component.                                                              *)
LEMMA VueFileAttends ==
  ASSUME NEW f, f.text \in Seq(Nodes), BlocksFollow(f.text)
  PROVE  LET D == UNION {BlockDefinitions(n) : n \in Range(f.text)}
         IN  /\ CoversAll(VueChunksOf(f), D)
             /\ (\A n \in Range(f.text) : n.type = "script" => AllApart(n.kids)) => HitsAll(VueChunksOf(f), D)
<1> DEFINE T == Seq(Spanning)
           text == f.text
           blanks == f.blanks
           m == Len(text)
           apart == \A n \in Range(text) : n.type = "script" => AllApart(n.kids)
           all == UNION {BlockDefinitions(n) : n \in Range(text)}
<1>1. m \in Nat /\ DOMAIN text = 1 .. m /\ \A k \in 1 .. m : text[k] \in Nodes /\ text[k].lo = text[k].head
  BY LenProperties DEF BlocksFollow
<1>2. PICK made \in [0 .. m -> T] :
        /\ made[0] = <<>>
        /\ \A k \in 1 .. m : made[k] = VueBlock(made[k - 1], text[k], blanks)
        /\ VueChunksOf(f) = OrFallback(f, made[m])
  BY BlocksRun
<1>3. all = DefinitionsUpTo(text, m)
  BY <1>1 DEF DefinitionsUpTo, Range
<1>4. \A k \in 1 .. m : apart => (text[k].type = "script" => AllApart(text[k].kids))
  BY <1>1 DEF Range
<1> HIDE DEF m, text, blanks, apart, all
<1> DEFINE D(k) == DefinitionsUpTo(text, k)
           Behind(k, e) == \A j \in 1 .. k : text[j].hi < e
           Good == {k \in 0 .. m : /\ \A e \in Nat : Behind(k, e) => StartsIn(made[k], 0, e) /\ D(k) \in SUBSET SUBSET (0 .. e - 1)
                                   /\ CoversAll(made[k], D(k)) /\ (apart => HitsAll(made[k], D(k)))}
<1>5. 0 \in Good
  <2>1. D(0) = {}
    BY DEF DefinitionsUpTo
  <2> HIDE DEF D
  <2>2. \A e \in Nat : StartsIn(<<>>, 0, e)
    BY DEF StartsIn
  <2>3. 0 \in 0 .. m
    BY <1>1
  <2>4. CoversAll(<<>>, {}) /\ HitsAll(<<>>, {})
    BY DEF CoversAll, HitsAll
  <2> QED
    BY <1>2, <2>1, <2>2, <2>3, <2>4
<1>6. \A k \in 1 .. m : k - 1 \in Good => k \in Good
  <2> SUFFICES ASSUME NEW k \in 1 .. m, k - 1 \in Good PROVE k \in Good
    OBVIOUS
  <2> DEFINE n == text[k]
             ds == made[k - 1]
             P == D(k - 1)
             B == BlockDefinitions(n)
  <2>1. n \in Nodes /\ n.lo = n.head /\ n.head \in Nat /\ n.hi \in Nat /\ 1 <= n.head /\ n.head <= n.hi
        /\ made[k] = VueBlock(ds, n, blanks)
    BY <1>1, <1>2, NodeIs
  <2>2. ds \in T
    <3>1. k - 1 \in 0 .. m
      BY <1>1
    <3> QED
      BY <1>2, <3>1
  <2>3. Behind(k - 1, n.head)
    BY <1>1, <2>1 DEF BlocksFollow, text
  <2>4. StartsIn(ds, 0, n.head) /\ P \in SUBSET SUBSET (0 .. n.head - 1) /\ CoversAll(ds, P) /\ (apart => HitsAll(ds, P))
    BY <2>1, <2>3
  <2>5. D(k) = P \cup B
    <3>1. \A j \in 1 .. k : j = k \/ j \in 1 .. k - 1
      BY <1>1
    <3>2. \A j \in 1 .. k - 1 : j \in 1 .. k
      BY <1>1
    <3>3. k \in 1 .. k
      BY <1>1
    <3> QED
      BY <3>1, <3>2, <3>3 DEF DefinitionsUpTo
  <2>6. apart => (n.type = "script" => AllApart(n.kids))
    BY <1>4
  <2>7. B \in SUBSET SUBSET (n.head .. n.hi)
    BY <2>1, BlockDefinitionsIn
  <2> HIDE DEF P, B, n, ds, D, T
  <2>8. /\ StartsIn(made[k], 0, n.hi) /\ made[k] \in T
        /\ CoversAll(made[k], P \cup B) /\ (apart => HitsAll(made[k], P \cup B))
    <3>1. ds \in Seq(Spanning) /\ n \in Nodes /\ n.lo = n.head /\ StartsIn(ds, 0, n.head) /\ P \in SUBSET SUBSET (0 .. n.head - 1)
      BY <2>1, <2>2, <2>4 DEF T
    <3> DEFINE r == VueBlock(ds, n, blanks)
    <3>2. /\ r \in Seq(Spanning) /\ StartsIn(r, 0, n.hi)
          /\ CoversAll(ds, P) => CoversAll(r, P \cup B)
          /\ HitsAll(ds, P) /\ (n.type = "script" => AllApart(n.kids)) => HitsAll(r, P \cup B)
      BY <3>1, VueBlockAttends DEF B
    <3>3. made[k] = r
      BY <2>1
    <3> HIDE DEF r
    <3> QED
      BY <2>4, <2>6, <3>2, <3>3 DEF T
  <2>9. ASSUME NEW e \in Nat, Behind(k, e)
        PROVE  StartsIn(made[k], 0, e) /\ P \cup B \in SUBSET SUBSET (0 .. e - 1)
    <3>1. n.hi < e
      <4>1. k \in 1 .. k
        BY <1>1
      <4> QED
        BY <2>9, <4>1 DEF n
    <3>2. n.hi <= e
      BY <2>1, <3>1
    <3>3. StartsIn(made[k], 0, e)
      BY <2>1, <2>8, <3>2, StartsLater DEF T
    <3>4. 0 .. n.head - 1 \subseteq 0 .. e - 1 /\ n.head .. n.hi \subseteq 0 .. e - 1
      BY <2>1, <3>1
    <3> QED
      BY <2>4, <2>7, <3>3, <3>4
  <2>10. k \in 0 .. m
    BY <1>1
  <2> HIDE DEF Behind
  <2> QED
    BY <2>5, <2>8, <2>9, <2>10
<1>7. m \in Good
  <2> HIDE DEF Good
  <2>1. \A k \in 0 .. m : k \in Good
    BY <1>1, <1>5, <1>6, UpTo
  <2> QED
    BY <1>1, <2>1
<1>8. made[m] \in T /\ CoversAll(made[m], all) /\ (apart => HitsAll(made[m], all))
  BY <1>1, <1>2, <1>3, <1>7
<1>9. all \in SUBSET SUBSET (1 .. TextHeight(f.text)) /\ {} \notin all
  <2> SUFFICES ASSUME NEW k \in 1 .. m, NEW d \in BlockDefinitions(text[k]) PROVE d \subseteq 1 .. TextHeight(f.text) /\ d # {}
    BY <1>3 DEF DefinitionsUpTo
  <2>1. text[k] \in Nodes
    BY <1>1
  <2>2. d \subseteq text[k].head .. text[k].hi /\ d # {} /\ text[k].head \in Nat /\ 1 <= text[k].head /\ text[k].hi \in Nat
    <3>1. text[k].lo \in Nat /\ text[k].head \in Nat /\ 1 <= text[k].lo /\ text[k].lo <= text[k].head /\ text[k].hi \in Nat
      BY <2>1, NodeIs
    <3>2. BlockDefinitions(text[k]) \in SUBSET SUBSET (text[k].head .. text[k].hi) /\ {} \notin BlockDefinitions(text[k])
      BY <2>1, BlockDefinitionsIn
    <3>3. d \subseteq text[k].head .. text[k].hi /\ d # {}
      BY <3>2
    <3>4. 1 <= text[k].head
      BY <3>1
    <3> QED
      BY <3>1, <3>3, <3>4
  <2>3. TextHeight(f.text) \in Nat /\ text[k].hi <= TextHeight(f.text)
    BY <1>1, HeightIs DEF text
  <2>4. text[k].head .. text[k].hi \subseteq 1 .. TextHeight(f.text)
    <3>1. PICK a \in Nat, b \in Nat, c \in Nat : a = text[k].head /\ b = text[k].hi /\ c = TextHeight(f.text)
      BY <2>2, <2>3
    <3> QED
      BY <2>2, <2>3, <3>1
  <2> QED
    BY <2>2, <2>4
<1> DEFINE cs == made[m]
<1> HIDE DEF cs, T
<1>10. cs \in Seq(Spanning) /\ CoversAll(cs, all) /\ (apart => HitsAll(cs, all)) /\ VueChunksOf(f) = OrFallback(f, cs)
  BY <1>2, <1>8 DEF cs, T
<1>11. CoversAll(OrFallback(f, cs), all) /\ (apart => HitsAll(OrFallback(f, cs), all))
  BY <1>9, <1>10, OrFallbackAttends
<1>12. CoversAll(VueChunksOf(f), all) /\ (apart => HitsAll(VueChunksOf(f), all))
  BY <1>10, <1>11
<1> QED
  BY <1>12 DEF all, apart, text

(* The chunker of each language.                                             *)
TreeChunks(f) ==
  CASE f.format = "python" -> PyChunks(f)
    [] f.format = "typescript" -> TsChunks(f)
    [] f.format = "php" -> PhpChunks(f)
    [] f.format = "vue" -> VueChunksOf(f)

(* A file in a language: its definitions are in its chunks.                  *)
LEMMA TreeAttends ==
  ASSUME file \in Files, file.format \in Tree
  PROVE  /\ TreeChunks(file) \in Seq(Spanning) /\ AllDefinitions \in SUBSET SUBSET Nat
         /\ CoversAll(TreeChunks(file), AllDefinitions)
         /\ ~Crowded => HitsAll(TreeChunks(file), AllDefinitions)
<1> DEFINE text == file.text
<1>1. text \in Seq(Nodes) /\ Successive(text)
  BY FilesAssumption
<1>2. TextHeight(text) \in Nat
  BY <1>1, HeightIs
<1>3. 1 .. TextHeight(text) \subseteq Nat
  BY <1>2
<1>4. ASSUME file.format # "vue"
      PROVE  /\ AllDefinitions = LinesOfEach(Definitions(text, file.format))
             /\ AllDefinitions \in SUBSET SUBSET Nat
             /\ ~Crowded => AllApart(text)
  <2>1. AllDefinitions = LinesOfEach(Definitions(text, file.format))
    BY <1>4 DEF AllDefinitions, LinesOfEach
  <2>2. LinesOfEach(Definitions(text, file.format)) \in SUBSET SUBSET (1 .. TextHeight(text))
    BY <1>1, DefinitionsInText
  <2>3. ~Crowded => AllApart(text)
    BY <1>4 DEF Crowded, Trees
  <2> HIDE DEF text
  <2> QED
    BY <1>3, <2>1, <2>2, <2>3
<1>5. CASE file.format = "python"
  <2>1. TreeChunks(file) = PyChunks(file)
    BY <1>5 DEF TreeChunks
  <2>2. PyChunks(file) \in Seq(Spanning)
    BY <1>1, PyIs
  <2>3. \A k \in DOMAIN text : text[k].type = "class" => \A j \in 1 .. k - 1 : text[j].hi < text[k].lo
    BY <1>5, FilesAssumption
  <2>4. /\ CoversAll(PyChunks(file), LinesOfEach(Definitions(text, "python")))
        /\ HitsAll(PyChunks(file), LinesOfEach(Definitions(text, "python")))
    BY <1>1, <2>3, PyFileAttends
  <2> QED
    BY <1>4, <1>5, <2>1, <2>2, <2>4
<1>6. CASE file.format = "typescript"
  <2>1. TreeChunks(file) = TsChunks(file)
    BY <1>6 DEF TreeChunks
  <2>2. TsChunks(file) \in Seq(Spanning)
    BY <1>1, TsIs
  <2>3. /\ CoversAll(TsChunks(file), LinesOfEach(Definitions(text, "typescript")))
        /\ AllApart(text) => HitsAll(TsChunks(file), LinesOfEach(Definitions(text, "typescript")))
    BY <1>1, TsFileAttends
  <2> QED
    BY <1>4, <1>6, <2>1, <2>2, <2>3
<1>7. CASE file.format = "php"
  <2>1. TreeChunks(file) = PhpChunks(file)
    BY <1>7 DEF TreeChunks
  <2>2. PhpChunks(file) \in Seq(Spanning)
    BY <1>1, PhpIs
  <2>3. /\ CoversAll(PhpChunks(file), LinesOfEach(Definitions(text, "php")))
        /\ HitsAll(PhpChunks(file), LinesOfEach(Definitions(text, "php")))
    BY <1>1, PhpFileAttends
  <2> QED
    BY <1>4, <1>7, <2>1, <2>2, <2>3
<1>8. CASE file.format = "vue"
  <2>1. TreeChunks(file) = VueChunksOf(file)
    BY <1>8 DEF TreeChunks
  <2>2. BlocksFollow(text)
    BY <1>8, FormatsAre
  <2>3. VueChunksOf(file) \in Seq(Spanning)
    BY <1>1, <2>2, VueKept
  <2> DEFINE all == UNION {BlockDefinitions(n) : n \in Range(text)}
  <2>4. AllDefinitions = all
    <3>1. \A n : n.type = "script" =>
            BlockDefinitions(n) = {{n.head + l - 1 : l \in LinesOf(d)} : d \in Definitions(n.kids, "vue")}
      BY DEF BlockDefinitions, Moved, LinesOfEach
    <3>2. \A n : n.type # "script" => BlockDefinitions(n) = {}
      BY DEF BlockDefinitions
    <3>3. AllDefinitions = UNION {BlockDefinitions(n) : n \in {m \in Range(text) : m.type = "script"}}
      BY <1>8, <3>1 DEF AllDefinitions
    <3> QED
      BY <3>2, <3>3
  <2>5. \A n \in Range(text) : BlockDefinitions(n) \in SUBSET SUBSET Nat
    <3> SUFFICES ASSUME NEW n \in Range(text) PROVE BlockDefinitions(n) \in SUBSET SUBSET Nat
      OBVIOUS
    <3>1. n \in Nodes
      BY <1>1 DEF Range
    <3>2. BlockDefinitions(n) \in SUBSET SUBSET (n.head .. n.hi) /\ n.head \in Nat /\ n.hi \in Nat
      BY <3>1, BlockDefinitionsIn, NodeIs
    <3>3. n.head .. n.hi \subseteq Nat
      BY <3>2
    <3> QED
      BY <3>2, <3>3
  <2>6. ~Crowded => \A n \in Range(text) : n.type = "script" => AllApart(n.kids)
    BY <1>8 DEF Crowded, Trees
  <2>7. /\ CoversAll(VueChunksOf(file), all)
        /\ (\A n \in Range(text) : n.type = "script" => AllApart(n.kids)) => HitsAll(VueChunksOf(file), all)
    BY <1>1, <2>2, VueFileAttends
  <2>8. all \in SUBSET SUBSET Nat
    BY <2>5
  <2> HIDE DEF all, text
  <2> QED
    BY <2>1, <2>3, <2>4, <2>6, <2>7, <2>8
<1> QED
  BY <1>5, <1>6, <1>7, <1>8 DEF Tree

(* What DefinitionsAttributed asks of a file depends on the file alone.      *)
LEMMA TreeAlone ==
  ASSUME file' = file
  PROVE  AllDefinitions' = AllDefinitions /\ Crowded' = Crowded
BY DEF AllDefinitions, Crowded, Trees

(* What a look-up finds among pieces: the one that starts last of those that *)
(* start at the line or before, and the last of several.                     *)
LEMMA LastIs ==
  ASSUME NEW s \in Seq(PieceOf), NEW l \in Nat, NEW q \in DOMAIN s, s[q].start <= l
  PROVE  LET p == LastStarted(s, l)
         IN  /\ p \in DOMAIN s /\ s[p].start \in Nat /\ s[p].start <= l /\ q \in Starting(s, l)
             /\ \A i \in DOMAIN s : s[i].start <= l => s[i].start <= s[p].start /\ (s[i].start = s[p].start => i <= p)
<1> DEFINE before == Starting(s, l)
           starts == {s[j].start : j \in before}
           latest == Max(starts)
           last == {j \in before : s[j].start = latest}
           p == LastStarted(s, l)
<1>1. PICK n \in Nat : DOMAIN s = 1 .. n
  BY LenProperties
<1>2. \A j \in DOMAIN s : s[j].start \in Nat
  <2> SUFFICES ASSUME NEW j \in DOMAIN s PROVE s[j].start \in Nat
    OBVIOUS
  <2>1. s[j] \in PieceOf
    OBVIOUS
  <2> QED
    BY <2>1 DEF PieceOf
<1>3. /\ q \in before /\ \A j \in before : j \in 1 .. n /\ s[j].start \in Nat /\ s[j].start <= l
      /\ \A j \in DOMAIN s : s[j].start <= l => j \in before
  BY <1>1, <1>2 DEF Starting
<1>4. p = Max(last)
  BY DEF LastStarted
<1> HIDE DEF before, p
<1>5. starts \in SUBSET (0 .. l) /\ starts # {}
  BY <1>3
<1>6. \A j \in before : s[j].start \in starts
  OBVIOUS
<1>7. latest \in starts /\ \A x \in starts : x <= latest
  <2> HIDE DEF starts
  <2> QED
    BY <1>5, MaxIs
<1>8. PICK k \in before : s[k].start = latest
  BY <1>7
<1> HIDE DEF starts, latest
<1>9. last \in SUBSET (0 .. n) /\ last # {}
  <2>1. k \in last
    BY <1>8
  <2>2. \A j \in last : j \in 0 .. n
    BY <1>1, <1>3
  <2> QED
    BY <2>1, <2>2
<1>10. Max(last) \in last /\ \A x \in last : x <= Max(last)
  <2> HIDE DEF last
  <2> QED
    BY <1>1, <1>9, MaxIs
<1>11. p \in before /\ s[p].start = latest /\ \A x \in last : x <= p
  BY <1>4, <1>10
<1>12. ASSUME NEW i \in DOMAIN s, s[i].start <= l PROVE s[i].start <= s[p].start /\ (s[i].start = s[p].start => i <= p)
  <2>1. i \in before
    BY <1>3, <1>12
  <2>2. s[i].start <= latest
    BY <1>6, <1>7, <2>1
  <2>3. s[i].start = latest => i \in last
    BY <2>1
  <2> QED
    BY <1>11, <2>2, <2>3
<1>13. p \in DOMAIN s /\ s[p].start \in Nat /\ s[p].start <= l
  BY <1>1, <1>3, <1>11
<1> QED
  BY <1>3, <1>12, <1>13 DEF p, before

(* The lines of a text that is not scattered are one behind the other.       *)
LEMMA NoGaps ==
  ASSUME NEW c \in AnyChunk, ~Scattered(c), NEW u \in c.units, NEW l \in Nat, c.start <= l, l <= u
  PROVE  l \in c.units
<1>1. /\ c.text \in Seq(Int) /\ c.start \in Nat /\ c.units \in SUBSET Nat /\ c.units = Range(c.text) \ {NoLine}
  BY PartsOf
<1>2. PICK n \in Nat : DOMAIN c.text = 1 .. n
  BY <1>1, LenProperties
<1>3. PICK i \in 1 .. n : c.text[i] = u
  BY <1>1, <1>2 DEF Range
<1>4. \A j \in 1 .. n : c.text[j] = c.start + j - 1
  BY <1>2 DEF Scattered
<1>5. u = c.start + i - 1
  BY <1>3, <1>4
<1> DEFINE j == l - c.start + 1
<1>6. j \in 1 .. n /\ c.start + j - 1 = l
  <2>1. PICK s \in Nat : s = c.start
    BY <1>1
  <2>2. s <= l /\ l <= s + i - 1
    BY <1>5, <2>1
  <2>3. l - s + 1 \in 1 .. n /\ s + (l - s + 1) - 1 = l
    BY <2>2
  <2> QED
    BY <2>1, <2>3
<1>7. c.text[j] = l
  BY <1>4, <1>6
<1>8. l \in Range(c.text)
  BY <1>2, <1>6, <1>7 DEF Range
<1>9. l # NoLine
  BY DEF NoLine
<1> QED
  BY <1>1, <1>8, <1>9

(* A line that goes to a chunk that has it goes to a piece that has it, but  *)
(* for the pieces of a scattered text.                                       *)
LEMMA LookedUp ==
  ASSUME NEW cs \in Seq(Spanning), NEW s \in Seq(PieceOf), IsStored(s, cs), NEW l \in Nat, Hits(cs, l)
  PROVE  \/ l \in s[Lookup(s, l)].units
         \/ Starting(s, l) # {} /\ Displaced(cs[s[LastStarted(s, l)].parent])
<1> DEFINE p == LastStarted(s, l)
           j == s[p].parent
           c == cs[j]
<1>1. PICK k \in DOMAIN cs : Goes(cs, k, l)
  BY DEF Hits
<1>2. /\ cs[k].start \in Nat /\ cs[k].start <= l /\ l \in cs[k].units /\ DOMAIN cs \subseteq Nat
      /\ \A i \in DOMAIN cs : cs[i].start <= l => cs[i].start < cs[k].start \/ (cs[i].start = cs[k].start /\ i <= k)
      /\ \A i \in DOMAIN cs : cs[i].start <= cs[k].start => Reaches(cs[i], l) \/ (i < k /\ EndsBy(cs[i], cs[k].start))
  BY <1>1, StartIs, LenProperties DEF Goes, Foremost, Clear
<1>3. PICK q \in DOMAIN s : s[q].parent = k /\ s[q].start = cs[k].start
  BY DEF IsStored
<1>4. /\ p \in DOMAIN s /\ s[p].start \in Nat /\ s[p].start <= l /\ q \in Starting(s, l)
      /\ \A i \in DOMAIN s : s[i].start <= l => s[i].start <= s[p].start /\ (s[i].start = s[p].start => i <= p)
  BY <1>2, <1>3, LastIs
<1> HIDE DEF p
<1>5. cs[k].start <= s[p].start /\ (s[p].start = cs[k].start => q <= p)
  BY <1>2, <1>3, <1>4
<1>6. j \in DOMAIN cs /\ IsPiece(s[p], j, c)
  BY <1>4 DEF IsStored
<1>7. ASSUME s[p].start = cs[k].start PROVE ~(j < k)
  <2>1. k <= j
    BY <1>3, <1>4, <1>5, <1>7 DEF IsStored
  <2> QED
    BY <1>2, <1>6, <2>1
<1> SUFFICES ASSUME ~Displaced(c) PROVE l \in s[Lookup(s, l)].units
  BY <1>4 DEF p
<1>8. /\ c \in Spanning /\ c \in AnyChunk /\ c.start \in Nat /\ c.end \in Nat /\ c.units \in SUBSET Nat /\ c.split \in BOOLEAN
      /\ \A u \in c.units : c.start <= u /\ u <= c.end
  <2>1. c \in Spanning
    BY <1>6
  <2> HIDE DEF c
  <2> QED
    BY <2>1, SpanningParts
<1>9. c.start <= s[p].start
  <2>1. CASE ~c.split
    BY <1>6, <1>8, <2>1 DEF IsPiece
  <2>2. CASE c.split
    <3>1. s[p].start \in c.units
      BY <1>6, <2>2 DEF IsPiece, Displaced
    <3> QED
      BY <1>8, <3>1
  <2> QED
    BY <2>1, <2>2
<1>10. c.start <= cs[k].start /\ (c.start = cs[k].start => j <= k)
  <2>1. c.start <= l
    BY <1>4, <1>8, <1>9
  <2> QED
    BY <1>2, <1>6, <1>8, <2>1
<1>11. l \in c.units
  <2>1. CASE j = k
    BY <1>2, <2>1
  <2>2. CASE j # k /\ ~c.split
    <3>1. s[p].start = c.start
      BY <1>6, <2>2 DEF IsPiece
    <3>2. s[p].start = cs[k].start
      BY <1>2, <1>5, <1>8, <1>10, <3>1
    <3>3. j < k
      BY <1>2, <1>6, <1>10, <2>2, <3>1, <3>2
    <3> QED
      BY <1>7, <3>2, <3>3
  <2>3. CASE j # k /\ c.split
    <3>1. ~Scattered(c) /\ s[p].start \in c.units
      BY <1>6, <2>3 DEF IsPiece, Displaced
    <3>2. CASE \E u \in c.units : l <= u
      <4>1. c.start <= l
        BY <1>4, <1>8, <1>9
      <4> QED
        BY <1>8, <3>1, <3>2, <4>1, NoGaps
    <3>3. CASE j < k /\ EndsBy(c, cs[k].start)
      <4>1. s[p].start = cs[k].start
        BY <1>2, <1>4, <1>5, <3>1, <3>3 DEF EndsBy
      <4> QED
        BY <1>7, <3>3, <4>1
    <3> QED
      BY <1>2, <1>6, <1>10, <3>1, <3>2, <3>3 DEF Reaches
  <2> QED
    BY <2>1, <2>2, <2>3
<1>12. l \in s[p].units
  BY <1>4, <1>11 DEF IsStored
<1>13. l <= s[p].end
  <2>1. CASE ~c.split
    BY <1>6, <1>8, <1>11, <2>1 DEF IsPiece
  <2>2. CASE c.split
    <3>1. s[p].units = s[p].start .. s[p].end
      BY <1>6, <2>2 DEF IsPiece, Displaced
    <3> QED
      BY <1>12, <3>1
  <2> QED
    BY <2>1, <2>2
<1>14. Lookup(s, l) = p
  <2>1. Starting(s, l) # {}
    BY <1>4
  <2> QED
    BY <1>13, <2>1 DEF Lookup, p
<1> QED
  BY <1>12, <1>14

(* What a file in a language has to show.                                    *)
LEMMA TreeAttributed ==
  ASSUME NEW cs, Done(cs), file \in Files, file.format \in Tree => cs = TreeChunks(file)
  PROVE  DefinitionsAttributed'
<1>1. file' = file
  BY DEF Done
<1>2. AllDefinitions' = AllDefinitions /\ Crowded' = Crowded
  BY <1>1, TreeAlone
<1>3. ASSUME file.format \in Tree, NEW d \in AllDefinitions
      PROVE  /\ \E p \in DOMAIN added' : \A l \in d : p \in Owners(l)'
             /\ \A l \in d : l \in chunks'[Lookup(chunks', l)].units \/ Crowded \/ TakenByShell(l)'
  <2>1. /\ cs \in Seq(Spanning) /\ AllDefinitions \in SUBSET SUBSET Nat
        /\ CoversAll(cs, AllDefinitions) /\ (~Crowded => HitsAll(cs, AllDefinitions))
    BY <1>3, TreeAttends
  <2>2. cs \in Seq(AnyChunk)
    BY <2>1, SpanningAny, SeqOfMore
  <2>3. added' = cs /\ chunks' \in Seq(PieceOf) /\ IsStored(chunks', cs)
    BY <2>2, DoneIs
  <2>4. PICK k \in DOMAIN cs : d \subseteq cs[k].units
    BY <1>3, <2>1 DEF CoversAll
  <2>5. ASSUME NEW l \in d PROVE k \in Owners(l)'
    <3>1. Owners(l)' = {i \in DOMAIN cs : l \in cs[i].units}
      BY <2>2, OwnersAre
    <3> QED
      BY <2>4, <3>1
  <2>6. ASSUME NEW l \in d, ~Crowded PROVE l \in chunks'[Lookup(chunks', l)].units \/ TakenByShell(l)'
    <3>1. l \in Nat
      BY <1>3, <2>1
    <3>2. Hits(cs, l)
      BY <1>3, <2>1, <2>6 DEF HitsAll
    <3>3. \/ l \in chunks'[Lookup(chunks', l)].units
          \/ Starting(chunks', l) # {} /\ Displaced(cs[chunks'[LastStarted(chunks', l)].parent])
      BY <2>1, <2>3, <3>1, <3>2, LookedUp
    <3> QED
      BY <2>3, <3>3 DEF TakenByShell
  <2> QED
    BY <2>3, <2>4, <2>5, <2>6
<1> QED
  BY <1>1, <1>2, <1>3 DEF DefinitionsAttributed

(* A function or a method is whole in one chunk, with its decorators or its  *)
(* docblock, and a reference on any of its lines goes to a chunk that has    *)
(* the line, but for files where an object starts on the line on which what  *)
(* precedes it ends (chunker.py, the chunkers of python, typescript, php and *)
(* vue; builder.py, _find_enclosing_chunk).                                  *)
THEOREM DefinitionsAreAttributed == ChunkerSpec => []DefinitionsAttributed
<1> DEFINE Attributed == file \in Files /\ DefinitionsAttributed
<1>1. ChunkerInit => Attributed
  BY DEF ChunkerInit, DefinitionsAttributed
<1>2. Attributed /\ [ChunkFile]_chunkerVars => Attributed'
  <2> SUFFICES ASSUME Attributed, [ChunkFile]_chunkerVars PROVE Attributed'
    OBVIOUS
  <2>1. CASE UNCHANGED chunkerVars
    <3>1. file' = file /\ added' = added /\ chunks' = chunks /\ done' = done
      BY <2>1 DEF chunkerVars
    <3>2. AllDefinitions' = AllDefinitions /\ Crowded' = Crowded
      BY <3>1, TreeAlone
    <3>3. \A l : Owners(l)' = Owners(l) /\ TakenByShell(l)' = TakenByShell(l)
      BY <3>1 DEF Owners, TakenByShell
    <3> QED
      BY <3>1, <3>2, <3>3 DEF DefinitionsAttributed
  <2>2. CASE ChunkFile
    <3>1. PICK cs : Done(cs) /\ (file.format \in Tree => cs = TreeChunks(file))
      BY <2>2 DEF ChunkFile, ChunkWith, ChunkBlade, ChunkTypescript, ChunkPython, ChunkPhp, ChunkVue, ChunkBash,
                  ChunkMarkdown, ChunkProse, ChunkText, ChunkPdf, Done, Tree, TreeChunks
    <3>2. file' = file
      BY <3>1 DEF Done
    <3>3. DefinitionsAttributed'
      BY <3>1, TreeAttributed
    <3> QED
      BY <3>2, <3>3
  <2> QED
    BY <2>1, <2>2
<1>3. Attributed => DefinitionsAttributed
  OBVIOUS
<1> QED
  BY <1>1, <1>2, <1>3, PTL DEF ChunkerSpec
=============================================================================
