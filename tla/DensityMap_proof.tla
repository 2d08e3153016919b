-------------------------- MODULE DensityMap_proof --------------------------
(***************************************************************************)
(* The density map, from pixels to leaves.  The aggregation of pixels is   *)
(* independent of rayon's schedule, for every image, every number of       *)
(* pixels and rows and every population limit.  Propagation and the walk   *)
(* of the faces give, for every number of faces, every fanout, depth and   *)
(* threshold, the leaves that the encoder and the queries count on.        *)
(***************************************************************************)
EXTENDS Aggregation, PrunedTree, Foundations_proof

USE SourceAssumption DEF Pixels

LEMMA DivisionNat ==
  ASSUME NEW a \in Nat, NEW d \in Nat \ {0}
  PROVE  a \div d \in Nat
OBVIOUS

LEMMA ContributionNat ==
  ASSUME NEW value \in Int
  PROVE  Contribution(value) \in Nat
<1>1. CASE Convertible(value) /\ ~Skipped(value)
  <2>1. 2 * value + Grain \in Nat /\ 2 * Grain \in Nat \ {0}
    BY <1>1 DEF Convertible
  <2>2. Fixed(value) \in Nat
    BY <2>1, DivisionNat DEF Fixed
  <2> QED
    BY <1>1, <2>2 DEF Contribution
<1>2. CASE ~(Convertible(value) /\ ~Skipped(value))
  BY <1>2 DEF Contribution
<1> QED
  BY <1>1, <1>2

\* One more pixel, and the shape of running totals.
LEMMA RunningTotalFacts ==
  ASSUME NEW s \in Sources, NEW c \in Cells
  PROVE  /\ RunningTotal(s, 0, c) = 0
         /\ \A n \in 0..PixelCount : RunningTotal(s, n, c) \in Nat
         /\ \A m, n \in 0..PixelCount :
              m <= n => RunningTotal(s, m, c) <= RunningTotal(s, n, c)
         /\ \A p \in Pixels :
              RunningTotal(s, p + 1, c) = RunningTotal(s, p, c)
                + IF CellAt[s][p] = c THEN Contribution(ValueAt[s][p]) ELSE 0
<1> DEFINE f == [p \in Pixels |-> IF CellAt[s][p] = c
                                  THEN Contribution(ValueAt[s][p]) ELSE 0]
<1>1. \A p \in Pixels : f[p] \in Nat
  BY ContributionNat
<1>2. \A n : RunningTotal(s, n, c) = PrefixSum(f, n)
  BY DEF RunningTotal
<1>3. \A p \in Pixels : f[p] = IF CellAt[s][p] = c
                               THEN Contribution(ValueAt[s][p]) ELSE 0
  OBVIOUS
<1>4. \A k \in 0..(PixelCount - 1) : f[k] \in Nat
  BY <1>1
<1> HIDE DEF f
<1>5. \A n \in 0..PixelCount : PrefixSum(f, n) \in Nat
  BY <1>4, PrefixSumNat
<1>6. ASSUME NEW m \in 0..PixelCount, NEW n \in 0..PixelCount, m <= n
      PROVE  PrefixSum(f, m) <= PrefixSum(f, n)
  <2>1. n \in m..PixelCount
    BY <1>6
  <2> QED
    BY <1>4, <2>1, PrefixSumGrows
<1>8. PrefixSum(f, 0) = 0
  BY PrefixSumZero
<1>7. \A p \in Pixels : PrefixSum(f, p + 1) = PrefixSum(f, p) + f[p]
  BY PrefixSumNext
<1> QED
  BY <1>2, <1>3, <1>5, <1>6, <1>7, <1>8

-----------------------------------------------------------------------------
(* The inductive invariant: what holds of one segment, and of the outcome *)

SegmentShape ==
  [first : 0..PixelCount, next : 0..PixelCount, end : 0..PixelCount,
   map : [Cells -> Nat]]

SegmentOK(t) ==
  /\ t \in SegmentShape
  /\ t.first <= t.next /\ t.next <= t.end
  /\ \A c \in Cells :
       /\ t.map[c] = RunningTotal(source, t.next, c)
                       - RunningTotal(source, t.first, c)
       /\ t.map[c] <= MaxPopulation
  /\ \A p \in Pixels : t.first <= p /\ p < t.next =>
       Skipped(ValueAt[source][p]) \/ Convertible(ValueAt[source][p])

IInv ==
  /\ source \in Sources
  /\ \A t \in segments : SegmentOK(t)
  /\ outcome \in {"running", "built", "failed"}
  /\ result \in [Cells -> 0..MaxPopulation]
  /\ ScheduleIndependent

LEMMA FreshSegment ==
  ASSUME source \in Sources,
         NEW first \in 0..PixelCount, NEW end \in 0..PixelCount, first <= end
  PROVE  SegmentOK(Segment(first, end))
BY RunningTotalFacts DEF SegmentOK, Segment, SegmentShape, NoPopulation

\* A step that exchanges segments for correct ones keeps the invariant.
LEMMA Exchange ==
  ASSUME IInv, outcome = "running", NEW old, NEW new,
         \A t \in new : SegmentOK(t),
         segments' = (segments \ old) \union new,
         UNCHANGED <<source, outcome, result>>
  PROVE  IInv'
<1>1. \A t \in segments' : SegmentOK(t)'
  BY DEF IInv, SegmentOK
<1> QED
  BY <1>1 DEF IInv, ScheduleIndependent

LEMMA Replacement ==
  ASSUME IInv, outcome = "running", NEW old, NEW t, SegmentOK(t), Replace(old, t)
  PROVE  IInv'
<1>1. \A u \in {t} : SegmentOK(u)
  OBVIOUS
<1> QED
  BY <1>1, Exchange DEF Replace

LEMMA Failure ==
  ASSUME IInv, Fail, ~Acceptable(source)
  PROVE  IInv'
<1>1. \A t \in segments' : SegmentOK(t)'
  BY DEF IInv, Fail, SegmentOK
<1> QED
  BY <1>1 DEF IInv, Fail, ScheduleIndependent

LEMMA SplitKeepsIInv ==
  ASSUME IInv, outcome = "running",
         NEW t \in segments, NEW middle \in RowStarts, Split(t, middle)
  PROVE  IInv'
<1>1. /\ t.first \in 0..PixelCount /\ t.end \in 0..PixelCount
      /\ middle \in 0..PixelCount /\ t.first <= middle /\ middle <= t.end
  BY DEF IInv, SegmentOK, SegmentShape, Split
<1>2. SegmentOK(Segment(t.first, middle)) /\ SegmentOK(Segment(middle, t.end))
  BY <1>1, FreshSegment DEF IInv
<1> QED
  BY <1>2, Exchange DEF Split

LEMMA FoldPixelKeepsIInv ==
  ASSUME IInv, outcome = "running", NEW t \in segments, FoldPixel(t)
  PROVE  IInv'
<1> DEFINE p     == t.next
           value == ValueAt[source][p]
           c     == CellAt[source][p]
           step  == Advance(t, t.map)
<1>1. /\ source \in Sources /\ SegmentOK(t) /\ t \in SegmentShape
      /\ p \in Pixels /\ p + 1 \in 0..PixelCount /\ p + 1 <= t.end
      /\ value \in Int /\ c \in Cells
      /\ t.first \in 0..PixelCount /\ t.end \in 0..PixelCount
      /\ t.map \in [Cells -> Nat]
  <2>1. source \in Sources /\ SegmentOK(t) /\ t \in SegmentShape
    BY DEF IInv, SegmentOK
  <2>2. t.next <= t.end /\ t.next # t.end
    BY <2>1 DEF SegmentOK, FoldPixel, Folded
  <2>3. /\ t.next \in Nat /\ t.end \in 0..PixelCount /\ t.first \in 0..PixelCount
        /\ t.map \in [Cells -> Nat]
    BY <2>1 DEF SegmentShape
  <2>4. p \in Pixels /\ p + 1 \in 0..PixelCount /\ p + 1 <= t.end
    BY <2>2, <2>3
  <2> QED
    BY <2>1, <2>3, <2>4
<1>2. \A d \in Cells :
        /\ RunningTotal(source, t.first, d) \in Nat
        /\ RunningTotal(source, p, d) \in Nat
        /\ RunningTotal(source, p + 1, d) \in Nat
        /\ RunningTotal(source, PixelCount, d) \in Nat
        /\ RunningTotal(source, p + 1, d) <= RunningTotal(source, PixelCount, d)
        /\ RunningTotal(source, p + 1, d) = RunningTotal(source, p, d)
             + IF c = d THEN Contribution(value) ELSE 0
  BY <1>1, RunningTotalFacts
<1>3. \A q \in Pixels : q < p + 1 => q < p \/ q = p
  BY <1>1
<1>4. ASSUME Skipped(value), Replace({t}, step) PROVE IInv'
  <2>1. Contribution(value) = 0
    BY <1>4 DEF Contribution
  <2>2. SegmentOK(step)
    BY <1>1, <1>2, <1>3, <1>4, <2>1 DEF Advance, SegmentOK, SegmentShape
  <2> QED
    BY <1>4, <2>2, Replacement
<1>5. ASSUME ~Skipped(value), Convertible(value), Fits(t.map, c, Fixed(value)),
             Replace({t}, Advance(t, Add(t.map, c, Fixed(value))))
      PROVE  IInv'
  <2> DEFINE new == Advance(t, Add(t.map, c, Fixed(value)))
  <2>1. Contribution(value) = Fixed(value) /\ Fixed(value) \in Nat
    BY <1>1, <1>5, ContributionNat DEF Contribution
  <2>2. /\ new.first = t.first /\ new.next = p + 1 /\ new.end = t.end
        /\ new.map \in [Cells -> Nat] /\ new \in SegmentShape
        /\ \A d \in Cells :
             new.map[d] = t.map[d] + IF c = d THEN Fixed(value) ELSE 0
    <3>1. Add(t.map, c, Fixed(value)) \in [Cells -> Nat]
      BY <1>1, <2>1 DEF Add
    <3>3. \A d \in Cells : Add(t.map, c, Fixed(value))[d]
                             = t.map[d] + IF c = d THEN Fixed(value) ELSE 0
      BY <1>1, <2>1 DEF Add
    <3> QED
      BY <1>1, <3>1, <3>3 DEF Advance, SegmentShape
  <2>3. ASSUME NEW d \in Cells
        PROVE  /\ new.map[d] = RunningTotal(source, new.next, d)
                              - RunningTotal(source, new.first, d)
               /\ new.map[d] <= MaxPopulation
    <3>1. /\ t.map[d] = RunningTotal(source, p, d) - RunningTotal(source, t.first, d)
          /\ t.map[d] \in Nat /\ t.map[d] <= MaxPopulation
      BY <1>1 DEF SegmentOK
    <3>2. c = d => t.map[d] + Fixed(value) <= MaxPopulation
      BY <1>5 DEF Fits
    <3>3. new.map[d] = t.map[d] + IF c = d THEN Fixed(value) ELSE 0
      BY <2>2
    <3> HIDE DEF new
    <3>4. CASE c = d
      BY <1>2, <2>1, <2>2, <3>1, <3>2, <3>3, <3>4
    <3>5. CASE c # d
      BY <1>2, <2>1, <2>2, <3>1, <3>3, <3>5
    <3> QED
      BY <3>4, <3>5
  <2>4. SegmentOK(new)
    <3> HIDE DEF new
    <3> QED
      BY <1>1, <1>3, <1>5, <2>2, <2>3 DEF SegmentOK
  <2> QED
    <3>1. Replace({t}, new)
      BY <1>5
    <3> HIDE DEF new
    <3> QED
      BY <2>4, <3>1, Replacement
<1>6. ASSUME ~Skipped(value), ~(Convertible(value) /\ Fits(t.map, c, Fixed(value))),
             Fail
      PROVE  IInv'
  <2>1. CASE ~Convertible(value)
    BY <1>1, <1>6, <2>1, Failure DEF Acceptable
  <2>2. CASE Convertible(value) /\ ~Fits(t.map, c, Fixed(value))
    <3>1. Contribution(value) = Fixed(value) /\ Fixed(value) \in Nat
      BY <1>1, <1>6, <2>2, ContributionNat DEF Contribution
    <3>2. RunningTotal(source, PixelCount, c) > MaxPopulation
      BY <1>1, <1>2, <2>2, <3>1 DEF SegmentOK, Fits
    <3> QED
      BY <1>1, <1>2, <1>6, <3>2, Failure DEF Acceptable
  <2> QED
    BY <1>6, <2>1, <2>2
<1> QED
  BY <1>4, <1>5, <1>6 DEF FoldPixel

LEMMA MergeKeepsIInv ==
  ASSUME IInv, outcome = "running", NEW t \in segments, NEW u \in segments,
         Merge(t, u)
  PROVE  IInv'
<1>1. /\ source \in Sources /\ SegmentOK(t) /\ SegmentOK(u)
      /\ t \in SegmentShape /\ u \in SegmentShape
      /\ t.next = t.end /\ u.next = u.end /\ t.end = u.first
  BY DEF IInv, SegmentOK, Merge, Folded, Adjacent
<1>2. \A d \in Cells :
        /\ RunningTotal(source, t.first, d) \in Nat
        /\ RunningTotal(source, u.first, d) \in Nat
        /\ RunningTotal(source, u.end, d) \in Nat
        /\ RunningTotal(source, PixelCount, d) \in Nat
        /\ RunningTotal(source, u.end, d) <= RunningTotal(source, PixelCount, d)
        /\ t.map[d] + u.map[d] = RunningTotal(source, u.end, d)
                                   - RunningTotal(source, t.first, d)
  BY <1>1, RunningTotalFacts DEF SegmentOK, SegmentShape
<1> DEFINE new == [first |-> t.first, next |-> u.end, end |-> u.end,
                   map |-> Combined(t, u)]
<1>3. ASSUME \A d \in Cells : Fits(t.map, d, u.map[d]), Replace({t, u}, new)
      PROVE  IInv'
  <2>1. new \in SegmentShape
    BY <1>1 DEF SegmentShape, Combined
  <2>2. SegmentOK(new)
    BY <1>1, <1>2, <1>3, <2>1 DEF SegmentOK, SegmentShape, Fits, Combined
  <2> QED
    <3> HIDE DEF new
    <3> QED
      BY <1>3, <2>2, Replacement
<1>4. ASSUME NEW d \in Cells, ~Fits(t.map, d, u.map[d]), Fail
      PROVE  IInv'
  <2>1. t.map[d] \in Nat /\ u.map[d] \in Nat
    BY <1>1 DEF SegmentShape
  <2>2. RunningTotal(source, PixelCount, d) > MaxPopulation
    BY <1>2, <1>4, <2>1 DEF Fits
  <2> QED
    BY <1>2, <1>4, <2>2, Failure DEF Acceptable
<1> QED
  BY <1>3, <1>4 DEF Merge

LEMMA FinishKeepsIInv ==
  ASSUME IInv, outcome = "running", NEW t \in segments, Finish(t)
  PROVE  IInv'
<1>1. /\ source \in Sources /\ SegmentOK(t) /\ t.map \in [Cells -> Nat]
      /\ t.first = 0 /\ t.next = PixelCount
  BY DEF IInv, SegmentOK, SegmentShape, Finish, Folded
<1>2. \A c \in Cells : /\ t.map[c] = RunningTotal(source, PixelCount, c)
                       /\ t.map[c] <= MaxPopulation
  BY <1>1, RunningTotalFacts DEF SegmentOK
<1>3. Acceptable(source)
  BY <1>1, <1>2 DEF Acceptable, SegmentOK
<1>4. t.map = [c \in Cells |-> RunningTotal(source, PixelCount, c)]
  BY <1>1, <1>2
<1>5. \A u \in segments' : SegmentOK(u)'
  BY DEF IInv, Finish, SegmentOK
<1>6. t.map \in [Cells -> 0..MaxPopulation]
  BY <1>1, <1>2
<1> QED
  BY <1>1, <1>3, <1>4, <1>5, <1>6 DEF IInv, Finish, ScheduleIndependent, Acceptable

LEMMA InitIInv == Init => IInv
<1> SUFFICES ASSUME Init PROVE IInv
  OBVIOUS
<1>1. SegmentOK(Segment(0, PixelCount))
  BY FreshSegment DEF Init
<1> QED
  BY <1>1 DEF Init, IInv, ScheduleIndependent, NoPopulation

LEMMA NextIInv == IInv /\ [Next]_vars => IInv'
<1> SUFFICES ASSUME IInv, [Next]_vars PROVE IInv'
  OBVIOUS
<1>1. CASE Next
  BY <1>1, SplitKeepsIInv, FoldPixelKeepsIInv, MergeKeepsIInv, FinishKeepsIInv
  DEF Next
<1>2. CASE UNCHANGED vars
  <2>1. \A t \in segments' : SegmentOK(t)'
    BY <1>2 DEF IInv, vars, SegmentOK
  <2> QED
    BY <1>2, <2>1 DEF IInv, vars, ScheduleIndependent
<1> QED
  BY <1>1, <1>2

LEMMA AlwaysIInv == Spec => []IInv
BY InitIInv, NextIInv, PTL DEF Spec

-----------------------------------------------------------------------------

\* Every variable keeps its type: no fold runs past the image, and no total past
\* MaxPopulation.
THEOREM TypeCorrect == Spec => []TypeOK
<1>1. ASSUME IInv PROVE TypeOK
  <2>1. \A t \in segments : t \in SegmentType
    BY <1>1 DEF IInv, SegmentOK, SegmentShape, SegmentType
  <2> QED
    BY <1>1, <2>1 DEF IInv, TypeOK
<1> QED
  BY <1>1, AlwaysIInv, PTL

\* Every map holds exactly the contributions of its segment's folded pixels.
THEOREM MapsAlwaysExact == Spec => []MapsExact
<1>1. IInv => MapsExact
  BY DEF IInv, SegmentOK, MapsExact
<1> QED
  BY <1>1, AlwaysIInv, PTL

\* The outcome and the populations are those of the image, however the rows are
\* split, folded and merged.
THEOREM OutcomeScheduleIndependent == Spec => []ScheduleIndependent
<1>1. IInv => ScheduleIndependent
  BY DEF IInv
<1> QED
  BY <1>1, AlwaysIInv, PTL

-----------------------------------------------------------------------------
(* No pixel is lost or counted twice *)

Covers(t, p) == t.first <= p /\ p < t.end

\* Segments may be exchanged for others that cover the same pixels once each.
LEMMA CoverExchange ==
  ASSUME PixelsCovered, NEW old \in SUBSET segments, NEW new,
         segments' = (segments \ old) \union new,
         \A p \in Pixels : (\E t \in old : Covers(t, p))
                             <=> (\E t \in new : Covers(t, p)),
         \A p \in Pixels, t, u \in new : Covers(t, p) /\ Covers(u, p) => t = u
  PROVE  PixelsCovered'
<1> SUFFICES ASSUME NEW p \in Pixels
             PROVE  \E t \in segments' : /\ Covers(t, p)
                                         /\ \A u \in segments' : Covers(u, p) => u = t
  BY DEF PixelsCovered, Covers
<1>1. PICK t \in segments : Covers(t, p) /\ \A u \in segments : Covers(u, p) => u = t
  BY DEF PixelsCovered, Covers
<1>2. CASE t \in old
  <2>1. PICK v \in new : Covers(v, p)
    BY <1>1, <1>2
  <2>2. \A u \in segments \ old : ~Covers(u, p)
    BY <1>1, <1>2
  <2> QED
    BY <2>1, <2>2
<1>3. CASE t \notin old
  <2>1. \A u \in new : ~Covers(u, p)
    BY <1>1, <1>3
  <2> QED
    BY <1>1, <1>3, <2>1
<1> QED
  BY <1>2, <1>3

LEMMA SplitKeepsCover ==
  ASSUME IInv, PixelsCovered,
         NEW t \in segments, NEW middle \in RowStarts, Split(t, middle)
  PROVE  PixelsCovered'
<1> DEFINE new == {Segment(t.first, middle), Segment(middle, t.end)}
<1>1. /\ t.first \in Nat /\ t.end \in Nat /\ middle \in Nat
      /\ t.first < middle /\ middle < t.end
  BY DEF IInv, SegmentOK, SegmentShape, Split
<1>2. \A p \in Pixels : (\E u \in {t} : Covers(u, p)) <=> (\E u \in new : Covers(u, p))
  BY <1>1 DEF Covers, Segment
<1>3. \A p \in Pixels, u, v \in new : Covers(u, p) /\ Covers(v, p) => u = v
  BY <1>1 DEF Covers, Segment
<1>4. segments' = (segments \ {t}) \union new
  BY DEF Split
<1> HIDE DEF new
<1> QED
  BY <1>2, <1>3, <1>4, CoverExchange

\* A fold that advances and a merge put one segment in the place of others.
LEMMA ReplacementKeepsCover ==
  ASSUME PixelsCovered, NEW old \in SUBSET segments, NEW t, Replace(old, t),
         \A p \in Pixels : (\E u \in old : Covers(u, p)) <=> Covers(t, p)
  PROVE  PixelsCovered'
<1> DEFINE new == {t}
<1>1. /\ segments' = (segments \ old) \union new
      /\ \A p \in Pixels : (\E u \in old : Covers(u, p)) <=> (\E u \in new : Covers(u, p))
      /\ \A p \in Pixels, u, v \in new : Covers(u, p) /\ Covers(v, p) => u = v
  BY DEF Replace
<1> HIDE DEF new
<1> QED
  BY <1>1, CoverExchange

LEMMA FoldPixelKeepsCover ==
  ASSUME PixelsCovered, NEW t \in segments, FoldPixel(t)
  PROVE  PixelsCovered'
<1>1. ASSUME NEW map, Replace({t}, Advance(t, map)) PROVE PixelsCovered'
  <2>1. \A p \in Pixels : (\E u \in {t} : Covers(u, p)) <=> Covers(Advance(t, map), p)
    BY DEF Covers, Advance
  <2> QED
    BY <1>1, <2>1, ReplacementKeepsCover
<1>2. ASSUME Fail PROVE PixelsCovered'
  BY <1>2 DEF Fail, PixelsCovered
<1> QED
  BY <1>1, <1>2 DEF FoldPixel

LEMMA MergeKeepsCover ==
  ASSUME IInv, PixelsCovered, NEW t \in segments, NEW u \in segments, Merge(t, u)
  PROVE  PixelsCovered'
<1> DEFINE new == [first |-> t.first, next |-> u.end, end |-> u.end,
                   map |-> Combined(t, u)]
<1>1. /\ t.first \in Nat /\ t.end \in Nat /\ u.end \in Nat /\ u.first = t.end
      /\ t.first <= t.end /\ u.first <= u.end
  BY DEF IInv, SegmentOK, SegmentShape, Merge, Folded, Adjacent
<1>2. \A p \in Pixels : (\E v \in {t, u} : Covers(v, p)) <=> Covers(new, p)
  BY <1>1 DEF Covers
<1>3. Replace({t, u}, new) => PixelsCovered'
  <2> HIDE DEF new
  <2> QED
    BY <1>2, ReplacementKeepsCover
<1>4. Fail => PixelsCovered'
  BY DEF Fail, PixelsCovered
<1> QED
  BY <1>3, <1>4 DEF Merge

\* Every pixel belongs to exactly one segment at any time.
THEOREM PixelsAlwaysCovered == Spec => []PixelsCovered
<1>1. Init => PixelsCovered
  BY DEF Init, PixelsCovered, Segment
<1>2. IInv /\ PixelsCovered /\ [Next]_vars => PixelsCovered'
  <2> SUFFICES ASSUME IInv, PixelsCovered, [Next]_vars PROVE PixelsCovered'
    OBVIOUS
  <2>1. ASSUME NEW t \in segments, Finish(t) PROVE PixelsCovered'
    BY <2>1 DEF Finish, PixelsCovered
  <2>2. CASE UNCHANGED vars
    BY <2>2 DEF vars, PixelsCovered
  <2> QED
    BY <2>1, <2>2, SplitKeepsCover, FoldPixelKeepsCover, MergeKeepsCover DEF Next
<1> QED
  BY <1>1, <1>2, AlwaysIInv, PTL DEF Spec

HIDE SourceAssumption DEF Pixels

-----------------------------------------------------------------------------
(* Propagation and pruning: the constants *)

LEMMA Parameters ==
  /\ Fanout \in Nat \ {0} /\ Depth \in Nat \ {0}
  /\ Threshold \in Nat \ {0} /\ PopulationLimit \in Nat
BY PrunedTreeAssumption



LEMMA FacesNat ==
  /\ IsFiniteSet(Faces)
  /\ \A f \in Faces : f \in Nat
  /\ \A f \in Faces : \A g \in 0..f : g \in Faces
  /\ 0 \in Faces
<1>1. Cardinality(Faces) \in Nat
  BY PrunedTreeAssumption, FS_CardinalityType
<1>2. PICK n \in Nat : n = Cardinality(Faces)
  BY <1>1
<1>3. Faces = 0..(n - 1) /\ Faces # {}
  BY <1>2, PrunedTreeAssumption
<1>4. n # 0
  BY <1>3
<1>5. IsFiniteSet(Faces)
  BY PrunedTreeAssumption
<1>6. ASSUME NEW f \in Faces PROVE f \in 0..(n - 1)
  BY <1>3
<1>7. ASSUME NEW f \in 0..(n - 1) PROVE f \in Faces
  BY <1>3
<1>8. \A f \in Faces : f \in Nat
  BY <1>6
<1>9. \A f \in Faces : \A g \in 0..f : g \in Faces
  BY <1>6, <1>7
<1>10. 0 \in Faces
  BY <1>4, <1>7
<1> QED
  BY <1>5, <1>8, <1>9, <1>10

-----------------------------------------------------------------------------
(* The cells of a level, below a cell and around it *)

Path(c) ==
  /\ c \in Seq(Int) /\ Len(c) \in Nat \ {0} /\ c[1] \in Faces
  /\ \A i \in 2..Len(c) : c[i] \in Positions

LEMMA CellShape ==
  ASSUME NEW l \in Nat, NEW c
  PROVE  c \in CellsAt(l) <=> Path(c) /\ Len(c) = l + 1
<1>1. ASSUME NEW f \in Faces, NEW p \in [1..l -> Positions]
      PROVE  /\ <<f>> \o p \in Seq(Int) /\ Len(<<f>> \o p) = l + 1
             /\ (<<f>> \o p)[1] = f
             /\ \A i \in 2..(l + 1) : (<<f>> \o p)[i] = p[i - 1]
  <2>1. p \in Seq(Int) /\ Len(p) = l
    BY DEF Positions
  <2>2. f \in Int
    BY FacesNat
  <2> QED
    BY <2>1, <2>2
<1>2. ASSUME c \in CellsAt(l) PROVE Path(c) /\ Len(c) = l + 1
  <2>1. PICK f \in Faces, p \in [1..l -> Positions] : c = <<f>> \o p
    BY <1>2 DEF CellsAt, CellsOf
  <2>2. \A i \in 2..(l + 1) : i - 1 \in 1..l
    OBVIOUS
  <2>3. c \in Seq(Int) /\ Len(c) = l + 1 /\ c[1] = f
    BY <1>1, <2>1
  <2>4. ASSUME NEW i \in 2..(l + 1) PROVE c[i] \in Positions
    BY <1>1, <2>1, <2>2
  <2> QED
    BY <2>3, <2>4 DEF Path
<1>3. ASSUME Path(c), Len(c) = l + 1 PROVE c \in CellsAt(l)
  <2> DEFINE p == [i \in 1..l |-> c[i + 1]]
  <2>1. p \in [1..l -> Positions]
    <3>1. \A i \in 1..l : i + 1 \in 2..Len(c)
      BY <1>3
    <3> QED
      BY <1>3, <3>1 DEF Path
  <2>2. c[1] \in Faces
    BY <1>3 DEF Path
  <2>3. /\ <<c[1]>> \o p \in Seq(Int) /\ Len(<<c[1]>> \o p) = l + 1
        /\ (<<c[1]>> \o p)[1] = c[1]
        /\ \A i \in 2..(l + 1) : (<<c[1]>> \o p)[i] = p[i - 1]
    BY <1>1, <2>1, <2>2
  <2>4. ASSUME NEW i \in 1..(l + 1) PROVE (<<c[1]>> \o p)[i] = c[i]
    <3>1. CASE i = 1
      BY <2>3, <3>1
    <3>2. CASE i # 1
      <4>1. i \in 2..(l + 1) /\ i - 1 \in 1..l /\ (i - 1) + 1 = i
        BY <3>2
      <4> QED
        BY <2>3, <4>1
    <3> QED
      BY <3>1, <3>2
  <2>5. c \in Seq(Int)
    BY <1>3 DEF Path
  <2> DEFINE s == <<c[1]>> \o p
  <2>6. s = c
    <3>1. s \in Seq(Int) /\ Len(s) = l + 1 /\ \A i \in 1..(l + 1) : s[i] = c[i]
      BY <2>3, <2>4
    <3> HIDE DEF s
    <3> QED
      BY <1>3, <2>5, <3>1, SeqEqual
  <2> HIDE DEF p
  <2> QED
    BY <2>1, <2>2, <2>6 DEF CellsAt, CellsOf
<1> QED
  BY <1>2, <1>3

LEMMA AllCellsShape ==
  ASSUME NEW c
  PROVE  c \in AllCells <=> Path(c) /\ Len(c) <= Depth + 1
<1>1. ASSUME c \in AllCells PROVE Path(c) /\ Len(c) <= Depth + 1
  <2>1. PICK l \in 0..Depth : c \in CellsAt(l)
    BY <1>1 DEF AllCells
  <2> QED
    BY <2>1, CellShape, Parameters
<1>2. ASSUME Path(c), Len(c) <= Depth + 1 PROVE c \in AllCells
  <2>1. Len(c) - 1 \in 0..Depth /\ Len(c) = (Len(c) - 1) + 1
    BY <1>2, Parameters DEF Path
  <2>2. c \in CellsAt(Len(c) - 1)
    BY <1>2, <2>1, CellShape
  <2> QED
    BY <2>1, <2>2 DEF AllCells
<1> QED
  BY <1>1, <1>2

LEMMA LevelsAreCells ==
  ASSUME NEW l \in 0..Depth
  PROVE  CellsAt(l) \subseteq AllCells
BY DEF AllCells

LEMMA CellFacts ==
  ASSUME NEW l \in Nat, NEW c \in CellsAt(l)
  PROVE  /\ c \in Seq(Int) /\ Len(c) = l + 1 /\ Level(c) = l
         /\ c[1] \in Faces /\ c[1] \in Int
         /\ \A i \in 2..(l + 1) : c[i] \in Positions
BY CellShape, FacesNat DEF Path, Level

\* A prefix of a path is a cell, and one of its ancestors.
LEMMA PrefixFacts ==
  ASSUME NEW c, Path(c), NEW k \in 1..Len(c)
  PROVE  /\ SubSeq(c, 1, k) \in CellsAt(k - 1) /\ Path(SubSeq(c, 1, k))
         /\ Len(SubSeq(c, 1, k)) = k
         /\ \A i \in 1..k : SubSeq(c, 1, k)[i] = c[i]
         /\ IsAncestor(SubSeq(c, 1, k), c)
<1> DEFINE s == SubSeq(c, 1, k)
<1>1. c \in Seq(Int) /\ Len(c) \in Nat /\ k \in Nat /\ k - 1 \in Nat
  BY DEF Path
<1>2. s \in Seq(Int) /\ Len(s) = k /\ \A i \in 1..k : s[i] = c[i]
  BY <1>1
<1> HIDE DEF s
<1>3. Path(s)
  BY <1>1, <1>2 DEF Path
<1>4. s \in CellsAt(k - 1)
  BY <1>1, <1>2, <1>3, CellShape
<1>5. IsAncestor(s, c)
  BY <1>1, <1>2, AncestorPointwise
<1> QED
  BY <1>2, <1>3, <1>4, <1>5 DEF s

\* The only ancestor of a length is the prefix of that length.
LEMMA AncestorIsPrefix ==
  ASSUME NEW a, NEW c, Path(a), Path(c)
  PROVE  IsAncestor(a, c) <=> Len(a) <= Len(c) /\ SubSeq(c, 1, Len(a)) = a
BY DEF IsAncestor

LEMMA ChildFacts ==
  ASSUME NEW l \in Nat, NEW c \in CellsAt(l), NEW k \in 1..Fanout
  PROVE  /\ Children(c)[k] = Append(c, k - 1)
         /\ Children(c)[k] \in CellsAt(l + 1)
         /\ Children(c)[k] \in Seq(Int) /\ Len(Children(c)[k]) = l + 2
         /\ Children(c)[k][1] = c[1]
         /\ IsAncestor(c, Children(c)[k])
         /\ Children(c)[k][l + 2] = k - 1
         /\ \A i \in 1..(l + 1) : Children(c)[k][i] = c[i]
<1> DEFINE d == Append(c, k - 1)
<1>1. Children(c)[k] = d
  BY DEF Children
<1>2. c \in Seq(Int) /\ Len(c) = l + 1 /\ k - 1 \in Int /\ k - 1 \in Positions
  BY CellFacts, Parameters DEF Positions
<1>3. /\ d \in Seq(Int) /\ Len(d) = l + 2 /\ d[l + 2] = k - 1
      /\ \A i \in 1..(l + 1) : d[i] = c[i]
  BY <1>2
<1> HIDE DEF d
<1>4. Path(d)
  <2>1. \A i \in 2..(l + 2) : i = l + 2 \/ i \in 2..(l + 1)
    OBVIOUS
  <2> QED
    BY <1>2, <1>3, <2>1, CellFacts DEF Path
<1>5. d \in CellsAt(l + 1)
  <2>1. l + 1 \in Nat /\ (l + 1) + 1 = l + 2
    OBVIOUS
  <2> QED
    BY <1>3, <1>4, <2>1, CellShape
<1>6. IsAncestor(c, d)
  BY <1>2, <1>3, AncestorPointwise
<1> QED
  BY <1>1, <1>3, <1>5, <1>6 DEF d

\* The way down from a cell to one below it leads through a child.
LEMMA ChildBetween ==
  ASSUME NEW l \in Nat, NEW c \in CellsAt(l), NEW d, Path(d), IsAncestor(c, d), c # d
  PROVE  /\ l + 2 <= Len(d)
         /\ \E k \in 1..Fanout : IsAncestor(Children(c)[k], d)
<1>1. c \in Seq(Int) /\ Len(c) = l + 1 /\ d \in Seq(Int) /\ Len(d) \in Nat
  BY CellFacts DEF Path
<1>2. l + 1 <= Len(d) /\ \A i \in 1..(l + 1) : c[i] = d[i]
  BY <1>1, AncestorPointwise
<1>3. Len(d) # l + 1
  BY <1>1, AncestorOrder
<1>4. l + 2 <= Len(d) /\ l + 2 \in 2..Len(d)
  BY <1>1, <1>2, <1>3
<1>5. d[l + 2] \in Positions
  BY <1>4 DEF Path
<1>6. PICK k \in 1..Fanout : d[l + 2] = k - 1
  <2>1. d[l + 2] + 1 \in 1..Fanout /\ d[l + 2] = (d[l + 2] + 1) - 1
    BY <1>5, Parameters DEF Positions
  <2> QED
    BY <2>1
<1> DEFINE e == Children(c)[k]
<1>7. e \in CellsAt(l + 1) /\ e[l + 2] = k - 1 /\ \A i \in 1..(l + 1) : e[i] = c[i]
  BY ChildFacts
<1>8. e \in Seq(Int) /\ Len(e) = l + 2
  BY <1>7, CellFacts
<1> HIDE DEF e
<1>9. \A i \in 1..(l + 2) : e[i] = d[i]
  <2>1. \A i \in 1..(l + 2) : i = l + 2 \/ i \in 1..(l + 1)
    OBVIOUS
  <2> QED
    BY <1>2, <1>6, <1>7, <2>1
<1>10. IsAncestor(e, d)
  BY <1>1, <1>4, <1>8, <1>9, AncestorPointwise
<1> QED
  BY <1>4, <1>10 DEF e

\* Children are listed in order.
LEMMA ChildrenInOrder ==
  ASSUME NEW l \in Nat, NEW c \in CellsAt(l), NEW j \in 1..Fanout, NEW k \in 1..Fanout, j < k
  PROVE  Precedes(Children(c)[j], Children(c)[k])
<1> DEFINE d == Children(c)[j]
           e == Children(c)[k]
<1>1. /\ d \in CellsAt(l + 1) /\ d[l + 2] = j - 1
      /\ e \in CellsAt(l + 1) /\ e[l + 2] = k - 1
      /\ \A i \in 1..(l + 1) : d[i] = c[i] /\ e[i] = c[i]
  BY ChildFacts
<1>2. d \in Seq(Int) /\ Len(d) = l + 2 /\ e \in Seq(Int) /\ Len(e) = l + 2
  BY ChildFacts
<1> HIDE DEF d, e
<1>3. l + 2 \in 1..Len(d) /\ l + 2 <= Len(e) /\ d[l + 2] < e[l + 2]
  BY <1>1, <1>2
<1>4. \A i \in 1..((l + 2) - 1) : d[i] = e[i]
  BY <1>1
<1> QED
  BY <1>2, <1>3, <1>4, PrecedesPointwise DEF d, e

-----------------------------------------------------------------------------
(* Finitely many cells *)

LEMMA CellsFinite ==
  ASSUME NEW l \in Nat
  PROVE  IsFiniteSet(CellsAt(l))
<1> DEFINE G == (1..(l + 1)) \X (Faces \union Positions)
           graph(c) == {<<i, c[i]>> : i \in 1..(l + 1)}
           g == [c \in CellsAt(l) |-> graph(c)]
<1>1. IsFiniteSet(1..(l + 1)) /\ IsFiniteSet(Faces) /\ IsFiniteSet(Positions)
  <2>1. l + 1 \in Int /\ Fanout - 1 \in Int
    BY Parameters
  <2>2. IsFiniteSet(1..(l + 1)) /\ IsFiniteSet(0..(Fanout - 1))
    BY <2>1, FS_Interval
  <2> QED
    BY <2>2, FacesNat DEF Positions
<1>2. IsFiniteSet(G)
  BY <1>1, FS_Union, FS_Product
<1>3. IsFiniteSet(SUBSET G)
  BY <1>2, FS_SUBSET
<1>4. ASSUME NEW c \in CellsAt(l) PROVE graph(c) \in SUBSET G
  <2>1. \A i \in 1..(l + 1) : c[i] \in Faces \union Positions
    <3>1. \A i \in 1..(l + 1) : i = 1 \/ i \in 2..(l + 1)
      OBVIOUS
    <3> QED
      BY <3>1, CellFacts
  <2> QED
    BY <2>1
<1>5. ASSUME NEW c \in CellsAt(l), NEW d \in CellsAt(l), graph(c) = graph(d)
      PROVE  c = d
  <2>1. c \in Seq(Int) /\ Len(c) = l + 1 /\ d \in Seq(Int) /\ Len(d) = l + 1
    BY CellFacts
  <2>2. ASSUME NEW i \in 1..(l + 1) PROVE c[i] = d[i]
    <3>1. <<i, c[i]>> \in graph(d)
      BY <1>5
    <3> QED
      BY <3>1
  <2> QED
    BY <2>1, <2>2
<1>6. g \in Injection(CellsAt(l), SUBSET G)
  BY <1>4, <1>5 DEF Injection, IsInjective
<1> HIDE DEF g, G
<1> QED
  BY <1>3, <1>6, FS_Injection DEF ExistsInjection

LEMMA BelowFacts ==
  ASSUME NEW l \in 0..Depth, NEW c \in CellsAt(l)
  PROVE  /\ Below(c) \subseteq CellsAt(Depth) /\ IsFiniteSet(Below(c))
         /\ \A b \in CellsAt(Depth) : b \in Below(c) <=> SubSeq(b, 1, l + 1) = c
<1>1. Depth \in Nat /\ l \in Nat /\ l <= Depth
  BY Parameters
<1>2. Below(c) \subseteq CellsAt(Depth)
  BY DEF Below
<1>3. IsFiniteSet(Below(c))
  BY <1>1, <1>2, CellsFinite, FS_Subset
<1>4. ASSUME NEW b \in CellsAt(Depth)
      PROVE  b \in Below(c) <=> SubSeq(b, 1, l + 1) = c
  <2>1. Path(b) /\ Path(c) /\ Len(b) = Depth + 1 /\ Len(c) = l + 1
    BY <1>1, CellShape
  <2>2. Len(c) <= Len(b)
    BY <1>1, <2>1
  <2> QED
    BY <2>1, <2>2, AncestorIsPrefix DEF Below
<1> QED
  BY <1>2, <1>3, <1>4

LEMMA ParentFacts ==
  ASSUME NEW l \in Nat, NEW c \in CellsAt(l + 1)
  PROVE  /\ Parent(c) \in CellsAt(l)
         /\ \A b : Path(b) /\ l + 2 <= Len(b) /\ SubSeq(b, 1, l + 2) = c
                     => SubSeq(b, 1, l + 1) = Parent(c)
<1>1. Path(c) /\ Len(c) = l + 2 /\ l + 1 \in 1..(l + 2) /\ l + 1 \in Nat
  BY CellShape
<1>2. Parent(c) = SubSeq(c, 1, l + 1)
  BY <1>1 DEF Parent
<1>3. Parent(c) \in CellsAt(l) /\ Len(Parent(c)) = l + 1 /\ Path(Parent(c))
      /\ \A i \in 1..(l + 1) : Parent(c)[i] = c[i]
  BY <1>1, <1>2, PrefixFacts
<1>4. ASSUME NEW b, Path(b), l + 2 <= Len(b), SubSeq(b, 1, l + 2) = c
      PROVE  SubSeq(b, 1, l + 1) = Parent(c)
  <2>1. Len(b) \in Nat /\ l + 1 \in 1..Len(b) /\ l + 2 \in 1..Len(b)
    BY <1>4 DEF Path
  <2>2. \A i \in 1..(l + 2) : c[i] = b[i]
    BY <1>4, <2>1, PrefixFacts
  <2>3. /\ Path(SubSeq(b, 1, l + 1)) /\ Len(SubSeq(b, 1, l + 1)) = l + 1
        /\ \A i \in 1..(l + 1) : SubSeq(b, 1, l + 1)[i] = b[i]
    BY <1>4, <2>1, PrefixFacts
  <2>4. PICK s : s = SubSeq(b, 1, l + 1)
    OBVIOUS
  <2>5. s \in Seq(Int) /\ Len(s) = l + 1 /\ \A i \in 1..(l + 1) : s[i] = Parent(c)[i]
    <3>1. s \in Seq(Int) /\ Len(s) = l + 1 /\ \A i \in 1..(l + 1) : s[i] = b[i]
      BY <2>3, <2>4 DEF Path
    <3>2. \A i \in 1..(l + 1) : i \in 1..(l + 2)
      OBVIOUS
    <3> QED
      BY <1>3, <2>2, <3>1, <3>2
  <2>6. Parent(c) \in Seq(Int)
    BY <1>3 DEF Path
  <2>7. s = Parent(c)
    BY <1>3, <2>5, <2>6, SeqEqual
  <2> QED
    BY <2>4, <2>7
<1> QED
  BY <1>3, <1>4

-----------------------------------------------------------------------------
(* AggregateTotals *)

LEMMA AggregateTotals ==
  ASSUME NEW f \in Aggregates
  PROVE  /\ \A b \in CellsAt(Depth) : f[b] \in Nat /\ f[b] <= PopulationLimit
         /\ \A B \in SUBSET CellsAt(Depth) :
              IsFiniteSet(B) /\ SetSum(f, B) \in Nat
         /\ \A B \in SUBSET CellsAt(Depth) : \A A \in SUBSET B :
              SetSum(f, A) <= SetSum(f, B)
<1>1. f \in [CellsAt(Depth) -> 0..PopulationLimit]
  BY PrunedTreeAssumption
<1>2. \A b \in CellsAt(Depth) : f[b] \in Nat /\ f[b] <= PopulationLimit
  BY <1>1, Parameters
<1>3. ASSUME NEW B \in SUBSET CellsAt(Depth)
      PROVE  IsFiniteSet(B) /\ SetSum(f, B) \in Nat
  <2>1. IsFiniteSet(B)
    BY CellsFinite, FS_Subset, Parameters
  <2> QED
    BY <1>2, <2>1, SetSumNat
<1>4. ASSUME NEW B \in SUBSET CellsAt(Depth), NEW A \in SUBSET B
      PROVE  SetSum(f, A) <= SetSum(f, B)
  <2>1. IsFiniteSet(B)
    BY <1>3
  <2> QED
    BY <1>2, <2>1, SetSumGrows
<1> QED
  BY <1>2, <1>3, <1>4

\* A cell holds no more than a cell around it.
LEMMA TotalGrows ==
  ASSUME aggregate \in Aggregates, NEW a \in AllCells, NEW c \in AllCells, IsAncestor(a, c)
  PROVE  /\ Below(c) \subseteq Below(a) /\ Below(a) \subseteq CellsAt(Depth)
         /\ TrueTotal(c) <= TrueTotal(a) /\ TrueTotal(c) \in Nat /\ TrueTotal(a) \in Nat
<1>1. a \in Seq(Int) /\ c \in Seq(Int)
  BY AllCellsShape DEF Path
<1>2. ASSUME NEW b \in CellsAt(Depth), IsAncestor(c, b) PROVE IsAncestor(a, b)
  <2>1. b \in Seq(Int)
    BY CellFacts, Parameters
  <2> QED
    BY <1>1, <1>2, <2>1, AncestorOrder
<1>3. Below(c) \subseteq Below(a) /\ Below(a) \subseteq CellsAt(Depth)
  BY <1>2 DEF Below
<1> QED
  BY <1>3, AggregateTotals DEF TrueTotal

LEMMA TotalNat ==
  ASSUME aggregate \in Aggregates, NEW c
  PROVE  Below(c) \in SUBSET CellsAt(Depth) /\ TrueTotal(c) \in Nat
<1>1. Below(c) \in SUBSET CellsAt(Depth)
  BY DEF Below
<1> QED
  BY <1>1, AggregateTotals DEF TrueTotal

-----------------------------------------------------------------------------
(* The inductive invariant *)

\* Cells around b at a level.
Prefix(b, l) == SubSeq(b, 1, l + 1)

Held(c) == SetSum(aggregate, {b \in Below(c) : Prefix(b, level + 1) \notin current})

PopulationsFit == populations \in [AllCells -> 0..PopulationLimit]

Propagating ==
  /\ level \in 0..(Depth - 1)
  /\ current \subseteq CellsAt(level + 1) /\ parents \subseteq CellsAt(level)
  /\ \A l \in (level + 1)..Depth : \A c \in CellsAt(l) : populations[c] = TrueTotal(c)
  /\ \A c \in CellsAt(level) :
       populations[c] = Held(c) /\ (c \notin parents => populations[c] = 0)
  /\ \A l \in 0..(level - 1) : \A c \in CellsAt(l) : populations[c] = 0
  /\ face = 0 /\ todo = <<>> /\ begun = 0 /\ leaves = <<>>

Propagated == \A c \in AllCells : populations[c] = TrueTotal(c)

\* What find_leaves returns of a cell itself.
LeafCell(c) ==
  /\ Populated(c)
  /\ ~(Level(c) < Depth /\ \E k \in 1..Fanout : Populated(Children(c)[k]))

Increasing(s) == \A i, j \in DOMAIN s : i < j => Precedes(s[i], s[j])

Walking ==
  /\ Propagated
  /\ face \in Faces
  /\ todo \in Seq(AllCells) /\ \A i \in DOMAIN todo : todo[i][1] = face
  /\ leaves \in Seq(AllCells)
  /\ \A i \in DOMAIN leaves : LeafCell(leaves[i]) /\ leaves[i][1] <= face
  /\ Increasing(leaves) /\ Increasing(todo)
  /\ \A i \in DOMAIN leaves, j \in DOMAIN todo : Precedes(leaves[i], todo[j])
  /\ \A c \in AllCells : LeafCell(c) /\ c[1] <= face =>
       \/ \E i \in DOMAIN leaves : leaves[i] = c
       \/ \E j \in DOMAIN todo : IsAncestor(todo[j], c)
  /\ begun \in 0..Len(leaves)
  /\ \A i \in DOMAIN leaves : i <= begun <=> leaves[i][1] < face
  /\ \A f \in Faces : f < face => Populated(<<f>>)

Extracted ==
  /\ Propagated
  /\ \A f \in Faces : Populated(<<f>>)
  /\ leaves \in Seq(AllCells)
  /\ Listing({c \in AllCells : LeafCell(c)}, leaves)

TreeIInv ==
  /\ aggregate \in Aggregates
  /\ PopulationsFit
  /\ phase \in {"propagate", "extract", "done", "overflow", "empty"}
  /\ phase = "propagate" => Propagating
  /\ phase = "extract" => Walking
  /\ phase = "done" => Extracted
  /\ phase \in {"overflow", "empty"} => StopsForCause

-----------------------------------------------------------------------------
(* Upward propagation *)

\* Cells that hold nobody hold nothing together.
LEMMA NothingHeld ==
  ASSUME NEW f \in Aggregates, NEW B \in SUBSET CellsAt(Depth), \A b \in B : f[b] = 0
  PROVE  SetSum(f, B) = 0
BY AggregateTotals, SetSumZero

LEMMA LowestLevel ==
  ASSUME NEW f \in Aggregates, NEW c \in CellsAt(Depth)
  PROVE  Below(c) = {c} /\ SetSum(f, Below(c)) = f[c]
<1>1. Depth \in 0..Depth /\ Depth \in Nat
  BY Parameters
<1>2. ASSUME NEW b \in CellsAt(Depth) PROVE SubSeq(b, 1, Depth + 1) = b
  <2>1. b \in Seq(Int) /\ Len(b) = Depth + 1
    BY <1>1, CellFacts
  <2> QED
    BY <2>1
<1>3. Below(c) = {c}
  BY <1>1, <1>2, BelowFacts
<1>4. IsFiniteSet({c}) /\ \A b \in {c} : f[b] \in Nat
  BY AggregateTotals
<1>5. SetSum(f, {c}) = f[c] + SetSum(f, {c} \ {c}) /\ SetSum(f, {c} \ {c}) \in Nat
  BY <1>4, SetSumRemove
<1>6. {c} \ {c} = {}
  OBVIOUS
<1>7. SetSum(f, {c}) = f[c] + 0
  BY <1>5, <1>6, SetSumEmpty
<1>8. SetSum(f, {c}) = f[c]
  BY <1>4, <1>7
<1> QED
  BY <1>3, <1>8

LEMMA StartOfPropagation ==
  ASSUME TreeInit
  PROVE  TreeIInv
<1>1. /\ aggregate \in Aggregates /\ phase = "propagate" /\ level = Depth - 1
      /\ populations = [c \in AllCells |-> IF Level(c) = Depth THEN aggregate[c] ELSE 0]
      /\ current = {c \in CellsAt(Depth) : aggregate[c] # 0} /\ parents = {}
      /\ face = 0 /\ todo = <<>> /\ begun = 0 /\ leaves = <<>>
  BY DEF TreeInit
<1>2. Depth \in Nat /\ level \in 0..(Depth - 1) /\ level + 1 = Depth
  BY <1>1, Parameters
<1>3. \A l \in 0..Depth : \A c \in CellsAt(l) :
        c \in AllCells /\ populations[c] = IF l = Depth THEN aggregate[c] ELSE 0
  BY <1>1, <1>2, CellFacts, LevelsAreCells
<1>4. \A c \in CellsAt(Depth) : aggregate[c] \in 0..PopulationLimit
  BY <1>1, AggregateTotals, Parameters
<1>5. PopulationsFit
  <2>1. ASSUME NEW c \in AllCells
        PROVE  (IF Level(c) = Depth THEN aggregate[c] ELSE 0) \in 0..PopulationLimit
    <3>1. PICK l \in 0..Depth : c \in CellsAt(l)
      BY DEF AllCells
    <3>2. Level(c) = l
      BY <3>1, CellFacts
    <3> QED
      BY <1>4, <3>1, <3>2, Parameters
  <2> QED
    BY <1>1, <2>1 DEF PopulationsFit
<1>6. current \subseteq CellsAt(level + 1) /\ parents \subseteq CellsAt(level)
  BY <1>1, <1>2
<1>7. \A l \in (level + 1)..Depth : \A c \in CellsAt(l) : populations[c] = TrueTotal(c)
  <2>1. \A l \in (level + 1)..Depth : l = Depth /\ l \in 0..Depth
    BY <1>2
  <2> QED
    BY <1>1, <1>3, <2>1, LowestLevel DEF TrueTotal
<1>8. ASSUME NEW c \in CellsAt(level)
      PROVE  populations[c] = Held(c) /\ (c \notin parents => populations[c] = 0)
  <2>1. level \in 0..Depth /\ level # Depth
    BY <1>2
  <2>2. populations[c] = 0
    BY <1>3, <2>1
  <2> DEFINE B == {b \in Below(c) : Prefix(b, level + 1) \notin current}
  <2>3. B \subseteq CellsAt(Depth)
    BY DEF Below
  <2>4. ASSUME NEW b \in B PROVE aggregate[b] = 0
    <3>1. b \in CellsAt(Depth) /\ Prefix(b, level + 1) \notin current
      BY <2>3
    <3>2. b \in Seq(Int) /\ Len(b) = Depth + 1
      BY <1>2, <3>1, CellFacts
    <3>3. Prefix(b, level + 1) = b
      BY <1>2, <3>2 DEF Prefix
    <3> QED
      BY <1>1, <3>1, <3>3
  <2>5. SetSum(aggregate, B) = 0
    <3> HIDE DEF B
    <3> QED
      BY <1>1, <2>3, <2>4, NothingHeld
  <2> QED
    BY <2>2, <2>5 DEF Held
<1>9. \A l \in 0..(level - 1) : \A c \in CellsAt(l) : populations[c] = 0
  <2>1. \A l \in 0..(level - 1) : l \in 0..Depth /\ l # Depth
    BY <1>2
  <2> QED
    BY <1>3, <2>1
<1>10. Propagating
  BY <1>1, <1>2, <1>6, <1>7, <1>8, <1>9 DEF Propagating
<1> QED
  BY <1>1, <1>5, <1>10 DEF TreeIInv

LEMMA CellPropagated ==
  ASSUME TreeIInv, NEW c \in current, PropagateCell(c)
  PROVE  TreeIInv'
<1>1. phase = "propagate" /\ Propagating /\ aggregate \in Aggregates /\ PopulationsFit
  BY DEF PropagateCell, TreeIInv
<1>2. PICK k : k = level
  OBVIOUS
<1>3. /\ k \in 0..(Depth - 1) /\ Depth \in Nat /\ k \in Nat /\ k \in 0..Depth
      /\ k + 1 \in 0..Depth /\ k + 1 \in (k + 1)..Depth
  BY <1>1, <1>2, Parameters DEF Propagating
<1>4. /\ current \subseteq CellsAt(k + 1) /\ parents \subseteq CellsAt(k)
      /\ c \in CellsAt(k + 1)
  BY <1>1, <1>2 DEF Propagating
<1> DEFINE p == Parent(c)
           Before(q) == {b \in Below(q) : Prefix(b, k + 1) \notin current}
           After(q) == {b \in Below(q) : Prefix(b, k + 1) \notin current \ {c}}
<1>5. p \in CellsAt(k)
  BY <1>3, <1>4, ParentFacts
<1>6. ASSUME NEW b \in CellsAt(Depth), Prefix(b, k + 1) = c
      PROVE  Prefix(b, k) = p
  <2>1. Path(b) /\ Len(b) = Depth + 1 /\ k + 2 <= Len(b)
    BY <1>3, CellShape
  <2>2. SubSeq(b, 1, k + 2) = c
    <3>1. (k + 1) + 1 = k + 2
      BY <1>3
    <3> QED
      BY <1>6, <3>1 DEF Prefix
  <2> QED
    BY <1>3, <1>4, <2>1, <2>2, ParentFacts DEF Prefix
<1>7. \A q \in CellsAt(k) : \A b \in CellsAt(Depth) : b \in Below(q) <=> Prefix(b, k) = q
  BY <1>3, BelowFacts DEF Prefix
<1>8. \A b \in CellsAt(Depth) : b \in Below(c) <=> Prefix(b, k + 1) = c
  BY <1>3, <1>4, BelowFacts DEF Prefix
<1>9. \A q : Below(q) \subseteq CellsAt(Depth)
  BY DEF Below
<1>10. /\ After(p) = Before(p) \union Below(c) /\ Before(p) \intersect Below(c) = {}
       /\ Before(p) \union Below(c) \subseteq Below(p)
  BY <1>5, <1>6, <1>7, <1>8, <1>9
<1>11. \A q \in CellsAt(k) : q # p => After(q) = Before(q)
  BY <1>6, <1>7, <1>9
<1>12. /\ populations[p] = SetSum(aggregate, Before(p))
       /\ populations[c] = SetSum(aggregate, Below(c))
  BY <1>1, <1>2, <1>3, <1>4, <1>5 DEF Propagating, Held, TrueTotal
<1>13. /\ SetSum(aggregate, After(p)) = populations[p] + populations[c]
       /\ SetSum(aggregate, After(p)) <= TrueTotal(p)
  <2>1. Before(p) \in SUBSET CellsAt(Depth) /\ Below(c) \in SUBSET CellsAt(Depth)
    BY <1>9
  <2>2. /\ IsFiniteSet(Before(p)) /\ IsFiniteSet(Below(c))
        /\ \A b \in Before(p) \union Below(c) : aggregate[b] \in Nat
    BY <1>1, <2>1, AggregateTotals
  <2>3. /\ After(p) = Before(p) \union Below(c) /\ Before(p) \intersect Below(c) = {}
        /\ After(p) \subseteq Below(p) /\ Below(p) \in SUBSET CellsAt(Depth)
    BY <1>9, <1>10
  <2> HIDE DEF Before, After, p
  <2>4. SetSum(aggregate, Before(p) \union Below(c))
          = SetSum(aggregate, Before(p)) + SetSum(aggregate, Below(c))
    BY <2>2, <2>3, SetSumUnion
  <2>5. SetSum(aggregate, After(p)) <= TrueTotal(p)
    BY <1>1, <2>3, AggregateTotals DEF TrueTotal
  <2> QED
    BY <1>12, <2>3, <2>4, <2>5
<1>14. Sum(c) = populations[p] + populations[c]
  BY DEF Sum
<1>15. p \in AllCells /\ c \in AllCells
  BY <1>3, <1>4, <1>5, LevelsAreCells
<1>16. populations[p] \in Nat /\ populations[c] \in Nat
  BY <1>1, <1>15, Parameters DEF PopulationsFit
<1>17. CASE SumFits(Sum(c)) /\ phase' = phase
  <2>1. /\ populations' = [populations EXCEPT ![p] = Sum(c)]
        /\ current' = current \ {c} /\ parents' = parents \union {p}
        /\ phase' = phase /\ aggregate' = aggregate /\ level' = k
        /\ UNCHANGED <<level, face, todo, begun, leaves>>
    BY <1>2, <1>17 DEF PropagateCell
  <2>2. Sum(c) \in 0..PopulationLimit
    BY <1>14, <1>16, <1>17, Parameters DEF SumFits
  <2>3. PopulationsFit'
    BY <1>1, <2>1, <2>2 DEF PopulationsFit
  <2>4. \A q \in AllCells : populations'[q] = IF q = p THEN Sum(c) ELSE populations[q]
    BY <1>1, <1>15, <2>1 DEF PopulationsFit
  <2>5. \A l \in 0..Depth : l # k => \A q \in CellsAt(l) : populations'[q] = populations[q]
    <3>1. \A l \in 0..Depth : l # k => \A q \in CellsAt(l) : q # p /\ q \in AllCells
      BY <1>3, <1>5, CellFacts, LevelsAreCells
    <3> QED
      BY <2>4, <3>1
  <2>6. ASSUME NEW l \in (k + 1)..Depth, NEW q \in CellsAt(l)
        PROVE  populations'[q] = TrueTotal(q)'
    <3>1. l \in 0..Depth /\ l # k
      BY <1>3
    <3>2. populations[q] = TrueTotal(q)
      BY <1>1, <1>2 DEF Propagating
    <3>3. TrueTotal(q)' = TrueTotal(q)
      BY <2>1 DEF TrueTotal, Below
    <3> QED
      BY <2>5, <3>1, <3>2, <3>3
  <2>7. ASSUME NEW l \in 0..(k - 1), NEW q \in CellsAt(l)
        PROVE  populations'[q] = 0
    <3>1. l \in 0..Depth /\ l # k
      BY <1>3
    <3> QED
      BY <1>1, <1>2, <2>5, <3>1 DEF Propagating
  <2>8. ASSUME NEW q \in CellsAt(k)
        PROVE  populations'[q] = Held(q)' /\ (q \notin parents' => populations'[q] = 0)
    <3>1. q \in AllCells
      BY <1>3, LevelsAreCells
    <3>2. /\ populations[q] = SetSum(aggregate, Before(q))
          /\ q \notin parents => populations[q] = 0
      BY <1>1, <1>2 DEF Propagating, Held
    <3>3. Held(q)' = SetSum(aggregate, After(q))
      <4>1. Held(q)' = SetSum(aggregate', {b \in Below(q) : Prefix(b, level' + 1) \notin current'})
        BY DEF Held, Below, Prefix
      <4> QED
        BY <2>1, <4>1
    <3>4. CASE q = p
      BY <1>13, <1>14, <2>1, <2>4, <3>1, <3>3, <3>4
    <3>5. CASE q # p
      BY <1>11, <2>1, <2>4, <3>1, <3>2, <3>3, <3>5
    <3> QED
      BY <3>4, <3>5
  <2>9. Propagating'
    <3>1. level' \in 0..(Depth - 1) /\ current' \subseteq CellsAt(level' + 1)
          /\ parents' \subseteq CellsAt(level')
      BY <1>3, <1>4, <1>5, <2>1
    <3>2. face' = 0 /\ todo' = <<>> /\ begun' = 0 /\ leaves' = <<>>
      BY <1>1, <2>1 DEF Propagating
    <3> QED
      BY <2>1, <2>6, <2>7, <2>8, <3>1, <3>2 DEF Propagating
  <2> QED
    BY <1>1, <2>1, <2>3, <2>9 DEF TreeIInv
<1>18. CASE ~SumFits(Sum(c)) /\ phase' = "overflow"
  <2>1. phase' = "overflow" /\ UNCHANGED <<aggregate, populations>>
    BY <1>18 DEF PropagateCell
  <2>2. PopulationLimit < TrueTotal(p)
    BY <1>1, <1>13, <1>14, <1>16, <1>18, Parameters, TotalNat DEF SumFits
  <2> DEFINE a == SubSeq(p, 1, 1)
  <2>3. a \in CellsAt(0) /\ a[1] = p[1] /\ IsAncestor(a, p)
    <3>1. Path(p) /\ 1 \in 1..Len(p)
      BY <1>3, <1>5, CellShape
    <3>2. 1 - 1 = 0 /\ 1 \in 1..1
      OBVIOUS
    <3> HIDE DEF p
    <3> QED
      BY <3>1, <3>2, PrefixFacts
  <2>4. PICK f \in Faces : a = <<f>>
    <3> HIDE DEF a
    <3>1. a \in Seq(Int) /\ Len(a) = 1 /\ a[1] \in Faces
      <4>1. 0 \in Nat /\ 0 + 1 = 1
        OBVIOUS
      <4>2. a \in Seq(Int) /\ Len(a) = 0 + 1 /\ a[1] \in Faces
        BY <2>3, <4>1, CellFacts
      <4> QED
        BY <4>2
    <3>2. a = <<a[1]>>
      BY <3>1
    <3> QED
      BY <3>1, <3>2
  <2>5. a \in AllCells
    BY <2>3, LevelsAreCells, Parameters
  <2>6. TrueTotal(p) <= TrueTotal(a) /\ TrueTotal(p) \in Nat /\ TrueTotal(a) \in Nat
    BY <1>1, <1>15, <2>3, <2>5, TotalGrows
  <2>7. ~(TrueTotal(<<f>>) <= PopulationLimit)
    <3>1. ~(TrueTotal(a) <= PopulationLimit)
      BY <2>2, <2>6, Parameters
    <3> QED
      BY <2>4, <3>1
  <2>8. TrueTotal(<<f>>)' = TrueTotal(<<f>>)
    BY <2>1 DEF TrueTotal, Below
  <2>9. StopsForCause'
    BY <2>1, <2>7, <2>8 DEF StopsForCause
  <2> QED
    BY <1>1, <2>1, <2>9 DEF TreeIInv, PopulationsFit
<1> QED
  BY <1>17, <1>18 DEF PropagateCell

LEMMA FaceRoot ==
  ASSUME NEW f \in Faces
  PROVE  /\ <<f>> \in CellsAt(0) /\ <<f>> \in AllCells /\ <<f>> \in Seq(Int)
         /\ \A c \in AllCells : c[1] = f => IsAncestor(<<f>>, c)
<1>1. f \in Int
  BY FacesNat
<1>2. <<f>> \in Seq(Int) /\ Len(<<f>>) = 1 /\ <<f>>[1] = f
  BY <1>1
<1>3. Path(<<f>>)
  BY <1>2 DEF Path
<1>4. <<f>> \in CellsAt(0)
  <2>1. 0 \in Nat /\ Len(<<f>>) = 0 + 1
    BY <1>2
  <2> QED
    BY <1>3, <2>1, CellShape
<1>5. <<f>> \in AllCells
  BY <1>4, LevelsAreCells, Parameters
<1>6. ASSUME NEW c \in AllCells, c[1] = f PROVE IsAncestor(<<f>>, c)
  <2>1. c \in Seq(Int) /\ Len(c) \in Nat \ {0}
    BY AllCellsShape DEF Path
  <2>2. Len(<<f>>) <= Len(c) /\ \A i \in 1..Len(<<f>>) : <<f>>[i] = c[i]
    BY <1>2, <1>6, <2>1
  <2> QED
    BY <1>2, <2>1, <2>2, AncestorPointwise
<1> QED
  BY <1>2, <1>4, <1>5, <1>6

LEMMA LevelFinished ==
  ASSUME TreeIInv, FinishLevel
  PROVE  TreeIInv'
<1>1. phase = "propagate" /\ Propagating /\ aggregate \in Aggregates /\ PopulationsFit
  BY DEF FinishLevel, TreeIInv
<1>2. PICK k : k = level
  OBVIOUS
<1>3. /\ k \in 0..(Depth - 1) /\ Depth \in Nat /\ k \in Nat /\ k \in 0..Depth
  BY <1>1, <1>2, Parameters DEF Propagating
<1>4. /\ current = {} /\ current' = parents /\ parents' = {}
      /\ aggregate' = aggregate /\ populations' = populations
      /\ UNCHANGED <<face, begun, leaves>>
  BY DEF FinishLevel
<1>5. \A c : TrueTotal(c)' = TrueTotal(c)
  BY <1>4 DEF TrueTotal, Below
<1>6. \A l \in k..Depth : \A c \in CellsAt(l) : populations[c] = TrueTotal(c)
  <2>1. \A c : {b \in Below(c) : Prefix(b, k + 1) \notin current} = Below(c)
    BY <1>4
  <2>2. \A c \in CellsAt(k) : populations[c] = TrueTotal(c)
    BY <1>1, <1>2, <2>1 DEF Propagating, Held, TrueTotal
  <2>3. \A l \in k..Depth : l = k \/ l \in (k + 1)..Depth
    BY <1>3
  <2> QED
    BY <1>1, <1>2, <2>2, <2>3 DEF Propagating
<1>7. face = 0 /\ todo = <<>> /\ begun = 0 /\ leaves = <<>>
  BY <1>1 DEF Propagating
<1>8. PopulationsFit' /\ aggregate' \in Aggregates
  BY <1>1, <1>4 DEF PopulationsFit
<1>9. CASE level = 0
  <2>1. phase' = "extract" /\ todo' = << <<0>> >> /\ level' = level
    BY <1>9 DEF FinishLevel
  <2>2. Propagated'
    <3>1. ASSUME NEW c \in AllCells PROVE populations[c] = TrueTotal(c)
      <4>1. PICK l \in 0..Depth : c \in CellsAt(l)
        BY DEF AllCells
      <4> QED
        BY <1>2, <1>6, <1>9, <4>1
    <3> QED
      BY <1>4, <1>5, <3>1 DEF Propagated
  <2>3. 0 \in Faces /\ <<0>> \in AllCells /\ <<0>>[1] = 0
        /\ \A c \in AllCells : c[1] = 0 => IsAncestor(<<0>>, c)
    BY FacesNat, FaceRoot
  <2>4. todo' \in Seq(AllCells) /\ DOMAIN todo' = {1} /\ todo'[1] = <<0>>
    BY <2>1, <2>3
  <2>5. leaves' = <<>> /\ DOMAIN leaves' = {} /\ leaves' \in Seq(AllCells) /\ Len(leaves') = 0
    BY <1>4, <1>7
  <2>6. ASSUME NEW c \in AllCells, c[1] <= face'
        PROVE  \E j \in DOMAIN todo' : IsAncestor(todo'[j], c)
    <3>1. c[1] \in Nat
      BY AllCellsShape, FacesNat DEF Path
    <3>2. c[1] = 0
      BY <1>4, <1>7, <2>6, <3>1
    <3> QED
      BY <2>3, <2>4, <3>2
  <2>7. \A f \in Faces : ~(f < face')
    BY <1>4, <1>7, FacesNat
  <2>8. Increasing(leaves)' /\ Increasing(todo)'
    BY <2>4, <2>5 DEF Increasing
  <2>9. Walking'
    BY <1>4, <1>7, <2>2, <2>3, <2>4, <2>5, <2>6, <2>7, <2>8 DEF Walking
  <2> QED
    BY <1>8, <2>1, <2>9 DEF TreeIInv
<1>10. CASE level # 0
  <2>1. phase' = "propagate" /\ todo' = todo /\ level' = k - 1
    BY <1>1, <1>2, <1>10 DEF FinishLevel
  <2>2. /\ k - 1 \in 0..(Depth - 1) /\ (k - 1) + 1 = k /\ k - 1 \in Nat
        /\ k - 1 \in 0..Depth /\ k - 1 \in 0..(k - 1)
    BY <1>2, <1>3, <1>10
  <2>3. parents \subseteq CellsAt(k) /\ \A c \in CellsAt(k) : c \notin parents => populations[c] = 0
    BY <1>1, <1>2 DEF Propagating
  <2>4. ASSUME NEW c \in CellsAt(k - 1)
        PROVE  populations[c] = 0 /\ Held(c)' = 0
    <3>1. populations[c] = 0
      BY <1>1, <1>2, <2>2 DEF Propagating
    <3> DEFINE B == {b \in Below(c) : Prefix(b, k) \notin parents}
    <3>2. B \in SUBSET CellsAt(Depth)
      BY DEF Below
    <3>3. ASSUME NEW b \in B PROVE aggregate[b] = 0
      <4>1. b \in CellsAt(Depth) /\ Prefix(b, k) \notin parents
        BY <3>2
      <4>2. PICK d : d = Prefix(b, k)
        OBVIOUS
      <4>3. d \in CellsAt(k)
        <5>1. Path(b) /\ Len(b) = Depth + 1
          BY <1>3, <4>1, CellShape
        <5>2. k + 1 \in 1..Len(b) /\ (k + 1) - 1 = k
          BY <1>3, <5>1
        <5> QED
          BY <4>2, <5>1, <5>2, PrefixFacts DEF Prefix
      <4>4. b \in Below(d)
        BY <1>3, <4>1, <4>2, <4>3, BelowFacts DEF Prefix
      <4>5. k \in k..Depth
        BY <1>3
      <4>6. SetSum(aggregate, Below(d)) = 0
        BY <1>6, <2>3, <4>1, <4>2, <4>3, <4>5 DEF TrueTotal
      <4>7. Below(d) \in SUBSET CellsAt(Depth)
        BY DEF Below
      <4>8. IsFiniteSet(Below(d)) /\ \A x \in Below(d) : aggregate[x] \in Nat
        BY <1>1, <4>7, AggregateTotals
      <4> QED
        BY <4>4, <4>6, <4>8, SetSumZero
    <3>4. SetSum(aggregate, B) = 0
      <4> HIDE DEF B
      <4> QED
        BY <1>1, <3>2, <3>3, NothingHeld
    <3>5. Held(c)' = SetSum(aggregate', {b \in Below(c) : Prefix(b, level' + 1) \notin current'})
      BY DEF Held, Below, Prefix
    <3> QED
      BY <1>4, <2>1, <2>2, <3>1, <3>4, <3>5
  <2>5. level' \in 0..(Depth - 1) /\ current' \subseteq CellsAt(level' + 1)
        /\ parents' \subseteq CellsAt(level')
    BY <1>4, <2>1, <2>2, <2>3
  <2>6. \A l \in (level' + 1)..Depth : \A c \in CellsAt(l) : populations'[c] = TrueTotal(c)'
    BY <1>4, <1>5, <1>6, <2>1, <2>2
  <2>7. \A l \in 0..(level' - 1) : \A c \in CellsAt(l) : populations'[c] = 0
    <3>1. \A l \in 0..(level' - 1) : l \in 0..(k - 1)
      BY <2>1, <2>2
    <3> QED
      BY <1>1, <1>2, <1>4, <3>1 DEF Propagating
  <2>8. \A c \in CellsAt(level') :
          populations'[c] = Held(c)' /\ (c \notin parents' => populations'[c] = 0)
    BY <1>4, <2>1, <2>4
  <2>9. face' = 0 /\ todo' = <<>> /\ begun' = 0 /\ leaves' = <<>>
    BY <1>4, <1>7, <2>1
  <2>10. Propagating'
    BY <2>5, <2>6, <2>7, <2>8, <2>9 DEF Propagating
  <2> QED
    BY <1>8, <2>1, <2>10 DEF TreeIInv
<1> QED
  BY <1>9, <1>10

-----------------------------------------------------------------------------
(* Walking the faces *)

LEMMA CellOfTree ==
  ASSUME NEW c \in AllCells
  PROVE  /\ Path(c) /\ c \in Seq(Int) /\ c \in CellsAt(Level(c)) /\ Level(c) \in 0..Depth
         /\ Level(c) \in Nat /\ Len(c) = Level(c) + 1
         /\ c[1] \in Faces /\ c[1] \in Nat
<1>1. PICK l \in 0..Depth : c \in CellsAt(l)
  BY DEF AllCells
<1>2. l \in Nat /\ Level(c) = l /\ Len(c) = l + 1
  BY <1>1, CellFacts
<1> QED
  BY <1>1, <1>2, AllCellsShape, FacesNat DEF Path

LEMMA ChildOfTree ==
  ASSUME NEW c \in AllCells, Level(c) < Depth, NEW k \in 1..Fanout
  PROVE  /\ Children(c)[k] \in AllCells /\ Level(Children(c)[k]) = Level(c) + 1
         /\ Children(c)[k][1] = c[1] /\ IsAncestor(c, Children(c)[k])
<1>1. c \in CellsAt(Level(c)) /\ Level(c) \in Nat /\ Level(c) + 1 \in 0..Depth
  BY CellOfTree, Parameters
<1>2. Children(c)[k] \in CellsAt(Level(c) + 1)
  BY <1>1, ChildFacts
<1>3. Level(Children(c)[k]) = Level(c) + 1
  BY <1>1, <1>2, CellFacts
<1>4. Children(c)[k] \in AllCells
  BY <1>1, <1>2, LevelsAreCells
<1> QED
  BY <1>1, <1>3, <1>4, ChildFacts

\* A cell around a populated one is populated.
LEMMA PopulatedAround ==
  ASSUME Propagated, aggregate \in Aggregates, NEW a \in AllCells, NEW c \in AllCells,
         IsAncestor(a, c), Populated(c)
  PROVE  Populated(a)
BY TotalGrows, Parameters DEF Propagated, Populated

\* Below a populated cell lies one that becomes a leaf.
LEMMA LeafBelow ==
  ASSUME NEW c \in AllCells, Populated(c)
  PROVE  \E d \in AllCells : IsAncestor(c, d) /\ LeafCell(d)
<1> DEFINE Room == {Depth - Level(d) : d \in {e \in AllCells : IsAncestor(c, e) /\ Populated(e)}}
<1>1. c \in Seq(Int) /\ IsAncestor(c, c)
  BY CellOfTree, AncestorOrder
<1>2. Room \subseteq Nat /\ Room # {}
  BY <1>1, CellOfTree, Parameters
<1>3. PICK r \in Room : \A x \in Room : r <= x
  <2> HIDE DEF Room
  <2> QED
    BY <1>2, LeastNatural
<1>4. PICK d \in AllCells : IsAncestor(c, d) /\ Populated(d) /\ r = Depth - Level(d)
  OBVIOUS
<1>5. ASSUME Level(d) < Depth, NEW k \in 1..Fanout, Populated(Children(d)[k])
      PROVE  FALSE
  <2> DEFINE e == Children(d)[k]
  <2>1. e \in AllCells /\ Level(e) = Level(d) + 1 /\ IsAncestor(d, e)
    BY <1>5, ChildOfTree
  <2>2. d \in Seq(Int) /\ e \in Seq(Int)
    BY <2>1, CellOfTree
  <2>3. IsAncestor(c, e) /\ Populated(e)
    BY <1>1, <1>4, <1>5, <2>1, <2>2, AncestorOrder
  <2>4. Depth - Level(e) \in Room
    BY <2>1, <2>3
  <2>5. Level(d) \in Nat /\ Level(e) \in Nat /\ Depth \in Nat
    BY <2>1, CellOfTree, Parameters
  <2> HIDE DEF e, Room
  <2> QED
    BY <1>3, <1>4, <2>1, <2>4, <2>5
<1>6. LeafCell(d)
  BY <1>4, <1>5 DEF LeafCell
<1> QED
  BY <1>4, <1>6

\* A leaf below a populated cell is that cell or lies below one of its children.
LEMMA LeafBelowChild ==
  ASSUME Propagated, aggregate \in Aggregates, NEW c \in AllCells, NEW d \in AllCells,
         IsAncestor(c, d), LeafCell(d), c # d
  PROVE  /\ Level(c) < Depth
         /\ \E k \in 1..Fanout : IsAncestor(Children(c)[k], d) /\ Populated(Children(c)[k])
<1>1. c \in CellsAt(Level(c)) /\ Level(c) \in Nat /\ Path(d) /\ Len(d) <= Depth + 1
      /\ Len(d) \in Nat /\ Depth \in Nat
  BY CellOfTree, AllCellsShape, Parameters DEF Path
<1>2. Level(c) + 2 <= Len(d)
  BY <1>1, ChildBetween
<1>3. Level(c) < Depth
  BY <1>1, <1>2
<1>4. PICK k \in 1..Fanout : IsAncestor(Children(c)[k], d)
  BY <1>1, ChildBetween
<1>5. Children(c)[k] \in AllCells
  BY <1>3, ChildOfTree
<1>6. Populated(Children(c)[k])
  BY <1>4, <1>5, PopulatedAround DEF LeafCell
<1> QED
  BY <1>3, <1>4, <1>6

LEMMA HeadAndTail ==
  ASSUME NEW S, NEW s \in Seq(S), s # <<>>
  PROVE  /\ Len(s) \in Nat \ {0} /\ DOMAIN s = 1..Len(s) /\ 1 \in DOMAIN s
         /\ Head(s) = s[1] /\ Head(s) \in S
         /\ Tail(s) \in Seq(S) /\ Len(Tail(s)) = Len(s) - 1
         /\ DOMAIN Tail(s) = 1..(Len(s) - 1)
         /\ \A i \in 1..(Len(s) - 1) : Tail(s)[i] = s[i + 1] /\ i + 1 \in DOMAIN s
         /\ \A i \in DOMAIN s : i # 1 => i - 1 \in DOMAIN Tail(s) /\ Tail(s)[i - 1] = s[i]
<1>1. Len(s) \in Nat \ {0} /\ DOMAIN s = 1..Len(s)
  OBVIOUS
<1>2. /\ Tail(s) \in Seq(S) /\ Len(Tail(s)) = Len(s) - 1
      /\ \A i \in 1..(Len(s) - 1) : Tail(s)[i] = s[i + 1]
  OBVIOUS
<1>3. Head(s) = s[1] /\ s[1] \in S
  OBVIOUS
<1>4. DOMAIN Tail(s) = 1..(Len(s) - 1)
  BY <1>1, <1>2
<1>5. \A i \in 1..(Len(s) - 1) : i + 1 \in DOMAIN s
  BY <1>1
<1>6. ASSUME NEW i \in DOMAIN s, i # 1
      PROVE  i - 1 \in DOMAIN Tail(s) /\ Tail(s)[i - 1] = s[i]
  <2>1. i - 1 \in 1..(Len(s) - 1) /\ (i - 1) + 1 = i
    BY <1>1, <1>6
  <2> QED
    BY <1>2, <1>4, <2>1
<1> QED
  BY <1>1, <1>2, <1>3, <1>4, <1>5, <1>6

\* What a call of find_leaves leaves alone.
LEMMA FindLeavesFrame ==
  ASSUME TreeIInv, FindLeaves
  PROVE  /\ Walking /\ aggregate \in Aggregates /\ PopulationsFit /\ phase = "extract"
         /\ PopulationsFit' /\ aggregate' \in Aggregates /\ phase' = "extract"
         /\ face' = face /\ begun' = begun /\ Propagated'
         /\ \A c : LeafCell(c)' <=> LeafCell(c)
         /\ \A c : Populated(c)' <=> Populated(c)
<1>1. Walking /\ aggregate \in Aggregates /\ PopulationsFit /\ phase = "extract"
  BY DEF FindLeaves, TreeIInv
<1>2. UNCHANGED <<aggregate, phase, populations, level, current, parents, face, begun>>
  BY DEF FindLeaves
<1>3. \A c : TrueTotal(c)' = TrueTotal(c)
  BY <1>2 DEF TrueTotal, Below
<1>4. Propagated'
  BY <1>1, <1>2, <1>3 DEF Walking, Propagated
<1>5. \A c : LeafCell(c)' <=> LeafCell(c)
  BY <1>2 DEF LeafCell, Populated, Level, Children
<1>6. \A c : Populated(c)' <=> Populated(c)
  BY <1>2 DEF Populated
<1>7. PopulationsFit'
  BY <1>1, <1>2 DEF PopulationsFit
<1> QED
  BY <1>1, <1>2, <1>4, <1>5, <1>6, <1>7

\* The parts of Walking that the walk of one face disturbs.
WalkingOn(ls, t) ==
  /\ t \in Seq(AllCells) /\ \A i \in DOMAIN t : t[i][1] = face
  /\ ls \in Seq(AllCells)
  /\ \A i \in DOMAIN ls : LeafCell(ls[i]) /\ ls[i][1] <= face
  /\ Increasing(ls) /\ Increasing(t)
  /\ \A i \in DOMAIN ls, j \in DOMAIN t : Precedes(ls[i], t[j])
  /\ \A c \in AllCells : LeafCell(c) /\ c[1] <= face =>
       \/ \E i \in DOMAIN ls : ls[i] = c
       \/ \E j \in DOMAIN t : IsAncestor(t[j], c)
  /\ begun \in 0..Len(ls)
  /\ \A i \in DOMAIN ls : i <= begun <=> ls[i][1] < face

LEMMA WalkContinues ==
  ASSUME TreeIInv, FindLeaves, WalkingOn(leaves', todo')
  PROVE  TreeIInv'
<1>1. /\ Walking /\ PopulationsFit' /\ aggregate' \in Aggregates /\ phase' = "extract"
      /\ face' = face /\ begun' = begun /\ Propagated'
      /\ \A c : LeafCell(c)' <=> LeafCell(c)
      /\ \A c : Populated(c)' <=> Populated(c)
  BY FindLeavesFrame
<1>2. ASSUME NEW i \in DOMAIN leaves' PROVE LeafCell(leaves[i])'
  <2>1. LeafCell(leaves'[i]) /\ populations' = populations
    BY DEF WalkingOn, FindLeaves
  <2> QED
    BY <2>1 DEF LeafCell, Populated, Level, Children
<1>3. \A c \in AllCells : LeafCell(c)' /\ c[1] <= face' =>
        \/ \E i \in DOMAIN leaves' : leaves'[i] = c
        \/ \E j \in DOMAIN todo' : IsAncestor(todo'[j], c)
  BY <1>1 DEF WalkingOn
<1>4. face' \in Faces /\ \A f \in Faces : f < face' => Populated(<<f>>)'
  BY <1>1 DEF Walking
<1>5. Increasing(leaves)' /\ Increasing(todo)'
  BY DEF WalkingOn, Increasing
<1>6. Walking'
  BY <1>1, <1>2, <1>3, <1>4, <1>5 DEF Walking, WalkingOn
<1> QED
  BY <1>1, <1>6 DEF TreeIInv

\* What the head of todo is, and how the rest follows it.
LEMMA NextCall ==
  ASSUME Walking, todo # <<>>
  PROVE  /\ Head(todo) \in AllCells /\ Head(todo)[1] = face
         /\ Tail(todo) \in Seq(AllCells) /\ Increasing(Tail(todo))
         /\ \A i \in DOMAIN Tail(todo) :
              Tail(todo)[i][1] = face /\ Precedes(Head(todo), Tail(todo)[i])
         /\ \A i \in DOMAIN leaves :
              /\ Precedes(leaves[i], Head(todo))
              /\ \A j \in DOMAIN Tail(todo) : Precedes(leaves[i], Tail(todo)[j])
         /\ \A c \in AllCells : LeafCell(c) /\ c[1] <= face =>
              \/ \E i \in DOMAIN leaves : leaves[i] = c
              \/ IsAncestor(Head(todo), c)
              \/ \E j \in DOMAIN Tail(todo) : IsAncestor(Tail(todo)[j], c)
<1>1. /\ todo \in Seq(AllCells) /\ \A i \in DOMAIN todo : todo[i][1] = face
      /\ Increasing(todo)
      /\ \A i \in DOMAIN leaves, j \in DOMAIN todo : Precedes(leaves[i], todo[j])
      /\ \A c \in AllCells : LeafCell(c) /\ c[1] <= face =>
           \/ \E i \in DOMAIN leaves : leaves[i] = c
           \/ \E j \in DOMAIN todo : IsAncestor(todo[j], c)
  BY DEF Walking
<1>2. PICK n : n = Len(todo)
  OBVIOUS
<1>3. PICK rest : rest = Tail(todo)
  OBVIOUS
<1>4. /\ n \in Nat \ {0} /\ DOMAIN todo = 1..n /\ 1 \in DOMAIN todo
      /\ Head(todo) = todo[1] /\ Head(todo) \in AllCells
      /\ rest \in Seq(AllCells) /\ DOMAIN rest = 1..(n - 1)
      /\ \A i \in 1..(n - 1) : rest[i] = todo[i + 1] /\ i + 1 \in DOMAIN todo
      /\ \A i \in DOMAIN todo : i # 1 => i - 1 \in DOMAIN rest /\ rest[i - 1] = todo[i]
  BY <1>1, <1>2, <1>3, HeadAndTail
<1>5. Increasing(rest)
  <2>1. ASSUME NEW i \in 1..(n - 1), NEW j \in 1..(n - 1), i < j
        PROVE  Precedes(rest[i], rest[j])
    <3>1. i + 1 \in DOMAIN todo /\ j + 1 \in DOMAIN todo /\ i + 1 < j + 1
      BY <1>4, <2>1
    <3> QED
      BY <1>1, <1>4, <3>1 DEF Increasing
  <2> QED
    BY <1>4, <2>1 DEF Increasing
<1>6. \A i \in DOMAIN rest : rest[i][1] = face /\ Precedes(Head(todo), rest[i])
  <2>1. ASSUME NEW i \in 1..(n - 1)
        PROVE  rest[i][1] = face /\ Precedes(todo[1], rest[i])
    <3>1. i + 1 \in DOMAIN todo /\ 1 < i + 1 /\ rest[i] = todo[i + 1]
      BY <1>4, <2>1
    <3> QED
      BY <1>1, <1>4, <3>1 DEF Increasing
  <2> QED
    BY <1>4, <2>1
<1>7. \A i \in DOMAIN leaves :
        /\ Precedes(leaves[i], Head(todo))
        /\ \A j \in DOMAIN rest : Precedes(leaves[i], rest[j])
  BY <1>1, <1>4
<1>8. \A c \in AllCells : LeafCell(c) /\ c[1] <= face =>
        \/ \E i \in DOMAIN leaves : leaves[i] = c
        \/ IsAncestor(Head(todo), c)
        \/ \E j \in DOMAIN rest : IsAncestor(rest[j], c)
  BY <1>1, <1>4
<1> QED
  BY <1>1, <1>3, <1>4, <1>5, <1>6, <1>7, <1>8

\* A cell below the threshold is passed over with everything below it.
LEMMA CellPassedOver ==
  ASSUME Walking, aggregate \in Aggregates, todo # <<>>, ~Populated(Head(todo))
  PROVE  WalkingOn(leaves, Tail(todo))
<1>1. \A c \in AllCells : LeafCell(c) => ~IsAncestor(Head(todo), c)
  BY NextCall, PopulatedAround DEF Walking, LeafCell
<1>2. \A c \in AllCells : LeafCell(c) /\ c[1] <= face =>
        \/ \E i \in DOMAIN leaves : leaves[i] = c
        \/ \E j \in DOMAIN Tail(todo) : IsAncestor(Tail(todo)[j], c)
  BY <1>1, NextCall
<1> QED
  BY <1>2, NextCall DEF Walking, WalkingOn

LEMMA OneMore ==
  ASSUME NEW S, NEW s \in Seq(S), NEW x \in S
  PROVE  /\ Append(s, x) \in Seq(S) /\ Len(s) \in Nat /\ Len(Append(s, x)) = Len(s) + 1
         /\ DOMAIN s = 1..Len(s) /\ DOMAIN Append(s, x) = 1..(Len(s) + 1)
         /\ Append(s, x)[Len(s) + 1] = x
         /\ \A i \in 1..Len(s) : Append(s, x)[i] = s[i]
OBVIOUS

\* A populated cell without a populated child becomes the next leaf.
LEMMA CellBecomesLeaf ==
  ASSUME Walking, aggregate \in Aggregates, todo # <<>>, LeafCell(Head(todo))
  PROVE  WalkingOn(Append(leaves, Head(todo)), Tail(todo))
<1>1. PICK n : n = Len(leaves)
  OBVIOUS
<1>2. PICK h : h = Head(todo)
  OBVIOUS
<1>3. PICK ls : ls = Append(leaves, h)
  OBVIOUS
<1>4. PICK rest : rest = Tail(todo)
  OBVIOUS
<1>5. h \in AllCells /\ h[1] = face /\ LeafCell(h) /\ face \in Nat
  BY <1>2, NextCall, FacesNat DEF Walking
<1>6. leaves \in Seq(AllCells) /\ begun \in 0..n
  BY <1>1 DEF Walking
<1>7. /\ ls \in Seq(AllCells) /\ n \in Nat /\ Len(ls) = n + 1
      /\ DOMAIN leaves = 1..n /\ DOMAIN ls = 1..(n + 1) /\ ls[n + 1] = h
      /\ \A i \in 1..n : ls[i] = leaves[i]
  BY <1>1, <1>3, <1>5, <1>6, OneMore
<1>8. \A i \in 1..(n + 1) : i = n + 1 \/ i \in 1..n
  BY <1>7
<1>9. \A i \in DOMAIN ls : LeafCell(ls[i]) /\ ls[i][1] <= face
  BY <1>5, <1>7, <1>8 DEF Walking
<1>10. Increasing(ls)
  <2>1. ASSUME NEW i \in 1..(n + 1), NEW j \in 1..(n + 1), i < j
        PROVE  Precedes(ls[i], ls[j])
    <3>1. i \in 1..n
      BY <1>7, <2>1
    <3>2. CASE j = n + 1
      BY <1>2, <1>7, <3>1, <3>2, NextCall
    <3>3. CASE j \in 1..n
      BY <1>7, <2>1, <3>1, <3>3 DEF Walking, Increasing
    <3> QED
      BY <1>8, <3>2, <3>3
  <2> QED
    BY <1>7, <2>1 DEF Increasing
<1>11. \A i \in DOMAIN ls, j \in DOMAIN rest : Precedes(ls[i], rest[j])
  <2>1. ASSUME NEW i \in 1..(n + 1), NEW j \in DOMAIN rest
        PROVE  Precedes(ls[i], rest[j])
    BY <1>2, <1>4, <1>7, <1>8, NextCall
  <2> QED
    BY <1>7, <2>1
<1>12. ASSUME NEW c \in AllCells, LeafCell(c), c[1] <= face
       PROVE  \/ \E i \in DOMAIN ls : ls[i] = c
              \/ \E j \in DOMAIN rest : IsAncestor(rest[j], c)
  <2>1. CASE \E i \in DOMAIN leaves : leaves[i] = c
    BY <1>7, <2>1
  <2>2. CASE IsAncestor(h, c)
    <3>1. h = c
      BY <1>5, <1>12, <2>2, LeafBelowChild DEF Walking, LeafCell
    <3>2. n + 1 \in DOMAIN ls
      BY <1>7
    <3> QED
      BY <1>7, <3>1, <3>2
  <2>3. CASE \E j \in DOMAIN rest : IsAncestor(rest[j], c)
    BY <2>3
  <2> QED
    BY <1>2, <1>4, <1>12, <2>1, <2>2, <2>3, NextCall
<1>13. begun \in 0..Len(ls)
  BY <1>6, <1>7
<1>14. ASSUME NEW i \in DOMAIN ls PROVE i <= begun <=> ls[i][1] < face
  <2>1. CASE i \in 1..n
    BY <1>7, <2>1 DEF Walking
  <2>2. CASE i = n + 1
    BY <1>5, <1>6, <1>7, <2>2
  <2> QED
    BY <1>7, <1>8, <2>1, <2>2
<1>15. /\ rest \in Seq(AllCells) /\ Increasing(rest)
       /\ \A i \in DOMAIN rest : rest[i][1] = face
  BY <1>4, NextCall
<1>16. WalkingOn(ls, rest)
  BY <1>7, <1>9, <1>10, <1>11, <1>12, <1>13, <1>14, <1>15 DEF WalkingOn
<1> QED
  BY <1>2, <1>3, <1>4, <1>16

LEMMA Joined ==
  ASSUME NEW S, NEW s \in Seq(S), NEW t \in Seq(S)
  PROVE  /\ s \o t \in Seq(S) /\ Len(s) \in Nat /\ Len(t) \in Nat
         /\ DOMAIN s = 1..Len(s) /\ DOMAIN t = 1..Len(t)
         /\ DOMAIN (s \o t) = 1..(Len(s) + Len(t))
         /\ \A i \in 1..Len(s) : (s \o t)[i] = s[i]
         /\ \A i \in (Len(s) + 1)..(Len(s) + Len(t)) :
              (s \o t)[i] = t[i - Len(s)] /\ i - Len(s) \in 1..Len(t)
<1>1. Len(s) \in Nat /\ Len(t) \in Nat /\ DOMAIN s = 1..Len(s) /\ DOMAIN t = 1..Len(t)
  OBVIOUS
<1>2. s \o t \in Seq(S) /\ Len(s \o t) = Len(s) + Len(t)
  OBVIOUS
<1>3. DOMAIN (s \o t) = 1..(Len(s) + Len(t))
  BY <1>2
<1>4. \A i \in 1..Len(s) : (s \o t)[i] = s[i]
  BY <1>1
<1>5. ASSUME NEW i \in (Len(s) + 1)..(Len(s) + Len(t))
      PROVE  (s \o t)[i] = t[i - Len(s)] /\ i - Len(s) \in 1..Len(t)
  BY <1>1
<1> QED
  BY <1>1, <1>2, <1>3, <1>4, <1>5

\* The children of a populated cell take its place in the walk.
LEMMA CellOpened ==
  ASSUME Walking, aggregate \in Aggregates, todo # <<>>,
         Populated(Head(todo)), ~LeafCell(Head(todo))
  PROVE  WalkingOn(leaves, Children(Head(todo)) \o Tail(todo))
<1>1. PICK h : h = Head(todo)
  OBVIOUS
<1>2. PICK rest : rest = Tail(todo)
  OBVIOUS
<1>3. PICK kids : kids = Children(h)
  OBVIOUS
<1>4. PICK t : t = kids \o rest
  OBVIOUS
<1>5. PICK m : m = Len(rest)
  OBVIOUS
<1>6. h \in AllCells /\ h[1] = face /\ Level(h) < Depth /\ h \in Seq(Int)
  BY <1>1, NextCall, CellOfTree DEF LeafCell
<1>7. Fanout \in Nat /\ DOMAIN kids = 1..Fanout
  BY <1>3, Parameters DEF Children
<1>8. \A k \in 1..Fanout : /\ kids[k] \in AllCells /\ kids[k][1] = face
                           /\ IsAncestor(h, kids[k]) /\ kids[k] \in Seq(Int)
  BY <1>3, <1>6, ChildOfTree, CellOfTree
<1>9. kids \in Seq(AllCells) /\ Len(kids) = Fanout
  <2>1. kids = [k \in 1..Fanout |-> kids[k]]
    BY <1>3 DEF Children
  <2>2. kids \in [1..Fanout -> AllCells]
    BY <1>8, <2>1
  <2> QED
    BY <1>7, <2>2
<1>10. /\ rest \in Seq(AllCells) /\ Increasing(rest)
       /\ \A j \in DOMAIN rest : rest[j][1] = face /\ Precedes(h, rest[j])
  BY <1>1, <1>2, NextCall
<1>11. /\ t \in Seq(AllCells) /\ m \in Nat /\ DOMAIN rest = 1..m
       /\ DOMAIN t = 1..(Fanout + m)
       /\ \A i \in 1..Fanout : t[i] = kids[i]
       /\ \A i \in (Fanout + 1)..(Fanout + m) :
            t[i] = rest[i - Fanout] /\ i - Fanout \in 1..m
  BY <1>4, <1>5, <1>9, <1>10, Joined
<1>12. \A i \in DOMAIN t : i \in 1..Fanout \/ i \in (Fanout + 1)..(Fanout + m)
  BY <1>7, <1>11
<1>13. \A j \in DOMAIN rest : j + Fanout \in DOMAIN t /\ t[j + Fanout] = rest[j]
  <2>1. ASSUME NEW j \in 1..m
        PROVE  /\ j + Fanout \in (Fanout + 1)..(Fanout + m) /\ (j + Fanout) - Fanout = j
               /\ j + Fanout \in 1..(Fanout + m)
    BY <1>7, <1>11
  <2> QED
    BY <1>11, <2>1
<1>14. \A i \in DOMAIN t : t[i][1] = face
  BY <1>8, <1>10, <1>11, <1>12
<1>15. ASSUME NEW k \in 1..Fanout, NEW d \in AllCells
       PROVE  /\ Precedes(h, d) => Precedes(kids[k], d)
              /\ Precedes(d, h) => Precedes(d, kids[k])
  <2>1. d \in Seq(Int)
    BY CellOfTree
  <2> QED
    BY <1>6, <1>8, <2>1, PrecedesOrder
<1>16. \A j \in DOMAIN rest : rest[j] \in AllCells
  BY <1>10
<1>17. \A i \in DOMAIN leaves : leaves[i] \in AllCells /\ Precedes(leaves[i], h)
                                /\ \A j \in DOMAIN rest : Precedes(leaves[i], rest[j])
  BY <1>1, <1>2, NextCall DEF Walking
<1>18. Increasing(t)
  <2>1. ASSUME NEW i \in DOMAIN t, NEW j \in DOMAIN t, i < j
        PROVE  Precedes(t[i], t[j])
    <3>1. CASE j \in 1..Fanout
      <4>1. i \in 1..Fanout
        BY <1>7, <1>12, <2>1, <3>1
      <4>2. h \in CellsAt(Level(h)) /\ Level(h) \in Nat
        BY <1>6, CellOfTree
      <4>3. Precedes(kids[i], kids[j])
        BY <1>3, <2>1, <3>1, <4>1, <4>2, ChildrenInOrder
      <4> QED
        BY <1>11, <3>1, <4>1, <4>3
    <3>2. CASE i \in 1..Fanout /\ j \in (Fanout + 1)..(Fanout + m)
      BY <1>10, <1>11, <1>15, <1>16, <3>2
    <3>3. CASE i \in (Fanout + 1)..(Fanout + m) /\ j \in (Fanout + 1)..(Fanout + m)
      <4>1. i - Fanout \in 1..m /\ j - Fanout \in 1..m /\ i - Fanout < j - Fanout
        BY <1>7, <1>11, <2>1, <3>3
      <4> QED
        BY <1>10, <1>11, <3>3, <4>1 DEF Increasing
    <3> QED
      BY <1>12, <3>1, <3>2, <3>3
  <2> QED
    BY <2>1 DEF Increasing
<1>19. ASSUME NEW i \in DOMAIN leaves, NEW j \in DOMAIN t
       PROVE  Precedes(leaves[i], t[j])
  BY <1>11, <1>12, <1>15, <1>17
<1>20. ASSUME NEW c \in AllCells, LeafCell(c), c[1] <= face
       PROVE  \/ \E i \in DOMAIN leaves : leaves[i] = c
              \/ \E j \in DOMAIN t : IsAncestor(t[j], c)
  <2>1. CASE \E i \in DOMAIN leaves : leaves[i] = c
    BY <2>1
  <2>2. CASE IsAncestor(h, c)
    <3>1. h # c
      BY <1>1, <1>20
    <3>2. PICK k \in 1..Fanout : IsAncestor(kids[k], c)
      BY <1>3, <1>6, <1>20, <2>2, <3>1, LeafBelowChild DEF Walking
    <3>3. k \in DOMAIN t /\ t[k] = kids[k]
      BY <1>7, <1>11, <3>2
    <3> QED
      BY <3>2, <3>3
  <2>3. CASE \E j \in DOMAIN rest : IsAncestor(rest[j], c)
    BY <1>13, <2>3
  <2> QED
    BY <1>1, <1>2, <1>20, <2>1, <2>2, <2>3, NextCall
<1>21. WalkingOn(leaves, t)
  BY <1>11, <1>14, <1>18, <1>19, <1>20 DEF Walking, WalkingOn
<1> QED
  BY <1>1, <1>2, <1>3, <1>4, <1>21

LEMMA LeavesFound ==
  ASSUME TreeIInv, FindLeaves
  PROVE  TreeIInv'
<1>1. Walking /\ aggregate \in Aggregates /\ todo # <<>>
  BY FindLeavesFrame DEF FindLeaves
<1>2. CASE ~Populated(Head(todo)) /\ todo' = Tail(todo) /\ leaves' = leaves
  BY <1>1, <1>2, CellPassedOver, WalkContinues
<1>3. CASE LeafCell(Head(todo)) /\ todo' = Tail(todo) /\ leaves' = Append(leaves, Head(todo))
  BY <1>1, <1>3, CellBecomesLeaf, WalkContinues
<1>4. CASE /\ Populated(Head(todo)) /\ ~LeafCell(Head(todo))
           /\ todo' = Children(Head(todo)) \o Tail(todo) /\ leaves' = leaves
  BY <1>1, <1>4, CellOpened, WalkContinues
<1> QED
  BY <1>2, <1>3, <1>4 DEF FindLeaves, LeafCell

-----------------------------------------------------------------------------
(* The end of a face and of the build *)

\* Sorting a list that some order makes increasing loses and repeats nothing.
LEMMA Sorted ==
  ASSUME NEW s \in Seq(AllCells), Increasing(s)
  PROVE  /\ InOrder(s) \in Seq(AllCells)
         /\ Listing({s[i] : i \in DOMAIN s}, InOrder(s))
<1> DEFINE D == DOMAIN s
           Sorts(p) == \A i, j \in D : i < j => Precedes(s[p[i]], s[p[j]])
           place == CHOOSE p \in [D -> D] : Sorts(p)
<1>1. Len(s) \in Nat /\ D = 1..Len(s) /\ \A i \in D : s[i] \in AllCells
  OBVIOUS
<1>2. place \in [D -> D] /\ Sorts(place)
  <2> DEFINE same == [i \in D |-> i]
  <2>1. same \in [D -> D] /\ Sorts(same)
    BY DEF Increasing
  <2> HIDE DEF same, Sorts
  <2> QED
    BY <2>1
<1>3. InOrder(s) = [i \in D |-> s[place[i]]]
  BY DEF InOrder
<1> HIDE DEF place
<1>4. ASSUME NEW i \in D, NEW j \in D, i # j PROVE place[i] # place[j]
  <2>1. i < j \/ j < i
    BY <1>1, <1>4
  <2>2. Precedes(s[place[i]], s[place[j]]) \/ Precedes(s[place[j]], s[place[i]])
    BY <1>2, <2>1
  <2>3. s[place[i]] \in Seq(Int) /\ s[place[j]] \in Seq(Int)
    BY <1>1, <1>2, CellOfTree
  <2> QED
    BY <2>2, <2>3, PrecedesOrder
<1>5. IsFiniteSet(D)
  BY <1>1, FS_Interval
<1>6. place \in Injection(D, D)
  BY <1>2, <1>4 DEF Injection, IsInjective
<1>7. place \in Surjection(D, D)
  <2> HIDE DEF D
  <2> QED
    BY <1>5, <1>6, FS_Injection
<1>8. \A i \in D : \E j \in D : place[j] = i
  BY <1>7 DEF Surjection
<1>9. DOMAIN InOrder(s) = D /\ \A i \in D : InOrder(s)[i] = s[place[i]]
  BY <1>3
<1>10. {InOrder(s)[i] : i \in DOMAIN InOrder(s)} = {s[i] : i \in D}
  BY <1>2, <1>8, <1>9
<1>11. \A i, j \in DOMAIN InOrder(s) : i < j => Precedes(InOrder(s)[i], InOrder(s)[j])
  BY <1>2, <1>9
<1>12. InOrder(s) \in Seq(AllCells)
  <2>1. [i \in D |-> s[place[i]]] \in [D -> AllCells]
    BY <1>1, <1>2
  <2> HIDE DEF D
  <2>2. InOrder(s) \in [1..Len(s) -> AllCells]
    BY <1>1, <1>3, <2>1
  <2> QED
    BY <1>1, <2>2
<1> QED
  BY <1>10, <1>11, <1>12 DEF Listing

LEMMA PopulationsFitTotals ==
  ASSUME Propagated, PopulationsFit, NEW f \in Faces
  PROVE  TrueTotal(<<f>>) \in Nat /\ TrueTotal(<<f>>) <= PopulationLimit
BY FaceRoot, Parameters DEF Propagated, PopulationsFit

LEMMA FaceFinished ==
  ASSUME TreeIInv, FinishFace
  PROVE  TreeIInv'
<1>1. Walking /\ aggregate \in Aggregates /\ PopulationsFit /\ phase = "extract" /\ todo = <<>>
  BY DEF FinishFace, TreeIInv
<1>2. UNCHANGED <<aggregate, populations, level, current, parents>>
  BY DEF FinishFace
<1>3. PopulationsFit' /\ aggregate' \in Aggregates
  BY <1>1, <1>2 DEF PopulationsFit
<1>4. PICK n : n = Len(leaves)
  OBVIOUS
<1>5. PICK g : g = face
  OBVIOUS
<1>6. /\ leaves \in Seq(AllCells) /\ n \in Nat /\ DOMAIN leaves = 1..n /\ begun \in 0..n
      /\ \A i \in 1..n : leaves[i] \in AllCells
      /\ g \in Faces /\ g \in Nat
  BY <1>1, <1>4, <1>5, FacesNat DEF Walking
<1>7. /\ \A i \in 1..n : /\ LeafCell(leaves[i]) /\ leaves[i][1] <= g
                         /\ i <= begun <=> leaves[i][1] < g
      /\ \A f \in Faces : f < g => Populated(<<f>>)
      /\ Increasing(leaves) /\ Propagated
  BY <1>1, <1>5, <1>6 DEF Walking
<1>8. \A c \in AllCells : LeafCell(c) /\ c[1] <= g => \E i \in 1..n : leaves[i] = c
  <2>1. DOMAIN todo = {}
    BY <1>1
  <2> QED
    BY <1>1, <1>5, <1>6, <2>1 DEF Walking
<1>9. \A c : (LeafCell(c)' <=> LeafCell(c)) /\ (Populated(c)' <=> Populated(c))
  BY <1>2 DEF LeafCell, Populated, Level, Children
<1>10. \A c : TrueTotal(c)' = TrueTotal(c)
  BY <1>2 DEF TrueTotal, Below
<1>11. Propagated'
  BY <1>2, <1>7, <1>10 DEF Propagated
<1>12. ASSUME begun # n PROVE Populated(<<g>>)
  <2>1. n \in 1..n /\ ~(n <= begun)
    BY <1>6, <1>12
  <2>2. leaves[n] \in AllCells /\ leaves[n][1] = g /\ LeafCell(leaves[n])
    <3>1. leaves[n] \in AllCells /\ leaves[n][1] <= g /\ ~(leaves[n][1] < g)
          /\ LeafCell(leaves[n])
      BY <1>6, <1>7, <2>1
    <3>2. leaves[n][1] \in Nat
      BY <3>1, CellOfTree
    <3> QED
      BY <1>6, <3>1, <3>2
  <2>3. <<g>> \in AllCells /\ IsAncestor(<<g>>, leaves[n])
    BY <1>6, <2>2, FaceRoot
  <2> QED
    BY <1>1, <1>7, <2>2, <2>3, PopulatedAround DEF LeafCell
<1>13. CASE FaceIsEmpty /\ phase' = "empty"
  <2>1. ~Populated(<<g>>)
    <3>1. SUFFICES ASSUME Populated(<<g>>) PROVE FALSE
      OBVIOUS
    <3>2. PICK d \in AllCells : IsAncestor(<<g>>, d) /\ LeafCell(d)
      BY <1>6, <3>1, FaceRoot, LeafBelow
    <3>3. d[1] = g
      <4>1. <<g>> \in Seq(Int) /\ d \in Seq(Int) /\ Len(<<g>>) = 1 /\ <<g>>[1] = g
        BY <1>6, FaceRoot, CellOfTree
      <4>2. 1 \in 1..1
        OBVIOUS
      <4> QED
        BY <3>2, <4>1, <4>2, AncestorPointwise
    <3>4. PICK i \in 1..n : leaves[i] = d
      BY <1>6, <1>8, <3>2, <3>3
    <3>5. begun = n
      BY <1>4, <1>13 DEF FaceIsEmpty
    <3> QED
      BY <1>6, <1>7, <3>3, <3>4, <3>5
  <2>2. ~(TrueTotal(<<g>>) >= Threshold)
    BY <1>6, <1>7, <2>1, FaceRoot DEF Propagated, Populated
  <2>3. \A f \in Faces : TrueTotal(<<f>>) <= PopulationLimit
    BY <1>1, <1>7, PopulationsFitTotals
  <2>4. StopsForCause'
    BY <1>6, <1>10, <1>13, <2>2, <2>3 DEF StopsForCause
  <2> QED
    BY <1>3, <1>13, <2>4 DEF TreeIInv
<1>14. CASE /\ ~FaceIsEmpty /\ face + 1 \in Faces
            /\ face' = face + 1 /\ todo' = << <<face + 1>> >>
            /\ begun' = Len(leaves) /\ UNCHANGED <<phase, leaves>>
  <2>1. PICK h : h = g + 1
    OBVIOUS
  <2>2. /\ h \in Faces /\ h \in Nat /\ face' = h /\ begun' = n /\ leaves' = leaves
        /\ g < h /\ todo' = << <<h>> >>
    BY <1>4, <1>5, <1>6, <1>14, <2>1
  <2>3. /\ <<h>> \in AllCells /\ <<h>> \in Seq(Int) /\ Len(<<h>>) = 1 /\ <<h>>[1] = h
        /\ \A c \in AllCells : c[1] = h => IsAncestor(<<h>>, c)
    BY <2>2, FaceRoot
  <2>4. todo' \in Seq(AllCells) /\ DOMAIN todo' = {1} /\ todo'[1] = <<h>>
    BY <2>2, <2>3
  <2>5. ASSUME NEW i \in DOMAIN leaves'
        PROVE  /\ LeafCell(leaves[i])' /\ leaves'[i][1] <= face'
               /\ i <= begun' <=> leaves'[i][1] < face'
               /\ Precedes(leaves'[i], <<h>>)
    <3>1. i \in 1..n /\ leaves[i] \in AllCells
      BY <1>6, <2>2
    <3>2. LeafCell(leaves[i])'
      <4>1. LeafCell(leaves[i]) /\ populations' = populations /\ leaves' = leaves
        BY <1>2, <1>7, <2>2, <3>1
      <4> QED
        BY <4>1 DEF LeafCell, Populated, Level, Children
    <3>3. leaves[i][1] \in Nat /\ leaves[i][1] <= g
      BY <1>7, <3>1, CellOfTree
    <3>4. leaves[i][1] < h /\ i <= n
      BY <1>6, <2>2, <3>1, <3>3
    <3>5. Precedes(leaves[i], <<h>>)
      <4>1. leaves[i] \in Seq(Int) /\ Len(leaves[i]) \in Nat \ {0}
        BY <3>1, CellOfTree
      <4>2. 1 \in 1..Len(leaves[i]) /\ 1 <= Len(<<h>>) /\ \A k \in 1..(1 - 1) : FALSE
        BY <2>3, <4>1
      <4> QED
        BY <2>3, <3>4, <4>1, <4>2, PrecedesPointwise
    <3>6. leaves'[i][1] <= face' /\ (i <= begun' <=> leaves'[i][1] < face')
      BY <2>2, <3>3, <3>4
    <3> QED
      BY <2>2, <3>2, <3>5, <3>6
  <2>6. ASSUME NEW c \in AllCells, LeafCell(c)', c[1] <= face'
        PROVE  \/ \E i \in DOMAIN leaves' : leaves'[i] = c
               \/ \E j \in DOMAIN todo' : IsAncestor(todo'[j], c)
    <3>1. c[1] \in Nat
      BY CellOfTree
    <3>2. CASE c[1] = h
      BY <2>3, <2>4, <3>2
    <3>3. CASE c[1] # h
      <4>1. c[1] <= g
        BY <1>6, <2>1, <2>2, <2>6, <3>1, <3>3
      <4> QED
        BY <1>6, <1>8, <1>9, <2>2, <2>6, <4>1
    <3> QED
      BY <3>2, <3>3
  <2>7. begun \in 0..n /\ begun # n
    BY <1>4, <1>6, <1>14 DEF FaceIsEmpty
  <2>8. ASSUME NEW f \in Faces, f < face' PROVE Populated(<<f>>)'
    <3>1. f \in Nat
      BY FacesNat
    <3>2. CASE f = g
      BY <1>9, <1>12, <2>7, <3>2
    <3>3. CASE f # g
      <4>1. f < g
        BY <1>6, <2>1, <2>2, <2>8, <3>1, <3>3
      <4> QED
        BY <1>7, <1>9, <4>1
    <3> QED
      BY <3>2, <3>3
  <2>9. Increasing(leaves)' /\ Increasing(todo)'
    BY <1>7, <2>2, <2>4 DEF Increasing
  <2>10. leaves' \in Seq(AllCells) /\ begun' \in 0..Len(leaves')
    BY <1>4, <1>6, <2>2
  <2>11. face' \in Faces
    BY <2>2
  <2>12. \A i \in DOMAIN todo' : todo'[i][1] = face'
    BY <2>2, <2>3, <2>4
  <2>13. \A i \in DOMAIN leaves', j \in DOMAIN todo' : Precedes(leaves'[i], todo'[j])
    BY <2>4, <2>5
  <2>14. Walking'
    BY <1>11, <2>4, <2>5, <2>6, <2>8, <2>9, <2>10, <2>11, <2>12, <2>13 DEF Walking
  <2> QED
    BY <1>1, <1>3, <1>14, <2>14 DEF TreeIInv
<1>15. CASE /\ ~FaceIsEmpty /\ face + 1 \notin Faces
            /\ phase' = "done" /\ leaves' = InOrder(leaves)
  <2>1. begun # n
    BY <1>4, <1>15 DEF FaceIsEmpty
  <2>2. \A f \in Faces : f <= g
    <3>1. SUFFICES ASSUME NEW f \in Faces, ~(f <= g) PROVE FALSE
      OBVIOUS
    <3>2. f \in Nat /\ g + 1 \in 0..f
      BY <1>6, <3>1, FacesNat
    <3> QED
      BY <1>5, <1>15, <3>2, FacesNat
  <2>3. ASSUME NEW f \in Faces PROVE Populated(<<f>>)'
    <3>1. f = g \/ f < g
      BY <1>6, <2>2, FacesNat
    <3> QED
      BY <1>7, <1>9, <1>12, <2>1, <3>1
  <2>4. {c \in AllCells : LeafCell(c)'} = {leaves[i] : i \in DOMAIN leaves}
    <3>1. \A c \in AllCells : c[1] <= g
      BY <2>2, CellOfTree
    <3> QED
      BY <1>6, <1>7, <1>8, <1>9, <3>1
  <2>5. leaves' \in Seq(AllCells) /\ Listing({leaves[i] : i \in DOMAIN leaves}, leaves')
    BY <1>6, <1>7, <1>15, Sorted
  <2>6. Listing({c \in AllCells : LeafCell(c)}, leaves)'
    BY <2>4, <2>5 DEF Listing, Precedes
  <2>7. Extracted'
    BY <1>11, <2>3, <2>5, <2>6 DEF Extracted
  <2> QED
    BY <1>3, <1>15, <2>7 DEF TreeIInv
<1> QED
  BY <1>13, <1>14, <1>15 DEF FinishFace

LEMMA TreeIInvPreserved ==
  ASSUME TreeIInv, [TreeNext]_treeVars
  PROVE  TreeIInv'
<1>1. CASE \E c \in current : PropagateCell(c)
  BY <1>1, CellPropagated
<1>2. CASE FinishLevel
  BY <1>2, LevelFinished
<1>3. CASE FindLeaves
  BY <1>3, LeavesFound
<1>4. CASE FinishFace
  BY <1>4, FaceFinished
<1>5. CASE UNCHANGED treeVars
  <2>1. UNCHANGED <<aggregate, phase, populations, level, current, parents, face, todo,
                    begun, leaves>>
    BY <1>5 DEF treeVars
  <2>2. \A c : TrueTotal(c)' = TrueTotal(c)
    BY <2>1 DEF TrueTotal, Below
  <2>3. \A c : (LeafCell(c)' <=> LeafCell(c)) /\ (Populated(c)' <=> Populated(c))
    BY <2>1 DEF LeafCell, Populated, Level, Children
  <2>4. Propagating => Propagating'
    BY <2>1, <2>2 DEF Propagating, Held, Below, Prefix
  <2>5. Propagated => Propagated'
    BY <2>1, <2>2 DEF Propagated
  <2>6. (\A i \in DOMAIN leaves : LeafCell(leaves[i]))
          => (\A i \in DOMAIN leaves : LeafCell(leaves[i]))'
    BY <2>1 DEF LeafCell, Populated, Level, Children
  <2>7. Walking => Walking'
    BY <2>1, <2>3, <2>5, <2>6 DEF Walking, Increasing
  <2>8. Extracted => Extracted'
    <3>1. {c \in AllCells : LeafCell(c)}' = {c \in AllCells : LeafCell(c)}
      BY <2>3
    <3> QED
      BY <2>1, <2>3, <2>5, <3>1 DEF Extracted, Listing
  <2>9. StopsForCause => StopsForCause'
    BY <2>1, <2>2 DEF StopsForCause
  <2> QED
    BY <2>1, <2>4, <2>7, <2>8, <2>9 DEF TreeIInv, PopulationsFit
<1> QED
  BY <1>1, <1>2, <1>3, <1>4, <1>5 DEF TreeNext

\* TreeIInv holds in every state of every density map.
THEOREM TreeInvariant == TreeSpec => []TreeIInv
<1>1. TreeInit => TreeIInv
  BY StartOfPropagation
<1>2. TreeIInv /\ [TreeNext]_treeVars => TreeIInv'
  BY TreeIInvPreserved
<1> QED
  BY <1>1, <1>2, PTL DEF TreeSpec

-----------------------------------------------------------------------------
(* What the extracted leaves are *)

LEMMA ExtractedLeaves ==
  ASSUME Extracted, aggregate \in Aggregates
  PROVE  \A c \in AllCells :
           InTree({leaves[k] : k \in DOMAIN leaves}, c) <=> Populated(c)
<1>1. {leaves[k] : k \in DOMAIN leaves} = {c \in AllCells : LeafCell(c)}
  BY DEF Extracted, Listing
<1>2. ASSUME NEW c \in AllCells, NEW d \in AllCells, LeafCell(d), IsAncestor(c, d)
      PROVE  Populated(c)
  BY <1>2, PopulatedAround DEF Extracted, LeafCell
<1>3. ASSUME NEW c \in AllCells, Populated(c)
      PROVE  \E d \in AllCells : LeafCell(d) /\ IsAncestor(c, d)
  BY <1>3, LeafBelow
<1> QED
  BY <1>1, <1>2, <1>3 DEF InTree

LEMMA EncodableWhenExtracted ==
  ASSUME Extracted, aggregate \in Aggregates
  PROVE  /\ IsLeafSet({leaves[k] : k \in DOMAIN leaves}, Faces, Depth)
         /\ Listing({leaves[k] : k \in DOMAIN leaves}, leaves)
<1> DEFINE L == {leaves[k] : k \in DOMAIN leaves}
<1>1. L = {c \in AllCells : LeafCell(c)} /\ Listing(L, leaves)
  BY DEF Extracted, Listing
<1> HIDE DEF L
<1>2. ASSUME NEW a \in L, NEW b \in L, IsAncestor(a, b) PROVE a = b
  BY <1>1, <1>2, LeafBelowChild DEF Extracted, LeafCell
<1>3. {c[1] : c \in L} = Faces
  <2>1. \A c \in L : c[1] \in Faces
    BY <1>1, CellOfTree
  <2>2. ASSUME NEW f \in Faces PROVE \E c \in L : c[1] = f
    <3>1. PICK d \in AllCells : IsAncestor(<<f>>, d) /\ LeafCell(d)
      BY FaceRoot, LeafBelow DEF Extracted
    <3>2. <<f>> \in Seq(Int) /\ d \in Seq(Int) /\ Len(<<f>>) = 1 /\ <<f>>[1] = f
      BY FaceRoot, CellOfTree
    <3>3. 1 \in 1..1
      OBVIOUS
    <3>4. d[1] = f
      BY <3>1, <3>2, <3>3, AncestorPointwise
    <3> QED
      BY <1>1, <3>1, <3>4
  <2> QED
    BY <2>1, <2>2
<1>4. \A c \in L : Len(c) <= Depth + 1
  BY <1>1, AllCellsShape
<1> QED
  BY <1>1, <1>2, <1>3, <1>4 DEF IsLeafSet, L

LEMMA AskedShape ==
  ASSUME NEW c \in Asked
  PROVE  /\ Path(c) /\ Len(c) \in Nat \ {0}
         /\ \A k \in 1..Len(c) :
              k <= Depth + 1 => SubSeq(c, 1, k) \in AllCells /\ Len(SubSeq(c, 1, k)) = k
         /\ \A k \in 1..Len(c) : k > Depth + 1 => SubSeq(c, 1, k) \notin AllCells
                                                  /\ Len(SubSeq(c, 1, k)) = k
<1>1. Path(c)
  <2>1. CASE c \in AllCells
    BY <2>1, AllCellsShape
  <2>2. ASSUME NEW b \in CellsAt(Depth), NEW j \in Positions, c = Append(b, j)
        PROVE  Path(c)
    <3>1. j + 1 \in 1..Fanout /\ (j + 1) - 1 = j /\ Depth \in Nat /\ Depth + 1 \in Nat
      BY Parameters DEF Positions
    <3>2. Append(b, j) \in CellsAt(Depth + 1)
      <4>1. PICK k \in 1..Fanout : k - 1 = j
        BY <3>1
      <4>2. Children(b)[k] = Append(b, k - 1) /\ Children(b)[k] \in CellsAt(Depth + 1)
        BY <3>1, ChildFacts
      <4> QED
        BY <4>1, <4>2
    <3> QED
      BY <2>2, <3>1, <3>2, CellShape
  <2> QED
    BY <2>1, <2>2 DEF Asked
<1>2. ASSUME NEW k \in 1..Len(c)
      PROVE  /\ Len(SubSeq(c, 1, k)) = k
             /\ SubSeq(c, 1, k) \in AllCells <=> k <= Depth + 1
  BY <1>1, PrefixFacts, AllCellsShape
<1>3. Len(c) \in Nat \ {0} /\ Depth \in Nat
  BY <1>1, Parameters DEF Path
<1> QED
  BY <1>1, <1>2, <1>3

LEMMA AnswersWhenExtracted ==
  ASSUME Extracted, aggregate \in Aggregates, NEW c \in Asked
  PROVE  LET found == DeepestAncestor({leaves[k] : k \in DOMAIN leaves}, c)
         IN  /\ TrueTotal(found) >= Threshold
             /\ \A k \in 1..Len(c) : k \in (Len(found) + 1)..(Depth + 1) =>
                  TrueTotal(SubSeq(c, 1, k)) < Threshold
<1> DEFINE L == {leaves[k] : k \in DOMAIN leaves}
           Inside(k) == InTree(L, SubSeq(c, 1, k))
           Fit == {k \in 1..Len(c) : Inside(k)}
           Best(a) == InTree(L, a) /\ \A k \in 1..Len(c) : Inside(k) => k <= Len(a)
           prefixes == {SubSeq(c, 1, k) : k \in 1..Len(c)}
           found == CHOOSE a \in prefixes : Best(a)
<1>1. /\ Path(c) /\ Len(c) \in Nat \ {0} /\ Depth \in Nat
      /\ \A k \in 1..Len(c) :
           /\ Len(SubSeq(c, 1, k)) = k
           /\ SubSeq(c, 1, k) \in AllCells <=> k <= Depth + 1
  BY AskedShape, Parameters
<1>2. \A a : InTree(L, a) => \E d \in AllCells : IsAncestor(a, d)
  BY DEF InTree, Extracted
<1>3. \A k \in 1..Len(c) : Inside(k) => SubSeq(c, 1, k) \in AllCells
  <2>1. ASSUME NEW k \in 1..Len(c), Inside(k) PROVE k <= Depth + 1
    <3>1. PICK d \in AllCells : IsAncestor(SubSeq(c, 1, k), d)
      BY <1>2, <2>1
    <3>2. Len(d) <= Depth + 1 /\ Len(d) \in Nat
      BY AllCellsShape DEF Path
    <3>3. k <= Len(d)
      BY <1>1, <3>1 DEF IsAncestor
    <3> QED
      BY <1>1, <3>2, <3>3
  <2> QED
    BY <1>1, <2>1
<1>4. \A k \in 1..Len(c) : SubSeq(c, 1, k) \in AllCells =>
        (Inside(k) <=> Populated(SubSeq(c, 1, k)))
  BY ExtractedLeaves
<1>5. 1 \in 1..Len(c) /\ Inside(1)
  <2>1. 1 \in 1..Len(c) /\ 1 <= Depth + 1
    BY <1>1
  <2>2. SubSeq(c, 1, 1) = <<c[1]>> /\ c[1] \in Faces
    <3>1. c \in Seq(Int) /\ c[1] \in Faces
      BY <1>1 DEF Path
    <3>2. PICK s : s = SubSeq(c, 1, 1)
      OBVIOUS
    <3>3. s \in Seq(Int) /\ Len(s) = 1 /\ s[1] = c[1]
      BY <1>1, <2>1, <3>1, <3>2
    <3>4. s = <<c[1]>>
      BY <3>3
    <3> QED
      BY <3>1, <3>2, <3>4
  <2>3. Populated(SubSeq(c, 1, 1))
    BY <2>2 DEF Extracted
  <2> QED
    BY <1>1, <1>4, <2>1, <2>3
<1> HIDE DEF L, Inside
<1>6. PICK m \in Fit : \A k \in Fit : k <= m
  <2> DEFINE Left == {Len(c) - k : k \in Fit}
  <2>1. Left \subseteq Nat /\ Left # {}
    BY <1>1, <1>5
  <2>2. PICK r \in Left : \A x \in Left : r <= x
    <3> HIDE DEF Left
    <3> QED
      BY <2>1, LeastNatural
  <2>3. PICK k \in Fit : r = Len(c) - k
    OBVIOUS
  <2>4. ASSUME NEW j \in Fit PROVE j <= k
    <3>1. Len(c) - j \in Left /\ j \in Int /\ k \in Int /\ Len(c) \in Int
      BY <1>1
    <3> HIDE DEF Left, Fit
    <3>2. Len(c) - k <= Len(c) - j
      BY <2>2, <2>3, <3>1
    <3> QED
      BY <3>1, <3>2
  <2> QED
    BY <2>4
<1>7. \E a \in prefixes : Best(a)
  <2>1. SubSeq(c, 1, m) \in prefixes /\ Len(SubSeq(c, 1, m)) = m
    BY <1>1, <1>6
  <2>2. Best(SubSeq(c, 1, m))
    BY <1>6, <2>1 DEF Inside
  <2> QED
    BY <2>1, <2>2
<1>8. found \in prefixes /\ Best(found)
  <2> HIDE DEF Best, prefixes
  <2> QED
    BY <1>7
<1>9. DeepestAncestor(L, c) = found
  BY DEF DeepestAncestor, Inside
<1> HIDE DEF found
<1>10. PICK n \in 1..Len(c) : found = SubSeq(c, 1, n)
  BY <1>8
<1>11. Inside(n) /\ Len(found) = n
  BY <1>1, <1>8, <1>10 DEF Inside
<1>12. found \in AllCells /\ Populated(found)
  BY <1>3, <1>4, <1>10, <1>11
<1>13. TrueTotal(found) >= Threshold
  BY <1>12 DEF Extracted, Propagated, Populated
<1>14. ASSUME NEW k \in 1..Len(c), k \in (Len(found) + 1)..(Depth + 1)
       PROVE  TrueTotal(SubSeq(c, 1, k)) < Threshold
  <2>1. ~Inside(k) /\ k <= Depth + 1
    BY <1>1, <1>8, <1>11, <1>14
  <2>2. SubSeq(c, 1, k) \in AllCells /\ ~Populated(SubSeq(c, 1, k))
    BY <1>1, <1>4, <2>1
  <2>3. ~(TrueTotal(SubSeq(c, 1, k)) >= Threshold)
    BY <2>2 DEF Extracted, Propagated, Populated
  <2>4. TrueTotal(SubSeq(c, 1, k)) \in Nat
    BY TotalNat
  <2> QED
    BY <2>3, <2>4, Parameters
<1>15. /\ TrueTotal(DeepestAncestor(L, c)) >= Threshold
       /\ \A k \in 1..Len(c) : k \in (Len(DeepestAncestor(L, c)) + 1)..(Depth + 1) =>
            TrueTotal(SubSeq(c, 1, k)) < Threshold
  BY <1>9, <1>13, <1>14
<1> QED
  BY <1>15 DEF L

-----------------------------------------------------------------------------
(* The theorems *)

\* The density map is built exactly when every face fits and is populated; an
\* overflow or an empty face ends the build for no other reason.
THEOREM AlwaysStopsForCause == TreeSpec => []StopsForCause
<1>1. TreeIInv => StopsForCause
  <2>1. ASSUME TreeIInv, phase = "done"
        PROVE  \A f \in Faces : /\ TrueTotal(<<f>>) <= PopulationLimit
                                /\ TrueTotal(<<f>>) >= Threshold
    <3>1. Extracted /\ Propagated /\ PopulationsFit
      BY <2>1 DEF TreeIInv, Extracted
    <3>2. ASSUME NEW f \in Faces PROVE TrueTotal(<<f>>) >= Threshold
      BY <3>1, FaceRoot DEF Extracted, Propagated, Populated
    <3> QED
      BY <3>1, <3>2, PopulationsFitTotals
  <2> QED
    BY <2>1 DEF TreeIInv, StopsForCause
<1> QED
  BY <1>1, TreeInvariant, PTL

\* What find_leaves and the sort hand to the encoder is a list of leaves in
\* traversal order, disjoint, and with every face represented.
THEOREM LeavesAlwaysEncodable == TreeSpec => []LeavesEncodable
<1>1. TreeIInv => LeavesEncodable
  BY EncodableWhenExtracted DEF TreeIInv, LeavesEncodable
<1> QED
  BY <1>1, TreeInvariant, PTL

\* A query answers with a cell of at least Threshold people, and with the finest
\* such cell around the one it asks about.
THEOREM AnswersAlwaysHoldThreshold == TreeSpec => []AnswersHoldThreshold
<1>1. TreeIInv => AnswersHoldThreshold
  BY AnswersWhenExtracted DEF TreeIInv, AnswersHoldThreshold
<1> QED
  BY <1>1, TreeInvariant, PTL
=============================================================================
