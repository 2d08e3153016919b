---------------------------- MODULE Aggregation -----------------------------
(***************************************************************************)
(* Pixel aggregation in cli/src/bin/build_database.rs: the population of   *)
(* every level-12 cell is summed over the pixels of the GeoTIFF by rayon's *)
(* try_fold and try_reduce.  Rayon splits the rows into segments wherever  *)
(* it likes, threads fold their segments into maps of their own in any     *)
(* interleaving, and neighbouring maps are merged as they become complete. *)
(* The first error ends the whole computation.                             *)
(*                                                                         *)
(* Pixels are numbered through the rows.  A map is a function on Cells in  *)
(* which an absent key is 0.  A source value is a multiple of 1/Grain of a *)
(* fixed-point unit (the code's f32 times POPULATION_FIXED_POINT_SCALE).   *)
(***************************************************************************)
EXTENDS PrefixSums, FiniteSets

CONSTANTS
  Sources,        \* the images that may be aggregated
  Cells,          \* level-12 cells
  PixelCount,     \* pixels of an image
  RowStarts,      \* the first pixel of each row
  ValueAt,        \* ValueAt[s][p]: the value of a pixel
  CellAt,         \* CellAt[s][p]: the cell its centre lies in
  NoData,         \* GEOTIFF_NODATA_VALUE
  Grain,          \* source units in one fixed-point unit
  MaxPopulation   \* i64::MAX

Pixels == 0..(PixelCount - 1)

(***************************************************************************)
(* convert_source_population and convert_population_to_fixed: no data and  *)
(* zero contribute nothing, any other value must be positive and in range, *)
(* and round() takes halves away from zero.                                *)
(***************************************************************************)
Skipped(value) == value = NoData \/ value = 0
Fixed(value) == (2 * value + Grain) \div (2 * Grain)
Convertible(value) == value > 0 /\ Fixed(value) < MaxPopulation
Contribution(value) ==
  IF Convertible(value) /\ ~Skipped(value) THEN Fixed(value) ELSE 0

ASSUME SourceAssumption ==
  /\ PixelCount \in Nat \ {0}
  /\ RowStarts \subseteq Pixels
  /\ Grain \in Nat \ {0}
  /\ NoData \in Int /\ NoData < 0
  /\ MaxPopulation \in Nat \ {0}
  /\ \A s \in Sources : \A p \in Pixels :
       ValueAt[s][p] \in Int /\ CellAt[s][p] \in Cells

VARIABLES
  source,    \* the decoded image
  segments,  \* segments of pixels, each with its fold's progress and map
  outcome,   \* "running", "built" or "failed"
  result     \* level_12_populations

vars == <<source, segments, outcome, result>>

NoPopulation == [c \in Cells |-> 0]
Segment(first, end) ==
  [first |-> first, next |-> first, end |-> end, map |-> NoPopulation]
Folded(t) == t.next = t.end

Init ==
  /\ source \in Sources
  /\ segments = {Segment(0, PixelCount)}
  /\ outcome = "running"
  /\ result = NoPopulation

\* Rayon divides a segment it has not begun to fold, between two rows.
Split(t, middle) ==
  /\ t.next = t.first
  /\ t.first < middle /\ middle < t.end
  /\ segments' = (segments \ {t})
                   \union {Segment(t.first, middle), Segment(middle, t.end)}
  /\ UNCHANGED <<source, outcome, result>>

Fail == outcome' = "failed" /\ UNCHANGED <<source, segments, result>>

Replace(old, new) ==
  /\ segments' = (segments \ old) \union {new}
  /\ UNCHANGED <<source, outcome, result>>

\* add_population: the sum, or an error when it does not fit.
Fits(map, c, amount) == map[c] + amount <= MaxPopulation
Add(map, c, amount) == [map EXCEPT ![c] = @ + amount]

Advance(t, map) ==
  [first |-> t.first, next |-> t.next + 1, end |-> t.end, map |-> map]

\* The thread that folds segment t handles its next pixel.
FoldPixel(t) ==
  /\ ~Folded(t)
  /\ LET value == ValueAt[source][t.next]
         c     == CellAt[source][t.next]
     IN  \/ Skipped(value) /\ Replace({t}, Advance(t, t.map))
         \/ /\ ~Skipped(value) /\ Convertible(value)
            /\ Fits(t.map, c, Fixed(value))
            /\ Replace({t}, Advance(t, Add(t.map, c, Fixed(value))))
         \/ /\ ~Skipped(value)
            /\ ~(Convertible(value) /\ Fits(t.map, c, Fixed(value)))
            /\ Fail

\* Mutant: an entry of the right map replaces the left one.
RightmostEntry(t, u) ==
  [c \in Cells |-> IF u.map[c] # 0 THEN u.map[c] ELSE t.map[c]]

Combined(t, u) == [c \in Cells |-> t.map[c] + u.map[c]]

Adjacent(t, u) == t.end = u.first

\* try_reduce: the left map absorbs every entry of the right one.
Merge(t, u) ==
  /\ Folded(t) /\ Folded(u) /\ Adjacent(t, u)
  /\ \/ /\ \A c \in Cells : Fits(t.map, c, u.map[c])
        /\ Replace({t, u},
             [first |-> t.first, next |-> u.end, end |-> u.end,
              map |-> Combined(t, u)])
     \/ /\ \E c \in Cells : ~Fits(t.map, c, u.map[c])
        /\ Fail

\* Mutant: the first complete map is taken for the whole image.
FinishEarly(t) ==
  /\ t.first = 0 /\ Folded(t)
  /\ outcome' = "built" /\ result' = t.map
  /\ UNCHANGED <<source, segments>>

\* The last map covers the image; main goes on with it.
Finish(t) ==
  /\ t.first = 0 /\ t.end = PixelCount /\ Folded(t)
  /\ outcome' = "built" /\ result' = t.map
  /\ UNCHANGED <<source, segments>>

Next ==
  /\ outcome = "running"
  /\ \/ \E t \in segments, middle \in RowStarts : Split(t, middle)
     \/ \E t \in segments : FoldPixel(t)
     \/ \E t, u \in segments : Merge(t, u)
     \/ \E t \in segments : Finish(t)

Spec == Init /\ [][Next]_vars

-----------------------------------------------------------------------------
(* Properties *)

\* The population of cell c in the first n pixels of an image.
RunningTotal(s, n, c) ==
  PrefixSum([p \in Pixels |-> IF CellAt[s][p] = c
                              THEN Contribution(ValueAt[s][p]) ELSE 0], n)

SegmentType ==
  [first : 0..PixelCount, next : 0..PixelCount, end : 0..PixelCount,
   map : [Cells -> 0..MaxPopulation]]

TypeOK ==
  /\ source \in Sources
  /\ segments \subseteq SegmentType
  /\ outcome \in {"running", "built", "failed"}
  /\ result \in [Cells -> 0..MaxPopulation]

\* Each map holds exactly what its segment's folded pixels contribute, however
\* the segment came about, and never more than an i64 can hold.
MapsExact ==
  \A t \in segments :
    /\ t.first <= t.next /\ t.next <= t.end
    /\ \A c \in Cells :
         /\ t.map[c] = RunningTotal(source, t.next, c)
                         - RunningTotal(source, t.first, c)
         /\ t.map[c] <= MaxPopulation

\* Every pixel belongs to exactly one segment: none is counted twice or lost.
PixelsCovered ==
  \A p \in Pixels : \E t \in segments :
    /\ t.first <= p /\ p < t.end
    /\ \A u \in segments : u.first <= p /\ p < u.end => u = t

Acceptable(s) ==
  /\ \A p \in Pixels : Skipped(ValueAt[s][p]) \/ Convertible(ValueAt[s][p])
  /\ \A c \in Cells : RunningTotal(s, PixelCount, c) <= MaxPopulation

\* Whether the build succeeds, and the populations it goes on with, depend on
\* the image alone and not on how rayon splits and schedules it: success means
\* the exact totals, and failure an invalid pixel or a total that does not fit.
ScheduleIndependent ==
  /\ outcome = "built" =>
       /\ Acceptable(source)
       /\ result = [c \in Cells |-> RunningTotal(source, PixelCount, c)]
  /\ outcome = "failed" => ~Acceptable(source)
=============================================================================
