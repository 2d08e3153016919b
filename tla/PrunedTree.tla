----------------------------- MODULE PrunedTree -----------------------------
(***************************************************************************)
(* From populations of level-Depth cells to the leaves of the density map  *)
(* (cli/src/bin/build_database.rs, steps 2 and 3, and cli/src/quadtree.rs):*)
(* populations are added up level by level, then every root face is walked *)
(* down to the finest cells that still hold Threshold people.              *)
(*                                                                         *)
(* The map is a function on all cells in which an absent key is 0.  The    *)
(* order in which a level is added up is open: the first one comes from    *)
(* the keys of a hash map.                                                 *)
(***************************************************************************)
EXTENDS CellTree, PrefixSums

CONSTANTS
  Aggregates,     \* what aggregation may have produced
  Faces,          \* root faces: 0, 1, ...
  Fanout,         \* children of a cell
  Depth,          \* MAX_DB_LEVEL
  Threshold,      \* POPULATION_THRESHOLD_FIXED
  PopulationLimit \* i64::MAX

Level(c) == Len(c) - 1
Positions == 0..(Fanout - 1)
CellsOf(f, l) == {<<f>> \o p : p \in [1..l -> Positions]}
CellsAt(l) == UNION {CellsOf(f, l) : f \in Faces}
AllCells == UNION {CellsAt(l) : l \in 0..Depth}
Parent(c) == SubSeq(c, 1, Len(c) - 1)
Children(c) == [k \in 1..Fanout |-> Append(c, k - 1)]

ASSUME PrunedTreeAssumption ==
  /\ IsFiniteSet(Faces) /\ Faces = 0..(Cardinality(Faces) - 1) /\ Faces # {}
  /\ Fanout \in Nat \ {0} /\ Depth \in Nat \ {0}
  /\ Threshold \in Nat \ {0} /\ PopulationLimit \in Nat
  /\ Aggregates \subseteq [CellsAt(Depth) -> 0..PopulationLimit]

VARIABLES
  aggregate,    \* level_12_populations
  phase,        \* "propagate", "extract", "done", "overflow" or "empty"
  populations,  \* cell_populations
  level,        \* the level being filled
  current,      \* current_level_cells not yet added to their parents
  parents,      \* parent_level_cells
  face,         \* the root face being walked
  todo,         \* calls of find_leaves still to make, next one first
  begun,        \* leaves_before: how many leaves earlier faces had
  leaves

treeVars == <<aggregate, phase, populations, level, current, parents, face, todo,
              begun, leaves>>

TreeInit ==
  /\ aggregate \in Aggregates
  /\ phase = "propagate"
  /\ populations = [c \in AllCells |-> IF Level(c) = Depth THEN aggregate[c] ELSE 0]
  /\ level = Depth - 1
  /\ current = {c \in CellsAt(Depth) : aggregate[c] # 0}
  /\ parents = {}
  /\ face = 0 /\ todo = <<>> /\ begun = 0 /\ leaves = <<>>

-----------------------------------------------------------------------------
(* Step 2: upward propagation *)

Sum(c) == populations[Parent(c)] + populations[c]

SumFits(sum) == sum <= PopulationLimit

PropagateCell(c) ==
  /\ phase = "propagate"
  /\ \/ /\ SumFits(Sum(c))
        /\ populations' = [populations EXCEPT ![Parent(c)] = Sum(c)]
        /\ current' = current \ {c}
        /\ parents' = parents \union {Parent(c)}
        /\ phase' = phase
     \/ /\ ~SumFits(Sum(c))
        /\ phase' = "overflow"
        /\ UNCHANGED <<populations, current, parents>>
  /\ UNCHANGED <<aggregate, level, face, todo, begun, leaves>>

FinishLevel ==
  /\ phase = "propagate" /\ current = {}
  /\ current' = parents /\ parents' = {}
  /\ IF level = 0
     THEN phase' = "extract" /\ todo' = << <<0>> >> /\ level' = level
     ELSE level' = level - 1 /\ UNCHANGED <<phase, todo>>
  /\ UNCHANGED <<aggregate, populations, face, begun, leaves>>

-----------------------------------------------------------------------------
(* Step 3: find_leaves for every face *)

\* Mutant: a cell with exactly the threshold is left out.
OverThreshold(c) == populations[c] > Threshold

Populated(c) == populations[c] >= Threshold

FindLeaves ==
  /\ phase = "extract" /\ todo # <<>>
  /\ LET c == Head(todo)
         inTree == Level(c) < Depth /\ \E k \in 1..Fanout : Populated(Children(c)[k])
     IN  \/ /\ ~Populated(c)
            /\ todo' = Tail(todo) /\ leaves' = leaves
         \/ /\ Populated(c) /\ ~inTree
            /\ todo' = Tail(todo) /\ leaves' = Append(leaves, c)
         \/ /\ Populated(c) /\ inTree
            /\ todo' = Children(c) \o Tail(todo) /\ leaves' = leaves
  /\ UNCHANGED <<aggregate, phase, populations, level, current, parents, face, begun>>

\* Mutant: the leaves of earlier faces are counted too.
NoLeafAtAll == leaves = <<>>

FaceIsEmpty == Len(leaves) = begun

\* leaves.sort(): identifiers of leaves are in the order of traversal.
InOrder(s) ==
  LET place == CHOOSE p \in [DOMAIN s -> DOMAIN s] :
                 \A i, j \in DOMAIN s : i < j => Precedes(s[p[i]], s[p[j]])
  IN  [i \in DOMAIN s |-> s[place[i]]]

\* A face that added no leaf ends the build; after the last one they are sorted.
FinishFace ==
  /\ phase = "extract" /\ todo = <<>>
  /\ \/ /\ FaceIsEmpty
        /\ phase' = "empty" /\ UNCHANGED <<face, todo, begun, leaves>>
     \/ /\ ~FaceIsEmpty /\ face + 1 \in Faces
        /\ face' = face + 1 /\ todo' = << <<face + 1>> >>
        /\ begun' = Len(leaves) /\ UNCHANGED <<phase, leaves>>
     \/ /\ ~FaceIsEmpty /\ face + 1 \notin Faces
        /\ phase' = "done" /\ leaves' = InOrder(leaves)
        /\ UNCHANGED <<face, todo, begun>>
  /\ UNCHANGED <<aggregate, populations, level, current, parents>>

TreeNext == (\E c \in current : PropagateCell(c)) \/ FinishLevel \/ FindLeaves \/ FinishFace

TreeSpec == TreeInit /\ [][TreeNext]_treeVars

-----------------------------------------------------------------------------
(* Properties *)

Below(c) == {b \in CellsAt(Depth) : IsAncestor(c, b)}

\* What the level-Depth cells below a cell hold.
TrueTotal(c) == SetSum(aggregate, Below(c))

\* The build stops with an overflow only when a face really does not fit, and
\* with an empty face only when that face is below the threshold; it succeeds
\* exactly otherwise.
StopsForCause ==
  LET fits == \A f \in Faces : TrueTotal(<<f>>) <= PopulationLimit
      full == \A f \in Faces : TrueTotal(<<f>>) >= Threshold
  IN  /\ phase = "overflow" => ~fits
      /\ phase = "empty" => fits /\ ~full
      /\ phase = "done" => fits /\ full

\* The leaves are what the encoder accepts: in strictly increasing order, without
\* overlap, with every face represented.
LeavesEncodable ==
  phase = "done" =>
    /\ IsLeafSet({leaves[k] : k \in DOMAIN leaves}, Faces, Depth)
    /\ Listing({leaves[k] : k \in DOMAIN leaves}, leaves)

Asked == AllCells \union {Append(c, k) : c \in CellsAt(Depth), k \in Positions}

\* POPULATION_THRESHOLD is the minimum population of a returned cell: the deepest
\* ancestor in the tree, which a query of the database returns for any cell, holds
\* at least that many people, and no finer cell around the asked one does.
AnswersHoldThreshold ==
  phase = "done" =>
    \A c \in Asked :
      LET found == DeepestAncestor({leaves[k] : k \in DOMAIN leaves}, c)
      IN  /\ TrueTotal(found) >= Threshold
          /\ \A k \in 1..Len(c) : k \in (Len(found) + 1)..(Depth + 1) =>
               TrueTotal(SubSeq(c, 1, k)) < Threshold
=============================================================================
