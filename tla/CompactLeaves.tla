--------------------------- MODULE CompactLeaves ----------------------------
(***************************************************************************)
(* The life of compact leaf identifiers: validate_compact_leaves reads     *)
(* them one by one (cli/src/topology_database.rs), the topology keeps the  *)
(* compact ancestors and child positions of the leaves, and queries with   *)
(* 64-bit identifiers descend through it (core/src/topology.rs), asked by  *)
(* a caller, by the benchmark or by the verifier, who compares the answer  *)
(* with that of the leaf vector.                                           *)
(*                                                                         *)
(* TopologyEncoder and TopologyLookup model the same steps on paths; here  *)
(* a cell is a number, and a node of the topology, which the file counts   *)
(* by an index, is the compact identifier of its cell.                     *)
(***************************************************************************)
EXTENDS S2Cell

CONSTANTS
  MaxLeaves,     \* bound on the leaves of a list
  Queries,       \* identifiers a caller asks for, valid or not
  RandomValues   \* draws of the benchmark's generator

\* Identifiers are unsigned 64-bit numbers, and so are random values.
ASSUME QueryAssumption == Queries \subseteq Ids /\ RandomValues \subseteq Nat

VARIABLES
  leaves,   \* the compact leaves read so far
  status,   \* what happens next, or how the list or the query ended
  query,    \* cell_id of the query
  origin,   \* the leaf whose descendant is asked for, or zero
  depth,    \* level_index of the query loop
  node,     \* the compact identifier of the visited node
  answer

vars == <<leaves, status, query, origin, depth, node, answer>>

Init ==
  /\ leaves = <<>> /\ status = "reading"
  /\ query = 0 /\ origin = 0 /\ depth = 0 /\ node = 0 /\ answer = 0

\* One iteration of validate_compact_leaves accepts the next leaf.
LeafAccepted(compact) ==
  LET id == Expanded(compact)
      last == leaves[Len(leaves)]
  IN  /\ compact <= MaxCompactCellId
      /\ leaves # <<>> => compact > last
      /\ ValidId(id) /\ Level(id) <= MaxDatabaseLevel
      /\ leaves # <<>> => RangeStart(id) > RangeEnd(Expanded(last))

ReadLeaf ==
  /\ status = "reading" /\ Len(leaves) < MaxLeaves
  /\ \E compact \in 0..(MaxCompactCellId + 1) :
       /\ leaves' = Append(leaves, compact)
       /\ status' = IF LeafAccepted(compact) THEN "reading" ELSE "leaf refused"
  /\ UNCHANGED <<query, origin, depth, node, answer>>

\* The list ends: there must be leaves, on every face.  Topology::new then
\* needs nodes at every level.
EndLeaves ==
  /\ status = "reading"
  /\ status' = IF {Face(Expanded(leaves[i])) : i \in DOMAIN leaves} # 0..(NumRootFaces - 1)
               THEN "faces refused"
               ELSE IF \A i \in DOMAIN leaves : Level(Expanded(leaves[i])) < MaxDatabaseLevel
               THEN "level refused"
               ELSE "ready"
  /\ UNCHANGED <<leaves, query, origin, depth, node, answer>>

\* Topology::new: the child positions below a node.
MaskOf(compact, l) ==
  {ChildIndex(Expanded(CompactAncestor(leaves[i], l + 1)), l) :
     i \in {j \in DOMAIN leaves : /\ Level(Expanded(leaves[j])) > l
                                  /\ CompactAncestor(leaves[j], l) = compact}}

TargetLevel(id) == Smaller(Level(id), MaxDatabaseLevel)

\* TopologyQueryEngine::query up to its loop.  Face cells are answered at once.
Begin(id, leaf) ==
  /\ status = "ready"
  /\ query' = id /\ origin' = leaf
  /\ depth' = 0
  /\ IF ~ValidId(id)
     THEN status' = "query refused" /\ UNCHANGED <<node, answer>>
     ELSE /\ node' = Compact(Ancestor(id, 0))
          /\ IF TargetLevel(id) = 0
             THEN status' = "answered" /\ answer' = Ancestor(id, 0)
             ELSE status' = "descending" /\ answer' = answer
  /\ UNCHANGED leaves

Ask == \E id \in Queries : Begin(id, 0)

\* create_stored_cell_descendant_queries
AskDescendant ==
  \E i \in DOMAIN leaves, random \in RandomValues :
    Begin(DeepestDescendant(Expanded(leaves[i]), random), leaves[i])

\* create_global_level_30_queries
AskGlobal ==
  \E index \in 0..(NumRootFaces - 1), random \in RandomValues :
    Begin(GlobalQuery(index, random), 0)

Descending(child) ==
  status = "descending" /\ child = ChildIndex(query, depth)

Answer(l) ==
  /\ status' = "answered" /\ answer' = Ancestor(query, l)
  /\ UNCHANGED <<leaves, query, origin, depth, node>>

\* The loop of query leaves at a missing child or at the target level.
Miss ==
  \E child \in 0..3 :
    Descending(child) /\ child \notin MaskOf(node, depth) /\ Answer(depth)

Arrive ==
  \E child \in 0..3 :
    /\ Descending(child) /\ child \in MaskOf(node, depth)
    /\ depth + 1 = TargetLevel(query)
    /\ Answer(depth + 1)

Descend ==
  \E child \in 0..3 :
    /\ Descending(child) /\ child \in MaskOf(node, depth)
    /\ depth + 1 < TargetLevel(query)
    /\ node' = Compact(ChildId(Expanded(node), depth, child))
    /\ depth' = depth + 1
    /\ UNCHANGED <<leaves, status, query, origin, answer>>

Next ==
  \/ ReadLeaf \/ EndLeaves
  \/ Ask \/ AskDescendant \/ AskGlobal
  \/ Miss \/ Arrive \/ Descend

Spec == Init /\ [][Next]_vars

-----------------------------------------------------------------------------
(* Properties *)

\* The cells of a list that holds identifiers of cells.
CellsOf(list) == [i \in DOMAIN list |-> PathOf[Expanded(list[i])]]

\* A list names cells of database levels in S2 order, none below another.
Disjoint(list) ==
  /\ \A i \in DOMAIN list : Expanded(list[i]) \in CellIds
  /\ LET cells == CellsOf(list)
     IN  /\ \A i \in DOMAIN list : Len(cells[i]) <= MaxDatabaseLevel + 1
         /\ \A i, j \in DOMAIN list : i < j => Precedes(cells[i], cells[j])

\* The comparisons of validate_compact_leaves, which looks at neighbours and
\* at ranges only, refuse a leaf exactly if it is no cell of a database level,
\* or out of order, or below or above any leaf before it; and a list exactly if
\* a face has no leaf.
LeavesValidatedExactly ==
  /\ status = "reading" => Disjoint(leaves)
  /\ status = "leaf refused" => ~Disjoint(leaves)
  /\ status \in {"ready", "level refused"} =>
       /\ Disjoint(leaves)
       /\ {CellsOf(leaves)[i][1] : i \in DOMAIN leaves} = 0..(NumRootFaces - 1)
  /\ status = "faces refused" =>
       {CellsOf(leaves)[i][1] : i \in DOMAIN leaves} # 0..(NumRootFaces - 1)

LeafCells == {CellsOf(leaves)[i] : i \in DOMAIN leaves}

\* The deepest ancestor of the query that is above or at a leaf.
ExactAnswer ==
  LET path == PathOf[query]
      target == SubSeq(path, 1, Smaller(Len(path), MaxDatabaseLevel + 1))
  IN  IdOf(DeepestAncestor(LeafCells, target))

\* query refuses exactly the identifiers of no cell, and the answer it finds by
\* shifting and masking is the deepest ancestor in the tree of the leaves.  A
\* benchmark query, derived from a stored cell, is never refused and gets that
\* cell as its answer.
AnswersExact ==
  /\ status = "query refused" => query \notin CellIds /\ origin = 0
  /\ status = "answered" =>
       /\ query \in CellIds /\ answer = ExactAnswer
       /\ origin # 0 => answer = Expanded(origin)

\* LeafVectorOracle: face_offsets[f] leaves come before face f.
FaceOffset(f) == Cardinality({i \in DOMAIN leaves : Face(Expanded(leaves[i])) < f})
FaceLeaves(f) ==
  SubSeq([i \in DOMAIN leaves |-> Expanded(leaves[i])], FaceOffset(f) + 1, FaceOffset(f + 1))

\* The verifier's oracle, which looks at two leaves and at the highest bit in
\* which they differ from the query, finds the same answer at database levels.
OracleAnswersExact ==
  status = "answered" /\ Level(query) <= MaxDatabaseLevel =>
    ReferenceAnswer(query, FaceLeaves(Face(query))) = ExactAnswer
=============================================================================
