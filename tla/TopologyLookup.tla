--------------------------- MODULE TopologyLookup ---------------------------
(***************************************************************************)
(* What a constructed TopologyQueryEngine answers (core/src/topology.rs):  *)
(* query walks from a root face towards a cell, reconstruct_all_leaves     *)
(* walks the whole tree, and both read one node at a time with             *)
(* mask_and_rank.  That function never decodes a level from its start: it  *)
(* takes the nearest index checkpoint, adds the packed fields of the       *)
(* blocks in between, and decodes the rest of one block.  Its loops are    *)
(* actions here, because whether they land on the right node is the        *)
(* question.                                                               *)
(*                                                                         *)
(* An engine made by from_verified_mmap may be asked only about bytes that *)
(* passed full validation before: that is the contract the constructor     *)
(* states, so a lookup needs accepted.                                     *)
(***************************************************************************)
EXTENDS TopologyValidation, Sequences

CONSTANTS QueryCells  \* the cells queries ask for: <<face, child, ...>>

ASSUME QueryAssumption ==
  \A c \in QueryCells :
    /\ c \in Seq(Nat) /\ Len(c) >= 1
    /\ c[1] \in 0..(RootFaceCount - 1)
    /\ \A k \in 2..Len(c) : c[k] \in ChildPositions

VARIABLES
  task,    \* the public call: "idle", "query", "reconstruct", or how it
           \* returned: "answered", "listed", "failed"
  step,    \* where mask_and_rank is: "idle", "enter", "blocks", "masks", "return"
  call,    \* its arguments: [level, node, rank]; rank is calculate_rank
  at,      \* the next block or node its loop reads
  offset,  \* bit_offset
  current, \* the mask it has read last
  before,  \* child_rank
  cell,    \* the cell being queried
  answer,  \* the level of the ancestor the last query returned
  todo,    \* nodes reconstruct_node still has to visit, next one first
  leaves,  \* the leaves reconstructed so far
  tree     \* history: the leaves of the tree an accepted file holds, while open

lookup == <<step, call, at, offset, current, before>>
lvars == <<task, lookup, cell, answer, todo, leaves>>
allVars == <<vars, lvars, tree>>

NoAnswer == -1
Level(c) == Len(c) - 1
CellPrefix(c, l) == SubSeq(c, 1, l + 1)

Target(c) == IF Level(c) < LevelCount THEN Level(c) ELSE LevelCount

NoCall == [level |-> 0, node |-> 0, rank |-> FALSE]

LookupInit ==
  /\ Init
  /\ task = "idle" /\ step = "idle" /\ call = NoCall
  /\ at = 0 /\ offset = 0 /\ current = {} /\ before = 0
  /\ cell = <<0>> /\ answer = NoAnswer
  /\ todo = <<>> /\ leaves = <<>>
  /\ tree = {}

-----------------------------------------------------------------------------
(* mask_and_rank *)

Call(l, n, rank) ==
  /\ step' = "enter"
  /\ call' = [level |-> l, node |-> n, rank |-> rank]
  /\ UNCHANGED <<at, offset, current, before>>

Raw == call.level < RawLevelCount
TargetBlock == BlockOf(call.node)
Counted(n) == IF call.rank THEN n ELSE 0

EnterRaw ==
  /\ step = "enter" /\ Raw
  /\ step' = "masks"
  /\ at' = IF call.rank THEN CheckpointStartOf(CheckpointOf(call.node))
                        ELSE call.node
  /\ before' = Counted(db.rawRanks[call.level][CheckpointOf(call.node)])
  /\ UNCHANGED <<call, offset, current>>

AddRawMask ==
  /\ step = "masks" /\ Raw /\ at < call.node
  /\ before' = before + CountOnes(db.masks[call.level][at])
  /\ at' = at + 1
  /\ UNCHANGED <<step, call, offset, current>>

ReturnRaw ==
  /\ step = "masks" /\ Raw /\ at = call.node
  /\ current' = db.masks[call.level][at]
  /\ step' = "return"
  /\ UNCHANGED <<call, at, offset, before>>

EnterHuffman ==
  /\ step = "enter" /\ ~Raw
  /\ LET group == GroupOf(TargetBlock)
     IN  /\ at' = GroupStartOf(group)
         /\ offset' = db.groupOffsets[call.level][group]
         /\ before' = IF call.rank THEN db.groupRanks[call.level][group] ELSE 0
  /\ step' = "blocks"
  /\ UNCHANGED <<call, current>>

SkipBlock ==
  /\ step = "blocks" /\ at < TargetBlock
  /\ offset' = offset + db.blockBits[call.level][at]
  /\ before' = IF call.rank THEN before + db.blockChildren[call.level][at]
                            ELSE before
  /\ at' = at + 1
  /\ UNCHANGED <<step, call, current>>

ReadFirstMask ==
  /\ step = "blocks" /\ at = TargetBlock
  /\ current' = PayloadMask(db.payload, offset)
  /\ offset' = offset + Fanout
  /\ at' = BlockStartOf(TargetBlock)
  /\ step' = "masks"
  /\ UNCHANGED <<call, before>>

\* decode_symbol: n bits hold the mask m that follows the current one.
Following(n, m) ==
  Decodes(db.models[call.level][current], db.payload, offset, db.payloadBits,
          n, m)

\* Mutant: the rank counts the mask just decoded instead of the one before it.
DecodeNextCountingIt ==
  /\ step = "masks" /\ ~Raw /\ at < call.node
  /\ \E n \in CodeLengths, m \in Masks :
       /\ Following(n, m) /\ current' = m /\ offset' = offset + n
       /\ before' = before + Counted(CountOnes(m))
  /\ at' = at + 1
  /\ UNCHANGED <<step, call>>

DecodeNext ==
  /\ step = "masks" /\ ~Raw /\ at < call.node
  /\ \E n \in CodeLengths, m \in Masks :
       Following(n, m) /\ current' = m /\ offset' = offset + n
  /\ before' = before + Counted(CountOnes(current))
  /\ at' = at + 1
  /\ UNCHANGED <<step, call>>

ReturnHuffman ==
  /\ step = "masks" /\ ~Raw /\ at = call.node
  /\ step' = "return"
  /\ UNCHANGED <<call, at, offset, current, before>>

MaskAndRank ==
  /\ \/ EnterRaw \/ AddRawMask \/ ReturnRaw
     \/ EnterHuffman \/ SkipBlock \/ ReadFirstMask \/ DecodeNext \/ ReturnHuffman
  /\ UNCHANGED <<task, cell, answer, todo, leaves>>

\* Mutant: the child itself is counted among the children before it.
InclusiveChildNode(child) ==
  before + CountOnes(ChildrenBefore(current, child)) + 1

\* The index of a child below the node just read.
ChildNode(child) == before + CountOnes(ChildrenBefore(current, child))

-----------------------------------------------------------------------------
(* query *)

\* No ranks are needed at the last level a query visits.
Visit(l, n) == Call(l, n, l + 1 # Target(cell'))

StartQuery(c) ==
  /\ task = "idle"
  /\ cell' = c
  /\ IF Target(c) = 0
     THEN answer' = 0 /\ task' = "answered" /\ UNCHANGED lookup
     ELSE answer' = answer /\ task' = "query" /\ Visit(0, c[1])
  /\ UNCHANGED <<todo, leaves>>

Answer(l) ==
  /\ answer' = l /\ task' = "answered" /\ step' = "idle"
  /\ UNCHANGED <<call, at, offset, current, before, cell>>

ContinueQuery ==
  /\ task = "query" /\ step = "return"
  /\ LET l == call.level
         child == cell[l + 2]
     IN  \/ child \notin current /\ Answer(l)
         \/ child \in current /\ l + 1 = Target(cell) /\ Answer(l + 1)
         \/ /\ child \in current /\ l + 1 # Target(cell)
            /\ cell' = cell /\ Visit(l + 1, ChildNode(child))
            /\ UNCHANGED <<task, answer>>
  /\ UNCHANGED <<todo, leaves>>

-----------------------------------------------------------------------------
(* reconstruct_all_leaves.  The recursion of reconstruct_node visits the     *)
(* children of a node in order, so its stack is the queue todo.              *)

Roots == [f \in 1..RootFaceCount |->
            [level |-> 0, node |-> f - 1, cell |-> <<f - 1>>]]

StartReconstruct ==
  /\ task = "idle"
  /\ task' = "reconstruct"
  /\ todo' = Roots
  /\ UNCHANGED <<lookup, cell, answer, leaves>>

VisitNode ==
  /\ task = "reconstruct" /\ step = "idle" /\ todo # <<>>
  /\ Call(Head(todo).level, Head(todo).node, ~FinalLevel(Head(todo).level))
  /\ UNCHANGED <<task, cell, answer, todo, leaves>>

\* The children of the node just read, in child order.
ChildrenInOrder ==
  LET kids == [i \in 1..CountOnes(current) |->
                 CHOOSE p \in current : CountOnes(ChildrenBefore(current, p)) = i - 1]
  IN  [i \in DOMAIN kids |->
         [level |-> call.level + 1, node |-> ChildNode(kids[i]),
          cell |-> Append(Head(todo).cell, kids[i])]]

\* Mutant: the children wait behind the nodes that were there first.
BreadthFirst(kids) == Tail(todo) \o kids

DepthFirst(kids) == kids \o Tail(todo)

ExpandNode ==
  /\ task = "reconstruct" /\ step = "return"
  /\ LET kids == ChildrenInOrder
     IN  \/ /\ current = {}
            /\ leaves' = Append(leaves, Head(todo).cell)
            /\ todo' = Tail(todo)
         \/ /\ current # {} /\ ~FinalLevel(call.level)
            /\ todo' = DepthFirst(kids)
            /\ UNCHANGED leaves
         \/ /\ current # {} /\ FinalLevel(call.level)
            /\ leaves' = leaves \o [i \in DOMAIN kids |-> kids[i].cell]
            /\ todo' = Tail(todo)
  /\ step' = "idle"
  /\ UNCHANGED <<task, call, at, offset, current, before, cell, answer>>

\* Mutant: the leaves are counted against the deepest level's alone.
EndReconstructTerminal ==
  /\ task = "reconstruct" /\ step = "idle" /\ todo = <<>>
  /\ task' = IF Len(leaves) = db.terminal THEN "listed" ELSE "failed"
  /\ UNCHANGED <<lookup, cell, answer, todo, leaves>>

\* leaves.len() is compared with leaf_count before the vector is returned.
EndReconstruct ==
  /\ task = "reconstruct" /\ step = "idle" /\ todo = <<>>
  /\ task' = IF Len(leaves) = db.leaves THEN "listed" ELSE "failed"
  /\ UNCHANGED <<lookup, cell, answer, todo, leaves>>

-----------------------------------------------------------------------------
(* The caller takes the result, and the locals of the call are gone. *)

Return ==
  /\ task \in {"answered", "listed", "failed"}
  /\ task' = "idle" /\ step' = "idle" /\ call' = NoCall
  /\ at' = 0 /\ offset' = 0 /\ current' = {} /\ before' = 0
  /\ cell' = <<0>> /\ answer' = NoAnswer
  /\ todo' = <<>> /\ leaves' = <<>>

Work ==
  MaskAndRank \/ ContinueQuery \/ VisitNode \/ ExpandNode \/ EndReconstruct

Request == (\E c \in QueryCells : StartQuery(c)) \/ StartReconstruct

-----------------------------------------------------------------------------
(* The tree the masks describe *)

\* The node of level l that announces node j of the level below, and the
\* position it announces it at.
ParentOf(l, j) ==
  CHOOSE i \in 0..(Nodes(l) - 1) :
    scannedRank[l][i] <= j /\ j < scannedRank[l][i + 1]

PositionOf(l, j) ==
  CHOOSE p \in scannedMask[l][ParentOf(l, j)] :
    scannedRank[l][ParentOf(l, j)]
      + CountOnes(ChildrenBefore(scannedMask[l][ParentOf(l, j)], p)) = j

\* The cells of the level below level l, whose cells are given: a child of a node
\* that no mask announces has none.
CellsBelow(l, cells) ==
  [j \in {k \in 0..(scannedRank[l][Nodes(l)] - 1) : ParentOf(l, k) \in DOMAIN cells} |->
     Append(cells[ParentOf(l, j)], PositionOf(l, j))]

\* The cell of every node: level-l nodes are the children of level l - 1 in order.
NodeCells ==
  LET cells[l \in 0..LevelCount] ==
        IF l = 0 THEN [f \in 0..(RootFaceCount - 1) |-> <<f>>]
                 ELSE CellsBelow(l - 1, cells[l - 1])
  IN  cells

LeavesOf(cells) ==
  (UNION {{cells[l][i] : i \in {j \in DOMAIN cells[l] : scannedMask[l][j] = {}}} :
            l \in Levels})
    \union {cells[LevelCount][i] : i \in DOMAIN cells[LevelCount]}

TreeLeaves == LeavesOf(NodeCells)

Construction ==
  /\ task = "idle"
  /\ Next
  /\ tree' = IF pc' = "ready" /\ accepted' THEN TreeLeaves' ELSE {}
  /\ UNCHANGED lvars

Lookup ==
  /\ pc = "ready" /\ accepted
  /\ Request \/ Work \/ Return
  /\ UNCHANGED <<vars, tree>>

LookupNext == Construction \/ Lookup

LookupSpec == LookupInit /\ [][LookupNext]_allVars

\* A call runs to its end on the thread that made it.
LookupFairSpec ==
  LookupSpec /\ WF_allVars(Lookup /\ Work)

-----------------------------------------------------------------------------
(* The abstract index that the open file stands for *)

\* A failed reconstruction returns no leaves.
Reply ==
  CASE task = "answered" -> [kind |-> "ancestor", of |-> cell,
                             is |-> CellPrefix(cell, answer)]
    [] task = "listed" -> [kind |-> "leaves", list |-> leaves]
    [] task = "failed" -> [kind |-> "leaves", list |-> <<>>]
    [] OTHER -> [kind |-> "none"]

Index ==
  INSTANCE DensityIndex WITH
    Asked <- QueryCells,
    Faces <- 0..(RootFaceCount - 1),
    Depth <- LevelCount,
    index <- tree,
    reply <- Reply

-----------------------------------------------------------------------------
(* Properties *)

\* mask_and_rank, entered at any checkpoint of an accepted file, returns what a
\* decoder that starts at the level's first node would have: the mask of the
\* node and, when asked for it, the number of children of all earlier nodes.
MaskAndRankExact ==
  step = "return" =>
    /\ current = scannedMask[call.level][call.node]
    /\ call.rank => before = scannedRank[call.level][call.node]

\* The bound mask_and_rank asserts in debug builds only (topology.rs:945), and
\* release builds rely on: no caller asks for a node past the end of its level.
NodeInBounds ==
  step # "idle" => call.node < Nodes(call.level)

\* Every query and every reconstruction comes back, and a reconstruction with as
\* many leaves as the header announces; the decoder never runs out of codes,
\* which the code declares unreachable.
CallsReturn ==
  task \in {"query", "reconstruct"} ~> task \in {"answered", "listed"}

\* Queries return the deepest ancestor in the tree the masks describe, and a
\* reconstruction lists that tree's leaves in traversal order.
ImplementsIndex == Index!Spec
=============================================================================
