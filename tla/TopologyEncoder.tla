-------------------------- MODULE TopologyEncoder ---------------------------
(***************************************************************************)
(* encode_topology_database of cli/src/topology_database.rs: from the      *)
(* sorted compact leaves of the density map to the database the engine of  *)
(* TopologyValidation maps.                                                *)
(*                                                                         *)
(* A cell is the sequence <<face, child, child, ...>> of its path, so its  *)
(* level is its length minus one and an ancestor is a prefix.  Its compact *)
(* identifier, which orders leaves and gives each one its range of         *)
(* level-LevelCount descendants, is the S2 numbering: an odd multiple of   *)
(* Fanout^(levels below the cell).                                      *)
(***************************************************************************)
EXTENDS HuffmanModel

CellLevel(c) == Len(c) - 1
CellAncestor(c, l) == SubSeq(c, 1, l + 1)
ChildPosition(c, l) == c[l + 2]

PathValue(c) ==
  LET value[k \in 0..Len(c)] ==
        IF k = 0 THEN 0 ELSE value[k - 1] * Fanout + c[k]
  IN  value[Len(c)]
LowestBit(c) == Fanout ^ (LevelCount - CellLevel(c))
CellId(c) == LowestBit(c) * (2 * PathValue(c) + 1)
RangeStart(c) == CellId(c) - (LowestBit(c) - 1)
RangeEnd(c) == CellId(c) + (LowestBit(c) - 1)

\* validate_compact_leaves
ValidLeaves(L) ==
  /\ L # <<>>
  /\ \A i \in DOMAIN L : CellLevel(L[i]) <= LevelCount
  /\ \A i \in 2..Len(L) :
       /\ CellId(L[i]) > CellId(L[i - 1])
       /\ RangeStart(L[i]) > RangeEnd(L[i - 1])
  /\ {L[i][1] : i \in DOMAIN L} = 0..(RootFaceCount - 1)

-----------------------------------------------------------------------------
(* Topology::new: the nodes of every level in cell order, and their masks *)

\* Leaves are sorted, so skipping repeated ancestors leaves them sorted too.
LevelNodes(L, l) ==
  SortedBy({CellAncestor(L[i], l) :
              i \in {j \in DOMAIN L : CellLevel(L[j]) >= l}},
           LAMBDA a, b : CellId(a) < CellId(b))

\* Numbered from 0, as the code and the file number nodes.
LevelMasks(L, l) ==
  LET nodes == LevelNodes(L, l)
      below == LevelNodes(L, l + 1)
  IN  Table([i \in 0..(Len(nodes) - 1) |->
               {ChildPosition(below[j], l) :
                  j \in {k \in DOMAIN below :
                           CellAncestor(below[k], l) = nodes[i + 1]}}])

\* The children of the first i nodes of a level.
ChildRank(masks, i) ==
  PrefixSum([j \in DOMAIN masks |-> CountOnes(masks[j])], i)

-----------------------------------------------------------------------------
(* EncodedHuffmanLevel::new *)

BlockIndexes(nodes) == 0..(CeilDiv(nodes, RestartInterval) - 1)
GroupIndexes(nodes) ==
  0..(CeilDiv(CeilDiv(nodes, RestartInterval), BlocksPerGroup) - 1)

\* Pairs of neighbouring masks inside a block, by index of the second one.
Transitions(nodes) == {i \in 1..(nodes - 1) : i % RestartInterval # 0}

TransitionCounts(masks, nodes, context) ==
  Table([s \in Masks |-> Cardinality({i \in Transitions(nodes) :
                                        masks[i - 1] = context /\ masks[i] = s})])

\* The models of a level: a table and the codewords for each context.
LevelModels(masks, nodes) ==
  Table([c \in Masks |->
    [table |-> SerializedModel(TransitionCounts(masks, nodes, c)),
     words |-> Codewords(TransitionCounts(masks, nodes, c))]])

\* A block begins with a mask as it is; the others are coded after the one before.
BlockBits(masks, nodes, models, b) ==
  WordOf(SymbolValue(masks[BlockStartOf(b)]), Fanout)
    \o FlattenSeq([k \in 1..(BlockEndOf(b, nodes) - BlockStartOf(b) - 1) |->
                     models[masks[BlockStartOf(b) + k - 1]].words
                       [masks[BlockStartOf(b) + k]]])

LevelBits(masks, nodes, models) ==
  Table([b \in BlockIndexes(nodes) |-> BlockBits(masks, nodes, models, b)])

BlockKids(masks, nodes) ==
  Table([b \in BlockIndexes(nodes) |->
           ChildRank(masks, BlockEndOf(b, nodes)) - ChildRank(masks, BlockStartOf(b))])

Widest(f) == RequiredWidth(Max({f[b] : b \in DOMAIN f}))

\* Group offsets are relative to where the level's payload begins.
IndexedLevel(masks, nodes, final, models, bits, lengths, kids) ==
  [models       |-> Table([c \in Masks |-> models[c].table]),
   payload      |-> FlattenSeq([b \in 1..Cardinality(BlockIndexes(nodes)) |->
                                  bits[b - 1]]),
   groupOffsets |-> Table([g \in GroupIndexes(nodes) |->
                             PrefixSum(lengths, GroupStartOf(g))]),
   groupRanks   |-> IF final THEN <<>>
                    ELSE Table([g \in GroupIndexes(nodes) |->
                                  ChildRank(masks, BlockStartOf(GroupStartOf(g)))]),
   blockBits    |-> lengths,
   blockChildren |-> IF final THEN <<>> ELSE kids,
   lengthWidth  |-> Widest(lengths),
   childWidth   |-> IF final THEN 0 ELSE Widest(kids)]

CodedLevel(masks, nodes, final, models, bits) ==
  IndexedLevel(masks, nodes, final, models, bits,
               Table([b \in DOMAIN bits |-> Len(bits[b])]), BlockKids(masks, nodes))

ModelledLevel(masks, nodes, final, models) ==
  CodedLevel(masks, nodes, final, models, LevelBits(masks, nodes, models))

HuffmanLevel(masks, nodes, final) ==
  ModelledLevel(masks, nodes, final, LevelModels(masks, nodes))

-----------------------------------------------------------------------------
(* encode_topology_database *)

RawBytes(nodes) == CeilDiv(nodes, 2)

RawEntry(nodes, l) ==
  [encoding |-> "raw", nodes |-> nodes[l],
   start |-> PrefixSum([k \in RawLevels |-> RawBytes(nodes[k])], l),
   length |-> RawBytes(nodes[l]),
   lengthWidth |-> 0, childWidth |-> 0, flags |-> {"childRanks"}]

\* The payloads of the levels follow each other.
PayloadBase(huffman, l) ==
  PrefixSum([k \in 0..(l - RawLevelCount) |->
               Len(huffman[RawLevelCount + k].payload)], l - RawLevelCount)

HuffmanEntry(nodes, huffman, l) ==
  [encoding |-> "huffman", nodes |-> nodes[l],
   start |-> PayloadBase(huffman, l), length |-> Len(huffman[l].payload),
   lengthWidth |-> huffman[l].lengthWidth,
   childWidth |-> huffman[l].childWidth,
   flags |-> IF FinalLevel(l) THEN {} ELSE {"childRanks"}]

Checkpoints(masks, nodes) ==
  Table([k \in 0..(CeilDiv(nodes, RawRankInterval) - 1) |->
           ChildRank(masks, CheckpointStartOf(k))])

Assembled(leafCount, masks, nodes, huffman, payload) ==
  [header        |-> TRUE,
   layout        |-> TRUE,
   payloadBits   |-> Len(payload),
   leaves        |-> leafCount,
   terminal      |-> nodes[LevelCount],
   padding       |-> {},
   entry         |-> Table([l \in Levels |-> IF l \in RawLevels THEN RawEntry(nodes, l)
                                             ELSE HuffmanEntry(nodes, huffman, l)]),
   masks         |-> Table([l \in RawLevels |-> masks[l]]),
   rawRanks      |-> Table([l \in RawLevels |-> Checkpoints(masks[l], nodes[l])]),
   models        |-> Table([l \in HuffmanLevels |-> huffman[l].models]),
   groupOffsets  |-> Table([l \in HuffmanLevels |->
                       Table([g \in DOMAIN huffman[l].groupOffsets |->
                         PayloadBase(huffman, l) + huffman[l].groupOffsets[g]])]),
   groupRanks    |-> Table([l \in HuffmanLevels |-> huffman[l].groupRanks]),
   blockBits     |-> Table([l \in HuffmanLevels |-> huffman[l].blockBits]),
   blockChildren |-> Table([l \in HuffmanLevels |-> huffman[l].blockChildren]),
   payload       |-> Table([k \in 0..(Len(payload) - 1) |-> payload[k + 1]])]

WithPayloadOf(leafCount, masks, nodes, huffman) ==
  Assembled(leafCount, masks, nodes, huffman,
            FlattenSeq([k \in 1..(LevelCount - RawLevelCount) |->
                          huffman[RawLevelCount + k - 1].payload]))

EncodeLevels(leafCount, masks, nodes) ==
  WithPayloadOf(leafCount, masks, nodes,
                Table([l \in HuffmanLevels |->
                         HuffmanLevel(masks[l], nodes[l], FinalLevel(l))]))

Encode(L) ==
  EncodeLevels(Len(L),
               Table([l \in Levels |-> LevelMasks(L, l)]),
               Table([l \in 0..LevelCount |-> Len(LevelNodes(L, l))]))

\* When the encoder returns a database instead of an error.
Encodes(L) ==
  /\ ValidLeaves(L)
  /\ \A l \in 0..LevelCount : LevelNodes(L, l) # <<>>
  /\ LET d == Encode(L)
     IN  /\ \A l \in HuffmanLevels :
              /\ \A c \in Masks :
                   ModelFits(TransitionCounts(LevelMasks(L, l),
                                              d.entry[l].nodes, c))
              /\ d.entry[l].lengthWidth <= MaxLengthWidth
              /\ d.entry[l].childWidth <= MaxChildWidth
              /\ \A g \in DOMAIN d.groupOffsets[l] : d.groupOffsets[l][g] <= MaxU24
              /\ \A g \in DOMAIN d.groupRanks[l] : d.groupRanks[l][g] <= MaxU24
         /\ \A l \in RawLevels : \A k \in DOMAIN d.rawRanks[l] :
              d.rawRanks[l][k] <= MaxU24
=============================================================================
