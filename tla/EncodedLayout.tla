---------------------------- MODULE EncodedLayout ----------------------------
(***************************************************************************)
(* The layout encode_topology_database (cli/src/topology_database.rs)      *)
(* gives a file: it appends the bytes of every level to seven section      *)
(* buffers, in level order, and then lays the buffers and the payload one  *)
(* after the other behind the header.  What the bytes are is the matter of *)
(* TopologyEncoder; this module counts them.                               *)
(*                                                                         *)
(* A directory says what the encoder was given: nodes of each level, bits  *)
(* of each Huffman level in the payload, and the widths it chose.          *)
(***************************************************************************)
EXTENDS TopologyHeader

CONSTANTS
  MaxUsize,    \* usize::MAX
  Directories  \* the directories the encoder is run on

DirectoryType(d) ==
  /\ d.leaves \in Nat \ {0} /\ d.terminal \in Nat \ {0}
  /\ d.leaves <= MaximumNodeCount(LevelCount)
  /\ d.terminal <= MaximumNodeCount(LevelCount)
  /\ d.nodes[0] = RootFaceCount
  /\ \A l \in Levels : d.nodes[l] \in 1..MaximumNodeCount(l)
  /\ \A l \in HuffmanLevels :
       /\ d.bits[l] \in Nat \ {0}
       /\ d.lengthWidth[l] \in 1..MaxLengthWidth
       /\ d.childWidth[l] \in IF FinalLevel(l) THEN {0} ELSE 1..MaxChildWidth

ASSUME DirectoriesAssumption == \A d \in Directories : DirectoryType(d)

SectionOrder ==
  <<"rawMasks", "rawRanks", "models", "groupBits", "groupRanks",
    "blockLengths", "blockKids">>

\* The elements that step_by(n), or i % n == 0, picks of a sequence.
Every(n, length) == Cardinality({i \in 0..(length - 1) : i % n = 0})

EncodedBlocks(d, l) == CeilDiv(d.nodes[l], RestartInterval)
PackedValueBits(d, l, width) == EncodedBlocks(d, l) * width[l]

\* The bytes the encoder appends for one level to one section.
AppendedBytes(d, l, s) ==
  CASE s = "rawMasks" -> IF l \in RawLevels THEN Every(2, d.nodes[l]) ELSE 0
    [] s = "rawRanks" ->
         IF l \in RawLevels THEN U24 * Every(RawRankInterval, d.nodes[l]) ELSE 0
    [] s = "models" -> IF l \in HuffmanLevels THEN SymbolCount * ContextSize ELSE 0
    [] s = "groupBits" ->
         IF l \in HuffmanLevels THEN U24 * Every(BlocksPerGroup, EncodedBlocks(d, l)) ELSE 0
    [] s = "groupRanks" ->
         IF l \in HuffmanLevels /\ ~FinalLevel(l)
         THEN U24 * Every(BlocksPerGroup, EncodedBlocks(d, l)) ELSE 0
    [] s = "blockLengths" ->
         IF l \in HuffmanLevels
         THEN CeilDiv(PackedValueBits(d, l, d.lengthWidth), ByteBits) ELSE 0
    [] s = "blockKids" ->
         IF l \in HuffmanLevels /\ ~FinalLevel(l)
         THEN CeilDiv(PackedValueBits(d, l, d.childWidth), ByteBits) ELSE 0

\* Where the bytes of a level begin in its section, and the section's length.
Before(d, l, s) == PrefixSum([k \in Levels |-> AppendedBytes(d, k, s)], l)
SectionLength(d, s) == Before(d, LevelCount, s)

\* section_end: each section starts where the previous one ends.
SectionStart(d, i) ==
  HeaderSize + PrefixSum([k \in 0..6 |-> SectionLength(d, SectionOrder[k + 1])], i - 1)

Start(d, s) == SectionStart(d, CHOOSE i \in 1..7 : SectionOrder[i] = s)
PayloadStart(d) == SectionStart(d, 8)

\* Where the codes of a level begin in the payload, and its length.
BitsBefore(d, l) ==
  PrefixSum([k \in Levels |-> IF k \in RawLevels THEN 0 ELSE d.bits[k]], l)
PayloadBits(d) == BitsBefore(d, LevelCount)
FileSize(d) == PayloadStart(d) + CeilDiv(PayloadBits(d), ByteBits)

-----------------------------------------------------------------------------
(* The header *)

FixedValues(d) ==
  [magic            |-> Magic,
   version          |-> Version,
   headerSize       |-> HeaderSize,
   fileSize         |-> FileSize(d),
   payloadBits      |-> PayloadBits(d),
   rawMasks         |-> Start(d, "rawMasks"),
   rawRanks         |-> Start(d, "rawRanks"),
   models           |-> Start(d, "models"),
   groupBits        |-> Start(d, "groupBits"),
   groupRanks       |-> Start(d, "groupRanks"),
   blockLengths     |-> Start(d, "blockLengths"),
   blockKids        |-> Start(d, "blockKids"),
   payload          |-> PayloadStart(d),
   restartInterval  |-> RestartInterval,
   rawRankInterval  |-> RawRankInterval,
   levelCount       |-> LevelCount,
   rawLevelCount    |-> RawLevelCount,
   maxDatabaseLevel |-> MaxDatabaseLevel,
   blocksPerGroup   |-> BlocksPerGroup,
   leaves           |-> d.leaves,
   terminal         |-> d.terminal]

RawEntryValues(d, l) ==
  [nodes       |-> d.nodes[l],
   start       |-> Before(d, l, "rawMasks"),
   length      |-> AppendedBytes(d, l, "rawMasks"),
   encoding    |-> EncodingRaw,
   lengthWidth |-> 0,
   childWidth  |-> 0,
   flags       |-> ChildRankFlag]

HuffmanEntryValues(d, l) ==
  [nodes       |-> d.nodes[l],
   start       |-> BitsBefore(d, l),
   length      |-> d.bits[l],
   encoding    |-> EncodingHuffman,
   lengthWidth |-> d.lengthWidth[l],
   childWidth  |-> d.childWidth[l],
   flags       |-> IF FinalLevel(l) THEN 0 ELSE ChildRankFlag]

EntryValues(d) ==
  [l \in Levels |-> IF l \in RawLevels THEN RawEntryValues(d, l)
                                       ELSE HuffmanEntryValues(d, l)]

\* The encoder fails where a size overflows or a value exceeds its field.
Encodable(d) ==
  /\ \A l \in HuffmanLevels :
       /\ PackedValueBits(d, l, d.lengthWidth) <= MaxUsize
       /\ PackedValueBits(d, l, d.childWidth) <= MaxUsize
  /\ FileSize(d) <= MaxUsize
  /\ \A name \in DOMAIN FixedField : FitsField(FixedField[name], FixedValues(d)[name])
  /\ \A l \in Levels : \A name \in DOMAIN EntryField :
       FitsField(EntryField[name], EntryValues(d)[l][name])

EncodedFile(d) ==
  [size |-> FileSize(d), header |-> WrittenHeader(FixedValues(d), EntryValues(d))]
=============================================================================
