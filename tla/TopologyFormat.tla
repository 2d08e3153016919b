--------------------------- MODULE TopologyFormat ---------------------------
(***************************************************************************)
(* The vocabulary of the S2PD topology format (core/src/topology_format.rs *)
(* and the table readers of core/src/topology.rs): the sizes the format    *)
(* fixes, child masks, restart blocks and groups, canonical Huffman        *)
(* models, and what one mapped database file holds.                        *)
(*                                                                         *)
(* A child mask is the set of child positions that exist below a node, so  *)
(* count_ones is a cardinality.  The sizes are constants: the code fixes   *)
(* LEVEL_COUNT = 12, RAW_LEVEL_COUNT = 7, RESTART_INTERVAL = 208,          *)
(* RAW_RANK_INTERVAL = 128, BLOCKS_PER_GROUP = 16, MAX_CODE_LENGTH = 15,   *)
(* four children per cell and six faces.                                   *)
(***************************************************************************)
EXTENDS PrefixSums, FiniteSets

CONSTANTS
  LevelCount,       \* LEVEL_COUNT: levels that hold child masks
  RawLevelCount,    \* RAW_LEVEL_COUNT: upper levels stored as raw masks
  RestartInterval,  \* RESTART_INTERVAL: masks in one Huffman block
  RawRankInterval,  \* RAW_RANK_INTERVAL: raw masks between two checkpoints
  BlocksPerGroup,   \* BLOCKS_PER_GROUP: blocks sharing one absolute index
  MaxCodeLength,    \* MAX_CODE_LENGTH: longest canonical code
  MaxLengthWidth,   \* MAX_BLOCK_BIT_LENGTH_WIDTH
  MaxChildWidth,    \* MAX_BLOCK_CHILD_COUNT_WIDTH
  MaxU24,           \* MAX_U24: largest value of a three-byte index
  Fanout,           \* children of a cell, also the bits of a mask
  RootFaceCount     \* ROOT_FACE_COUNT = NUM_ROOT_FACES

ASSUME FormatAssumption ==
  /\ LevelCount \in Nat \ {0, 1}
  /\ RawLevelCount \in 1..(LevelCount - 1)
  /\ RestartInterval \in Nat \ {0}
  /\ RawRankInterval \in Nat \ {0}
  /\ BlocksPerGroup \in Nat \ {0}
  /\ MaxCodeLength \in Nat \ {0}
  /\ MaxLengthWidth \in Nat \ {0}
  /\ MaxChildWidth \in Nat \ {0}
  /\ MaxU24 \in Nat
  /\ Fanout \in Nat \ {0}
  /\ RootFaceCount \in Nat \ {0}

Levels == 0..(LevelCount - 1)
RawLevels == 0..(RawLevelCount - 1)
HuffmanLevels == RawLevelCount..(LevelCount - 1)
FinalLevel(l) == l + 1 = LevelCount

CeilDiv(n, d) == (n + d - 1) \div d

-----------------------------------------------------------------------------
(* Masks *)

ChildPositions == 0..(Fanout - 1)
Masks == SUBSET ChildPositions
SymbolCount == 2 ^ Fanout

CountOnes(m) == Cardinality(m)

\* The children of a mask that precede one child: mask & (child_bit - 1).
ChildrenBefore(m, child) == {p \in m : p < child}

\* The mask whose binary value has this sequence of bits, read MSB first.
MaskFromBits(bits) == {p \in ChildPositions : bits[Fanout - 1 - p] = 1}

-----------------------------------------------------------------------------
(* Restart blocks and groups *)

BlockOf(i) == i \div RestartInterval
BlockStartOf(b) == b * RestartInterval
GroupOf(b) == b \div BlocksPerGroup
GroupStartOf(g) == g * BlocksPerGroup
CheckpointOf(i) == i \div RawRankInterval
CheckpointStartOf(k) == k * RawRankInterval

BlockEndOf(b, nodes) ==
  IF BlockStartOf(b + 1) <= nodes THEN BlockStartOf(b + 1) ELSE nodes

\* The minimum nonzero width that stores a value.
RequiredWidth(value) ==
  CHOOSE w \in 1..(value + 1) : value < 2 ^ w /\ (w = 1 \/ 2 ^ (w - 1) <= value)

MaximumNodeCount(l) == RootFaceCount * Fanout ^ l

-----------------------------------------------------------------------------
(* Canonical Huffman models.  A model is [flag, counts, symbols]: flag 1 is  *)
(* a sole symbol, flag 0 a table of code counts per length and the symbols   *)
(* in canonical order (empty when the context never occurs).                 *)

\* symbol_offset: how many symbols have a code shorter than n.
CodesBelow(model, n) ==
  PrefixSum([k \in 0..(n - 2) |-> model.counts[k + 1]], n - 1)

\* The first code of length n.
FirstCode(model, n) ==
  LET first[k \in 0..MaxCodeLength] ==
        IF k = 0 THEN 0
        ELSE 2 * (first[k - 1] + IF k = 1 THEN 0 ELSE model.counts[k - 1])
  IN  first[n]

\* Mutant: the sum over the lengths leaves out the longest one.
AvailableCodesButLast(model) ==
  LET available[k \in 0..MaxCodeLength] ==
        IF k = 0 THEN 1
        ELSE IF k = MaxCodeLength THEN 0
        ELSE 2 * available[k - 1] - model.counts[k]
  IN  available

\* Code space left after each length; a complete table leaves none.
AvailableCodes(model) ==
  LET available[k \in 0..MaxCodeLength] ==
        IF k = 0 THEN 1 ELSE 2 * available[k - 1] - model.counts[k]
  IN  available

ValidCanonicalModel(model) ==
  LET total == CodesBelow(model, MaxCodeLength + 1)
      available == AvailableCodes(model)
      Unused(i) == model.symbols[i] = {}
  IN  \/ total = 0 /\ \A i \in 0..(SymbolCount - 1) : Unused(i)
      \/ /\ total \in 2..SymbolCount
         /\ \A n \in 1..MaxCodeLength : available[n] >= 0
         /\ available[MaxCodeLength] = 0
         /\ \A i, j \in 0..(total - 1) :
              model.symbols[i] = model.symbols[j] => i = j
         /\ \A i \in total..(SymbolCount - 1) : Unused(i)

ValidModel(model) ==
  \/ model.flag = 0 /\ ValidCanonicalModel(model)
  \/ /\ model.flag = 1
     /\ \A n \in 1..MaxCodeLength : model.counts[n] = 0
     /\ \A i \in 1..(SymbolCount - 1) : model.symbols[i] = {}

-----------------------------------------------------------------------------
(* Reading the payload.  A payload is a function from bit offsets to bits.   *)

PayloadMask(payload, from) ==
  MaskFromBits([k \in 0..(Fanout - 1) |-> payload[from + k]])

PayloadCode(payload, from, n) ==
  LET code[k \in 0..n] ==
        IF k = 0 THEN 0 ELSE 2 * code[k - 1] + payload[from + k - 1]
  IN  code[n]

\* The decoder loop leaves at the first length whose code is in range.
CodeMatches(model, payload, from, n) ==
  LET code == PayloadCode(payload, from, n)
      first == FirstCode(model, n)
  IN  code >= first /\ code - first < model.counts[n]

\* decode_symbol reads n bits from an offset, all before end, and returns m.
Decodes(model, payload, from, end, n, m) ==
  \/ model.flag = 1 /\ n = 0 /\ m = model.symbols[0]
  \/ /\ model.flag # 1
     /\ n \in 1..MaxCodeLength
     /\ from + n <= end
     /\ CodeMatches(model, payload, from, n)
     /\ \A k \in 1..(n - 1) : ~CodeMatches(model, payload, from, k)
     /\ m = model.symbols[CodesBelow(model, n)
                + PayloadCode(payload, from, n) - FirstCode(model, n)]

CodeLengths == 0..MaxCodeLength
=============================================================================
