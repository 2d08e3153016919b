------------------------- MODULE TopologyValidation -------------------------
(***************************************************************************)
(* TopologyQueryEngine::from_mmap_with_validation of core/src/topology.rs: *)
(* the construction of a query engine from one mapped file, either with    *)
(* full validation (from_mmap) or with the validation used for bytes that  *)
(* were verified before (from_verified_mmap).                              *)
(*                                                                         *)
(* Each loop of the code is an action of its own, and every failed check   *)
(* leads to "rejected".  A mapping never changes: db is chosen once.       *)
(*                                                                         *)
(* Full validation decodes every mask in order, and the history variables  *)
(* scannedMask, scannedRank and scannedStart record what it saw: the mask  *)
(* of each node, the number of children of all earlier nodes of the level  *)
(* and, for a Huffman level, the bit offset of the mask.  No action reads  *)
(* them; properties compare the stored restart indexes with them.          *)
(* accepted says that the last full validation of these bytes succeeded.   *)
(***************************************************************************)
EXTENDS TopologyFormat

CONSTANTS
  Databases  \* what the files an engine may be given contain

(***************************************************************************)
(* A database is a record: header (magic, version, sizes and encoding      *)
(* parameters are the supported ones) and layout (every section starts     *)
(* where the previous one ends, and the last one ends the file), the       *)
(* totals, the level directory, and the sections themselves.  padding is   *)
(* the set of packed regions whose unused bits are not all zero.           *)
(***************************************************************************)
EntryType(e) ==
  /\ e.encoding \in {"raw", "huffman"}
  /\ e.nodes \in Nat /\ e.start \in Nat /\ e.length \in Nat
  /\ e.lengthWidth \in Nat /\ e.childWidth \in Nat

DatabaseType(d) ==
  /\ d.header \in BOOLEAN /\ d.layout \in BOOLEAN
  /\ d.payloadBits \in Nat /\ d.leaves \in Nat /\ d.terminal \in Nat
  /\ \A l \in Levels : EntryType(d.entry[l])
  /\ \A l \in RawLevels : \A i \in 0..(d.entry[l].nodes - 1) :
       /\ d.masks[l][i] \in Masks
       /\ d.rawRanks[l][CheckpointOf(i)] \in Nat
  /\ \A l \in HuffmanLevels : \A b \in 0..d.entry[l].nodes :
       BlockStartOf(b) < d.entry[l].nodes =>
         /\ d.groupOffsets[l][GroupOf(b)] \in Nat
         /\ d.blockBits[l][b] \in Nat
         /\ ~FinalLevel(l) =>
              /\ d.groupRanks[l][GroupOf(b)] \in Nat
              /\ d.blockChildren[l][b] \in Nat

ASSUME DatabasesAssumption == \A d \in Databases : DatabaseType(d)

VARIABLES
  db,         \* the mapped database
  depth,      \* "full" or "verified": the validate_payload argument
  pc,         \* what the construction does next
  level,      \* level_index
  block,      \* block_index
  node,       \* the next node of the level
  rawOffset,  \* expected_raw_data_offset
  bitOffset,  \* expected_payload_bit_offset, then bit_offset
  children,   \* child_count of the level
  zeros,      \* zero_mask_count over the levels done so far
  mask,       \* the previous mask, the context of the next symbol
  blockBegin, \* block_start
  blockKids,  \* block_child_count
  widest,     \* [bits, kids]: the maxima of the packed block fields
  scannedMask, scannedRank, scannedStart,  \* history: what was decoded
  accepted    \* history: full validation accepted these bytes

progress == <<level, block, node, rawOffset, bitOffset, children, zeros, mask,
              blockBegin, blockKids, widest>>
scan == <<scannedMask, scannedRank, scannedStart>>
vars == <<db, depth, pc, progress, scan, accepted>>

Entry == db.entry[level]
Nodes(l) == db.entry[l].nodes
LevelEnd(l) == db.entry[l].start + db.entry[l].length
HasChildRanks(l) == "childRanks" \in db.entry[l].flags
Proceed(ok, next) == pc' = IF ok THEN next ELSE "rejected"

\* A value for every node of every level, and one past the last node.
EveryNode(value) == [l \in Levels |-> [i \in 0..Nodes(l) |-> value]]

Init ==
  /\ db \in Databases
  /\ depth = "full"
  /\ pc = "closed"
  /\ level = 0 /\ block = 0 /\ node = 0
  /\ rawOffset = 0 /\ bitOffset = 0
  /\ children = 0 /\ zeros = 0 /\ mask = {}
  /\ blockBegin = 0 /\ blockKids = 0
  /\ widest = [bits |-> 0, kids |-> 0]
  /\ scannedMask = EveryNode({})
  /\ scannedRank = EveryNode(0)
  /\ scannedStart = EveryNode(0)
  /\ accepted = FALSE

-----------------------------------------------------------------------------
(* Header and level directory *)

Open(mode) ==
  /\ pc = "closed"
  /\ depth' = mode
  /\ Proceed(/\ db.header
             /\ db.payloadBits # 0 /\ db.leaves # 0 /\ db.terminal # 0,
             "directory")
  /\ level' = 0 /\ rawOffset' = 0 /\ bitOffset' = 0 /\ zeros' = 0
  /\ IF mode = "full"
     THEN /\ scannedMask' = EveryNode({})
          /\ scannedRank' = EveryNode(0)
          /\ scannedStart' = EveryNode(0)
     ELSE UNCHANGED scan
  /\ accepted' = (accepted /\ mode = "verified")
  /\ UNCHANGED <<db, block, node, children, mask, blockBegin, blockKids, widest>>

RawEntryOk(e) ==
  /\ e.encoding = "raw"
  /\ e.start = rawOffset
  /\ e.length = CeilDiv(e.nodes, 2)
  /\ e.lengthWidth = 0 /\ e.childWidth = 0
  /\ e.flags = {"childRanks"}

HuffmanEntryOk(e) ==
  /\ e.encoding = "huffman"
  /\ e.start = bitOffset
  /\ e.length # 0
  /\ e.lengthWidth \in 1..MaxLengthWidth
  /\ IF FinalLevel(level)
     THEN e.flags = {} /\ e.childWidth = 0
     ELSE e.flags = {"childRanks"} /\ e.childWidth \in 1..MaxChildWidth

CheckEntry ==
  /\ pc = "directory" /\ level < LevelCount
  /\ Proceed(/\ Entry.nodes \in 1..MaximumNodeCount(level)
             /\ IF level < RawLevelCount THEN RawEntryOk(Entry)
                                         ELSE HuffmanEntryOk(Entry),
             "directory")
  /\ level' = level + 1
  /\ IF level < RawLevelCount
     THEN rawOffset' = rawOffset + Entry.length /\ UNCHANGED bitOffset
     ELSE bitOffset' = bitOffset + Entry.length /\ UNCHANGED rawOffset
  /\ UNCHANGED <<db, depth, block, node, children, zeros, mask, blockBegin,
                 blockKids, widest, scan, accepted>>

CheckTotals ==
  /\ pc = "directory" /\ level = LevelCount
  /\ Proceed(/\ Nodes(0) = RootFaceCount
             /\ db.terminal <= MaximumNodeCount(LevelCount)
             /\ db.leaves <= MaximumNodeCount(LevelCount)
             /\ bitOffset = db.payloadBits
             /\ db.layout,
             "models")
  /\ UNCHANGED <<db, depth, progress, scan, accepted>>

ValidateModels ==
  /\ pc = "models"
  /\ Proceed(\A l \in HuffmanLevels : \A context \in Masks :
               ValidModel(db.models[l][context]),
             "level")
  /\ level' = 0
  /\ UNCHANGED <<db, depth, block, node, rawOffset, bitOffset, children, zeros,
                 mask, blockBegin, blockKids, widest, scan, accepted>>

-----------------------------------------------------------------------------
(* Raw levels *)

PaddingOk ==
  IF level < RawLevelCount
  THEN <<"masks", level>> \notin db.padding
  ELSE /\ <<"bits", level>> \notin db.padding
       /\ HasChildRanks(level) => <<"kids", level>> \notin db.padding

StartLevel ==
  /\ pc = "level" /\ level < LevelCount
  /\ Proceed(PaddingOk, IF level < RawLevelCount THEN "raw"
                        ELSE IF depth = "full" THEN "block" ELSE "index")
  /\ block' = 0 /\ node' = 0 /\ children' = 0
  /\ bitOffset' = Entry.start
  /\ widest' = [bits |-> 0, kids |-> 0]
  /\ scannedStart' = IF depth = "full"
                     THEN [scannedStart EXCEPT ![level][0] = Entry.start]
                     ELSE scannedStart
  /\ UNCHANGED <<db, depth, level, rawOffset, zeros, mask, blockBegin,
                 blockKids, scannedMask, scannedRank, accepted>>

\* The history of full validation: m is the mask of the current node, which
\* has before children ahead of it, and the next mask starts at offset next.
Record(m, before, next) ==
  IF depth = "full"
  THEN /\ scannedMask' = [scannedMask EXCEPT ![level][node] = m]
       /\ scannedRank' = [scannedRank EXCEPT ![level][node + 1] = before + CountOnes(m)]
       /\ scannedStart' = [scannedStart EXCEPT ![level][node + 1] = next]
  ELSE UNCHANGED scan

CountMask(m) ==
  /\ node' = node + 1
  /\ zeros' = zeros + IF m = {} THEN 1 ELSE 0

RawNode ==
  /\ pc = "raw" /\ node < Nodes(level)
  /\ Proceed(node % RawRankInterval = 0 =>
               db.rawRanks[level][CheckpointOf(node)] = children,
             "raw")
  /\ LET m == db.masks[level][node]
     IN  /\ CountMask(m)
         /\ Record(m, children, bitOffset)
         /\ children' = children + CountOnes(m)
  /\ UNCHANGED <<db, depth, level, block, rawOffset, bitOffset, mask,
                 blockBegin, blockKids, widest, accepted>>

ExpectedChildren == IF FinalLevel(level) THEN db.terminal ELSE Nodes(level + 1)

\* Mutant: the next level may have nodes that no mask announces.
EndRawLevelWithOrphans ==
  /\ pc = "raw" /\ node = Nodes(level)
  /\ Proceed(children <= ExpectedChildren, "level")
  /\ level' = level + 1
  /\ UNCHANGED <<db, depth, block, node, rawOffset, bitOffset, children, zeros,
                 mask, blockBegin, blockKids, widest, scan, accepted>>

EndRawLevel ==
  /\ pc = "raw" /\ node = Nodes(level)
  /\ Proceed(children = ExpectedChildren, "level")
  /\ level' = level + 1
  /\ UNCHANGED <<db, depth, block, node, rawOffset, bitOffset, children, zeros,
                 mask, blockBegin, blockKids, widest, scan, accepted>>

-----------------------------------------------------------------------------
(* Huffman levels: full validation decodes every mask *)

Reject == pc' = "rejected" /\ UNCHANGED <<db, depth, progress, scan, accepted>>

\* The node after the last one of the current block.
BlockEnd == BlockEndOf(block, Nodes(level))

\* Mutant: the absolute rank of a group is not compared.
OffsetOnlyGroupOk ==
  block % BlocksPerGroup = 0 =>
    db.groupOffsets[level][GroupOf(block)] = bitOffset

\* The checks a group makes at its first block, shared by both depths.
GroupOk ==
  block % BlocksPerGroup = 0 =>
    /\ db.groupOffsets[level][GroupOf(block)] = bitOffset
    /\ HasChildRanks(level) =>
         db.groupRanks[level][GroupOf(block)] = children

StartBlock ==
  /\ pc = "block" /\ node < Nodes(level)
  /\ GroupOk /\ bitOffset + Fanout <= LevelEnd(level)
  /\ pc' = "symbols"
  /\ LET m == PayloadMask(db.payload, bitOffset)
     IN  /\ mask' = m
         /\ CountMask(m)
         /\ Record(m, children, bitOffset + Fanout)
         /\ blockKids' = CountOnes(m)
  /\ blockBegin' = bitOffset
  /\ bitOffset' = bitOffset + Fanout
  /\ UNCHANGED <<db, depth, level, block, rawOffset, children, widest, accepted>>

RejectBlock ==
  /\ pc = "block" /\ node < Nodes(level)
  /\ ~(GroupOk /\ bitOffset + Fanout <= LevelEnd(level))
  /\ Reject

\* decode_symbol_checked: n bits hold the code of m in the context of mask.
NextSymbol(n, m) ==
  Decodes(db.models[level][mask], db.payload, bitOffset, LevelEnd(level), n, m)

DecodeNode ==
  /\ pc = "symbols" /\ node < BlockEnd
  /\ \E n \in CodeLengths, m \in Masks :
       /\ NextSymbol(n, m)
       /\ mask' = m
       /\ CountMask(m)
       /\ Record(m, children + blockKids, bitOffset + n)
       /\ blockKids' = blockKids + CountOnes(m)
       /\ bitOffset' = bitOffset + n
  /\ UNCHANGED <<db, depth, pc, level, block, rawOffset, children, blockBegin,
                 widest, accepted>>

RejectSymbol ==
  /\ pc = "symbols" /\ node < BlockEnd
  /\ ~\E n \in CodeLengths, m \in Masks : NextSymbol(n, m)
  /\ Reject

Widen(bits, kids) ==
  widest' = [bits |-> IF bits > widest.bits THEN bits ELSE widest.bits,
             kids |-> IF kids > widest.kids THEN kids ELSE widest.kids]

IndexedKids == IF HasChildRanks(level) THEN db.blockChildren[level][block] ELSE 0

EndBlock ==
  /\ pc = "symbols" /\ node = BlockEnd
  /\ Proceed(/\ db.blockBits[level][block] = bitOffset - blockBegin
             /\ HasChildRanks(level) => IndexedKids = blockKids,
             "block")
  /\ Widen(db.blockBits[level][block], IndexedKids)
  /\ block' = block + 1
  /\ children' = children + blockKids
  /\ UNCHANGED <<db, depth, level, node, rawOffset, bitOffset, zeros, mask,
                 blockBegin, blockKids, scan, accepted>>

\* The end of the level's payload is reached and the packed widths are minimal.
PayloadConsumed ==
  /\ bitOffset = LevelEnd(level)
  /\ RequiredWidth(widest.bits) = Entry.lengthWidth
  /\ HasChildRanks(level) => RequiredWidth(widest.kids) = Entry.childWidth

EndHuffmanLevel ==
  /\ pc = "block" /\ node = Nodes(level)
  /\ Proceed(PayloadConsumed /\ children = ExpectedChildren, "level")
  /\ level' = level + 1
  /\ UNCHANGED <<db, depth, block, node, rawOffset, bitOffset, children, zeros,
                 mask, blockBegin, blockKids, widest, scan, accepted>>

-----------------------------------------------------------------------------
(* Huffman levels of a verified mapping: only the restart indexes are read *)

\* Mutant: the first mask of a block is left out of its node count.
ShortBlockNodes == BlockEnd - BlockStartOf(block) - 1

BlockNodes == BlockEnd - BlockStartOf(block)

IndexBlock ==
  /\ pc = "index" /\ node < Nodes(level)
  /\ LET bits == db.blockBits[level][block]
     IN  /\ Proceed(/\ GroupOk
                    /\ bits \in Fanout..(Fanout + (BlockNodes - 1) * MaxCodeLength)
                    /\ bitOffset + bits <= LevelEnd(level)
                    /\ IndexedKids <= BlockNodes * Fanout,
                    "index")
         /\ Widen(bits, IndexedKids)
         /\ bitOffset' = bitOffset + bits
  /\ children' = children + IndexedKids
  /\ block' = block + 1
  /\ node' = BlockEnd
  /\ UNCHANGED <<db, depth, level, rawOffset, zeros, mask, blockBegin,
                 blockKids, scan, accepted>>

EndIndexedLevel ==
  /\ pc = "index" /\ node = Nodes(level)
  /\ Proceed(/\ PayloadConsumed
             /\ IF FinalLevel(level) THEN db.terminal <= Nodes(level) * Fanout
                                     ELSE children = Nodes(level + 1),
             "level")
  /\ level' = level + 1
  /\ UNCHANGED <<db, depth, block, node, rawOffset, bitOffset, children, zeros,
                 mask, blockBegin, blockKids, widest, scan, accepted>>

-----------------------------------------------------------------------------
(* Completion *)

\* The leaf total is checked by full validation only.
Complete ==
  /\ pc = "level" /\ level = LevelCount
  /\ LET ok == /\ depth = "full" => zeros + db.terminal = db.leaves
               /\ <<"payload">> \notin db.padding
     IN  /\ Proceed(ok, "ready")
         /\ accepted' = (accepted \/ (ok /\ depth = "full"))
  /\ UNCHANGED <<db, depth, progress, scan>>

\* The engine is dropped, or the caller got an error; it may map again.
Close ==
  /\ pc \in {"ready", "rejected"}
  /\ pc' = "closed"
  /\ UNCHANGED <<db, depth, progress, scan, accepted>>

Construct ==
  \/ CheckEntry \/ CheckTotals \/ ValidateModels
  \/ StartLevel \/ RawNode \/ EndRawLevel
  \/ StartBlock \/ RejectBlock \/ DecodeNode \/ RejectSymbol
  \/ EndBlock \/ EndHuffmanLevel
  \/ IndexBlock \/ EndIndexedLevel
  \/ Complete

Next ==
  \/ \E mode \in {"full", "verified"} : Open(mode)
  \/ Construct
  \/ Close

Spec == Init /\ [][Next]_vars

-----------------------------------------------------------------------------
(* Properties *)

States == {"closed", "directory", "models", "level", "raw", "block", "symbols",
           "index", "ready", "rejected"}

\* Every variable keeps its type while the constructor runs, and the loops stay
\* on the nodes of an existing level.
TypeOK ==
  /\ db \in Databases
  /\ depth \in {"full", "verified"}
  /\ pc \in States
  /\ level \in 0..LevelCount
  /\ block \in Nat /\ node \in Nat
  /\ pc \in {"raw", "block", "symbols", "index"} =>
       level < LevelCount /\ node <= Nodes(level)
  /\ rawOffset \in Nat /\ bitOffset \in Nat
  /\ children \in Nat /\ zeros \in Nat
  /\ mask \in Masks
  /\ blockBegin \in Nat /\ blockKids \in Nat
  /\ widest \in [bits : Nat, kids : Nat]
  /\ accepted \in BOOLEAN
  /\ DOMAIN scannedMask = Levels /\ DOMAIN scannedRank = Levels
  /\ DOMAIN scannedStart = Levels
  /\ \A l \in Levels :
       /\ scannedMask[l] \in [0..Nodes(l) -> Masks]
       /\ scannedRank[l] \in [0..Nodes(l) -> Nat]
       /\ scannedStart[l] \in [0..Nodes(l) -> Nat]

Checkpointed(l) ==
  \A i \in 0..(Nodes(l) - 1) : i % RawRankInterval = 0 =>
    db.rawRanks[l][CheckpointOf(i)] = scannedRank[l][i]

BlockIndexed(l, b) ==
  LET first == BlockStartOf(b)
      end   == BlockEndOf(b, Nodes(l))
  IN  /\ db.blockBits[l][b] = scannedStart[l][end] - scannedStart[l][first]
      /\ ~FinalLevel(l) =>
           db.blockChildren[l][b] = scannedRank[l][end] - scannedRank[l][first]

GroupIndexed(l, b) ==
  b % BlocksPerGroup = 0 =>
    /\ db.groupOffsets[l][GroupOf(b)] = scannedStart[l][BlockStartOf(b)]
    /\ ~FinalLevel(l) =>
         db.groupRanks[l][GroupOf(b)] = scannedRank[l][BlockStartOf(b)]

BlocksOf(l) == {b \in 0..Nodes(l) : BlockStartOf(b) < Nodes(l)}

\* Once full validation has accepted a file, every restart index it stores (raw
\* rank checkpoints, group offsets and ranks, packed block lengths and child
\* counts) is the exact prefix total of the masks decoded from the level's
\* start, so a lookup may begin at any of them.
IndexesExact ==
  accepted =>
    /\ \A l \in RawLevels : Checkpointed(l)
    /\ \A l \in HuffmanLevels : \A b \in BlocksOf(l) :
         BlockIndexed(l, b) /\ GroupIndexed(l, b)

\* In an accepted file the masks of each level announce exactly the nodes of the
\* next one: no lookup can be sent past the last node of a level.
LevelsLinked ==
  accepted =>
    /\ Nodes(0) = RootFaceCount
    /\ \A l \in Levels :
         scannedRank[l][Nodes(l)] = IF FinalLevel(l) THEN db.terminal ELSE Nodes(l + 1)

\* from_verified_mmap never refuses bytes that passed from_mmap: its weaker
\* checks are implied by the full ones, although they are other code.
VerifiedAcceptsValidated ==
  accepted /\ depth = "verified" => pc # "rejected"
=============================================================================
