--------------------------- MODULE TopologyLayout ---------------------------
(***************************************************************************)
(* How TopologyQueryEngine::from_mmap_with_validation (core/src/topology.rs)*)
(* locates the sections of a mapped file, before it looks into them, and   *)
(* how encode_topology_database (cli/src/topology_database.rs) lays them   *)
(* out.  TopologyValidation continues where this module ends.              *)
(*                                                                         *)
(* The engine believes no offset of the header: it walks the directory,    *)
(* computes where every level of every section must lie, and compares.     *)
(* The cursors of three sections start at offsets that are compared only   *)
(* after the walk, so that every sum may overflow a usize on the way.      *)
(***************************************************************************)
EXTENDS EncodedLayout, FiniteSetsExt

CONSTANTS
  Files  \* the mapped files: [size, header]

FileType(f) ==
  /\ f = [size |-> f.size, header |-> f.header]
  /\ f.size \in 0..MaxUsize
  /\ f.size >= HeaderSize => f.header \in [0..(HeaderSize - 1) -> 0..(ByteBase - 1)]

ASSUME LayoutAssumption ==
  /\ MaxUsize \in Nat
  /\ U32Values - 1 <= MaxUsize
  /\ \A f \in Files : FileType(f)

NoOffset == MaxUsize

\* The sections in the order of the file; the payload ends it.
Sections == {"rawMasks", "rawRanks", "models", "groupBits", "groupRanks",
             "blockLengths", "blockKids"}
\* Those whose place of each level a running cursor computes.
Cursors == {"rawRanks", "groupBits", "groupRanks", "blockLengths", "blockKids"}

VARIABLES
  file,      \* the mapping
  pc,        \* what the construction does next
  level,     \* level_index
  masksEnd,  \* expected_raw_data_offset
  bitsEnd,   \* expected_payload_bit_offset
  cursor,    \* raw_rank_cursor, group_bit_cursor, ...
  place      \* LevelLayout: the offset of each level in each section

vars == <<file, pc, level, masksEnd, bitsEnd, cursor, place>>

Header(name) == Fixed(file.header, name)
Entry(l, name) == EntryValue(file.header, l, name)
Nodes(l) == Entry(l, "nodes")
HasChildRanks(l) == Entry(l, "flags") % 2 = ChildRankFlag
Proceed(ok, next) == pc' = IF ok THEN next ELSE "rejected"

\* checked_add and checked_mul: a result is used only if it fits a usize.
Fits(n) == n <= MaxUsize

-----------------------------------------------------------------------------
(* The bytes of one level in each section *)

BlockCount(nodes) == CeilDiv(nodes, RestartInterval)

GroupCount(nodes) == CeilDiv(BlockCount(nodes), BlocksPerGroup)
PackedBits(count, width) == count * width
PackedByteCount(count, width) == CeilDiv(PackedBits(count, width), ByteBits)

RawMaskBytes(nodes) == CeilDiv(nodes, 2)
RawRankBytes(nodes) == U24 * CeilDiv(nodes, RawRankInterval)
GroupBytes(nodes) == U24 * GroupCount(nodes)

\* The number of bytes a level occupies in a section.
Bytes(l, s) ==
  CASE s = "rawMasks" -> IF l \in RawLevels THEN RawMaskBytes(Nodes(l)) ELSE 0
    [] s = "rawRanks" -> IF l \in RawLevels THEN RawRankBytes(Nodes(l)) ELSE 0
    [] s = "models" -> IF l \in HuffmanLevels THEN LevelModelSize ELSE 0
    [] s = "groupBits" -> IF l \in HuffmanLevels THEN GroupBytes(Nodes(l)) ELSE 0
    [] s = "groupRanks" ->
         IF l \in HuffmanLevels /\ HasChildRanks(l) THEN GroupBytes(Nodes(l)) ELSE 0
    [] s = "blockLengths" ->
         IF l \in HuffmanLevels
         THEN PackedByteCount(BlockCount(Nodes(l)), Entry(l, "lengthWidth")) ELSE 0
    [] s = "blockKids" ->
         IF l \in HuffmanLevels /\ HasChildRanks(l)
         THEN PackedByteCount(BlockCount(Nodes(l)), Entry(l, "childWidth")) ELSE 0

RawRankSize == PrefixSum([l \in RawLevels |-> RawRankBytes(Nodes(l))], RawLevelCount)
ModelSize == (LevelCount - RawLevelCount) * LevelModelSize

-----------------------------------------------------------------------------
(* The engine *)

Init ==
  /\ file \in Files
  /\ pc = "open"
  /\ level = 0
  /\ masksEnd = 0 /\ bitsEnd = 0
  /\ cursor = [s \in Cursors |-> NoOffset]
  /\ place = [l \in Levels |-> [s \in Sections |-> NoOffset]]

Supported ==
  /\ Header("magic") = Magic
  /\ Header("version") = Version
  /\ Header("headerSize") = HeaderSize
  /\ Header("restartInterval") = RestartInterval
  /\ Header("rawRankInterval") = RawRankInterval
  /\ Header("levelCount") = LevelCount
  /\ Header("rawLevelCount") = RawLevelCount
  /\ Header("maxDatabaseLevel") = MaxDatabaseLevel
  /\ Header("blocksPerGroup") = BlocksPerGroup

Open ==
  /\ pc = "open"
  /\ Proceed(/\ file.size >= HeaderSize
             /\ Supported
             /\ Header("fileSize") = file.size
             /\ Header("payloadBits") # 0
             /\ Header("leaves") # 0 /\ Header("terminal") # 0,
             "directory")
  /\ UNCHANGED <<file, level, masksEnd, bitsEnd, cursor, place>>

\* Mutant: the widths of a raw level are not looked at.
RawEntryOkAnyWidth(l) ==
  /\ Entry(l, "encoding") = EncodingRaw
  /\ Entry(l, "start") = masksEnd
  /\ Entry(l, "length") = RawMaskBytes(Nodes(l))
  /\ Entry(l, "flags") = ChildRankFlag

RawEntryOk(l) ==
  /\ Entry(l, "encoding") = EncodingRaw
  /\ Entry(l, "start") = masksEnd
  /\ Entry(l, "length") = RawMaskBytes(Nodes(l))
  /\ Entry(l, "lengthWidth") = 0 /\ Entry(l, "childWidth") = 0
  /\ Entry(l, "flags") = ChildRankFlag

HuffmanEntryOk(l) ==
  /\ Entry(l, "encoding") = EncodingHuffman
  /\ Entry(l, "start") = bitsEnd
  /\ Entry(l, "length") # 0
  /\ Entry(l, "lengthWidth") \in 1..MaxLengthWidth
  /\ IF FinalLevel(l)
     THEN Entry(l, "flags") = 0 /\ Entry(l, "childWidth") = 0
     ELSE Entry(l, "flags") = ChildRankFlag /\ Entry(l, "childWidth") \in 1..MaxChildWidth

EntryOk(l) ==
  /\ Nodes(l) \in 1..MaximumNodeCount(l)
  /\ IF l \in RawLevels
     THEN RawEntryOk(l) /\ Fits(masksEnd + Entry(l, "length"))
     ELSE HuffmanEntryOk(l) /\ Fits(bitsEnd + Entry(l, "length"))

CheckEntry ==
  /\ pc = "directory" /\ level < LevelCount
  /\ Proceed(EntryOk(level), "directory")
  /\ level' = level + 1
  /\ IF level \in RawLevels
     THEN masksEnd' = masksEnd + Entry(level, "length") /\ UNCHANGED bitsEnd
     ELSE bitsEnd' = bitsEnd + Entry(level, "length") /\ UNCHANGED masksEnd
  /\ UNCHANGED <<file, cursor, place>>

TotalsOk ==
  /\ Nodes(0) = RootFaceCount
  /\ Header("terminal") <= MaximumNodeCount(LevelCount)
  /\ Header("leaves") <= MaximumNodeCount(LevelCount)
  /\ bitsEnd = Header("payloadBits")

\* require_offset and checked_add for the sections whose sizes are known.
FirstSectionsOk ==
  /\ Header("rawMasks") = HeaderSize
  /\ Fits(Header("rawMasks") + masksEnd)
  /\ Header("rawRanks") = Header("rawMasks") + masksEnd
  /\ Fits(Header("rawRanks") + RawRankSize)
  /\ Header("models") = Header("rawRanks") + RawRankSize
  /\ Fits(Header("models") + ModelSize)
  /\ Header("groupBits") = Header("models") + ModelSize

CheckFirstSections ==
  /\ pc = "directory" /\ level = LevelCount
  /\ Proceed(TotalsOk /\ FirstSectionsOk, "levels")
  /\ level' = 0
  /\ cursor' = [s \in Cursors |-> Header(s)]
  /\ UNCHANGED <<file, masksEnd, bitsEnd, place>>

\* The sections a level has a place in.
SectionsOf(l) ==
  IF l \in RawLevels THEN {"rawMasks", "rawRanks"}
  ELSE {"models", "groupBits", "blockLengths"}
       \cup (IF HasChildRanks(l) THEN {"groupRanks", "blockKids"} ELSE {})

\* Where the engine will look for a level in a section.
PlaceOf(l, s) ==
  IF s \notin SectionsOf(l) THEN NoOffset
  ELSE IF s = "rawMasks" THEN Header("rawMasks") + Entry(l, "start")
  ELSE IF s = "models" THEN Header("models") + (l - RawLevelCount) * LevelModelSize
  ELSE cursor[s]

\* Mutant: the sums of the walk are not checked.
PlaceFitsUnchecked(l) == TRUE

PlaceFits(l) ==
  /\ l \in RawLevels => Fits(Header("rawMasks") + Entry(l, "start"))
  /\ l \in HuffmanLevels =>
       /\ Fits(PackedBits(BlockCount(Nodes(l)), Entry(l, "lengthWidth")))
       /\ HasChildRanks(l) =>
            Fits(PackedBits(BlockCount(Nodes(l)), Entry(l, "childWidth")))
  /\ \A s \in Cursors \cap SectionsOf(l) : Fits(cursor[s] + Bytes(l, s))

PlaceLevel ==
  /\ pc = "levels" /\ level < LevelCount
  /\ Proceed(PlaceFits(level), "levels")
  /\ IF PlaceFits(level)
     THEN /\ place' = [place EXCEPT ![level] = [s \in Sections |-> PlaceOf(level, s)]]
          /\ cursor' = [s \in Cursors |-> cursor[s] + Bytes(level, s)]
     ELSE UNCHANGED <<place, cursor>>
  /\ level' = level + 1
  /\ UNCHANGED <<file, masksEnd, bitsEnd>>

\* Mutant: where the child counts of the blocks end is not compared.
LastSectionsOkOpenEnd ==
  /\ Header("groupRanks") = cursor["groupBits"]
  /\ Header("blockLengths") = cursor["groupRanks"]
  /\ Header("blockKids") = cursor["blockLengths"]
  /\ Fits(Header("payload") + CeilDiv(Header("payloadBits"), ByteBits))
  /\ Header("fileSize") = Header("payload") + CeilDiv(Header("payloadBits"), ByteBits)

\* The offsets the walk started from are the ones it arrived at.
LastSectionsOk ==
  /\ Header("groupRanks") = cursor["groupBits"]
  /\ Header("blockLengths") = cursor["groupRanks"]
  /\ Header("blockKids") = cursor["blockLengths"]
  /\ Header("payload") = cursor["blockKids"]
  /\ Fits(Header("payload") + CeilDiv(Header("payloadBits"), ByteBits))
  /\ Header("fileSize") = Header("payload") + CeilDiv(Header("payloadBits"), ByteBits)

CheckLastSections ==
  /\ pc = "levels" /\ level = LevelCount
  /\ Proceed(LastSectionsOk, "located")
  /\ UNCHANGED <<file, level, masksEnd, bitsEnd, cursor, place>>

Next ==
  \/ Open
  \/ CheckEntry
  \/ CheckFirstSections
  \/ PlaceLevel
  \/ CheckLastSections

Spec == Init /\ [][Next]_vars

-----------------------------------------------------------------------------
(* Properties *)

\* What the engine has read of the directory once the walk has passed it.
ReadDirectory ==
  [leaves      |-> Header("leaves"),
   terminal    |-> Header("terminal"),
   nodes       |-> [l \in Levels |-> Nodes(l)],
   bits        |-> [l \in HuffmanLevels |-> Entry(l, "length")],
   lengthWidth |-> [l \in HuffmanLevels |-> Entry(l, "lengthWidth")],
   childWidth  |-> [l \in HuffmanLevels |-> Entry(l, "childWidth")]]

\* Every cursor and every place is an offset that a usize can hold.
TypeOK ==
  /\ file \in Files
  /\ pc \in {"open", "directory", "levels", "located", "rejected"}
  /\ level \in 0..LevelCount
  /\ masksEnd \in Nat /\ bitsEnd \in Nat
  /\ cursor \in [Cursors -> 0..MaxUsize]
  /\ place \in [Levels -> [Sections -> 0..MaxUsize]]

\* The levels before l that have a place in section s, and where they end.
Holders(l, s) == {k \in 0..(l - 1) : s \in SectionsOf(k)}
EndBefore(l, s) ==
  IF Holders(l, s) = {} THEN Header(s)
  ELSE LET last == Max(Holders(l, s)) IN place[last][s] + Bytes(last, s)

NextSection ==
  [rawMasks |-> "rawRanks", rawRanks |-> "models", models |-> "groupBits",
   groupBits |-> "groupRanks", groupRanks |-> "blockLengths",
   blockLengths |-> "blockKids", blockKids |-> "payload"]

\* Once the sections are located they tile the file: the first begins at the
\* end of the header; in each section the first level begins where the header
\* says, each level where the one before ends, and the last level ends where
\* the next section begins; the payload ends the file.  The code reads the
\* sections without further bounds checks.
SectionsTile ==
  pc = "located" =>
    /\ Header("rawMasks") = HeaderSize
    /\ \A s \in Sections :
         /\ \A l \in Levels : s \in SectionsOf(l) => place[l][s] = EndBefore(l, s)
         /\ EndBefore(LevelCount, s) = Header(NextSection[s])
    /\ file.size = Header("payload") + CeilDiv(Header("payloadBits"), ByteBits)

EncoderOutput == {EncodedFile(d) : d \in {x \in Directories : Encodable(x)}}

\* The header is canonical: a file the engine locates is, byte for byte of its
\* header, the one the encoder writes for the same directory, and the engine
\* looks for every level where the encoder put it.  Conversely no file the
\* encoder writes is refused, by a check or by an overflow.
LocatedAsEncoded ==
  /\ pc = "located" =>
       LET d == ReadDirectory
       IN  /\ Encodable(d) /\ file = EncodedFile(d)
           /\ \A l \in Levels : \A s \in SectionsOf(l) :
                place[l][s] = Start(d, s) + Before(d, l, s)
  /\ pc = "rejected" => file \notin EncoderOutput
=============================================================================
