--------------------------- MODULE TopologyHeader ---------------------------
(***************************************************************************)
(* The header of an S2PD file, byte for byte: where topology_format.rs     *)
(* puts each field, how the encoder writes it (write_u16 and               *)
(* write_u32_checked of cli/src/topology_database.rs) and how the engine   *)
(* reads it back (read_u16, read_u24 and read_u32 of core/src/topology.rs).*)
(*                                                                         *)
(* A header is a function from byte positions to bytes.  A byte holds      *)
(* ByteBits bits; the code's bytes hold eight.                             *)
(***************************************************************************)
EXTENDS TopologyFormat

CONSTANTS
  ByteBits,          \* bits of a byte
  ByteBase,          \* values of a byte
  Magic,             \* MAGIC, as a little-endian number
  Version,           \* VERSION
  MaxDatabaseLevel,  \* MAX_DB_LEVEL
  ContextSize        \* CONTEXT_SIZE: bytes of one serialized context

ASSUME HeaderAssumption ==
  /\ ByteBits \in Nat \ {0}
  /\ ByteBase \in Nat \ {0} /\ ByteBase = 2 ^ ByteBits
  /\ ContextSize \in Nat \ {0}
  /\ SymbolCount \in Nat \ {0}

ASSUME IdentityAssumption ==
  Magic \in Nat /\ Version \in Nat /\ MaxDatabaseLevel \in Nat

U16 == 2
U24 == 3
U32 == 4

\* The number of values of a 32-bit field.
U32Values == ByteBase * (ByteBase * (ByteBase * ByteBase))

FixedHeaderSize == 64
LevelEntrySize == 16
HeaderSize == FixedHeaderSize + LevelCount * LevelEntrySize
LevelModelSize == SymbolCount * ContextSize

-----------------------------------------------------------------------------
(* Fields: the position of the first byte and the number of bytes *)

Located(at, width) == [at |-> at, width |-> width]

FixedField ==
  [magic            |-> Located(0, 4),
   version          |-> Located(4, U16),
   headerSize       |-> Located(6, U16),
   fileSize         |-> Located(8, U32),
   payloadBits      |-> Located(12, U32),
   rawMasks         |-> Located(16, U32),
   rawRanks         |-> Located(20, U32),
   models           |-> Located(24, U32),
   groupBits        |-> Located(28, U32),
   groupRanks       |-> Located(32, U32),
   blockLengths     |-> Located(36, U32),
   blockKids        |-> Located(40, U32),
   payload          |-> Located(44, U32),
   restartInterval  |-> Located(48, U16),
   rawRankInterval  |-> Located(50, U16),
   levelCount       |-> Located(52, 1),
   rawLevelCount    |-> Located(53, 1),
   maxDatabaseLevel |-> Located(54, 1),
   blocksPerGroup   |-> Located(55, 1),
   leaves           |-> Located(56, U32),
   terminal         |-> Located(60, U32)]

EntryField ==
  [nodes       |-> Located(0, U32),
   start       |-> Located(4, U32),
   length      |-> Located(8, U32),
   encoding    |-> Located(12, 1),
   lengthWidth |-> Located(13, 1),
   childWidth  |-> Located(14, 1),
   flags       |-> Located(15, 1)]

EntryAt(l, field) ==
  Located(FixedHeaderSize + l * LevelEntrySize + field.at, field.width)

EncodingRaw == 0
EncodingHuffman == 1
ChildRankFlag == 1

-----------------------------------------------------------------------------
(* Reading *)

ReadU16(bytes, at) == bytes[at] + ByteBase * bytes[at + 1]
ReadU24(bytes, at) == bytes[at] + ByteBase * ReadU16(bytes, at + 1)
ReadU32(bytes, at) == bytes[at] + ByteBase * ReadU24(bytes, at + 1)

Field(bytes, f) ==
  CASE f.width = 1 -> bytes[f.at]
    [] f.width = 2 -> ReadU16(bytes, f.at)
    [] OTHER -> ReadU32(bytes, f.at)

Fixed(bytes, name) == Field(bytes, FixedField[name])
EntryValue(bytes, l, name) == Field(bytes, EntryAt(l, EntryField[name]))

-----------------------------------------------------------------------------
(* Writing *)

\* The encoder refuses a value that its field cannot hold.
FitsField(f, value) == value < 2 ^ (ByteBits * f.width)

Span(f) == f.at..(f.at + f.width - 1)

\* Byte n of a little-endian number.
ByteOf(value, n) == (value \div 2 ^ (ByteBits * n)) % ByteBase

\* The fields are disjoint, so that the order of the writes does not matter.
WrittenFields(bytes, fields, values) ==
  [p \in DOMAIN bytes |->
     IF \E name \in DOMAIN fields : p \in Span(fields[name])
     THEN LET name == CHOOSE x \in DOMAIN fields : p \in Span(fields[x])
          IN  ByteOf(values[name], p - fields[name].at)
     ELSE bytes[p]]

EntryFields ==
  [x \in Levels \X DOMAIN EntryField |-> EntryAt(x[1], EntryField[x[2]])]

WrittenHeader(fixed, entry) ==
  WrittenFields(
    WrittenFields([p \in 0..(HeaderSize - 1) |-> 0], FixedField, fixed),
    EntryFields, [x \in DOMAIN EntryFields |-> entry[x[1]][x[2]]])
=============================================================================
