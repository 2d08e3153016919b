---------------------------- MODULE PackedFields ----------------------------
(***************************************************************************)
(* The four bit-level encodings of an S2PD file, as the encoder writes     *)
(* them (cli/src/topology_database.rs) and the engine reads them           *)
(* (core/src/topology.rs):                                                 *)
(*   "packed"  arrays of equally wide values, lowest bit first             *)
(*             (pack_values, read_packed);                                 *)
(*   "masks"   two masks in a byte (append_packed_masks, raw_mask);        *)
(*   "u24"     three-byte fields (pack_u24, read_u24);                     *)
(*   "payload" a stream of codes, highest bit first (BitWriter,            *)
(*             read_payload_bits).                                         *)
(*                                                                         *)
(* Bytes are represented by the positions of their one bits: position      *)
(* b * ByteBits + k is bit k of byte b, bit 0 the least significant.  A    *)
(* behaviour writes one section value by value, puts it into a file among  *)
(* other sections, and may then change one bit of it on its way to the     *)
(* engine.                                                                 *)
(***************************************************************************)
EXTENDS TopologyFormat, FiniteSetsExt, Sequences

CONSTANTS
  ByteBits,      \* bits of a byte
  WindowBytes,   \* read_packed assembles at most this many bytes (a u32)
  ChunkBytes,    \* raw_mask_and_rank counts this many bytes at once (a u64)
  Inputs         \* the sections to write: [kind, values, widths]

\* Two masks fill a byte, and a raw checkpoint starts at a byte.
ASSUME PackingAssumption ==
  /\ Fanout \in Nat \ {0} /\ ByteBits = 2 * Fanout
  /\ RawRankInterval % 2 = 0
  /\ WindowBytes \in Nat \ {0} /\ ChunkBytes \in Nat \ {0}

\* A value may start at any bit of the window's first byte, and three bytes
\* hold the largest index.
ASSUME WidthsAssumption ==
  /\ MaxLengthWidth + ByteBits - 1 <= WindowBytes * ByteBits
  /\ MaxU24 < 2 ^ (3 * ByteBits)

\* What callers hand over: packed arrays within the width limit that
\* EncodedHuffmanLevel::new checks, masks, indexes of any size, and codes
\* with their lengths.
ASSUME InputsAssumption ==
  \A in \in Inputs :
    /\ in.kind \in {"packed", "masks", "u24", "payload"}
    /\ in.values \in Seq(Nat)
    /\ in.kind = "packed" => \A i \in DOMAIN in.values : in.values[i] < 2 ^ MaxLengthWidth
    /\ in.kind = "masks" => \A i \in DOMAIN in.values : in.values[i] < SymbolCount
    /\ in.kind = "payload" =>
         /\ in.widths \in Seq(Nat) /\ Len(in.widths) = Len(in.values)
         /\ \A i \in DOMAIN in.values : in.values[i] < 2 ^ in.widths[i]

VARIABLES
  input,       \* the values to write
  written,     \* how many are written
  section,     \* one bits of the section's bytes
  byteLength,  \* the section's length in bytes
  bitLength,   \* bit_length of the payload
  stage,       \* "write", "refused", "placed" or "damaged"
  offset,      \* byte offset of the section in the file
  file         \* one bits of the file

fieldVars == <<input, written, section, byteLength, bitLength, stage, offset, file>>

Count == Len(input.values)
ValueAt(i) == input.values[i + 1]
Bit(byte, k) == byte * ByteBits + k
BitsOf(value, width) == {k \in 0..(width - 1) : (value \div 2 ^ k) % 2 = 1}

-----------------------------------------------------------------------------
(* Writing *)

\* The encoder takes the width of the largest value, or of zero.
PackedWidth(values) == RequiredWidth(Max({0} \cup {values[i] : i \in DOMAIN values}))

PackedBits(i, width, value) == {i * width + k : k \in BitsOf(value, width)}

MaskBits(i, mask) ==
  {Bit(i \div 2, Fanout * (i % 2) + k) : k \in BitsOf(mask, Fanout)}

U24Bits(i, value) == {Bit(3 * i, k) : k \in BitsOf(value, 3 * ByteBits)}

\* Where bit t of the stream is: bytes fill from their most significant bit.
StreamBit(t) == Bit(t \div ByteBits, (ByteBits - 1) - (t % ByteBits))

CodeBits(at, value, width) ==
  {StreamBit(at + width - 1 - k) : k \in BitsOf(value, width)}

FieldsInit ==
  /\ input \in Inputs
  /\ written = 0
  /\ section = {}
  /\ byteLength = IF input.kind = "packed"
                  THEN CeilDiv(Count * PackedWidth(input.values), ByteBits)
                  ELSE 0
  /\ bitLength = 0
  /\ stage = "write"
  /\ offset = 0
  /\ file = {}

Writing(kind) == stage = "write" /\ input.kind = kind /\ written < Count

\* One iteration of pack_values, whose width is always a RequiredWidth.
PackValue ==
  /\ Writing("packed")
  /\ LET width == PackedWidth(input.values)
         value == ValueAt(written)
     IN  IF value < 2 ^ width
         THEN /\ section' = section \cup PackedBits(written, width, value)
              /\ written' = written + 1
              /\ stage' = stage
         ELSE /\ stage' = "refused"
              /\ UNCHANGED <<section, written>>
  /\ UNCHANGED <<input, byteLength, bitLength, offset, file>>

\* One pair of append_packed_masks; the last pair may lack its second mask.
PushMaskPair ==
  /\ Writing("masks")
  /\ LET pair == {i \in {written, written + 1} : i < Count}
     IN  /\ section' = section \cup UNION {MaskBits(i, ValueAt(i)) : i \in pair}
         /\ written' = written + Cardinality(pair)
  /\ byteLength' = byteLength + 1
  /\ UNCHANGED <<input, bitLength, stage, offset, file>>

U24Fits(value) == value <= MaxU24

\* append_u24.
AppendU24 ==
  /\ Writing("u24")
  /\ IF U24Fits(ValueAt(written))
     THEN /\ section' = section \cup U24Bits(written, ValueAt(written))
          /\ byteLength' = byteLength + 3
          /\ written' = written + 1
          /\ stage' = stage
     ELSE /\ stage' = "refused"
          /\ UNCHANGED <<section, byteLength, written>>
  /\ UNCHANGED <<input, bitLength, offset, file>>

\* BitWriter::write; a code is at most MAX_CODE_LENGTH bits and fits a u16.
WriteCode ==
  /\ Writing("payload")
  /\ LET width == input.widths[written + 1]
     IN  /\ section' =
              section \cup CodeBits(bitLength, ValueAt(written), width)
         /\ bitLength' = bitLength + width
         /\ byteLength' = CeilDiv(bitLength + width, ByteBits)
  /\ written' = written + 1
  /\ UNCHANGED <<input, stage, offset, file>>

AllBits(bytes) == {Bit(b, k) : b \in bytes, k \in 0..(ByteBits - 1)}

\* The section is copied behind `before` bytes of earlier sections; later ones
\* follow, except behind the payload, which ends the file.  The bytes of other
\* sections are all zero or all one.
Assemble ==
  /\ stage = "write" /\ written = Count
  /\ \E before \in 0..1, ones \in BOOLEAN :
       LET after == before + byteLength
           last == IF input.kind = "payload" THEN after ELSE after + WindowBytes
           others == IF ones
                     THEN AllBits((0..(before - 1)) \cup (after..(last - 1)))
                     ELSE {}
       IN  /\ offset' = before
           /\ file' = others \cup {Bit(before, k) : k \in section}
  /\ stage' = "placed"
  /\ UNCHANGED <<input, written, section, byteLength, bitLength>>

\* One bit of the section changes before the engine reads it.
Damage ==
  /\ stage = "placed"
  /\ \E k \in AllBits(offset..(offset + byteLength - 1)) :
       file' = (file \ {k}) \cup ({k} \ file)
  /\ stage' = "damaged"
  /\ UNCHANGED <<input, written, section, byteLength, bitLength, offset>>

FieldsNext ==
  \/ PackValue \/ PushMaskPair \/ AppendU24 \/ WriteCode
  \/ Assemble \/ Damage

FieldsSpec == FieldsInit /\ [][FieldsNext]_fieldVars

-----------------------------------------------------------------------------
(* Reading.  A value that is read is the set of its one bits. *)

\* Mutant: the window is two bytes, too few for a value that starts late in one.
ReadPackedNarrow(at, byteCount, i, width) ==
  LET first == (i * width) \div ByteBits
      shift == (i * width) % ByteBits
      available == Min({byteCount - first, 2})
  IN  {k \in 0..(width - 1) :
         k + shift < available * ByteBits /\ Bit(at + first, k + shift) \in file}

\* read_packed: a window of bytes, cut at the end of the array.
ReadPacked(at, byteCount, i, width) ==
  LET first == (i * width) \div ByteBits
      shift == (i * width) % ByteBits
      available == Min({byteCount - first, WindowBytes})
  IN  {k \in 0..(width - 1) :
         k + shift < available * ByteBits /\ Bit(at + first, k + shift) \in file}

RawMask(at, i) ==
  {k \in 0..(Fanout - 1) : Bit(at + i \div 2, Fanout * (i % 2) + k) \in file}

ReadU24(at) == {k \in 0..(3 * ByteBits - 1) : Bit(at, k) \in file}

\* read_payload_bits from stream position t; the first bit is the highest.
ReadPayloadBits(at, t, width) ==
  {k \in 0..(width - 1) : Bit(at, StreamBit(t + width - 1 - k)) \in file}

OnesIn(at, bytes) == Cardinality({k \in AllBits({at + b : b \in bytes}) : k \in file})

\* Mutant: the remainder of the chunks is not counted.
RankSinceCheckpointChunksOnly(at, i) ==
  LET start == CheckpointStartOf(CheckpointOf(i)) \div 2
      end == i \div 2
      chunks == (end - start) \div ChunkBytes
  IN  OnesIn(at, start..(start + chunks * ChunkBytes - 1))
        + IF i % 2 = 0 THEN 0
          ELSE Cardinality({k \in 0..(Fanout - 1) : Bit(at + end, k) \in file})

\* raw_mask_and_rank: children of the masks between a node's checkpoint and the
\* node, counted in whole chunks, then in bytes, then in the half byte.
RankSinceCheckpoint(at, i) ==
  LET start == CheckpointStartOf(CheckpointOf(i)) \div 2
      end == i \div 2
      chunks == (end - start) \div ChunkBytes
      chunked == start + chunks * ChunkBytes
      inChunk == [c \in 0..(chunks - 1) |->
                    OnesIn(at, (start + c * ChunkBytes)..(start + (c + 1) * ChunkBytes - 1))]
  IN  SetSum(inChunk, DOMAIN inChunk)
        + OnesIn(at, chunked..(end - 1))
        + IF i % 2 = 0 THEN 0
          ELSE Cardinality({k \in 0..(Fanout - 1) : Bit(at + end, k) \in file})

\* The three checks of unused bits.
PackedPaddingClear(at, byteCount, count, width) ==
  LET used == (count * width) % ByteBits
  IN  used = 0 \/ \A k \in used..(ByteBits - 1) : Bit(at + byteCount - 1, k) \notin file

MaskPaddingClear(at, byteCount, count) ==
  count % 2 = 0 \/ \A k \in Fanout..(ByteBits - 1) : Bit(at + byteCount - 1, k) \notin file

\* Mutant: the mask of the padding bits is taken from the other end.
PayloadPaddingClearHigh(at, bits) ==
  LET used == bits % ByteBits
  IN  used = 0 \/ \A k \in used..(ByteBits - 1) : Bit(at + bits \div ByteBits, k) \notin file

PayloadPaddingClear(at, bits) ==
  LET used == bits % ByteBits
  IN  used = 0 \/ \A k \in 0..(ByteBits - used - 1) : Bit(at + bits \div ByteBits, k) \notin file

-----------------------------------------------------------------------------
(* Properties *)

Powers == [k \in Nat |-> 2 ^ k]
Number(bits) == SetSum(Powers, bits)

Width == PackedWidth(input.values)

\* Where in the stream the i-th code begins.
CodeStart(i) == PrefixSum([j \in 0..(Count - 1) |-> input.widths[j + 1]], i)

\* The value of the file that the engine reads as the i-th of the section.
ReadAt(i) ==
  CASE input.kind = "packed"  -> ReadPacked(offset, byteLength, i, Width)
    [] input.kind = "masks"   -> RawMask(offset, i)
    [] input.kind = "u24"     -> ReadU24(offset + 3 * i)
    [] input.kind = "payload" ->
         ReadPayloadBits(offset, CodeStart(i), input.widths[i + 1])

PaddingClear ==
  CASE input.kind = "packed"  -> PackedPaddingClear(offset, byteLength, Count, Width)
    [] input.kind = "masks"   -> MaskPaddingClear(offset, byteLength, Count)
    [] input.kind = "u24"     -> TRUE
    [] input.kind = "payload" -> PayloadPaddingClear(offset, bitLength)

\* The bits that the encoder sets for a value at the i-th place.
Places(i, value) ==
  CASE input.kind = "packed"  -> PackedBits(i, Width, value)
    [] input.kind = "masks"   -> MaskBits(i, value)
    [] input.kind = "u24"     -> U24Bits(i, value)
    [] input.kind = "payload" ->
         CodeBits(CodeStart(i), value, input.widths[i + 1])

Indexes == 0..(Count - 1)

\* Only a three-byte value beyond MAX_U24 stops the encoder.  Every other value
\* and code comes back from where it was written, whatever surrounds its section
\* and in whichever bytes it begins and ends: read_packed of pack_values, raw_mask
\* of append_packed_masks, read_u24 of append_u24, and read_payload_bits of
\* BitWriter::write.
WrittenReadBack ==
  /\ stage = "refused" => input.kind = "u24" /\ ValueAt(written) > MaxU24
  /\ stage = "placed" => \A i \in Indexes : Number(ReadAt(i)) = ValueAt(i)

\* Counting bits of chunks, bytes and half a byte gives the children of the
\* masks since the checkpoint (raw_mask_and_rank).
RanksCounted ==
  stage = "placed" /\ input.kind = "masks" =>
    \A i \in Indexes :
      RankSinceCheckpoint(offset, i) =
        SetSum([j \in Indexes |-> Cardinality(RawMask(offset, j))],
               CheckpointStartOf(CheckpointOf(i))..(i - 1))

\* Two sections that are both accepted and read alike are the same bytes: no
\* bit can change unseen, since a changed bit is refused as padding or read.
ContentDecidesBytes ==
  stage \in {"placed", "damaged"} /\ PaddingClear =>
    {k \in AllBits(0..(byteLength - 1)) : Bit(offset, k) \in file} =
      UNION {Places(i, Number(ReadAt(i))) : i \in Indexes}
=============================================================================
