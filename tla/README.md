# Formal models of the population density database

This directory holds TLA+ models of the Rust workspace that builds and queries the
S2 population density database (S2PD): the topology format down to its bits, the
constructors that validate a mapped file, the queries, the encoder, and the builder
from the source GeoTIFF to the published file. TLC checks the models on small
instances; TLAPS proves the central results for every instance.

## 1. The system

Paths are below `core/src/` (the library) and `cli/src/` (the tools).

| Component | Code | State it keeps | Operations |
|---|---|---|---|
| Topology format | `core/src/topology_format.rs` | none, the constants of the format | masks, restart blocks and groups, packed widths, canonical tables |
| Engine construction | `core/src/topology.rs` 71-920 | the level layouts, loop variables of the validators | `from_mmap`, `from_verified_mmap` |
| Queries | `core/src/topology.rs` 381-452, 938-1130 | locals of a call only; the mapping is immutable | `query`, `reconstruct_all_leaves`, `mask_and_rank`, `decode_symbol` |
| Engine facade | `core/src/lib.rs` 151-210 | owns the mapping | `open`, `from_mmap`, `from_verified_mmap`, `query`, `count` |
| S2 cell ids | `core/src/lib.rs` 45-149 | none | level, ancestor, parent, children |
| Huffman models | `cli/src/topology_database.rs` 86-244 | symbol counts, code lengths, code words | `ContextModel::new`, `append_serialized`, `BitWriter` |
| Encoder | `cli/src/topology_database.rs` 20-84, 246-575, 614-744 | the levels' nodes and masks, the encoded levels | `encode_topology_database` |
| Publication | `cli/src/topology_database.rs` 577-612, `cli/src/lib.rs` 15-38 | files and names of the output directory | write a temporary file, rename, read back |
| Pixel aggregation | `cli/src/bin/build_database.rs` 371-382, 464-497, `cli/src/lib.rs` 26-69 | one map per rayon segment | fold a row, merge two maps |
| Propagation and pruning | `cli/src/bin/build_database.rs` 388-412, 512-555, `cli/src/quadtree.rs` | the map of all populations, the leaves | add a level up, walk a face |
| Source staging | `cli/src/bin/build_database.rs` 106-153, 295-369 | a private snapshot of the GeoTIFF | copy with digest, check metadata |
| GeoTIFF preparation | `cli/src/geotiff.rs` | a temporary directory | run `tiffcp` |
| Builder | `cli/src/bin/build_database.rs` 415-591 | the temporary directories, the leaves | stage, decode, aggregate, prune, publish, compare |
| Verifier | `cli/src/bin/verify_database.rs` | two engines, the vector of leaves | re-encode and compare, query every cell |
| Inspection, benchmark | `cli/src/bin/inspect_levels.rs`, `benchmark.rs` | none | print; derive queries from stored cells |

How they interact: the builder copies the source into a private directory, checks and
converts the copy, aggregates its pixels into level-12 cells, adds the populations up
to the faces, prunes to leaves, encodes the leaves and publishes the file by a rename,
then reads the published path back. Readers map the path and construct an engine; the
engine and the builder share nothing but the file. The verifier runs both constructors
on one snapshot and compares every query with an oracle of its own.

What makes each part correct:

- *Construction*: the located sections tile the file; whatever full validation accepts
  has restart indexes that equal a scan from the start of each level, and levels that
  link to each other; the preverified constructor never rejects such a file.
- *Queries*: random access agrees with the scan, stays within the level, and a query
  answers with the deepest ancestor; reconstruction lists the leaves once, in order.
- *Bits and bytes*: what a packed section or the header holds is what was written,
  whatever surrounds it, and no bit of an accepted file is without meaning.
- *Huffman models*: a canonical table decodes what was encoded, is optimal, and the
  reader accepts it; an accepted table never leaves a bit string undecoded.
- *Encoder*: its output passes full validation and reconstructs to its input.
- *S2 cell ids*: shifts and masks agree with the paths of cells; lists of leaves are
  refused exactly if they are not sorted and disjoint.
- *Aggregation*: the outcome, error or map, does not depend on the schedule.
- *Pruning*: totals are sums; leaves partition what the encoder accepts, as deep as
  the threshold allows.
- *Staging*: only pixels of the pinned source are decoded, whatever happens to the path
  meanwhile; every directory is removed by the run that made it, unless the run is killed
  or the removal fails.
- *Publication*: a reader sees a whole old or new file, mapped bytes never change,
  failed builders leave nothing behind, a comparison fails for a cause.
- *Verifier*: no false alarm, and no false pass of an exhaustive run.

What is hard here is less concurrency than **agreement of computations made far
apart**: a rank stored by the encoder, checked by the full validator, checked again
by other code in the preverified constructor, and trusted by the query without a
check. Real interleavings are in three places: rayon's folds and merges, several
processes around one database path, and the owner of the source file, who may change
it while it is copied. PROJECT.json lists the hazards by line with the properties aimed
at them.

## 2. The modules

| Module | Models | Kind |
|---|---|---|
| `PrefixSums` | running totals and sums over finite sets | operators |
| `TopologyFormat` | format constants, masks, blocks, canonical Huffman tables, reading the payload | operators |
| `TopologyHeader` | the header byte for byte, written and read | operators |
| `EncodedLayout` | where the encoder puts every level of every section | operators |
| `TopologyLayout` | how the engine locates the sections | state machine |
| `PackedFields` | the four bit-level encodings, written and read | state machine |
| `TopologyValidation` | both constructors behind the layout, one action per check or loop turn | state machine |
| `CellTree` | cells as paths: ancestors, leaf sets, order | operators |
| `S2Cell` | cells as 64-bit and compact identifiers | operators |
| `CompactLeaves` | lists of identifiers, and queries by identifier | state machine |
| `DensityIndex` | what an engine promises | abstract specification |
| `TopologyLookup` | query and reconstruction on a constructed engine; EXTENDS `TopologyValidation`, implements `DensityIndex` | state machine |
| `HuffmanModel` | the encoder's Huffman construction | operators |
| `ContextModel` | a context is counted, its table written, and damaged | state machine |
| `TopologyEncoder` | from leaves to a database | operators |
| `MCTopologyData` | the leaf sets, the databases written for them and the damaged ones | instances |
| `Aggregation` | parallel aggregation of pixels | state machine |
| `PrunedTree` | propagation and pruning (`TreeSpec`) | state machine |
| `SourceStaging` | runs of the builder up to the decoded image, against the owner of the source | state machine |
| `Publication` | what the database path promises its users | abstract specification |
| `DatabaseFile` | builders, readers, the file system, kills and crashes; implements `Publication` | state machine |
| `BuildPipeline` | EXTENDS `SourceStaging` with the computation, and takes the path's reads from `Publication` (`PipelineSpec`) | state machine |
| `VerifyDatabase` | the verification tool and its oracle | state machine |
| `MC...` | constants of the runs | instances |
| `Foundations_proof` | least numbers, running totals, finite sums, quotients, powers of two, the order of cells, the lengths of prefix codes | proofs |
| `DensityMap_proof` | theorems of `Aggregation` and `PrunedTree` | proofs |
| `TopologyLookup_proof` | theorems of `TopologyValidation` and `TopologyLookup` | proofs |
| `Encodings_proof` | theorems of `CompactLeaves` and `PackedFields` | proofs |
| `TopologyLayout_proof` | theorems of `TopologyLayout` and of `ContextModel`, whose tables a file carries | proofs |
| other `..._proof` | theorems of the module named | proofs |

### State and actions against the code

*TopologyLayout, TopologyHeader, EncodedLayout.* `TopologyLayout` is the first half of
`from_mmap_with_validation` and `from_mmap_with_layout`: `Open` reads the fixed header,
`CheckEntry` is one turn of the directory loop, `CheckFirstSections` the totals and the
sections whose sizes are then known, `PlaceLevel` one turn of the loop that gives every
level its place (`place` is `LevelLayout`, `cursor` the five running offsets), and
`CheckLastSections` compares where the cursors arrived. A checked addition that
overflows a usize leads to "rejected". A header is a function from positions to bytes,
written by division and read by multiplication as in the code. `EncodedLayout` lays the
same sections out as the encoder does, by appending to buffers.

*PackedFields.* One behaviour writes one section with the encoder's loop (`PackValue`,
`PushMaskPair`, `AppendU24`, `WriteCode`), `Assemble` puts it among other bytes,
`Damage` changes a bit. The readers are operators on the file: `ReadPacked` with its
window of four bytes, `RawMask`, `ReadU24`, `ReadPayloadBits`, `RankSinceCheckpoint`
with its chunks of eight bytes, and the three checks of unused bits.

*TopologyValidation.* The variables are the locals of
`from_mmap_with_validation` and of the four loops it calls
(`validate_raw_level`, `validate_huffman_level`, `validate_huffman_indexes`,
`decode_symbol_checked`), with `pc` for the loop that runs. A failed check is
`Proceed(ok, next)` with `ok` false, which leads to "rejected". A database is a
record of what the bytes say: the level directory, masks, checkpoints, group and
block indexes, the models, and the payload as a function from bit offset to bit.
Two Booleans stand for the header fields (`header`) and the section offsets
(`layout`), which `TopologyLayout` models in full, and `padding` names the packed
regions with nonzero unused bits, which `PackedFields` does. The variable `db` holds
the database that is mapped, and no step changes it. `scannedMask`, `scannedRank` and
`scannedStart` are history: what a decoder that starts at the level's first mask has
seen. No action reads them.

*TopologyLookup.* `task` is the public call, `step` the position inside
`mask_and_rank`, `call` its arguments; every turn of its loops is an action. The
recursion of `reconstruct_node` is the stack `todo`. A lookup needs `accepted`:
`from_verified_mmap` is documented for bytes that passed full validation, and the
model holds it to that.

*S2Cell, CompactLeaves.* Identifiers are numbers, with the number of levels and face
bits as constants; wrapping negation, shifts and masks are division, remainder and
powers of two. `ReadLeaf` is one turn of `validate_compact_leaves`, `EndLeaves` the
checks after it, `Ask` a query of a caller, `AskDescendant` and `AskGlobal` those of the
benchmark, and `Miss`, `Arrive` and `Descend` the three ways through the query loop. The
verifier's oracle is `ReferenceAnswer`.

*HuffmanModel, ContextModel.* `ContextModel::new` is a function of the transition
counts. In `ContextModel` a context is counted one pair of masks at a time
(`CountTransition`), its table written (`WriteModel`), and then any field of the table
replaced (`SetFlag`, `SetCount`, `SetSymbol`), so that every table a file can hold is
reached.

*TopologyEncoder.* One function `Encode` from a sorted sequence of leaf cells to
the record `TopologyValidation` reads.

*Aggregation.* A segment is a range of pixels with the map of the thread that folds
it. `Split` is rayon's division of a range not yet begun, `FoldPixel` one turn of
the pixel loop, `Merge` one `try_reduce` call, and the first error ends everything.

*PrunedTree.* `PropagateCell` is one turn of the inner loop of step 2, `FindLeaves`
one call of `find_leaves`, `FinishFace` one turn of `extract_pruned_leaves`.

*SourceStaging.* `stage[b]` is where `main` of run `b` is, from `OpenSource` to
`Decode`. `CopyBuffer` is one turn of `copy_and_calculate_sha256`, with the bytes hashed
and the bytes written as separate state; `Seal` is its end with the comparison of the
digest and the permission change. `Convert` lets `tiffcp` leave any file behind and
succeed or fail. `Leave` is any error or the end of `main`; `DropPrepared` and
`DropSnapshot` are the destructors in their order, and a removal that fails leaves the
directory behind without a word; `Kill` drops nothing. `Rewrite` and
`Replace` are the owner of the source path. SHA-256 is assumed free of collisions.

*DatabaseFile.* Inodes, the name, temporary names, and what the disk has of them:
`WriteBack` and `WriteBackDirectory` happen in any order since nothing is synced before
the rename, and `Crash` returns to what the disk holds. Every operation of a builder may
fail (`AbandonTemporary`, `FailReadBack`), and a builder may be killed; a temporary file
that the failing builder cannot unlink is left in the same state as by a kill while it
writes. `OpenBack`,
`ReadChunk` and `Compare` are `open_database_snapshot` and the comparison at the end of
`main`. A reader maps, validates through the mapping, and drops.

*BuildPipeline.* It extends `SourceStaging` for the front of `main` and instantiates
`Publication` for the path. `Compute`, `Publish`, `ReadBack` and `Compare` are steps 1
to 5 of `main`; both temporary directories live until it returns. The density map is a
function of the decoded image, which `Aggregation` and `PrunedTree` justify, and the path
changes in one step, which the refinement proof of `DatabaseFile` justifies.

*VerifyDatabase.* `CompareLeaves`, `VerifyCanonicalEncoding` and `BuildOracle` are the
steps of `main`; `Ask(f)` is one turn of the loop over the cells of face `f`, with the
insertion index that moves forward only, and `FinishLevel` collects the faces of a
level. The faces advance in any interleaving. What the two engines say is the constant
set `Reports`; the reference answer is the code's arithmetic on identifiers, and the
properties compare it with `DeepestAncestor` of `CellTree`.

## 3. What is checked

| Run | Instance | States | Shows |
|---|---|---|---|
| `lookup` | 294 databases: four written by the encoder's model, two of them with every single-field change of `MCTopologyData`; queries for all cells of levels 0 to 4, reconstructions | 57,368 | What full validation accepts has exact restart indexes and linked levels; the preverified constructor accepts it too; random access equals decoding from the start of the level; calls return, with the deepest ancestor or the leaves in order |
| `context_model` | 4 symbols, every count vector up to 4; then every table of codes up to 3 bits | 97,250 | The canonical model of a context is accepted by the reader, decodes what was encoded, is optimal and within the code limit; an accepted table decodes every bit string, and every symbol it has is reachable |
| `packed_fields` | the code's byte, window and chunk sizes; every packed width with boundary values, mask arrays around a chunk and a checkpoint, 24-bit fields, streams of three codes; every changed bit | 102,717 | What is read is what was written; ranks count the masks; no bit changes unseen |
| `layout` | the files of 3 directories over 4 levels, and over 6000 with a header byte changed, a gap or overlap, an offset at the end of the address space, another length | 36,696 | Located sections tile the file; an accepted header is the encoder's, byte for byte; no file of the encoder is refused |
| `compact_leaves` | 2 of 4 face numbers, 3 S2 levels, 2 database levels: every list of up to 3 compact identifiers, queries of every kind | 757,253 | Lists are refused exactly when they are not sorted disjoint cells of every face; queries and the verifier's oracle find the deepest ancestor; a benchmark query finds its cell |
| `aggregation` | all images of 3 rows of 2 pixels with values at the limits, every splitting, folding and merging | 35,949 | The outcome depends on the image alone; partial maps are exact |
| `pruned_tree` | all populations of a face around the threshold, 2 faces, 2 levels, cells of a level in every order | 82,796 | The build stops for a cause only; leaves form a leaf set the encoder accepts; answers hold the threshold as deep as possible |
| `source_staging` | 2 runs, 2 source files, sources of up to 2 buffers, 4 directories, a change of the source, a kill or a directory that cannot be removed | 803,720 | Only the pinned pixels are decoded; sealed snapshots are never written; directories are owned and removed |
| `staging_ends` | one run, two changes of the source | 38,126 | The copy ends although the file becomes shorter or longer, or disappears, under it |
| `database_file` | 2 builders, 1 reader, 3 inodes, 2 writes, a kill or a crash | 1,196,171 | Publication is atomic until a crash and again after the next build; mapped bytes never change; a mismatch has a cause; no stray temporary file; users see `Publication` |
| `build_pipeline` | 3 builders of 2 releases, 1 source file, 1 reader, one change of the source, kill or failed removal | 539,521 | The path and every engine hold a map of a pinned dataset; a mismatch needs another release; a published map stays until another release is published |
| `verify_database` | correct engines over 125 leaf sets of a face and engines with one wrong answer, a differing reconstruction or encoding; 2 faces, levels 0 to 2 with 4 children, exhaustive and quick | 64,310 | No false alarm; an exhaustive run that passes found every answer right |

**Bounds.** The topology run uses 3 levels (1 raw, 2 Huffman), 2 children per cell
and 3 faces, blocks of 2 masks, groups of 2 blocks and checkpoints every 2 masks:
a level reaches 6 or 12 nodes, hence several groups, a short last block, a final
level without ranks, and codes of every length from 0 (sole symbol) to 3, the
longest that 4 symbols can need. In the code the same roles are played by
208 masks, 16 blocks, 15 bits and 16 symbols. The damaged files change one field of
a written file: every index up or down by one, entries of the directory, models,
totals, single payload bits and padding. The layout run has two raw and two Huffman
levels, so that every section has a first and a last level, and bytes of four bits, so
that 32-bit fields stay below the largest usize by the margin the extreme offsets
cross. `packed_fields` keeps all sizes of the code. The aggregation instance has values
below, at and above one half of a unit, no data, invalid values, and cells that
reach the population limit exactly or pass it by one. The pruning instance has
every population of one face from 0 to one above the threshold.

A change of the source before, between and after the two reads of a copy is possible
with `MaxEdits = 1`, a replacement with a mixture of both files included. The four
directories of `source_staging` and `build_pipeline` are what two runs need at a time;
a third waits for one of them. `MaxFaults` in `DatabaseFile` bounds kills and crashes
together, `MaxLosses` in `SourceStaging` kills and failed removals, `MaxDisturbances` in
`BuildPipeline` these and changes of the source: one suffices for each property to be violated by a plausible mistake. Three inodes hold
the published file, a reader's old one and a file being written. The third builder of
`build_pipeline` belongs to another release, which a mismatch needs.

The verifier's instance has four children per cell, so that two paths may differ in
either bit of a level, leaves of all levels on one face next to a face with a single
leaf, and a quick mode that samples the deepest level.

**Fairness.** `CallsReturn` assumes weak fairness of the steps inside a call,
`RunsEnd` of the steps of `SourceStaging` that follow the opening of the source and of
the destructors. Requests, opening and closing, failures, kills, crashes, write-back and
the owner of the source are never fair.
`CHECK_DEADLOCK FALSE` stands where the system stops for good: after an aggregation
or a build has ended, when the verifier has exited, and in `layout`, `packed_fields` and
`compact_leaves`, whose behaviours end with the file or the answer they are about. The
other runs check that somebody can always go on, builders out of directories included.

**Refinement.** `ImplementsIndex` in `TopologyLookup` states that a constructed
engine with its calls implements `DensityIndex` under the mapping
`index <- tree`, `reply <- Reply`: a query returns the deepest ancestor in the tree
of the masks, and a reconstruction lists its leaves in cell order.
`ImplementsPublication` in `DatabaseFile` maps the file system to the path's content:
files, renames, mappings, failures and kills are single steps that replace, open and
close a database.

## 4. What is proved

| Module | Theorems | Assumed |
|---|---|---|
| `Foundations_proof` | `LeastNatural`, `PrefixSumZero`, `PrefixSumNext`, `PrefixSumNat`, `PrefixSumGrows`, `PrefixSumEven`, `PrefixSumSame`, `SetSumEmpty`, `SetSumRemove`, `SetSumNat`, `SetSumUnion`, `SetSumGrows`, `SetSumZero` | nothing |
| `TopologyLayout_proof` | of `TopologyLayout`: `TypeCorrect`, `SectionsAlwaysTile`, `LocatedAlwaysAsEncoded`; of `ContextModel`: `ModelAlwaysAccepted`, `ValidTablesAlwaysDecode`, `SymbolsAlwaysRoundTrip`, `LengthsAlwaysOptimal` | the assumptions on the header's constants, `LayoutAssumption`, `DirectoriesAssumption`; `LengthAssumption` (there is one symbol more than the longest code has bits at most, 16 masks and 15 bits in the code) |
| `TopologyLookup_proof` | of `TopologyValidation`: `TypeCorrect`, `IndexesAlwaysExact`, `LevelsAlwaysLinked`, `ValidatedAlwaysReaccepted`; of `TopologyLookup`: `MaskAndRankAlwaysExact`, `NodesAlwaysInBounds`, `IndexImplemented` | `FormatAssumption`, `DatabasesAssumption` and those of `TopologyLookup` |
| `Encodings_proof` | of `CompactLeaves`: `ValidIdsAreCells`, `RangesDecideOrder`, `ValidationAlwaysExact`, `AnswersAlwaysExact`, `OracleAlwaysExact`; of `PackedFields`: `AlwaysReadBack`, `ContentAlwaysDecides`, `RanksAlwaysCounted` | `CellAssumption`, `QueryAssumption`; `FormatAssumption`, `PackingAssumption`, `WidthsAssumption` (a value fits the reader's window wherever it starts), `InputsAssumption` |
| `DensityMap_proof` | of `Aggregation`: `TypeCorrect`, `MapsAlwaysExact`, `OutcomeScheduleIndependent`, `PixelsAlwaysCovered`; of `PrunedTree`: `TreeInvariant`, `AlwaysStopsForCause`, `LeavesAlwaysEncodable`, `AnswersAlwaysHoldThreshold` | the assumptions on the constants of both |
| `BuildPipeline_proof` | of `SourceStaging`: `TypeCorrect`, `AlwaysDecodesPinnedSource`, `DirectoriesAlwaysOwned`, `SnapshotsAlwaysSealed`; of the pipeline: `StagingImplemented`, `PipelineTypeCorrect`, `AlwaysServedFromPinned`, `MismatchesAlwaysOfOtherReleases`, `PublishedAlwaysKept` | `StagingAssumption`: no two contents share a digest |
| `DatabaseFile_proof` | `TypeCorrect`, `PathAlwaysComplete`, `MappingsAlwaysImmutable`, `SnapshotsAlwaysWhole`, `MismatchesAlwaysExplained`, `TemporariesAlwaysOwned`, `PublicationImplemented` | `DatabaseFileAssumption` |
| `VerifyDatabase_proof` | `InvariantHolds`, `CorrectEnginesAlwaysPass`, `FaultsAlwaysFound` | `VerifyAssumption`, `ReportsAssumption`: what an engine lists are cells, and a database that re-encodes to its own bytes lists what the encoder accepts |

*Foundations.* `PrefixSum` and `SetSum` are recursive functions over a domain that grows
with their argument. `LeastNatural` (every nonempty set of naturals has a least element)
stands in for induction: a length without a total would have a least one, and its
predecessor's total extends; a finite set whose sum depends on the order of its members
would have a smallest one. It is itself proved by an injection of a finite set into
itself. `PowerNext` (2^(n+1) is twice 2^n) comes from the number of subsets of a set. Sums
are scaled, added, taken over other names and exchanged in `SetSumScaled` to `SetSumJoined`;
each takes a smallest subset with a wrong sum and a member out of it (`SmallestWrong`).

*Layout.* `SectionsTile` is about the end of the walk. The invariant of
`TopologyLayout_proof` says how far the walk has come: raw entries start where the one
before ends (`Chained`), the levels placed so far end at the section's cursor
(`Reached`), and each of them was placed where the one before it ends (`Placed`).
The last comparisons (`Arrived`) then close the sections against each other. That every
sum fits a usize is part of the type invariant.

`LocatedAsEncoded` compares the walk with the encoder, and needs a second invariant,
`JInv`. `Walked` says that `masksEnd`, `bitsEnd` and each entry's start are the running
sums of the levels read so far; `Ends` that each section's levels end at the section's
offset plus that sum; `WidthsFit` that a placed level's packed widths do not
overflow a usize; `NoneRefused` that every check passes on a file of the encoder. At the end the
header is recovered from its values: the fixed and the entry fields cover it without
overlap (`HeaderDetermined`), and a value that fits its field is determined by its bytes
(`WrittenIsRead`, `ReadIsWritten`). Sizes agree because every n-th of m elements counts as
the quotient rounded up (`MultiplesCounted`, `LevelBytes`).

*Validation.* `TypeOK` is not inductive: that `node` stays on the level follows from
where the loops are. `Placed = TypeOK /\ Control` says that raw loops run on raw
levels, that the block and index loops stand at the boundary of a block, that the
symbol loop stands inside one, and what the directory check has established about
the flags. One lemma per action shows that `Placed` is kept; the nested updates of
the history go through `CellWritten` and `Recorded`.

*Restart indexes.* Acceptance comes after the last level, so `IndexesExact` and
`LevelsLinked` need `Scanned`: every level before the current one is exact
(`EarlierExact`), within a raw level the checkpoints up to `node` (`RawScan`), within a
Huffman level the blocks up to `block` (`BlockScan`), and inside a block `children` and
`blockBegin` still stand at its first node (`SymbolScan`). `Kept` states that recording
a mask changes no earlier node. TLC checked `Placed` and `Scanned` on the instance of
the `lookup` run before they were proved.

*Verified mappings.* The caller of `from_verified_mmap` promises bytes that were validated
before; the constructor still walks the restart indexes and compares their last entries.
That it never refuses needs what the full checks established in terms of the file alone,
since the history of the first construction is overwritten by the second. `Checked` retells
it: directory entries, models, padding, the minimal packed widths, and the first and last
offsets of each index. `Replayed` says that the walk's running totals are the recorded ones.
Between the two stand `BlockBounds`, which bounds the bits and the children of a block by
sums over its masks, and `WidestUnique`, by which two maxima of the same entries agree.

*Lookup.* A lookup decodes again what full validation has decoded, so it needs to know what
that was: `Traced` says for every node scanned so far that its recorded mask is the one the
payload holds at the recorded offset, in the context of the recorded mask before it, and
that offset and rank grow by that code and that mask. `RecordTraces` shows that recording
a node extends it and `AcceptedFacts` what is left of it in an accepted file. In
`TopologyLookup_proof` a cursor that starts at a checkpoint or a block stands, by
`IndexesExact`, at a recorded offset and rank; since the decoder is deterministic
(`DecodesOnce`), each step keeps it there. That a child
rank is a node of the next level then follows from `LevelsLinked` and the growth of ranks.

*The index.* `ImplementsIndex` compares nodes, which the file numbers level by level, with
the cells they stand for. `IsCells` assigns a cell to every node of an accepted file, each
below its parent's; the numbers of a level follow the order of the cells (`LevelsSorted`),
every node has leaves below it (`LeafBelow`), and the leaves are a proper set of them
(`LeavesProper`). The invariant `Tracking` says that the open tree is the one the masks
describe and follows the call in it. A query stands at the node whose cell is the prefix
of the asked one, so where it stops the next prefix is outside the tree (`PathStep`,
`AnswerFound`). A reconstruction has listed a sorted sequence that precedes everything
below the nodes ahead, and each leaf is listed or lies below one of those (`Progress`); with
no node ahead it is the whole list (`AllListed`). That `reconstruct_all_leaves` then does not
refuse its own result needs the leaf total of the header: `Tallied`, an invariant of the
constructors, says that `zeros` counts the nodes without children, so an accepted file
announces as many leaves as its tree has (`LeavesCounted`), and a sorted list has no
duplicates (`ListingLength`). `LookupRefines` and `ConstructionRefines` draw the conclusion
action by action: an answering `StartQuery` or `ContinueQuery` is `Query`, `EndReconstruct`
is `Reconstruct`, `Return` is `Take`, and a constructor that ends in `ready` is `Open`.

These theorems hold for every file that satisfies `DatabaseType` (a mapped file whose
fields can be read at all), whether an encoder wrote it or not, and for all sizes of
the format, including those of the code.

*Identifiers.* The code shifts, masks and compares 64-bit numbers; the properties speak of
cells, which are paths. An identifier with n cells of its level before it is `Id(l, n)`, and
`PathAt(l, n)` is the path that the digits of n to base four spell. `PathIdentifier` and
`PathsAre` say that these are all identifiers and all paths, and the rest follows from
quotients of n by powers of four: the lowest set bit gives the level (`LowestBitIs`,
`OddPartUnique`), an ancestor drops digits (`AncestorIs`), and a range of leaves is an
interval of numbers (`RangeIs`), so that one range begins after another ends exactly if the
paths are disjoint and in order (`PrecedesNumbers`). `ListInv` then says that the leaves
accepted so far are an ordered list of disjoint cells: order is transitive, so the comparison with the
neighbour suffices (`DisjointIs`, `AcceptsExactly`). `QueryInv` says of the descent that the
compact node in hand is the query's ancestor at the current depth and that some leaf lies at
it or below it (`Has`); where a mask lacks the next child no leaf is below it
(`MaskHolds`), so the node is the deepest ancestor (`ExactIs`). A query made from a stored leaf finds that leaf
since no other leaf is above or below it (`LeavesApart`). For the oracle, the bits in which
two identifiers differ bound the levels at which their ancestors agree (`CommonBits`,
`SharedLevelIs`), an offset of the face is where its leaves begin in the sorted list
(`OffsetCuts`), and a leaf that shares a level with the query has one of the query's two
neighbours share it too (`NeighbourShares`).

*Packed fields.* A number is the sum of the powers of two of its bits (`NumberOfBits`,
`BitsOfNumber`), and each bit of the i-th value has a rank in its section: `FieldStart(i)`
plus its place. Fields follow each other without a gap (`FieldsFollow`), so ranks are
distinct and cover the section (`SpotsApart`, `SpotsCover`); in the payload, which fills
bytes from the top, rank and position are related by a permutation of the bits of each byte
(`TurnFacts`). `FieldsInv` says that the section holds exactly the places of the values
written so far (`SectionOf`), that its length covers them, and that in the assembled file
these are the bits between the section's ends. What a reader finds at the spots of a value
are then its bits (`ReadIs`), the window of `read_packed` reaches all of them
(`WindowHolds`), and the padding checks are about just the spots that no field covers
(`PaddingCovers`), so that nothing in the section is left undecided (`ContentExact`); this last
lemma uses nothing about the file but the read values, so it holds of any damage. A rank is
counted over three adjoining intervals of bits, the whole chunks, the bytes behind them and
the half byte (`OnesJoin`, `OnesOfPieces`, `RankIsOnes`). TLC checked `ListInv`, `QueryInv`
and `FieldsInv` on the instances of the two runs before they were proved.

*Huffman codes.* A table is read through two recurrences, the codes still available at a
length and the first code of that length. Together with the codes of the length they make up
all numbers of that many bits (`CodeSpace`), so when validation finds none available after the
longest length, any string of bits is below the end of exactly one length (`OneMatch`,
`SomeMatch`) and `decode_symbol` returns there. The encoder's merge loop is followed by
`Forest`: after any number of merges each node is a tree over its symbols, whose codes fill
the code space exactly and are no longer than the symbols are many. One merge keeps it, since
a tree set one bit deeper weighs half (`DeeperWeighsHalf`), and the last tree's code lengths
are those of the table. Hence no code is longer than the symbols less one, which
`LengthAssumption` bounds, and the table passes every check (`WrittenValid`). For the round
trip, the code that the encoder gives the i-th symbol of the canonical order is the one that
the decoder expects at index i (`CodesAre`): both add one and append zero bits where the
length grows (`NextCode`, `FirstAfterGap`). `ContextInv` is what remains to say of the state.
TLC checked it on the instance of the run.

That no complete code is cheaper (`LengthsAlwaysOptimal`) follows one fixed code through the
merge loop: the bits assigned so far and the best code for the nodes that are left never cost
more together than that code does (`Within`). Given a code for the nodes, the cheaper of two
nodes may take the longer of their codes (`ExchangedCodes`); the longest code is never alone
at its length, since the others leave an even number of codes of it (`DeepestPaired`); so the
two lightest nodes may be given the two longest codes (`CheapestDeepest`), and joining them
saves one bit for each of their uses (`JoinedShorter`), which is what the loop adds to the
lengths of their symbols (`DeeperCosts`, `MergeKeepsBest`). A single tree is left in the end,
with nothing to spend on it. `LengthsOptimal` compares complete codes of at most as many bits
as there are symbols, as `CompleteLengths` enumerates them for TLC; the lemmas bound neither.

*Aggregation.* `ScheduleIndependent` says nothing of the maps in flight. `IInv` adds
that each segment's map is the exact sum of its folded pixels and that an error
implies an image whose true sum is out of range; since populations are not negative,
partial sums never exceed the whole, so a schedule cannot fail on an image that
another one accepts. Coverage is a second invariant over the segments' bounds.

*Propagation and pruning.* The runs state what the finished map means; none of it is
inductive. `TreeIInv` of `DensityMap_proof` has one part per phase. While a level is
propagated (`Propagating`), the levels below it hold true totals, and a cell of the level
above holds the sum over those of its level-`Depth` cells whose ancestor was already taken
from the hash map (`Held`); each `PropagateCell` moves the cells below one ancestor from
one side of that sum to the other (`SetSumUnion`), and a level is finished when the only
cells left hold nobody. An addition overflows only if the true total of a face does, since
totals grow towards the faces. While faces are walked (`Walking`), what was found and
what is still on the stack of the recursion are in cell order, and every cell that has to
become a leaf is either found or below a cell on the stack; popping one cell and pushing
its populated children keeps this. At the end `Extracted` says that the leaves list
exactly the cells that `find_leaves` returns for themselves, and the two properties are
facts about that set: it is free of overlap because a populated cell makes every cell
around it a populated one, and the deepest ancestor of an asked cell stops where no child
holds the threshold. TLC checked `TreeIInv` before it was proved.

*Verifier.* The oracle is arithmetic on identifiers: the last leaf at or before a cell and
the first one after it, and the longest prefix shared with either, found by the highest
differing bit. `CommonAncestor` is the deepest cell around both (`DifferentBitsFound`: the
quotients of two numbers by 2^n agree exactly when n bits or more are dropped than the
highest differing one needs). Cells below an ancestor fill an open interval of identifiers
(`SubtreeInterval`), so if any leaf lies below an ancestor of the asked cell, one of the two
neighbours does (`NeighbourShares`), which makes the reference answer the deepest ancestor
(`RightIsDeepest`). `IInv` then follows the walk: the leaves an insertion index has passed
come before the next cell asked (`Behind`, which needs that sampled paths grow), and all
cells of earlier levels and the first ones of this level were answered right (`Answered`).
Neither the number of leaves nor the depth is bounded.

*Staging.* That a decoded image is the pinned one rests on the copy: while a run copies,
its snapshot holds exactly what the hasher was fed, so the digest that `Seal` compares is
the digest of the snapshot and not of what the source has become. The rest of the
invariant follows the two directories of each run and says that they are disjoint from
those of all others, which keeps one run's conversion out of another's snapshot.

*Publication.* `Shape` says which handles are open in which phase; `Apart` that a file
with a temporary name is nobody's opened, mapped or published file, on the disk neither;
`Contained` what the files in use hold: written ones a part of their builder's database,
the one read back a complete database, the published one that of its builder until it is
overtaken. `ReferencedKept` draws the conclusion that a builder writes no file anyone
else uses. The refinement follows action by action: `Persist` is `Publish`, `MapFile` of
a complete file is `Open`, dropping a mapping is `Close`, `Crash` is `Crash`, and the
rest changes neither the path nor an engine.

*Pipeline.* The composition extends staging: every step of the pipeline is a step of
staging or leaves its state alone (`FrontStep`), which `StagingImplemented` states as a
refinement, and `Front` (its types, its directories, `DecodesPinnedSource`) follows from
staging's own theorems. `Back` says what a builder has computed and read back, and that
the path holds its map until another release is published.

For several modules the type invariant is proved and not listed in a run; the runs spend
their time on the properties that can fail in an interesting way.

Only model-checked: liveness (`CallsReturn`, `RunsEnd`), which the prover
does not do. Every invariant and action property of the runs is proved.

`PrefixSums`, `FirstCode` and the like are recursive functions rather than RECURSIVE
operators, so that the modules above them can be proved about.

## 5. What is not modelled

- `tiffcp`, an external program: it is taken to leave any file behind, and to keep the
  pixels when that file has the pinned dimensions and sample type. The branch of
  `prepare_geotiff` that uses an uncompressed original is left out: the metadata check
  before it requires LZW.
- Floating point: a source value is an integer number of fractions of a fixed-point
  unit; the map from pixels to cells is a constant.
- Errors that no caller can cause: widths beyond those of `required_width` in
  `pack_values`, codes of more than 16 bits in `BitWriter`.
- The contents of the seven GeoTIFF tags one by one: the metadata is one value that is
  compared with the pinned one.
- A source that is appended to for ever: the code copies it for ever, and `RunsEnd` is
  about finitely many changes.
- The end of a parallel aggregation: rayon's own fork and join, which this code only calls.
- Timing, sampling and printed statistics of `benchmark.rs`, and `inspect_levels.rs`,
  which prints counts of a finished database.

## 6. Plan

Done: every component with state, from the source file to the query, and the proofs of
section 4.

What would add most next: `inspect_levels.rs` and the statistics of `benchmark.rs`, which
print what the theorems on queries already determine.
