------------------------ MODULE TopologyLookup_proof ------------------------
(***************************************************************************)
(* Theorems about the constructors of TopologyValidation and the readers   *)
(* of TopologyLookup, for every file, every size of the format and every   *)
(* order of constructions and calls.                                       *)
(*                                                                         *)
(* The constructors.  TypeOK needs to know where the loops are (Control).  *)
(* Neither IndexesExact nor LevelsLinked is inductive: acceptance comes    *)
(* after the last level, so Scanned says what each loop has established    *)
(* about the masks it has decoded so far, and Traced where in the payload  *)
(* they stand.  VerifiedAcceptsValidated relates two constructions from    *)
(* the same bytes: Checked says of the file what the first one has         *)
(* checked, Replayed that the second one walks the totals the first one    *)
(* has recorded.  Tallied says that the leaf total of an accepted file     *)
(* counts the nodes without children.                                      *)
(*                                                                         *)
(* The readers.  MaskAndRankExact compares a decoder that starts in the    *)
(* middle of a level with the one that validated the level from its start. *)
(* So the history has to say more than IndexesExact does: Traced relates   *)
(* every decoded mask to the bits it was decoded from and to the mask      *)
(* before it.  NodeInBounds needs the walk above it: a child index         *)
(* computed from exact ranks stays below the size of the next level        *)
(* (LevelsLinked).                                                         *)
(*                                                                         *)
(* ImplementsIndex speaks of cells, the file of nodes.  IsCells gives each *)
(* node its cell, and the cells of a level come in the order of its nodes. *)
(* Tracked follows the open tree with the call on its way through it: a    *)
(* query stands at the node of its cell's prefix (QueryPath), and what a   *)
(* reconstruction has listed precedes what lies below the nodes ahead,     *)
(* both together being all leaves (Progress).  That it never fails is      *)
(* counting: Tallied says that the header announces the leaves there are.  *)
(***************************************************************************)
EXTENDS TopologyLookup, Foundations_proof, FiniteSetTheorems, SequenceTheorems, TLAPS

-----------------------------------------------------------------------------
(* Arithmetic of blocks, counting of masks *)

LEMMA ProductNat ==
  ASSUME NEW a \in Nat, NEW b \in Nat
  PROVE  a * b \in Nat
OBVIOUS

\* Blocks begin RestartInterval nodes apart, and no sooner than their number.
LEMMA BlockStarts ==
  ASSUME NEW b \in Nat
  PROVE  /\ BlockStartOf(b) \in Nat
         /\ BlockStartOf(b + 1) = BlockStartOf(b) + RestartInterval
         /\ BlockStartOf(0) = 0
         /\ b <= BlockStartOf(b)
<1>1. RestartInterval \in Nat /\ RestartInterval >= 1
  BY FormatAssumption
<1>2. b * RestartInterval \in Nat /\ b * (RestartInterval - 1) \in Nat
  BY <1>1, ProductNat
<1> QED
  BY <1>1, <1>2 DEF BlockStartOf

LEMMA BlockStartsGrow ==
  ASSUME NEW a \in Nat, NEW b \in Nat, a < b
  PROVE  BlockStartOf(a + 1) <= BlockStartOf(b)
<1>1. RestartInterval \in Nat
  BY FormatAssumption
<1>2. (b - a - 1) * RestartInterval \in Nat
  BY <1>1, ProductNat
<1> QED
  BY <1>1, <1>2 DEF BlockStartOf

\* A block ends where the next one begins, or with the level.
LEMMA BlockEnds ==
  ASSUME NEW b \in Nat, NEW n \in Nat
  PROVE  /\ BlockEndOf(b, n) \in Nat
         /\ BlockEndOf(b, n) <= n
         /\ BlockStartOf(b) < n =>
              BlockStartOf(b) + 1 <= BlockEndOf(b, n)
         /\ BlockEndOf(b, n) = BlockStartOf(b + 1) \/ BlockEndOf(b, n) = n
         /\ BlockEndOf(b, n) <= BlockStartOf(b + 1)
<1>1. BlockStartOf(b + 1) \in Nat
  BY BlockStarts
<1>2. BlockStartOf(b) + 1 <= BlockStartOf(b + 1)
  BY BlockStarts, FormatAssumption
<1> QED
  BY <1>1, <1>2, BlockStarts DEF BlockEndOf

LEMMA CountOnesNat ==
  ASSUME NEW m \in Masks
  PROVE  CountOnes(m) \in Nat
<1>1. IsFiniteSet(ChildPositions)
  BY FormatAssumption, FS_Interval DEF ChildPositions
<1>2. IsFiniteSet(m)
  BY <1>1, FS_Subset DEF Masks
<1> QED
  BY <1>2, FS_CardinalityType DEF CountOnes

LEMMA PayloadMaskType ==
  ASSUME NEW payload, NEW from
  PROVE  PayloadMask(payload, from) \in Masks
BY DEF PayloadMask, MaskFromBits, Masks

-----------------------------------------------------------------------------
(* Where the loops are *)

\* What CheckEntry has found out about the flags of a Huffman level.
FlagsChecked(l) == HasChildRanks(l) <=> ~FinalLevel(l)

\* The node at which a block begins, or the end of the level.
Boundary(b) == IF BlockStartOf(b) <= Nodes(level) THEN BlockStartOf(b) ELSE Nodes(level)

Inside == {"level", "raw", "block", "symbols", "index"}

Control ==
  /\ pc = "directory" => \A l \in HuffmanLevels : l < level => FlagsChecked(l)
  /\ pc = "models" \/ pc \in Inside =>
       /\ \A l \in HuffmanLevels : FlagsChecked(l)
       /\ Nodes(0) = RootFaceCount
  /\ pc = "raw" => level \in RawLevels
  /\ pc \in {"block", "symbols", "index"} => level \in HuffmanLevels
  /\ pc \in {"block", "symbols"} => depth = "full"
  /\ pc = "index" => depth = "verified"
  /\ pc \in {"block", "index"} => node = Boundary(block)
  /\ pc = "symbols" => BlockStartOf(block) < node /\ node <= BlockEnd

Placed == TypeOK /\ Control

LEMMA LevelFacts ==
  /\ LevelCount \in Nat /\ RawLevelCount \in Nat
  /\ 0 \in RawLevels /\ 0 \in Levels
  /\ RawLevels \subseteq Levels /\ HuffmanLevels \subseteq Levels
  /\ \A l \in 0..LevelCount : l < LevelCount => l \in Levels
  /\ \A l \in Levels : l + 1 \in 0..LevelCount /\ l \in Nat
  /\ \A l \in Levels : l \in RawLevels <=> l < RawLevelCount
  /\ \A l \in Levels : l \in HuffmanLevels <=> ~(l < RawLevelCount)
BY FormatAssumption DEF Levels, RawLevels, HuffmanLevels

LEMMA EntryFacts ==
  ASSUME db \in Databases, NEW l \in Levels
  PROVE  /\ Nodes(l) \in Nat
         /\ db.entry[l].start \in Nat
         /\ db.entry[l].length \in Nat
BY DatabasesAssumption DEF DatabaseType, EntryType, Nodes

\* No step changes the mapping, so the level directory stays what it is.
LEMMA FileStays ==
  ASSUME [Next]_vars
  PROVE  /\ db' = db
         /\ \A l : Nodes(l)' = Nodes(l)
         /\ \A l : HasChildRanks(l)' <=> HasChildRanks(l)
<1>1. db' = db
  BY DEF Next, vars, Open, Construct, Close, CheckEntry, CheckTotals,
         ValidateModels, StartLevel, RawNode, EndRawLevel, StartBlock, RejectBlock,
         DecodeNode, RejectSymbol, Reject, EndBlock, EndHuffmanLevel, IndexBlock,
         EndIndexedLevel, Complete
<1> QED
  BY <1>1 DEF Nodes, HasChildRanks

\* The packed fields that block and index loops read are numbers.
LEMMA FieldFacts ==
  ASSUME db \in Databases, level \in HuffmanLevels, block \in Nat,
         BlockStartOf(block) < Nodes(level), FlagsChecked(level)
  PROVE  db.blockBits[level][block] \in Nat /\ IndexedKids \in Nat
<1>1. level \in Levels /\ Nodes(level) \in Nat
  BY LevelFacts, EntryFacts
<1>2. block \in 0..Nodes(level)
  BY <1>1, BlockStarts
<1> QED
  BY <1>1, <1>2, DatabasesAssumption
  DEF DatabaseType, IndexedKids, FlagsChecked, Nodes

-----------------------------------------------------------------------------
(* Types *)

\* The part of TypeOK about the history of full validation.
ScanType ==
  /\ DOMAIN scannedMask = Levels /\ DOMAIN scannedRank = Levels
  /\ DOMAIN scannedStart = Levels
  /\ \A l \in Levels :
       /\ scannedMask[l] \in [0..Nodes(l) -> Masks]
       /\ scannedRank[l] \in [0..Nodes(l) -> Nat]
       /\ scannedStart[l] \in [0..Nodes(l) -> Nat]

\* A function on the nodes of each level.
NodeTable(table, Size, T) ==
  DOMAIN table = Levels /\ \A l \in Levels : table[l] \in [0..Size[l] -> T]

\* new is table with another value at node i of level k.
CellChanged(table, new, Size, k, i, v) ==
  /\ new[k][i] = v
  /\ \A l \in Levels : \A j \in 0..Size[l] : l # k \/ j # i => new[l][j] = table[l][j]

LEMMA CellWritten ==
  ASSUME NEW table, NEW T, NEW Size, NodeTable(table, Size, T),
         NEW k \in Levels, NEW i \in 0..Size[k], NEW v \in T,
         NEW new, new = [table EXCEPT ![k][i] = v]
  PROVE  NodeTable(new, Size, T) /\ CellChanged(table, new, Size, k, i, v)
<1>1. new = [table EXCEPT ![k] = [table[k] EXCEPT ![i] = v]]
  OBVIOUS
<1>2. new[k] = [table[k] EXCEPT ![i] = v]
  BY <1>1 DEF NodeTable
<1>3. \A l \in Levels : l # k => new[l] = table[l]
  BY <1>1 DEF NodeTable
<1>4. new[k] \in [0..Size[k] -> T]
  BY <1>2 DEF NodeTable
<1>5. NodeTable(new, Size, T)
  BY <1>1, <1>3, <1>4 DEF NodeTable
<1>6. CellChanged(table, new, Size, k, i, v)
  BY <1>2, <1>3 DEF CellChanged, NodeTable
<1> QED
  BY <1>5, <1>6

\* Recording a mask keeps the types of the history, and changes it at the
\* current node only.
LEMMA Recorded ==
  ASSUME db \in Databases, ScanType, db' = db,
         level \in Levels, node \in Nat, node < Nodes(level),
         NEW m \in Masks, NEW prior \in Nat, NEW next \in Nat,
         Record(m, prior, next)
  PROVE  /\ ScanType'
         /\ depth # "full" => UNCHANGED scan
         /\ depth = "full" =>
              /\ scannedRank'[level][node + 1] = prior + CountOnes(m)
              /\ scannedStart'[level][node + 1] = next
         /\ \A l \in Levels : \A j \in 0..Nodes(l) :
              l # level \/ j <= node =>
                /\ scannedRank'[l][j] = scannedRank[l][j]
                /\ scannedStart'[l][j] = scannedStart[l][j]
<1> DEFINE Size == [l \in Levels |-> Nodes(l)]
           Values == Nat
           total == prior + CountOnes(m)
<1>1. \A l \in Levels : Nodes(l)' = Nodes(l) /\ Nodes(l) \in Nat /\ Size[l] = Nodes(l)
  BY EntryFacts DEF Nodes
<1>2. prior + CountOnes(m) \in Nat
  BY CountOnesNat
<1>3. CASE depth # "full"
  BY <1>1, <1>3 DEF Record, ScanType, scan
<1>4. CASE depth = "full"
  <2> DEFINE after == node + 1
  <2>1. node \in 0..Size[level] /\ after \in 0..Size[level]
    BY <1>1
  <2>2. total \in Values /\ next \in Values
    BY <1>2
  <2>3. /\ NodeTable(scannedMask, Size, Masks)
        /\ scannedMask' = [scannedMask EXCEPT ![level][node] = m]
    BY <1>1, <1>4 DEF ScanType, Record, NodeTable
  <2>4. /\ NodeTable(scannedRank, Size, Values)
        /\ scannedRank' = [scannedRank EXCEPT ![level][after] = total]
    BY <1>1, <1>4 DEF ScanType, Record, NodeTable
  <2>5. /\ NodeTable(scannedStart, Size, Values)
        /\ scannedStart' = [scannedStart EXCEPT ![level][after] = next]
    BY <1>1, <1>4 DEF ScanType, Record, NodeTable
  <2> HIDE DEF Size, Values, total, after
  <2>6. NodeTable(scannedMask', Size, Masks)
    BY <2>1, <2>3, CellWritten
  <2>7. /\ NodeTable(scannedRank', Size, Values)
        /\ CellChanged(scannedRank, scannedRank', Size, level, after, total)
    BY <2>1, <2>2, <2>4, CellWritten
  <2>8. /\ NodeTable(scannedStart', Size, Values)
        /\ CellChanged(scannedStart, scannedStart', Size, level, after, next)
    BY <2>1, <2>2, <2>5, CellWritten
  <2>9. ScanType'
    BY <1>1, <2>6, <2>7, <2>8 DEF ScanType, Values, NodeTable
  <2> QED
    BY <1>1, <1>4, <2>7, <2>8, <2>9 DEF total, after, CellChanged
<1> QED
  BY <1>3, <1>4

LEMMA ScanUnchanged ==
  ASSUME ScanType, db' = db, UNCHANGED scan
  PROVE  ScanType'
BY DEF ScanType, scan, Nodes

\* TypeOK without the history.
LocalType ==
  /\ db \in Databases
  /\ depth \in {"full", "verified"}
  /\ pc \in States
  /\ level \in 0..LevelCount
  /\ block \in Nat /\ node \in Nat
  /\ pc \in {"raw", "block", "symbols", "index"} =>
       level < LevelCount /\ node <= Nodes(level)
  /\ rawOffset \in Nat /\ bitOffset \in Nat
  /\ children \in Nat /\ zeros \in Nat
  /\ mask \in Masks
  /\ blockBegin \in Nat /\ blockKids \in Nat
  /\ widest \in [bits : Nat, kids : Nat]
  /\ accepted \in BOOLEAN

LEMMA TypeParts == TypeOK <=> LocalType /\ ScanType
BY DEF TypeOK, LocalType, ScanType

LEMMA InitPlaced == Init => Placed
<1> SUFFICES ASSUME Init PROVE Placed
  OBVIOUS
<1>1. \A l \in Levels : Nodes(l) \in Nat
  BY EntryFacts DEF Init
<1>2. ScanType
  BY <1>1 DEF Init, ScanType, EveryNode, Masks
<1>3. mask \in Masks /\ pc \in States /\ accepted \in BOOLEAN
  BY DEF Init, States, Masks
<1>4. level \in 0..LevelCount /\ widest \in [bits : Nat, kids : Nat]
  BY LevelFacts DEF Init
<1>5. LocalType
  BY <1>3, <1>4 DEF Init, LocalType
<1> QED
  BY <1>2, <1>5, TypeParts DEF Init, Placed, Control, Inside

LEMMA OpenPlaced ==
  ASSUME Placed, NEW mode \in {"full", "verified"}, Open(mode), db' = db
  PROVE  Placed'
<1> USE DEF Open, Proceed
<1>1. LocalType /\ ScanType
  BY TypeParts DEF Placed
<1>2. \A l \in Levels : Nodes(l) \in Nat /\ Nodes(l)' = Nodes(l)
  BY <1>1, EntryFacts DEF LocalType, Nodes
<1>3. ScanType'
  <2>1. CASE mode = "full"
    BY <1>2, <2>1 DEF ScanType, EveryNode, Masks
  <2>2. CASE mode # "full"
    BY <1>1, <2>2, ScanUnchanged
  <2> QED
    BY <2>1, <2>2
<1>4. LocalType'
  BY <1>1, LevelFacts DEF LocalType, States
<1>5. Control'
  BY LevelFacts DEF Control, Inside, HuffmanLevels
<1> QED
  BY <1>3, <1>4, <1>5, TypeParts, PTL DEF Placed

\* What every step may use about the state before it.
LEMMA PlacedFacts ==
  ASSUME Placed
  PROVE  /\ LocalType /\ ScanType /\ Control
         /\ \A l \in Levels : Nodes(l) \in Nat /\ db.entry[l].start \in Nat
                              /\ db.entry[l].length \in Nat
<1>1. LocalType /\ ScanType /\ Control
  BY TypeParts DEF Placed
<1> QED
  BY <1>1, EntryFacts DEF LocalType

\* A rejection leaves the loops, so it keeps all that is said about them.
LEMMA RejectPlaced ==
  ASSUME Placed, Reject
  PROVE  Placed'
<1>1. LocalType' /\ db' = db /\ UNCHANGED scan
  BY PlacedFacts DEF LocalType, States, Reject, progress, Nodes
<1>2. ScanType'
  BY <1>1, PlacedFacts, ScanUnchanged
<1>3. Control'
  BY DEF Reject, Control, Inside
<1> QED
  BY <1>1, <1>2, <1>3, TypeParts, PTL DEF Placed

LEMMA CheckEntryPlaced ==
  ASSUME Placed, CheckEntry, db' = db,
         \A l : Nodes(l)' = Nodes(l),
         \A l : HasChildRanks(l)' <=> HasChildRanks(l)
  PROVE  Placed'
<1>1. level \in Levels /\ Entry.length \in Nat
  BY PlacedFacts, LevelFacts DEF LocalType, CheckEntry, Entry
<1>2. LocalType'
  BY <1>1, PlacedFacts, LevelFacts DEF LocalType, States, CheckEntry, Proceed
<1>3. ScanType'
  BY PlacedFacts, ScanUnchanged DEF CheckEntry
<1>4. ASSUME pc' = "directory", NEW l \in HuffmanLevels, l < level'
      PROVE  FlagsChecked(l)'
  <2>1. CASE l < level
    BY <1>4, <2>1, PlacedFacts DEF Control, CheckEntry, FlagsChecked
  <2>2. CASE ~(l < level)
    <3>1. l = level /\ ~(level < RawLevelCount)
      BY <1>1, <1>4, <2>2, LevelFacts DEF CheckEntry, HuffmanLevels, Levels
    <3>2. HuffmanEntryOk(Entry)
      BY <1>4, <3>1 DEF CheckEntry, Proceed
    <3>3. FlagsChecked(level)
      BY <3>2 DEF HuffmanEntryOk, Entry, FlagsChecked, HasChildRanks
    <3> QED
      BY <3>1, <3>3 DEF FlagsChecked
  <2> QED
    BY <2>1, <2>2
<1>5. Control'
  BY <1>4 DEF CheckEntry, Proceed, Control, Inside
<1> QED
  BY <1>2, <1>3, <1>5, TypeParts, PTL DEF Placed

LEMMA CheckTotalsPlaced ==
  ASSUME Placed, CheckTotals, db' = db,
         \A l : Nodes(l)' = Nodes(l),
         \A l : HasChildRanks(l)' <=> HasChildRanks(l)
  PROVE  Placed'
<1>1. LocalType'
  BY PlacedFacts DEF LocalType, States, CheckTotals, Proceed, progress
<1>2. ScanType'
  BY PlacedFacts, ScanUnchanged DEF CheckTotals
<1>3. \A l \in HuffmanLevels : FlagsChecked(l)'
  BY PlacedFacts, LevelFacts
  DEF CheckTotals, Control, FlagsChecked, HuffmanLevels
<1>4. Control'
  BY <1>3 DEF CheckTotals, Proceed, Control, Inside
<1> QED
  BY <1>1, <1>2, <1>4, TypeParts, PTL DEF Placed

LEMMA ValidateModelsPlaced ==
  ASSUME Placed, ValidateModels, db' = db,
         \A l : Nodes(l)' = Nodes(l),
         \A l : HasChildRanks(l)' <=> HasChildRanks(l)
  PROVE  Placed'
<1> DEFINE valid == \A l \in HuffmanLevels : \A context \in Masks :
                      ValidModel(db.models[l][context])
<1>1. pc' = IF valid THEN "level" ELSE "rejected"
  BY DEF ValidateModels, Proceed
<1> HIDE DEF valid
<1>2. LocalType'
  BY <1>1, PlacedFacts, LevelFacts DEF LocalType, States, ValidateModels
<1>3. ScanType'
  BY PlacedFacts, ScanUnchanged DEF ValidateModels
<1>4. Control'
  BY <1>1, PlacedFacts DEF ValidateModels, Control, FlagsChecked, Inside
<1> QED
  BY <1>2, <1>3, <1>4, TypeParts, PTL DEF Placed

\* Leaving a loop for the next level keeps what is known of the directory.
LEMMA OutsidePlaced ==
  ASSUME Placed, db' = db,
         \A l : Nodes(l)' = Nodes(l),
         \A l : HasChildRanks(l)' <=> HasChildRanks(l),
         UNCHANGED scan, LocalType',
         pc' \in {"level", "ready", "rejected", "closed"},
         pc' = "level" => pc \in Inside
  PROVE  Placed'
<1>1. ScanType'
  BY PlacedFacts, ScanUnchanged
<1>2. Control'
  BY PlacedFacts DEF Control, FlagsChecked, Inside
<1> QED
  BY <1>1, <1>2, TypeParts, PTL DEF Placed

LEMMA EndRawLevelPlaced ==
  ASSUME Placed, EndRawLevel, db' = db,
         \A l : Nodes(l)' = Nodes(l),
         \A l : HasChildRanks(l)' <=> HasChildRanks(l)
  PROVE  Placed'
<1>1. pc' \in {"level", "rejected"} /\ UNCHANGED scan /\ pc \in Inside
  BY DEF EndRawLevel, Proceed, Inside
<1>2. level' = level + 1 /\ level + 1 \in 0..LevelCount
  BY PlacedFacts, LevelFacts DEF LocalType, EndRawLevel
<1>3. LocalType'
  BY <1>1, <1>2, PlacedFacts DEF LocalType, States, EndRawLevel
<1> QED
  BY <1>1, <1>3, OutsidePlaced

LEMMA EndHuffmanLevelPlaced ==
  ASSUME Placed, EndHuffmanLevel, db' = db,
         \A l : Nodes(l)' = Nodes(l),
         \A l : HasChildRanks(l)' <=> HasChildRanks(l)
  PROVE  Placed'
<1>1. pc' \in {"level", "rejected"} /\ UNCHANGED scan /\ pc \in Inside
  BY DEF EndHuffmanLevel, Proceed, Inside
<1>2. level' = level + 1 /\ level + 1 \in 0..LevelCount
  BY PlacedFacts, LevelFacts DEF LocalType, EndHuffmanLevel
<1>3. LocalType'
  BY <1>1, <1>2, PlacedFacts DEF LocalType, States, EndHuffmanLevel
<1> QED
  BY <1>1, <1>3, OutsidePlaced

LEMMA EndIndexedLevelPlaced ==
  ASSUME Placed, EndIndexedLevel, db' = db,
         \A l : Nodes(l)' = Nodes(l),
         \A l : HasChildRanks(l)' <=> HasChildRanks(l)
  PROVE  Placed'
<1>1. pc' \in {"level", "rejected"} /\ UNCHANGED scan /\ pc \in Inside
  BY DEF EndIndexedLevel, Proceed, Inside
<1>2. level' = level + 1 /\ level + 1 \in 0..LevelCount
  BY PlacedFacts, LevelFacts DEF LocalType, EndIndexedLevel
<1>3. LocalType'
  BY <1>1, <1>2, PlacedFacts DEF LocalType, States, EndIndexedLevel
<1> QED
  BY <1>1, <1>3, OutsidePlaced

LEMMA CompletePlaced ==
  ASSUME Placed, Complete, db' = db,
         \A l : Nodes(l)' = Nodes(l),
         \A l : HasChildRanks(l)' <=> HasChildRanks(l)
  PROVE  Placed'
<1>1. pc' \in {"ready", "rejected"} /\ UNCHANGED scan
  BY DEF Complete, Proceed
<1>2. accepted' \in BOOLEAN
  BY PlacedFacts DEF LocalType, Complete
<1>3. LocalType'
  BY <1>1, <1>2, PlacedFacts DEF LocalType, States, Complete, progress
<1> QED
  BY <1>1, <1>3, OutsidePlaced

LEMMA ClosePlaced ==
  ASSUME Placed, Close, db' = db,
         \A l : Nodes(l)' = Nodes(l),
         \A l : HasChildRanks(l)' <=> HasChildRanks(l)
  PROVE  Placed'
<1>1. pc' = "closed" /\ UNCHANGED scan
  BY DEF Close
<1>2. LocalType'
  BY <1>1, PlacedFacts DEF LocalType, States, Close, progress
<1> QED
  BY <1>1, <1>2, OutsidePlaced

\* A level begins with its first mask at the level's start.
LEMMA StartLevelPlaced ==
  ASSUME Placed, StartLevel, db' = db,
         \A l : Nodes(l)' = Nodes(l),
         \A l : HasChildRanks(l)' <=> HasChildRanks(l)
  PROVE  Placed'
<1> DEFINE Size == [l \in Levels |-> Nodes(l)]
           Values == Nat
<1>1. /\ level \in Levels /\ level < LevelCount
      /\ Nodes(level) \in Nat /\ Entry.start \in Nat
      /\ \A l \in Levels : Size[l] = Nodes(l)
  BY PlacedFacts, LevelFacts DEF LocalType, StartLevel, Entry
<1>2. LocalType'
  BY <1>1, PlacedFacts DEF LocalType, States, StartLevel, Proceed
<1>3. ScanType'
  <2>1. CASE depth # "full"
    BY <2>1, PlacedFacts, ScanUnchanged DEF StartLevel, scan
  <2>2. CASE depth = "full"
    <3> DEFINE first == 0
               start == Entry.start
    <3>1. /\ first \in 0..Size[level] /\ start \in Values
          /\ NodeTable(scannedStart, Size, Values)
          /\ scannedStart' = [scannedStart EXCEPT ![level][first] = start]
      BY <1>1, <2>2, PlacedFacts DEF StartLevel, NodeTable, ScanType
    <3> HIDE DEF Size, Values, first, start
    <3>2. NodeTable(scannedStart', Size, Values)
      BY <1>1, <3>1, CellWritten
    <3> QED
      BY <1>1, <3>2, PlacedFacts DEF StartLevel, ScanType, NodeTable, Values
  <2> QED
    BY <2>1, <2>2
<1>4. /\ pc' \in {"raw", "block", "index", "rejected"}
      /\ pc' = "raw" => level \in RawLevels
      /\ pc' \in {"block", "index"} => level \in HuffmanLevels
      /\ pc' = "block" => depth = "full"
      /\ pc' = "index" => depth = "verified"
      /\ pc' # "rejected" => pc \in Inside
  BY <1>1, PlacedFacts, LevelFacts DEF StartLevel, Proceed, LocalType, Inside
<1>5. Boundary(0) = 0
  BY <1>1, BlockStarts DEF Boundary
<1>6. block' = 0 /\ node' = 0 /\ level' = level /\ depth' = depth
  BY DEF StartLevel
<1>7. Boundary(block)' = Boundary(0)
  BY <1>6 DEF Boundary
<1>8. Control'
  BY <1>4, <1>5, <1>6, <1>7, PlacedFacts DEF Control, FlagsChecked, Inside
<1> QED
  BY <1>2, <1>3, <1>8, TypeParts, PTL DEF Placed

LEMMA RawMaskType ==
  ASSUME db \in Databases, NEW l \in RawLevels, NEW i \in 0..(Nodes(l) - 1)
  PROVE  db.masks[l][i] \in Masks
BY DatabasesAssumption DEF DatabaseType, Nodes

LEMMA RawNodePlaced ==
  ASSUME Placed, RawNode, db' = db,
         \A l : Nodes(l)' = Nodes(l),
         \A l : HasChildRanks(l)' <=> HasChildRanks(l)
  PROVE  Placed'
<1> DEFINE m == db.masks[level][node]
<1>1. /\ level \in RawLevels /\ level \in Levels /\ node < Nodes(level)
      /\ node \in Nat /\ Nodes(level) \in Nat /\ db \in Databases
  BY PlacedFacts, LevelFacts DEF RawNode, Control, LocalType
<1>2. m \in Masks
  BY <1>1, RawMaskType
<1>3. CountOnes(m) \in Nat
  BY <1>2, CountOnesNat
<1>4. /\ pc' \in {"raw", "rejected"}
      /\ CountMask(m) /\ Record(m, children, bitOffset)
      /\ children' = children + CountOnes(m)
      /\ UNCHANGED <<db, depth, level, block, rawOffset, bitOffset, mask,
                     blockBegin, blockKids, widest, accepted>>
      /\ pc = "raw"
  BY DEF RawNode, Proceed
<1> HIDE DEF m
<1>5. ScanType'
  BY <1>1, <1>2, <1>4, PlacedFacts, Recorded DEF LocalType
<1>6. LocalType'
  BY <1>1, <1>3, <1>4, PlacedFacts DEF LocalType, States, CountMask
<1>7. Control'
  BY <1>1, <1>4, PlacedFacts DEF Control, FlagsChecked, Inside
<1> QED
  BY <1>5, <1>6, <1>7, TypeParts, PTL DEF Placed

\* The block the loops are in.
LEMMA CurrentBlock ==
  ASSUME block \in Nat, Nodes(level) \in Nat
  PROVE  /\ BlockEnd \in Nat
         /\ BlockEnd <= Nodes(level)
         /\ BlockStartOf(block) \in Nat
         /\ BlockStartOf(block) < Nodes(level) =>
              BlockStartOf(block) + 1 <= BlockEnd
         /\ BlockEnd = Boundary(block + 1)
<1> DEFINE n == Nodes(level)
<1>1. BlockEnd = BlockEndOf(block, n) /\ n \in Nat
  BY DEF BlockEnd
<1> HIDE DEF n
<1>2. /\ BlockEndOf(block, n) \in Nat /\ BlockEndOf(block, n) <= n
      /\ BlockStartOf(block) < n => BlockStartOf(block) + 1 <= BlockEndOf(block, n)
  BY <1>1, BlockEnds
<1>3. BlockStartOf(block) \in Nat
  BY BlockStarts
<1>4. BlockEndOf(block, n) = IF BlockStartOf(block + 1) <= n
                             THEN BlockStartOf(block + 1) ELSE n
  BY DEF BlockEndOf
<1> QED
  BY <1>1, <1>2, <1>3, <1>4 DEF n, Boundary

LEMMA StartBlockPlaced ==
  ASSUME Placed, StartBlock, db' = db,
         \A l : Nodes(l)' = Nodes(l),
         \A l : HasChildRanks(l)' <=> HasChildRanks(l)
  PROVE  Placed'
<1> DEFINE m == PayloadMask(db.payload, bitOffset)
           after == bitOffset + Fanout
<1>1. /\ level \in HuffmanLevels /\ level \in Levels /\ node < Nodes(level)
      /\ node \in Nat /\ Nodes(level) \in Nat /\ db \in Databases
      /\ depth = "full" /\ node = Boundary(block) /\ block \in Nat
  BY PlacedFacts, LevelFacts DEF StartBlock, Control, LocalType
<1>2. m \in Masks
  BY PayloadMaskType
<1>3. CountOnes(m) \in Nat /\ after \in Nat
  BY <1>2, CountOnesNat, PlacedFacts, FormatAssumption DEF LocalType
<1>4. /\ pc' = "symbols" /\ pc = "block" /\ mask' = m
      /\ CountMask(m) /\ Record(m, children, after)
      /\ blockKids' = CountOnes(m) /\ blockBegin' = bitOffset /\ bitOffset' = after
      /\ UNCHANGED <<db, depth, level, block, rawOffset, children, widest, accepted>>
  BY DEF StartBlock
<1> HIDE DEF m, after
<1>5. ScanType'
  BY <1>1, <1>2, <1>3, <1>4, PlacedFacts, Recorded DEF LocalType
<1>6. LocalType'
  BY <1>1, <1>2, <1>3, <1>4, PlacedFacts DEF LocalType, States, CountMask
<1>7. BlockStartOf(block) = node /\ node + 1 <= BlockEnd
  BY <1>1, CurrentBlock DEF Boundary
<1>8. node' = node + 1 /\ BlockStartOf(block)' = BlockStartOf(block) /\ BlockEnd' = BlockEnd
  BY <1>4 DEF CountMask, BlockEnd
<1>9. Control'
  BY <1>1, <1>4, <1>7, <1>8, PlacedFacts DEF Control, FlagsChecked, Inside
<1> QED
  BY <1>5, <1>6, <1>9, TypeParts, PTL DEF Placed

LEMMA DecodeNodePlaced ==
  ASSUME Placed, DecodeNode, db' = db,
         \A l : Nodes(l)' = Nodes(l),
         \A l : HasChildRanks(l)' <=> HasChildRanks(l)
  PROVE  Placed'
<1>1. /\ level \in HuffmanLevels /\ level \in Levels /\ node < BlockEnd
      /\ node \in Nat /\ Nodes(level) \in Nat /\ db \in Databases
      /\ block \in Nat /\ pc = "symbols"
      /\ children \in Nat /\ blockKids \in Nat /\ bitOffset \in Nat
  BY PlacedFacts, LevelFacts DEF DecodeNode, Control, LocalType
<1>2. BlockEnd \in Nat /\ node < Nodes(level)
  BY <1>1, CurrentBlock
<1>3. PICK n \in CodeLengths, m \in Masks :
        /\ mask' = m /\ CountMask(m)
        /\ Record(m, children + blockKids, bitOffset + n)
        /\ blockKids' = blockKids + CountOnes(m)
        /\ bitOffset' = bitOffset + n
  BY DEF DecodeNode
<1>4. UNCHANGED <<db, depth, pc, level, block, rawOffset, children, blockBegin,
                  widest, accepted>>
  BY DEF DecodeNode
<1>5. CountOnes(m) \in Nat /\ n \in Nat
  BY CountOnesNat, FormatAssumption DEF CodeLengths
<1> DEFINE prior == children + blockKids
           after == bitOffset + n
<1>6. prior \in Nat /\ after \in Nat /\ Record(m, prior, after)
  BY <1>1, <1>3, <1>5
<1> HIDE DEF prior, after
<1>7. ScanType'
  BY <1>1, <1>2, <1>6, PlacedFacts, Recorded
<1>8. LocalType'
  BY <1>1, <1>2, <1>3, <1>4, <1>5, PlacedFacts DEF LocalType, States, CountMask
<1>9. node' = node + 1 /\ BlockStartOf(block)' = BlockStartOf(block) /\ BlockEnd' = BlockEnd
  BY <1>3, <1>4 DEF CountMask, BlockEnd
<1>10. BlockStartOf(block) \in Nat
  BY <1>1, BlockStarts
<1>11. Control'
  BY <1>1, <1>2, <1>4, <1>9, <1>10, PlacedFacts DEF Control, FlagsChecked, Inside
<1> QED
  BY <1>7, <1>8, <1>11, TypeParts, PTL DEF Placed

LEMMA WidenType ==
  ASSUME NEW bits \in Nat, NEW kids \in Nat,
         widest \in [bits : Nat, kids : Nat], Widen(bits, kids)
  PROVE  widest' \in [bits : Nat, kids : Nat]
BY DEF Widen

LEMMA EndBlockPlaced ==
  ASSUME Placed, EndBlock, db' = db,
         \A l : Nodes(l)' = Nodes(l),
         \A l : HasChildRanks(l)' <=> HasChildRanks(l)
  PROVE  Placed'
<1> DEFINE bits == db.blockBits[level][block]
           kids == IndexedKids
<1>1. /\ level \in HuffmanLevels /\ level \in Levels /\ level < LevelCount
      /\ node = BlockEnd /\ Nodes(level) \in Nat /\ db \in Databases
      /\ block \in Nat /\ node \in Nat /\ BlockStartOf(block) < node
      /\ children \in Nat /\ blockKids \in Nat /\ FlagsChecked(level)
      /\ widest \in [bits : Nat, kids : Nat]
  BY PlacedFacts, LevelFacts DEF EndBlock, Control, LocalType, Inside
<1>2. /\ node <= Nodes(level) /\ node = Boundary(block + 1)
      /\ BlockStartOf(block) < Nodes(level)
  BY <1>1, CurrentBlock
<1>3. bits \in Nat /\ kids \in Nat
  BY <1>1, <1>2, FieldFacts
<1>4. /\ pc' \in {"block", "rejected"} /\ pc = "symbols"
      /\ Widen(bits, kids) /\ block' = block + 1
      /\ children' = children + blockKids
      /\ UNCHANGED <<db, depth, level, node, rawOffset, bitOffset, zeros, mask,
                     blockBegin, blockKids, scan, accepted>>
  BY DEF EndBlock, Proceed
<1> HIDE DEF bits, kids
<1>5. widest' \in [bits : Nat, kids : Nat]
  BY <1>1, <1>3, <1>4, WidenType
<1>6. LocalType'
  BY <1>1, <1>2, <1>4, <1>5, PlacedFacts DEF LocalType, States
<1>7. ScanType'
  BY <1>4, PlacedFacts, ScanUnchanged
<1>8. Boundary(block)' = Boundary(block + 1)
  BY <1>4 DEF Boundary
<1>9. Control'
  BY <1>1, <1>2, <1>4, <1>8, PlacedFacts DEF Control, FlagsChecked, Inside
<1> QED
  BY <1>6, <1>7, <1>9, TypeParts, PTL DEF Placed

LEMMA IndexBlockPlaced ==
  ASSUME Placed, IndexBlock, db' = db,
         \A l : Nodes(l)' = Nodes(l),
         \A l : HasChildRanks(l)' <=> HasChildRanks(l)
  PROVE  Placed'
<1> DEFINE bits == db.blockBits[level][block]
           kids == IndexedKids
<1>1. /\ level \in HuffmanLevels /\ level \in Levels /\ level < LevelCount
      /\ node < Nodes(level) /\ Nodes(level) \in Nat /\ db \in Databases
      /\ block \in Nat /\ node \in Nat /\ node = Boundary(block)
      /\ children \in Nat /\ bitOffset \in Nat /\ FlagsChecked(level)
      /\ depth = "verified" /\ widest \in [bits : Nat, kids : Nat]
  BY PlacedFacts, LevelFacts DEF IndexBlock, Control, LocalType, Inside
<1>2. /\ BlockStartOf(block) < Nodes(level)
      /\ BlockEnd \in Nat /\ BlockEnd <= Nodes(level)
      /\ BlockEnd = Boundary(block + 1)
  BY <1>1, CurrentBlock DEF Boundary
<1>3. bits \in Nat /\ kids \in Nat
  BY <1>1, <1>2, FieldFacts
<1>4. /\ pc' \in {"index", "rejected"} /\ pc = "index"
      /\ Widen(bits, kids) /\ block' = block + 1 /\ node' = BlockEnd
      /\ children' = children + kids /\ bitOffset' = bitOffset + bits
      /\ UNCHANGED <<db, depth, level, rawOffset, zeros, mask, blockBegin,
                     blockKids, scan, accepted>>
  BY DEF IndexBlock, Proceed
<1> HIDE DEF bits, kids
<1>5. widest' \in [bits : Nat, kids : Nat]
  BY <1>1, <1>3, <1>4, WidenType
<1>6. LocalType'
  BY <1>1, <1>2, <1>3, <1>4, <1>5, PlacedFacts DEF LocalType, States
<1>7. ScanType'
  BY <1>4, PlacedFacts, ScanUnchanged
<1>8. Boundary(block)' = Boundary(block + 1)
  BY <1>4 DEF Boundary
<1>9. Control'
  BY <1>1, <1>2, <1>4, <1>8, PlacedFacts DEF Control, FlagsChecked, Inside
<1> QED
  BY <1>6, <1>7, <1>9, TypeParts, PTL DEF Placed

LEMMA StutterPlaced ==
  ASSUME Placed, UNCHANGED vars
  PROVE  Placed'
<1>1. LocalType' /\ ScanType'
  BY PlacedFacts DEF LocalType, ScanType, vars, progress, scan, Nodes
<1>2. Control'
  BY PlacedFacts
  DEF Control, FlagsChecked, vars, progress, Nodes, HasChildRanks, BlockEnd,
      Boundary, Inside
<1> QED
  BY <1>1, <1>2, TypeParts, PTL DEF Placed

LEMMA StepPlaced == Placed /\ [Next]_vars => Placed'
<1> SUFFICES ASSUME Placed, [Next]_vars PROVE Placed'
  OBVIOUS
<1>1. /\ db' = db
      /\ \A l : Nodes(l)' = Nodes(l)
      /\ \A l : HasChildRanks(l)' <=> HasChildRanks(l)
  BY FileStays
<1>2. ASSUME NEW mode \in {"full", "verified"}, Open(mode) PROVE Placed'
  BY <1>1, <1>2, OpenPlaced
<1>3. CASE CheckEntry
  BY <1>1, <1>3, CheckEntryPlaced
<1>4. CASE CheckTotals
  BY <1>1, <1>4, CheckTotalsPlaced
<1>5. CASE ValidateModels
  BY <1>1, <1>5, ValidateModelsPlaced
<1>6. CASE StartLevel
  BY <1>1, <1>6, StartLevelPlaced
<1>7. CASE RawNode
  BY <1>1, <1>7, RawNodePlaced
<1>8. CASE EndRawLevel
  BY <1>1, <1>8, EndRawLevelPlaced
<1>9. CASE StartBlock
  BY <1>1, <1>9, StartBlockPlaced
<1>10. CASE RejectBlock \/ RejectSymbol
  BY <1>10, RejectPlaced DEF RejectBlock, RejectSymbol
<1>11. CASE DecodeNode
  BY <1>1, <1>11, DecodeNodePlaced
<1>12. CASE EndBlock
  BY <1>1, <1>12, EndBlockPlaced
<1>13. CASE EndHuffmanLevel
  BY <1>1, <1>13, EndHuffmanLevelPlaced
<1>14. CASE IndexBlock
  BY <1>1, <1>14, IndexBlockPlaced
<1>15. CASE EndIndexedLevel
  BY <1>1, <1>15, EndIndexedLevelPlaced
<1>16. CASE Complete
  BY <1>1, <1>16, CompletePlaced
<1>17. CASE Close
  BY <1>1, <1>17, ClosePlaced
<1>18. CASE UNCHANGED vars
  BY <1>18, StutterPlaced
<1> QED
  BY <1>2, <1>3, <1>4, <1>5, <1>6, <1>7, <1>8, <1>9, <1>10, <1>11, <1>12, <1>13,
     <1>14, <1>15, <1>16, <1>17, <1>18
  DEF Next, Construct

\* TypeOK: every variable of a construction keeps its type, for any file, and the
\* validators' loops never leave the nodes of an existing level.
THEOREM TypeCorrect == Spec => []TypeOK
<1>1. Placed => TypeOK
  BY DEF Placed
<1> QED
  BY <1>1, InitPlaced, StepPlaced, PTL DEF Spec

-----------------------------------------------------------------------------
(* Restart indexes: the invariant *)

Linked(l) ==
  scannedRank[l][Nodes(l)] = IF FinalLevel(l) THEN db.terminal ELSE Nodes(l + 1)

LevelExact(l) ==
  /\ Linked(l)
  /\ l \in RawLevels => Checkpointed(l)
  /\ l \in HuffmanLevels =>
       \A b \in BlocksOf(l) : BlockIndexed(l, b) /\ GroupIndexed(l, b)

AcceptedExact ==
  accepted => Nodes(0) = RootFaceCount /\ \A l \in Levels : LevelExact(l)

\* While the history is rewritten nothing is accepted.
Pending ==
  depth = "full" /\ (pc \in {"directory", "models"} \/ pc \in Inside) => ~accepted

RanksFromZero == \A l \in Levels : scannedRank[l][0] = 0

EarlierExact ==
  depth = "full" /\ pc \in Inside => \A l \in Levels : l < level => LevelExact(l)

\* The raw loop: children counts the masks before node.
RawScan ==
  depth = "full" /\ pc = "raw" =>
    /\ children = scannedRank[level][node]
    /\ \A i \in 0..(Nodes(level) - 1) : i < node /\ i % RawRankInterval = 0 =>
         db.rawRanks[level][CheckpointOf(i)] = scannedRank[level][i]

BlocksDone(n) ==
  \A b \in BlocksOf(level) : b < n => BlockIndexed(level, b) /\ GroupIndexed(level, b)

\* Between blocks.
BlockScan ==
  pc = "block" =>
    /\ children = scannedRank[level][node]
    /\ bitOffset = scannedStart[level][node]
    /\ BlocksDone(block)

\* Inside a block: children and blockBegin still stand at its first node.
SymbolScan ==
  pc = "symbols" =>
    /\ children = scannedRank[level][BlockStartOf(block)]
    /\ blockBegin = scannedStart[level][BlockStartOf(block)]
    /\ children + blockKids = scannedRank[level][node]
    /\ bitOffset = scannedStart[level][node]
    /\ GroupIndexed(level, block)
    /\ BlocksDone(block)

Scanned ==
  /\ AcceptedExact /\ Pending /\ RanksFromZero /\ EarlierExact
  /\ RawScan /\ BlockScan /\ SymbolScan

-----------------------------------------------------------------------------
(* What a step leaves of the history *)

\* Level l of the history stays as it is up to node last.
Kept(l, last) ==
  \A j \in 0..Nodes(l) : j <= last =>
    /\ scannedRank'[l][j] = scannedRank[l][j]
    /\ scannedStart'[l][j] = scannedStart[l][j]

LEMMA BlockRange ==
  ASSUME NEW l, Nodes(l) \in Nat, NEW b \in BlocksOf(l)
  PROVE  /\ b \in Nat /\ BlockStartOf(b) \in 0..Nodes(l)
         /\ BlockEndOf(b, Nodes(l)) \in 0..Nodes(l)
         /\ BlockStartOf(b) <= BlockEndOf(b, Nodes(l))
<1> DEFINE n == Nodes(l)
<1>1. b \in Nat /\ n \in Nat /\ BlockStartOf(b) < n
  BY DEF BlocksOf
<1> HIDE DEF n
<1>2. BlockStartOf(b) \in Nat
  BY <1>1, BlockStarts
<1>3. /\ BlockEndOf(b, n) \in Nat /\ BlockEndOf(b, n) <= n
      /\ BlockStartOf(b) + 1 <= BlockEndOf(b, n)
  BY <1>1, BlockEnds
<1> QED
  BY <1>1, <1>2, <1>3 DEF n

LEMMA BlockKept ==
  ASSUME db' = db, NEW l, Nodes(l) \in Nat, NEW b \in BlocksOf(l), NEW last,
         Kept(l, last), BlockEndOf(b, Nodes(l)) <= last, last \in Nat,
         BlockIndexed(l, b), GroupIndexed(l, b)
  PROVE  BlockIndexed(l, b)' /\ GroupIndexed(l, b)'
<1> DEFINE first == BlockStartOf(b)
           end == BlockEndOf(b, Nodes(l))
<1>1. first \in 0..Nodes(l) /\ end \in 0..Nodes(l) /\ first <= end
  BY BlockRange
<1>2. /\ scannedRank'[l][first] = scannedRank[l][first]
      /\ scannedStart'[l][first] = scannedStart[l][first]
      /\ scannedRank'[l][end] = scannedRank[l][end]
      /\ scannedStart'[l][end] = scannedStart[l][end]
  BY <1>1 DEF Kept
<1>3. Nodes(l)' = Nodes(l)
  BY DEF Nodes
<1> QED
  BY <1>2, <1>3 DEF BlockIndexed, GroupIndexed

LEMMA LevelKept ==
  ASSUME db' = db, NEW l \in Levels, Nodes(l) \in Nat,
         Kept(l, Nodes(l)), LevelExact(l)
  PROVE  LevelExact(l)'
<1>1. /\ Nodes(l)' = Nodes(l) /\ Nodes(l + 1)' = Nodes(l + 1)
      /\ BlocksOf(l)' = BlocksOf(l)
  BY DEF Nodes, BlocksOf
<1>2. Linked(l)'
  BY <1>1 DEF LevelExact, Linked, Kept
<1>3. l \in RawLevels => Checkpointed(l)'
  BY <1>1 DEF LevelExact, Checkpointed, Kept
<1>4. ASSUME l \in HuffmanLevels, NEW b \in BlocksOf(l)
      PROVE  BlockIndexed(l, b)' /\ GroupIndexed(l, b)'
  <2>1. BlockEndOf(b, Nodes(l)) <= Nodes(l)
    BY BlockRange
  <2> QED
    BY <1>4, <2>1, BlockKept DEF LevelExact
<1> QED
  BY <1>1, <1>2, <1>3, <1>4 DEF LevelExact

\* Without a change of the history everything about levels and blocks stays.
LEMMA LevelsStay ==
  ASSUME db' = db, UNCHANGED scan, Scanned
  PROVE  /\ RanksFromZero'
         /\ \A l \in Levels : LevelExact(l) => LevelExact(l)'
<1>1. \A l \in Levels : LevelExact(l)' = LevelExact(l)
  BY DEF scan, LevelExact, Linked, Checkpointed, BlocksOf, BlockIndexed,
         GroupIndexed, Nodes
<1> QED
  BY <1>1 DEF Scanned, RanksFromZero, scan

-----------------------------------------------------------------------------
(* The steps *)

\* Steps that end outside the loops, and keep the history.
LEMMA OutsideScanned ==
  ASSUME Placed, Scanned, db' = db, UNCHANGED scan,
         pc' \notin {"raw", "block", "symbols"},
         AcceptedExact', Pending', EarlierExact'
  PROVE  Scanned'
<1>1. RanksFromZero'
  BY LevelsStay
<1> QED
  BY <1>1 DEF Scanned, RawScan, BlockScan, SymbolScan

LEMMA AcceptedStays ==
  ASSUME db' = db, UNCHANGED scan, Scanned, accepted' => accepted
  PROVE  AcceptedExact'
BY LevelsStay DEF Scanned, AcceptedExact, Nodes

LEMMA InitScanned == Init => Scanned
<1> SUFFICES ASSUME Init PROVE Scanned
  OBVIOUS
<1>1. pc = "closed" /\ accepted = FALSE /\ scannedRank = EveryNode(0)
  BY DEF Init
<1>2. \A l \in Levels : Nodes(l) \in Nat
  BY InitPlaced, PlacedFacts
<1>3. RanksFromZero
  BY <1>1, <1>2 DEF RanksFromZero, EveryNode
<1> QED
  BY <1>1, <1>3
  DEF Scanned, AcceptedExact, Pending, EarlierExact, RawScan, BlockScan, SymbolScan,
      Inside

LEMMA OpenScanned ==
  ASSUME Placed, Scanned, db' = db, NEW mode \in {"full", "verified"}, Open(mode)
  PROVE  Scanned'
<1>1. /\ pc' \in {"directory", "rejected"} /\ depth' = mode
      /\ accepted' = (accepted /\ mode = "verified")
  BY DEF Open, Proceed
<1>2. CASE mode = "full"
  <2>1. scannedRank' = EveryNode(0) /\ ~accepted'
    BY <1>1, <1>2 DEF Open
  <2>2. \A l \in Levels : Nodes(l) \in Nat
    BY PlacedFacts
  <2>3. RanksFromZero'
    BY <2>1, <2>2 DEF RanksFromZero, EveryNode
  <2> QED
    BY <1>1, <2>1, <2>3
    DEF Scanned, AcceptedExact, Pending, EarlierExact, RawScan, BlockScan,
        SymbolScan, Inside
<1>3. CASE mode # "full"
  <2>1. UNCHANGED scan /\ (accepted' => accepted)
    BY <1>1, <1>3 DEF Open
  <2>2. AcceptedExact'
    BY <2>1, AcceptedStays
  <2> QED
    BY <1>1, <1>3, <2>1, <2>2, OutsideScanned
    DEF Pending, EarlierExact, Inside
<1> QED
  BY <1>2, <1>3

\* The steps before the first level.
LEMMA HeaderScanned ==
  ASSUME Placed, Scanned, db' = db,
         CheckEntry \/ CheckTotals \/ ValidateModels
  PROVE  Scanned'
<1>1. /\ UNCHANGED <<depth, scan, accepted>>
      /\ pc' \in {"directory", "models", "level", "rejected"}
      /\ pc \in {"directory", "models"}
      /\ pc' = "level" => level' = 0
  <2>1. CASE CheckEntry
    BY <2>1 DEF CheckEntry, Proceed
  <2>2. CASE CheckTotals
    BY <2>2 DEF CheckTotals, Proceed
  <2>3. CASE ValidateModels
    <3> DEFINE valid == \A l \in HuffmanLevels : \A context \in Masks :
                          ValidModel(db.models[l][context])
    <3>1. pc' = IF valid THEN "level" ELSE "rejected"
      BY <2>3 DEF ValidateModels, Proceed
    <3> HIDE DEF valid
    <3> QED
      BY <2>3, <3>1 DEF ValidateModels
  <2> QED
    BY <2>1, <2>2, <2>3
<1>2. AcceptedExact'
  BY <1>1, AcceptedStays
<1>3. Pending'
  BY <1>1 DEF Scanned, Pending
<1>4. EarlierExact'
  BY <1>1, LevelFacts DEF EarlierExact, Inside
<1> QED
  BY <1>1, <1>2, <1>3, <1>4, OutsideScanned

\* A rejection, the end of a use of the engine, and a stutter outside the loops.
LEMMA RejectScanned ==
  ASSUME Placed, Scanned, db' = db, Reject \/ Close
  PROVE  Scanned'
<1>1. UNCHANGED <<scan, accepted>> /\ pc' \in {"rejected", "closed"}
  BY DEF Reject, Close
<1>2. AcceptedExact'
  BY <1>1, AcceptedStays
<1>3. Pending' /\ EarlierExact'
  BY <1>1 DEF Pending, EarlierExact, Inside
<1> QED
  BY <1>1, <1>2, <1>3, OutsideScanned

LEMMA StartLevelScanned ==
  ASSUME Placed, Placed', Scanned, db' = db, StartLevel
  PROVE  Scanned'
<1> DEFINE start == Entry.start
<1>1. /\ level \in Levels /\ Nodes(level) \in Nat /\ start \in Nat
      /\ \A l \in Levels : Nodes(l) \in Nat
      /\ \A l \in Levels : scannedRank[l] \in [0..Nodes(l) -> Nat]
      /\ \A l \in Levels : scannedStart[l] \in [0..Nodes(l) -> Nat]
      /\ DOMAIN scannedStart = Levels
  BY PlacedFacts, LevelFacts DEF LocalType, ScanType, StartLevel, Entry
<1>2. /\ pc' \in {"raw", "block", "index", "rejected"} /\ pc = "level"
      /\ block' = 0 /\ node' = 0 /\ children' = 0 /\ bitOffset' = start
      /\ UNCHANGED <<depth, level, scannedRank, accepted>>
      /\ pc' = "block" => depth = "full"
  BY DEF StartLevel, Proceed
<1>3. scannedStart' = IF depth = "full"
                      THEN [scannedStart EXCEPT ![level][0] = start]
                      ELSE scannedStart
  BY DEF StartLevel
<1> HIDE DEF start
<1>4. ASSUME NEW l \in Levels, l # level \/ depth # "full", LevelExact(l)
      PROVE  LevelExact(l)'
  <2>1. Kept(l, Nodes(l))
    BY <1>1, <1>2, <1>3, <1>4 DEF Kept
  <2> QED
    BY <1>1, <1>4, <2>1, LevelKept
<1>5. AcceptedExact'
  <2>1. accepted => depth # "full"
    BY <1>2 DEF Scanned, Pending, Inside
  <2> QED
    BY <1>2, <1>4, <2>1 DEF Scanned, AcceptedExact, Nodes
<1>6. Pending'
  BY <1>2 DEF Scanned, Pending, Inside
<1>7. RanksFromZero'
  BY <1>2 DEF Scanned, RanksFromZero
<1>8. EarlierExact'
  BY <1>1, <1>2, <1>4, LevelFacts DEF Scanned, EarlierExact, Inside
<1>9. RawScan'
  BY <1>1, <1>2 DEF Scanned, RanksFromZero, RawScan
<1>10. BlockScan'
  <2> SUFFICES ASSUME pc' = "block" PROVE BlockScan'
    BY DEF BlockScan
  <2>1. scannedStart'[level][0] = start
    BY <1>1, <1>2, <1>3
  <2>2. BlocksDone(0)'
    BY DEF BlocksDone, BlocksOf
  <2> QED
    BY <1>1, <1>2, <2>1, <2>2 DEF Scanned, RanksFromZero, BlockScan, BlocksDone
<1> QED
  BY <1>2, <1>5, <1>6, <1>7, <1>8, <1>9, <1>10 DEF Scanned, SymbolScan

\* What full validation records at a node leaves the earlier nodes of the level,
\* and the other levels, as they were.
LEMMA RecordKeeps ==
  ASSUME Placed, Scanned, db' = db, depth = "full",
         level \in Levels, node < Nodes(level),
         NEW m \in Masks, NEW prior \in Nat, NEW next \in Nat,
         Record(m, prior, next)
  PROVE  /\ Kept(level, node)
         /\ \A l \in Levels : l # level /\ LevelExact(l) => LevelExact(l)'
         /\ RanksFromZero'
         /\ scannedRank'[level][node + 1] = prior + CountOnes(m)
         /\ scannedStart'[level][node + 1] = next
<1>1. /\ db \in Databases /\ ScanType /\ node \in Nat
      /\ \A l \in Levels : Nodes(l) \in Nat
  BY PlacedFacts DEF LocalType
<1>2. /\ scannedRank'[level][node + 1] = prior + CountOnes(m)
      /\ scannedStart'[level][node + 1] = next
      /\ \A l \in Levels : \A j \in 0..Nodes(l) :
           l # level \/ j <= node =>
             /\ scannedRank'[l][j] = scannedRank[l][j]
             /\ scannedStart'[l][j] = scannedStart[l][j]
  BY <1>1, Recorded
<1>3. Kept(level, node) /\ \A l \in Levels : l # level => Kept(l, Nodes(l))
  BY <1>2 DEF Kept
<1>4. ASSUME NEW l \in Levels, l # level, LevelExact(l) PROVE LevelExact(l)'
  BY <1>1, <1>3, <1>4, LevelKept
<1>5. RanksFromZero'
  BY <1>1, <1>2 DEF Scanned, RanksFromZero
<1> QED
  BY <1>2, <1>3, <1>4, <1>5

\* The blocks before the current one lie before the current node.
LEMMA BlocksKept ==
  ASSUME Placed, db' = db, level' = level, level \in Levels,
         Kept(level, node), BlocksDone(block), BlockStartOf(block) <= node,
         NEW b \in BlocksOf(level), b < block
  PROVE  BlockIndexed(level, b)' /\ GroupIndexed(level, b)'
<1> DEFINE k == level
<1>1. block \in Nat /\ node \in Nat /\ Nodes(k) \in Nat /\ b \in Nat
  BY PlacedFacts DEF LocalType, BlocksOf
<1>2. BlockStartOf(block) \in Nat /\ BlockStartOf(b + 1) \in Nat
  BY <1>1, BlockStarts
<1>3. BlockStartOf(b + 1) <= BlockStartOf(block)
  BY <1>1, BlockStartsGrow
<1>4. BlockEndOf(b, Nodes(k)) <= node
  <2> DEFINE n == Nodes(k)
  <2>1. n \in Nat
    BY <1>1
  <2> HIDE DEF n
  <2>2. BlockEndOf(b, n) <= BlockStartOf(b + 1) /\ BlockEndOf(b, n) \in Nat
    BY <1>1, <2>1, BlockEnds
  <2> QED
    BY <1>1, <1>2, <1>3, <2>2 DEF n
<1>5. BlockIndexed(k, b) /\ GroupIndexed(k, b)
  BY DEF BlocksDone
<1>6. b \in BlocksOf(k) /\ Kept(k, node) /\ k' = k
  OBVIOUS
<1> HIDE DEF k
<1>7. BlockIndexed(k, b)' /\ GroupIndexed(k, b)'
  BY <1>1, <1>4, <1>5, <1>6, BlockKept
<1> QED
  BY <1>7 DEF k

LEMMA RawNodeScanned ==
  ASSUME Placed, Placed', Scanned, db' = db, RawNode
  PROVE  Scanned'
<1> DEFINE m == db.masks[level][node]
<1>1. /\ level \in RawLevels /\ level \in Levels /\ node < Nodes(level)
      /\ node \in Nat /\ Nodes(level) \in Nat /\ db \in Databases
      /\ children \in Nat /\ bitOffset \in Nat
  BY PlacedFacts, LevelFacts DEF RawNode, Control, LocalType
<1>2. m \in Masks
  BY <1>1, RawMaskType
<1>3. /\ pc' = IF node % RawRankInterval = 0 =>
                   db.rawRanks[level][CheckpointOf(node)] = children
               THEN "raw" ELSE "rejected"
      /\ node' = node + 1 /\ Record(m, children, bitOffset)
      /\ children' = children + CountOnes(m)
      /\ UNCHANGED <<depth, level, accepted>>
      /\ pc = "raw"
  BY DEF RawNode, Proceed, CountMask
<1> HIDE DEF m
<1>4. CASE depth # "full"
  <2>1. UNCHANGED scan /\ pc' \in {"raw", "rejected"}
    BY <1>3, <1>4 DEF Record
  <2>2. AcceptedExact' /\ RanksFromZero'
    BY <1>3, <2>1, AcceptedStays, LevelsStay
  <2> QED
    BY <1>3, <1>4, <2>1, <2>2
    DEF Scanned, Pending, EarlierExact, RawScan, BlockScan, SymbolScan
<1>5. CASE depth = "full"
  <2>1. /\ Kept(level, node)
        /\ \A l \in Levels : l # level /\ LevelExact(l) => LevelExact(l)'
        /\ RanksFromZero'
        /\ scannedRank'[level][node + 1] = children + CountOnes(m)
    BY <1>1, <1>2, <1>3, <1>5, RecordKeeps
  <2>2. ~accepted'
    BY <1>3, <1>5 DEF Scanned, Pending, Inside
  <2>3. EarlierExact'
    BY <1>1, <1>3, <1>5, <2>1, LevelFacts DEF Scanned, EarlierExact, Inside
  <2>4. RawScan'
    <3> SUFFICES ASSUME pc' = "raw" PROVE RawScan'
      BY DEF RawScan
    <3>1. children = scannedRank[level][node]
      BY <1>3, <1>5 DEF Scanned, RawScan
    <3>2. ASSUME NEW i \in 0..(Nodes(level) - 1), i < node + 1,
                 i % RawRankInterval = 0
          PROVE  db.rawRanks[level][CheckpointOf(i)] = scannedRank'[level][i]
      <4>1. scannedRank'[level][i] = scannedRank[level][i]
        BY <1>1, <2>1, <3>2 DEF Kept
      <4>2. CASE i = node
        BY <1>3, <3>1, <3>2, <4>1, <4>2
      <4>3. CASE i # node
        BY <1>1, <1>3, <1>5, <3>2, <4>1, <4>3 DEF Scanned, RawScan
      <4> QED
        BY <4>2, <4>3
    <3>3. Nodes(level)' = Nodes(level)
      BY <1>3 DEF Nodes
    <3> QED
      BY <1>3, <2>1, <3>2, <3>3 DEF RawScan
  <2> QED
    BY <1>3, <2>1, <2>2, <2>3, <2>4
    DEF Scanned, AcceptedExact, Pending, BlockScan, SymbolScan
<1> QED
  BY <1>4, <1>5

\* A step to the next level, once the current one is exact.
LEMMA NextLevelScanned ==
  ASSUME Placed, Scanned, db' = db, UNCHANGED <<depth, scan, accepted>>,
         pc \in Inside, pc' \in {"level", "rejected"}, level \in Levels,
         level' = level + 1,
         depth = "full" /\ pc' = "level" => LevelExact(level)
  PROVE  Scanned'
<1>1. AcceptedExact' /\ (\A l \in Levels : LevelExact(l) => LevelExact(l)')
  BY AcceptedStays, LevelsStay
<1>2. Pending'
  BY DEF Scanned, Pending, Inside
<1>3. EarlierExact'
  <2> SUFFICES ASSUME depth = "full", pc' = "level", NEW l \in Levels, l < level + 1
               PROVE  LevelExact(l)'
    BY DEF EarlierExact, Inside
  <2>1. l < level \/ l = level
    BY LevelFacts
  <2> QED
    BY <1>1, <2>1 DEF Scanned, EarlierExact, Inside
<1> QED
  BY <1>1, <1>2, <1>3, OutsideScanned

LEMMA EndRawLevelScanned ==
  ASSUME Placed, Scanned, db' = db, EndRawLevel
  PROVE  Scanned'
<1>1. /\ level \in RawLevels /\ level \in Levels /\ node = Nodes(level)
      /\ Nodes(level) \in Nat
  BY PlacedFacts, LevelFacts DEF EndRawLevel, Control, LocalType
<1>2. /\ UNCHANGED <<depth, scan, accepted>> /\ pc = "raw" /\ pc \in Inside
      /\ pc' = IF children = ExpectedChildren THEN "level" ELSE "rejected"
      /\ level' = level + 1
  BY DEF EndRawLevel, Proceed, Inside
<1>3. ASSUME depth = "full", pc' = "level" PROVE LevelExact(level)
  <2>1. Linked(level)
    BY <1>1, <1>2, <1>3 DEF Scanned, RawScan, Linked, ExpectedChildren
  <2>2. Checkpointed(level)
    BY <1>1, <1>2, <1>3 DEF Scanned, RawScan, Checkpointed
  <2>3. level \notin HuffmanLevels
    BY <1>1, LevelFacts
  <2> QED
    BY <2>1, <2>2, <2>3 DEF LevelExact
<1> QED
  BY <1>1, <1>2, <1>3, NextLevelScanned

LEMMA EndHuffmanLevelScanned ==
  ASSUME Placed, Scanned, db' = db, EndHuffmanLevel
  PROVE  Scanned'
<1> DEFINE ok == PayloadConsumed /\ children = ExpectedChildren
<1>1. /\ level \in HuffmanLevels /\ level \in Levels /\ node = Nodes(level)
      /\ Nodes(level) \in Nat /\ block \in Nat /\ node = Boundary(block)
  BY PlacedFacts, LevelFacts DEF EndHuffmanLevel, Control, LocalType
<1>2. /\ UNCHANGED <<depth, scan, accepted>> /\ pc = "block" /\ pc \in Inside
      /\ pc' = IF ok THEN "level" ELSE "rejected"
      /\ level' = level + 1
  BY DEF EndHuffmanLevel, Proceed, Inside
<1>3. ASSUME pc' = "level" PROVE LevelExact(level)
  <2>1. Linked(level)
    BY <1>1, <1>2, <1>3 DEF Scanned, BlockScan, Linked, ExpectedChildren
  <2>2. level \notin RawLevels
    BY <1>1, LevelFacts
  <2>3. ASSUME NEW b \in BlocksOf(level)
        PROVE  BlockIndexed(level, b) /\ GroupIndexed(level, b)
    <3>1. b \in Nat /\ BlockStartOf(b) < Nodes(level) /\ BlockStartOf(b) \in Nat
      BY <1>1, BlockStarts DEF BlocksOf
    <3>2. Nodes(level) <= BlockStartOf(block) /\ BlockStartOf(block) \in Nat
      BY <1>1, BlockStarts DEF Boundary
    <3>3. CASE b < block
      BY <1>2, <3>3 DEF Scanned, BlockScan, BlocksDone
    <3>4. CASE b = block
      BY <1>1, <3>1, <3>2, <3>4
    <3>5. CASE block < b
      <4>1. BlockStartOf(block + 1) <= BlockStartOf(b)
        BY <1>1, <3>1, <3>5, BlockStartsGrow
      <4>2. BlockStartOf(block) <= BlockStartOf(block + 1)
        BY <1>1, BlockStarts, FormatAssumption
      <4>3. BlockStartOf(block + 1) \in Nat
        BY <1>1, BlockStarts
      <4> QED
        BY <1>1, <3>1, <3>2, <4>1, <4>2, <4>3
    <3> QED
      BY <1>1, <3>1, <3>3, <3>4, <3>5
  <2> QED
    BY <2>1, <2>2, <2>3 DEF LevelExact
<1> HIDE DEF ok
<1> QED
  BY <1>1, <1>2, <1>3, NextLevelScanned

LEMMA EndIndexedLevelScanned ==
  ASSUME Placed, Scanned, db' = db, EndIndexedLevel
  PROVE  Scanned'
<1>1. level \in Levels /\ depth # "full"
  BY PlacedFacts, LevelFacts DEF EndIndexedLevel, Control
<1>2. /\ UNCHANGED <<depth, scan, accepted>> /\ pc \in Inside
      /\ pc' \in {"level", "rejected"} /\ level' = level + 1
  BY DEF EndIndexedLevel, Proceed, Inside
<1> QED
  BY <1>1, <1>2, NextLevelScanned

LEMMA IndexBlockScanned ==
  ASSUME Placed, Scanned, db' = db, IndexBlock
  PROVE  Scanned'
<1>1. depth # "full"
  BY PlacedFacts DEF IndexBlock, Control
<1>2. /\ UNCHANGED <<depth, scan, accepted>>
      /\ pc' \in {"index", "rejected"}
  BY DEF IndexBlock, Proceed
<1>3. AcceptedExact'
  BY <1>2, AcceptedStays
<1>4. Pending' /\ EarlierExact'
  BY <1>1, <1>2 DEF Pending, EarlierExact
<1> QED
  BY <1>2, <1>3, <1>4, OutsideScanned

LEMMA CompleteScanned ==
  ASSUME Placed, Scanned, db' = db, Complete
  PROVE  Scanned'
<1>1. /\ UNCHANGED <<depth, scan>> /\ pc = "level" /\ pc \in Inside
      /\ level = LevelCount
      /\ pc' \in {"ready", "rejected"}
      /\ accepted' => accepted \/ depth = "full"
  BY DEF Complete, Proceed, Inside
<1>2. AcceptedExact'
  <2>1. CASE accepted
    BY <1>1, <2>1, AcceptedStays
  <2>2. CASE depth = "full"
    <3>1. Nodes(0) = RootFaceCount
      BY <1>1, PlacedFacts DEF Control
    <3>2. \A l \in Levels : LevelExact(l)
      BY <1>1, <2>2, LevelFacts DEF Scanned, EarlierExact, Levels
    <3>3. \A l \in Levels : LevelExact(l)'
      BY <1>1, <3>2, LevelsStay
    <3> QED
      BY <3>1, <3>3 DEF AcceptedExact, Nodes
  <2>3. CASE ~accepted /\ depth # "full"
    BY <1>1, <2>3 DEF AcceptedExact
  <2> QED
    BY <2>1, <2>2, <2>3
<1>3. Pending' /\ EarlierExact'
  BY <1>1 DEF Pending, EarlierExact, Inside
<1> QED
  BY <1>1, <1>2, <1>3, OutsideScanned

\* The group entry of the current block keeps its meaning.
LEMMA GroupKept ==
  ASSUME db' = db, level' = level, block' = block, level \in Levels,
         Nodes(level) \in Nat, node \in Nat, block \in Nat,
         Kept(level, node), BlockStartOf(block) <= node, node <= Nodes(level),
         GroupIndexed(level, block)
  PROVE  /\ GroupIndexed(level, block)'
         /\ scannedRank'[level][BlockStartOf(block)]
              = scannedRank[level][BlockStartOf(block)]
         /\ scannedStart'[level][BlockStartOf(block)]
              = scannedStart[level][BlockStartOf(block)]
<1>1. BlockStartOf(block) \in 0..Nodes(level)
  BY BlockStarts
<1>2. /\ scannedRank'[level][BlockStartOf(block)]
           = scannedRank[level][BlockStartOf(block)]
      /\ scannedStart'[level][BlockStartOf(block)]
           = scannedStart[level][BlockStartOf(block)]
  BY <1>1 DEF Kept
<1> QED
  BY <1>2 DEF GroupIndexed

LEMMA StartBlockScanned ==
  ASSUME Placed, Scanned, db' = db, StartBlock
  PROVE  Scanned'
<1> DEFINE m == PayloadMask(db.payload, bitOffset)
           after == bitOffset + Fanout
<1>1. /\ level \in HuffmanLevels /\ level \in Levels /\ node < Nodes(level)
      /\ node \in Nat /\ Nodes(level) \in Nat /\ block \in Nat
      /\ depth = "full" /\ node = Boundary(block)
      /\ children \in Nat /\ bitOffset \in Nat /\ FlagsChecked(level)
  BY PlacedFacts, LevelFacts DEF StartBlock, Control, LocalType, Inside
<1>2. m \in Masks /\ after \in Nat
  BY <1>1, PayloadMaskType, FormatAssumption
<1>3. /\ pc' = "symbols" /\ pc = "block" /\ node' = node + 1 /\ GroupOk
      /\ Record(m, children, after) /\ blockKids' = CountOnes(m)
      /\ blockBegin' = bitOffset /\ bitOffset' = after
      /\ UNCHANGED <<depth, level, block, children, accepted>>
  BY DEF StartBlock, CountMask
<1> HIDE DEF m, after
<1>4. /\ Kept(level, node)
      /\ \A l \in Levels : l # level /\ LevelExact(l) => LevelExact(l)'
      /\ RanksFromZero'
      /\ scannedRank'[level][node + 1] = children + CountOnes(m)
      /\ scannedStart'[level][node + 1] = after
  BY <1>1, <1>2, <1>3, RecordKeeps
<1>5. BlockStartOf(block) = node
  BY <1>1, BlockStarts DEF Boundary
<1>6. /\ children = scannedRank[level][node] /\ bitOffset = scannedStart[level][node]
      /\ BlocksDone(block)
  BY <1>3 DEF Scanned, BlockScan
<1>7. GroupIndexed(level, block)
  BY <1>1, <1>3, <1>5, <1>6 DEF GroupOk, GroupIndexed, FlagsChecked
<1>8. /\ GroupIndexed(level, block)'
      /\ scannedRank'[level][node] = scannedRank[level][node]
      /\ scannedStart'[level][node] = scannedStart[level][node]
  BY <1>1, <1>3, <1>4, <1>5, <1>7, GroupKept
<1>9. BlocksDone(block)'
  <2>1. BlocksOf(level)' = BlocksOf(level)
    BY <1>3 DEF BlocksOf, Nodes
  <2>2. ASSUME NEW b \in BlocksOf(level), b < block
        PROVE  BlockIndexed(level, b)' /\ GroupIndexed(level, b)'
    BY <1>1, <1>3, <1>4, <1>5, <1>6, <2>2, BlocksKept
  <2> QED
    BY <1>3, <2>1, <2>2 DEF BlocksDone
<1>10. SymbolScan'
  <2>1. BlockStartOf(block)' = node
    BY <1>3, <1>5
  <2> QED
    BY <1>3, <1>4, <1>6, <1>8, <1>9, <2>1 DEF SymbolScan
<1>11. ~accepted'
  BY <1>1, <1>3 DEF Scanned, Pending, Inside
<1>12. EarlierExact'
  BY <1>1, <1>3, <1>4, LevelFacts DEF Scanned, EarlierExact, Inside
<1> QED
  BY <1>3, <1>4, <1>10, <1>11, <1>12
  DEF Scanned, AcceptedExact, Pending, RawScan, BlockScan

LEMMA DecodeNodeScanned ==
  ASSUME Placed, Scanned, db' = db, DecodeNode
  PROVE  Scanned'
<1>1. /\ level \in HuffmanLevels /\ level \in Levels /\ node < BlockEnd
      /\ node \in Nat /\ Nodes(level) \in Nat /\ block \in Nat
      /\ depth = "full" /\ BlockStartOf(block) < node
      /\ children \in Nat /\ bitOffset \in Nat /\ blockKids \in Nat
      /\ pc = "symbols"
  BY PlacedFacts, LevelFacts DEF DecodeNode, Control, LocalType
<1>2. BlockEnd \in Nat /\ node < Nodes(level) /\ BlockStartOf(block) \in Nat
  BY <1>1, CurrentBlock
<1>3. PICK n \in CodeLengths, m \in Masks :
        /\ CountMask(m)
        /\ Record(m, children + blockKids, bitOffset + n)
        /\ blockKids' = blockKids + CountOnes(m)
        /\ bitOffset' = bitOffset + n
  BY DEF DecodeNode
<1>4. /\ UNCHANGED <<depth, pc, level, block, children, blockBegin, accepted>>
      /\ node' = node + 1
  BY <1>3 DEF DecodeNode, CountMask
<1> DEFINE prior == children + blockKids
           after == bitOffset + n
<1>5. /\ prior \in Nat /\ after \in Nat /\ Record(m, prior, after)
      /\ CountOnes(m) \in Nat /\ bitOffset' = after
      /\ prior + CountOnes(m) = children + (blockKids + CountOnes(m))
  BY <1>1, <1>3, CountOnesNat, FormatAssumption DEF CodeLengths
<1> HIDE DEF prior, after
<1>6. /\ Kept(level, node)
      /\ \A l \in Levels : l # level /\ LevelExact(l) => LevelExact(l)'
      /\ RanksFromZero'
      /\ scannedRank'[level][node + 1] = prior + CountOnes(m)
      /\ scannedStart'[level][node + 1] = after
  BY <1>1, <1>2, <1>5, RecordKeeps
<1>7. /\ children = scannedRank[level][BlockStartOf(block)]
      /\ blockBegin = scannedStart[level][BlockStartOf(block)]
      /\ GroupIndexed(level, block) /\ BlocksDone(block)
  BY <1>1 DEF Scanned, SymbolScan
<1>8. /\ GroupIndexed(level, block)'
      /\ scannedRank'[level][BlockStartOf(block)]
           = scannedRank[level][BlockStartOf(block)]
      /\ scannedStart'[level][BlockStartOf(block)]
           = scannedStart[level][BlockStartOf(block)]
  BY <1>1, <1>2, <1>4, <1>6, <1>7, GroupKept
<1>9. BlocksDone(block)'
  <2>1. BlocksOf(level)' = BlocksOf(level)
    BY <1>4 DEF BlocksOf, Nodes
  <2>2. ASSUME NEW b \in BlocksOf(level), b < block
        PROVE  BlockIndexed(level, b)' /\ GroupIndexed(level, b)'
    BY <1>1, <1>2, <1>4, <1>6, <1>7, <2>2, BlocksKept
  <2> QED
    BY <1>4, <2>1, <2>2 DEF BlocksDone
<1>10. SymbolScan'
  <2>1. BlockStartOf(block)' = BlockStartOf(block)
    BY <1>4
  <2> QED
    BY <1>3, <1>4, <1>5, <1>6, <1>7, <1>8, <1>9, <2>1 DEF SymbolScan
<1>11. ~accepted'
  BY <1>1, <1>4 DEF Scanned, Pending, Inside
<1>12. EarlierExact'
  BY <1>1, <1>4, <1>6, LevelFacts DEF Scanned, EarlierExact, Inside
<1> QED
  BY <1>1, <1>4, <1>6, <1>10, <1>11, <1>12
  DEF Scanned, AcceptedExact, Pending, RawScan, BlockScan

LEMMA EndBlockScanned ==
  ASSUME Placed, Scanned, db' = db, EndBlock
  PROVE  Scanned'
<1> DEFINE bits == db.blockBits[level][block]
<1>1. /\ level \in HuffmanLevels /\ level \in Levels /\ node = BlockEnd
      /\ node \in Nat /\ Nodes(level) \in Nat /\ block \in Nat
      /\ depth = "full" /\ FlagsChecked(level)
      /\ children \in Nat /\ blockKids \in Nat /\ bitOffset \in Nat
  BY PlacedFacts, LevelFacts DEF EndBlock, Control, LocalType, Inside
<1>2. /\ pc = "symbols" /\ pc' \in {"block", "rejected"}
      /\ pc' = "block" => /\ bits = bitOffset - blockBegin
                          /\ HasChildRanks(level) => IndexedKids = blockKids
      /\ block' = block + 1 /\ children' = children + blockKids
      /\ UNCHANGED <<depth, level, node, bitOffset, scan, accepted>>
  BY DEF EndBlock, Proceed
<1>3. AcceptedExact' /\ RanksFromZero'
      /\ (\A l \in Levels : LevelExact(l) => LevelExact(l)')
  BY <1>2, AcceptedStays, LevelsStay
<1>4. Pending' /\ EarlierExact'
  BY <1>1, <1>2, <1>3 DEF Scanned, Pending, EarlierExact, Inside
<1>5. /\ children = scannedRank[level][BlockStartOf(block)]
      /\ blockBegin = scannedStart[level][BlockStartOf(block)]
      /\ children + blockKids = scannedRank[level][node]
      /\ bitOffset = scannedStart[level][node]
      /\ GroupIndexed(level, block) /\ BlocksDone(block)
  BY <1>2 DEF Scanned, SymbolScan
<1>6. ASSUME pc' = "block" PROVE BlockIndexed(level, block)
  <2>1. node = BlockEndOf(block, Nodes(level))
    BY <1>1 DEF BlockEnd
  <2>2. bits = scannedStart[level][node] - scannedStart[level][BlockStartOf(block)]
    BY <1>2, <1>5, <1>6
  <2>3. ~FinalLevel(level) => db.blockChildren[level][block] = blockKids
    BY <1>1, <1>2, <1>6 DEF FlagsChecked, IndexedKids
  <2>4. blockKids = scannedRank[level][node] - scannedRank[level][BlockStartOf(block)]
    BY <1>1, <1>5
  <2> QED
    BY <2>1, <2>2, <2>3, <2>4 DEF BlockIndexed
<1>7. ASSUME pc' = "block" PROVE BlocksDone(block)'
  <2>1. ASSUME NEW b \in BlocksOf(level), b < block + 1
        PROVE  BlockIndexed(level, b) /\ GroupIndexed(level, b)
    <3>1. b < block \/ b = block
      BY <1>1, <2>1 DEF BlocksOf
    <3> QED
      BY <1>5, <1>6, <1>7, <3>1 DEF BlocksDone
  <2>2. BlocksOf(level)' = BlocksOf(level)
    BY <1>2 DEF BlocksOf, Nodes
  <2>3. \A b : /\ BlockIndexed(level, b)' = BlockIndexed(level, b)
               /\ GroupIndexed(level, b)' = GroupIndexed(level, b)
    BY <1>2 DEF BlockIndexed, GroupIndexed, Nodes, scan
  <2> QED
    BY <1>2, <2>1, <2>2, <2>3 DEF BlocksDone
<1>8. BlockScan'
  BY <1>2, <1>5, <1>7 DEF BlockScan, scan
<1> QED
  BY <1>2, <1>3, <1>4, <1>8 DEF Scanned, RawScan, SymbolScan

LEMMA StutterScanned ==
  ASSUME Scanned, UNCHANGED vars
  PROVE  Scanned'
<1>1. UNCHANGED <<db, depth, pc, level, block, node, bitOffset, children,
                  blockBegin, blockKids, scan, accepted>>
  BY DEF vars, progress
<1>2. \A l, b : /\ BlockIndexed(l, b)' = BlockIndexed(l, b)
                /\ GroupIndexed(l, b)' = GroupIndexed(l, b)
  BY <1>1 DEF BlockIndexed, GroupIndexed, Nodes, scan
<1>3. AcceptedExact' /\ RanksFromZero'
      /\ (\A l \in Levels : LevelExact(l) => LevelExact(l)')
  BY <1>1, AcceptedStays, LevelsStay
<1>4. Pending' /\ EarlierExact'
  BY <1>1, <1>3 DEF Scanned, Pending, EarlierExact
<1>5. RawScan'
  BY <1>1 DEF Scanned, RawScan, Nodes, scan
<1>6. BlockScan' /\ SymbolScan'
  BY <1>1 DEF Scanned, BlockScan, SymbolScan, BlocksDone, BlockIndexed, GroupIndexed,
              BlocksOf, Nodes, scan
<1> QED
  BY <1>3, <1>4, <1>5, <1>6 DEF Scanned

LEMMA StepScanned == Placed /\ Placed' /\ Scanned /\ [Next]_vars => Scanned'
<1> SUFFICES ASSUME Placed, Placed', Scanned, [Next]_vars PROVE Scanned'
  OBVIOUS
<1>1. db' = db
  BY FileStays
<1>2. ASSUME NEW mode \in {"full", "verified"}, Open(mode) PROVE Scanned'
  BY <1>1, <1>2, OpenScanned
<1>3. CASE CheckEntry \/ CheckTotals \/ ValidateModels
  BY <1>1, <1>3, HeaderScanned
<1>4. CASE StartLevel
  BY <1>1, <1>4, StartLevelScanned
<1>5. CASE RawNode
  BY <1>1, <1>5, RawNodeScanned
<1>6. CASE EndRawLevel
  BY <1>1, <1>6, EndRawLevelScanned
<1>7. CASE StartBlock
  BY <1>1, <1>7, StartBlockScanned
<1>8. CASE RejectBlock \/ RejectSymbol \/ Close
  BY <1>1, <1>8, RejectScanned DEF RejectBlock, RejectSymbol
<1>9. CASE DecodeNode
  BY <1>1, <1>9, DecodeNodeScanned
<1>10. CASE EndBlock
  BY <1>1, <1>10, EndBlockScanned
<1>11. CASE EndHuffmanLevel
  BY <1>1, <1>11, EndHuffmanLevelScanned
<1>12. CASE IndexBlock
  BY <1>1, <1>12, IndexBlockScanned
<1>13. CASE EndIndexedLevel
  BY <1>1, <1>13, EndIndexedLevelScanned
<1>14. CASE Complete
  BY <1>1, <1>14, CompleteScanned
<1>15. CASE UNCHANGED vars
  BY <1>15, StutterScanned
<1> QED
  BY <1>2, <1>3, <1>4, <1>5, <1>6, <1>7, <1>8, <1>9, <1>10, <1>11, <1>12, <1>13,
     <1>14, <1>15
  DEF Next, Construct

-----------------------------------------------------------------------------
(* The theorems *)

LEMMA AlwaysScanned == Spec => [](Placed /\ Scanned)
BY InitPlaced, StepPlaced, InitScanned, StepScanned, PTL DEF Spec

LEMMA LevelsAreSplit ==
  /\ \A l \in RawLevels : l \in Levels
  /\ \A l \in HuffmanLevels : l \in Levels
BY LevelFacts

\* IndexesExact: whatever the file, once from_mmap has accepted it every restart
\* index is the exact total of the masks before it.
THEOREM IndexesAlwaysExact == Spec => []IndexesExact
<1>1. Scanned => IndexesExact
  BY LevelsAreSplit DEF Scanned, AcceptedExact, LevelExact, IndexesExact
<1> QED
  BY <1>1, AlwaysScanned, PTL

\* LevelsLinked: whatever the file, once from_mmap has accepted it the masks of
\* each level announce as many children as the next level has nodes.
THEOREM LevelsAlwaysLinked == Spec => []LevelsLinked
<1>1. Scanned => LevelsLinked
  BY DEF Scanned, AcceptedExact, LevelExact, Linked, LevelsLinked
<1> QED
  BY <1>1, AlwaysScanned, PTL

-----------------------------------------------------------------------------
(* What full validation knows about each mask it has decoded *)

RawRead(l, i) == scannedMask[l][i] = db.masks[l][i]

\* The first mask of a block is stored as it is.
FirstRead(l, i) ==
  \A b \in Nat : BlockStartOf(b) = i =>
    /\ scannedMask[l][i] = PayloadMask(db.payload, scannedStart[l][i])
    /\ scannedStart[l][i + 1] = scannedStart[l][i] + Fanout

\* The other masks are coded in the context of the one before.
NextRead(l, i) ==
  \A b \in Nat : BlockStartOf(b) < i /\ i < BlockStartOf(b + 1) =>
    \E n \in CodeLengths :
      /\ Decodes(db.models[l][scannedMask[l][i - 1]], db.payload,
                 scannedStart[l][i], LevelEnd(l), n, scannedMask[l][i])
      /\ scannedStart[l][i + 1] = scannedStart[l][i] + n

NodeRead(l, i) ==
  /\ scannedRank[l][i + 1] = scannedRank[l][i] + CountOnes(scannedMask[l][i])
  /\ l \in RawLevels => RawRead(l, i)
  /\ l \in HuffmanLevels => FirstRead(l, i) /\ NextRead(l, i)

ReadTo(l, last) == \A i \in 0..(Nodes(l) - 1) : i < last => NodeRead(l, i)

Traced ==
  /\ accepted => \A l \in Levels : ReadTo(l, Nodes(l))
  /\ depth = "full" /\ pc \in Inside =>
       \A l \in Levels : l < level => ReadTo(l, Nodes(l))
  /\ depth = "full" /\ pc \in {"raw", "block", "symbols"} => ReadTo(level, node)
  /\ pc = "symbols" => mask = scannedMask[level][node - 1]

\* The history of level l agrees with the one before the step on all that the
\* nodes before last depend on.
SameUpTo(l, last) ==
  \A j \in 0..Nodes(l) :
    /\ j < last => scannedMask'[l][j] = scannedMask[l][j]
    /\ j <= last => /\ scannedRank'[l][j] = scannedRank[l][j]
                    /\ scannedStart'[l][j] = scannedStart[l][j]

LEMMA ReadKept ==
  ASSUME db' = db, NEW l \in Levels, Nodes(l) \in Nat, NEW last \in Nat,
         SameUpTo(l, last), ReadTo(l, last)
  PROVE  ReadTo(l, last)'
<1>1. Nodes(l)' = Nodes(l) /\ LevelEnd(l)' = LevelEnd(l)
  BY DEF Nodes, LevelEnd
<1>2. ASSUME NEW i \in 0..(Nodes(l) - 1), i < last
      PROVE  NodeRead(l, i)'
  <2>1. /\ i \in 0..Nodes(l) /\ i + 1 \in 0..Nodes(l) /\ i + 1 <= last /\ i \in Nat
        /\ scannedMask'[l][i] = scannedMask[l][i]
        /\ scannedRank'[l][i] = scannedRank[l][i]
        /\ scannedStart'[l][i] = scannedStart[l][i]
    BY <1>2 DEF SameUpTo
  <2>2. /\ scannedRank'[l][i + 1] = scannedRank[l][i + 1]
        /\ scannedStart'[l][i + 1] = scannedStart[l][i + 1]
    BY <2>1 DEF SameUpTo
  <2>3. NodeRead(l, i)
    BY <1>2 DEF ReadTo
  <2>4. l \in RawLevels => RawRead(l, i)'
    BY <2>1, <2>3 DEF NodeRead, RawRead
  <2>5. l \in HuffmanLevels => FirstRead(l, i)'
    BY <2>1, <2>2, <2>3 DEF NodeRead, FirstRead
  <2>6. ASSUME l \in HuffmanLevels PROVE NextRead(l, i)'
    <3>1. ASSUME NEW b \in Nat, BlockStartOf(b) < i, i < BlockStartOf(b + 1)
          PROVE  /\ i - 1 \in 0..Nodes(l)
                 /\ scannedMask'[l][i - 1] = scannedMask[l][i - 1]
      <4>1. BlockStartOf(b) \in Nat
        BY <3>1, BlockStarts
      <4>2. i - 1 \in 0..Nodes(l) /\ i - 1 < last
        BY <1>2, <2>1, <3>1, <4>1
      <4> QED
        BY <4>2 DEF SameUpTo
    <3>2. NextRead(l, i)
      BY <2>3, <2>6 DEF NodeRead
    <3> QED
      BY <1>1, <2>1, <2>2, <3>1, <3>2 DEF NextRead
  <2> QED
    BY <2>1, <2>2, <2>3, <2>4, <2>5, <2>6 DEF NodeRead
<1> QED
  BY <1>1, <1>2 DEF ReadTo

\* Steps that leave the history alone.
LEMMA ReadStays ==
  ASSUME db' = db, UNCHANGED scan
  PROVE  \A l, last : ReadTo(l, last)' <=> ReadTo(l, last)
BY DEF scan, ReadTo, NodeRead, RawRead, FirstRead, NextRead, Nodes, LevelEnd

\* What Record writes, and what it leaves.
LEMMA RecordTraces ==
  ASSUME db \in Databases, ScanType, db' = db, depth = "full",
         level \in Levels, node \in Nat, node < Nodes(level),
         NEW m \in Masks, NEW earlier \in Nat, NEW next \in Nat,
         Record(m, earlier, next)
  PROVE  /\ scannedMask'[level][node] = m
         /\ scannedRank'[level][node + 1] = earlier + CountOnes(m)
         /\ scannedStart'[level][node + 1] = next
         /\ SameUpTo(level, node)
         /\ \A l \in Levels : l # level => SameUpTo(l, Nodes(l))
<1> DEFINE Size == [l \in Levels |-> Nodes(l)]
<1>1. \A l \in Levels : Nodes(l) \in Nat /\ Size[l] = Nodes(l)
  BY EntryFacts
<1>2. /\ node \in 0..Size[level]
      /\ NodeTable(scannedMask, Size, Masks)
      /\ scannedMask' = [scannedMask EXCEPT ![level][node] = m]
  BY <1>1 DEF ScanType, Record, NodeTable
<1> HIDE DEF Size
<1>3. CellChanged(scannedMask, scannedMask', Size, level, node, m)
  BY <1>2, CellWritten
<1>4. /\ scannedMask'[level][node] = m
      /\ \A l \in Levels : \A j \in 0..Nodes(l) :
           l # level \/ j # node => scannedMask'[l][j] = scannedMask[l][j]
  BY <1>1, <1>3 DEF CellChanged
<1>5. /\ scannedRank'[level][node + 1] = earlier + CountOnes(m)
      /\ scannedStart'[level][node + 1] = next
      /\ \A l \in Levels : \A j \in 0..Nodes(l) :
           l # level \/ j <= node =>
             /\ scannedRank'[l][j] = scannedRank[l][j]
             /\ scannedStart'[l][j] = scannedStart[l][j]
  BY Recorded
<1>6. SameUpTo(level, node)
  BY <1>4, <1>5 DEF SameUpTo
<1>7. \A l \in Levels : l # level => SameUpTo(l, Nodes(l))
  BY <1>4, <1>5 DEF SameUpTo
<1> QED
  BY <1>4, <1>5, <1>6, <1>7

\* One block at a time: a node inside a block begins no other.
LEMMA OneBlock ==
  ASSUME NEW a \in Nat, NEW b \in Nat, NEW i \in Nat,
         BlockStartOf(a) <= i, i < BlockStartOf(a + 1),
         BlockStartOf(b) <= i, i < BlockStartOf(b + 1)
  PROVE  a = b
<1>1. /\ BlockStartOf(a) \in Nat /\ BlockStartOf(a + 1) \in Nat
      /\ BlockStartOf(b) \in Nat /\ BlockStartOf(b + 1) \in Nat
  BY BlockStarts
<1>2. ~(a < b)
  BY <1>1, BlockStartsGrow
<1>3. ~(b < a)
  BY <1>1, BlockStartsGrow
<1> QED
  BY <1>2, <1>3

\* Steps after which no level is being read.
LEMMA OutsideTraced ==
  ASSUME Traced, db' = db, UNCHANGED scan, accepted' => accepted,
         pc' \notin {"raw", "block", "symbols"},
         depth' = "full" /\ pc' \in Inside =>
           \A l \in Levels : l < level' => ReadTo(l, Nodes(l))
  PROVE  Traced'
<1>1. \A l : Nodes(l)' = Nodes(l)
  BY DEF Nodes
<1> QED
  BY <1>1, ReadStays DEF Traced

\* A step that records the mask of the current node j of level k.
LEMMA RecordTraced ==
  ASSUME Placed, Scanned, Traced, db' = db, depth = "full", pc \in Inside,
         NEW k \in Levels, level = k, level' = k,
         NEW j \in Nat, node = j, node' = j + 1, j < Nodes(k),
         ReadTo(k, j), UNCHANGED <<depth, accepted>>,
         NEW m \in Masks, NEW earlier \in Nat, NEW next \in Nat,
         Record(m, earlier, next), NodeRead(k, j)',
         pc' = "symbols" => mask' = m
  PROVE  Traced'
<1>1. /\ db \in Databases /\ ScanType
      /\ \A l \in Levels : Nodes(l) \in Nat
  BY PlacedFacts DEF LocalType
<1>2. \A l : Nodes(l)' = Nodes(l)
  BY DEF Nodes
<1>3. /\ scannedMask'[k][j] = m
      /\ SameUpTo(k, j)
      /\ \A l \in Levels : l # k => SameUpTo(l, Nodes(l))
  BY <1>1, RecordTraces
<1>4. ReadTo(k, j)'
  BY <1>1, <1>3, ReadKept
<1>5. ReadTo(k, j + 1)'
  <2>1. ASSUME NEW i \in 0..(Nodes(k) - 1), i < j + 1 PROVE NodeRead(k, i)'
    <3>1. CASE i = j
      BY <3>1
    <3>2. CASE i # j
      BY <1>1, <1>2, <1>4, <2>1, <3>2 DEF ReadTo
    <3> QED
      BY <3>1, <3>2
  <2> QED
    BY <1>2, <2>1 DEF ReadTo
<1>6. ~accepted'
  BY DEF Scanned, Pending
<1>7. ASSUME NEW l \in Levels, l < k PROVE ReadTo(l, Nodes(l))'
  <2> DEFINE last == Nodes(l)
  <2>1. last \in Nat /\ SameUpTo(l, last) /\ ReadTo(l, last) /\ last' = last
    BY <1>1, <1>2, <1>3, <1>7, LevelFacts DEF Traced
  <2> HIDE DEF last
  <2>2. Nodes(l) \in Nat
    BY <1>1
  <2>3. \A n : n = last => ReadTo(l, n)'
    BY <2>1, <2>2, ReadKept
  <2> QED
    BY <2>1, <2>3 DEF last
<1>8. ReadTo(level, node)'
  BY <1>5 DEF ReadTo
<1>9. pc' = "symbols" => mask' = scannedMask'[level'][node' - 1]
  BY <1>3
<1> QED
  BY <1>6, <1>7, <1>8, <1>9 DEF Traced

LEMMA InitTraced == Init => Traced
BY DEF Init, Traced, Inside

\* Steps that keep the history, and the levels that are done.
LEMMA QuietTraced ==
  ASSUME Traced, db' = db, UNCHANGED <<scan, depth, accepted>>,
         pc' \notin {"raw", "block", "symbols"},
         pc' \in Inside => pc \in Inside /\ level' = level
  PROVE  Traced'
BY OutsideTraced DEF Traced

LEMMA OpenTraced ==
  ASSUME Placed, Traced, db' = db, NEW mode \in {"full", "verified"}, Open(mode)
  PROVE  Traced'
<1>1. /\ pc' \in {"directory", "rejected"} /\ depth' = mode
      /\ accepted' = (accepted /\ mode = "verified")
  BY DEF Open, Proceed
<1>2. CASE mode = "full"
  BY <1>1, <1>2 DEF Traced, Inside
<1>3. CASE mode # "full"
  <2>1. UNCHANGED scan /\ (accepted' => accepted)
    BY <1>1, <1>3 DEF Open
  <2> QED
    BY <1>1, <2>1, OutsideTraced DEF Inside
<1> QED
  BY <1>2, <1>3

LEMMA HeaderTraced ==
  ASSUME Placed, Traced, db' = db, CheckEntry \/ CheckTotals \/ ValidateModels
  PROVE  Traced'
<1>1. /\ UNCHANGED <<depth, scan, accepted>>
      /\ pc' \in {"directory", "models", "level", "rejected"}
      /\ pc' = "level" => level' = 0
  <2>1. CASE CheckEntry
    BY <2>1 DEF CheckEntry, Proceed
  <2>2. CASE CheckTotals
    BY <2>2 DEF CheckTotals, Proceed
  <2>3. CASE ValidateModels
    <3> DEFINE valid == \A l \in HuffmanLevels : \A context \in Masks :
                          ValidModel(db.models[l][context])
    <3>1. pc' = IF valid THEN "level" ELSE "rejected"
      BY <2>3 DEF ValidateModels, Proceed
    <3> HIDE DEF valid
    <3> QED
      BY <2>3, <3>1 DEF ValidateModels
  <2> QED
    BY <2>1, <2>2, <2>3
<1>2. pc' \in Inside => \A l \in Levels : ~(l < level')
  BY <1>1, LevelFacts DEF Inside, Levels
<1> QED
  BY <1>1, <1>2, OutsideTraced

\* A new level: only the offset of its first node changes.
LEMMA StartLevelTraced ==
  ASSUME Placed, Scanned, Traced, db' = db, StartLevel
  PROVE  Traced'
<1>1. /\ level \in Levels /\ ScanType /\ pc = "level" /\ level' = level
      /\ \A l \in Levels : Nodes(l) \in Nat
      /\ node' = 0 /\ UNCHANGED <<depth, accepted, scannedMask, scannedRank>>
      /\ pc' \in {"raw", "block", "index", "rejected"}
  BY PlacedFacts, LevelFacts DEF StartLevel, Proceed, LocalType
<1>2. \A l : Nodes(l)' = Nodes(l)
  BY DEF Nodes
<1>3. CASE depth # "full"
  <2>1. UNCHANGED scan
    BY <1>1, <1>3 DEF StartLevel, scan
  <2>2. \A l, last : ReadTo(l, last)' <=> ReadTo(l, last)
    BY <2>1, ReadStays
  <2> QED
    BY <1>1, <1>2, <1>3, <2>2 DEF Traced
<1>4. CASE depth = "full"
  <2>1. scannedStart' = [scannedStart EXCEPT ![level][0] = Entry.start]
    BY <1>4 DEF StartLevel
  <2>2. \A l \in Levels : l # level => SameUpTo(l, Nodes(l))
    BY <1>1, <2>1 DEF SameUpTo, ScanType
  <2>3. ASSUME NEW l \in Levels, l < level PROVE ReadTo(l, Nodes(l))'
    <3> DEFINE last == Nodes(l)
    <3>1. last \in Nat /\ SameUpTo(l, last) /\ ReadTo(l, last) /\ last' = last
      BY <1>1, <1>2, <1>4, <2>2, <2>3, LevelFacts DEF Traced, Inside
    <3> HIDE DEF last
    <3>2. \A n : n = last => ReadTo(l, n)'
      BY <1>1, <3>1, ReadKept
    <3> QED
      BY <3>1, <3>2 DEF last
  <2>4. ~accepted'
    BY <1>1, <1>4 DEF Scanned, Pending, Inside
  <2>5. ReadTo(level, node)'
    BY <1>1 DEF ReadTo
  <2> QED
    BY <1>1, <2>3, <2>4, <2>5 DEF Traced
<1> QED
  BY <1>3, <1>4

LEMMA RawNodeTraced ==
  ASSUME Placed, Scanned, Traced, db' = db, RawNode
  PROVE  Traced'
<1> DEFINE k == level
           j == node
           m == db.masks[k][j]
           earlier == children
           next == bitOffset
<1>1. /\ k \in RawLevels /\ k \in Levels /\ j < Nodes(k) /\ j \in Nat
      /\ db \in Databases /\ ScanType /\ earlier \in Nat /\ next \in Nat
      /\ pc = "raw" /\ pc' \in {"raw", "rejected"} /\ level' = k /\ node' = j + 1
      /\ UNCHANGED <<depth, accepted>> /\ Record(m, earlier, next)
      /\ Nodes(k) \in Nat
  BY PlacedFacts, LevelFacts
  DEF RawNode, Control, LocalType, Proceed, CountMask
<1>2. m \in Masks
  BY <1>1, RawMaskType
<1>3. CASE depth # "full"
  BY <1>1, <1>3, OutsideTraced, ReadStays DEF Record, Traced, Nodes
<1>4. CASE depth = "full"
  <2>1. earlier = scannedRank[k][j] /\ ReadTo(k, j)
    BY <1>1, <1>4 DEF Scanned, RawScan, Traced
  <2>2. level = k /\ node = j /\ db'.masks[k][j] = m /\ k \notin HuffmanLevels
    BY <1>1, LevelFacts
  <2> HIDE DEF k, j, m, earlier, next
  <2>3. /\ scannedMask'[k][j] = m /\ SameUpTo(k, j)
        /\ scannedRank'[k][j + 1] = earlier + CountOnes(m)
    BY <1>1, <1>2, <1>4, <2>2, RecordTraces
  <2>4. scannedRank'[k][j] = scannedRank[k][j]
    BY <1>1, <2>3 DEF SameUpTo
  <2>5. \A x, y : x = k /\ y = j => NodeRead(x, y)'
    BY <2>1, <2>2, <2>3, <2>4 DEF NodeRead, RawRead
  <2> QED
    BY <1>1, <1>2, <1>4, <2>1, <2>2, <2>5, RecordTraced DEF Inside
<1> QED
  BY <1>3, <1>4

LEMMA StartBlockTraced ==
  ASSUME Placed, Scanned, Traced, db' = db, StartBlock
  PROVE  Traced'
<1> DEFINE k == level
           j == node
           from == bitOffset
           next == bitOffset + Fanout
           m == PayloadMask(db.payload, from)
           earlier == children
<1>1. /\ k \in HuffmanLevels /\ k \in Levels /\ j < Nodes(k) /\ j \in Nat
      /\ db \in Databases /\ ScanType /\ earlier \in Nat /\ from \in Nat
      /\ depth = "full" /\ block \in Nat /\ j = Boundary(block)
      /\ pc = "block" /\ level' = k /\ node' = j + 1 /\ mask' = m
      /\ UNCHANGED <<depth, accepted>> /\ Record(m, earlier, next)
      /\ Nodes(k) \in Nat
  BY PlacedFacts, LevelFacts DEF StartBlock, Control, LocalType, CountMask
<1>2. m \in Masks /\ next \in Nat /\ next = from + Fanout
  BY <1>1, PayloadMaskType, FormatAssumption
<1>3. BlockStartOf(block) = j
  BY <1>1, BlockStarts DEF Boundary
<1>4. earlier = scannedRank[k][j] /\ from = scannedStart[k][j] /\ ReadTo(k, j)
  BY <1>1 DEF Scanned, BlockScan, Traced
<1>5. level = k /\ node = j /\ k \notin RawLevels /\ m = PayloadMask(db.payload, from)
  BY <1>1, LevelFacts
<1> HIDE DEF k, j, m, earlier, from, next
<1>6. /\ scannedMask'[k][j] = m /\ SameUpTo(k, j)
      /\ scannedRank'[k][j + 1] = earlier + CountOnes(m)
      /\ scannedStart'[k][j + 1] = next
  BY <1>1, <1>2, <1>5, RecordTraces
<1>7. scannedRank'[k][j] = scannedRank[k][j] /\ scannedStart'[k][j] = scannedStart[k][j]
  BY <1>1, <1>6 DEF SameUpTo
<1>8. \A x, y : x = k /\ y = j => NodeRead(x, y)'
  <2>1. \A x, y : x = k /\ y = j => FirstRead(x, y)'
    BY <1>2, <1>4, <1>5, <1>6, <1>7 DEF FirstRead
  <2>2. ASSUME NEW b \in Nat, BlockStartOf(b) < j, j < BlockStartOf(b + 1)
        PROVE  FALSE
    <3>1. /\ BlockStartOf(b) \in Nat /\ BlockStartOf(block + 1) \in Nat
          /\ j < BlockStartOf(block + 1)
      BY <1>1, <1>3, BlockStarts, FormatAssumption
    <3>2. b = block
      BY <1>1, <1>3, <2>2, <3>1, OneBlock
    <3> QED
      BY <1>1, <1>3, <2>2, <3>2
  <2>3. \A x, y : x = k /\ y = j => NextRead(x, y)'
    BY <2>2 DEF NextRead
  <2> QED
    BY <1>4, <1>5, <1>6, <1>7, <2>1, <2>3 DEF NodeRead
<1> QED
  BY <1>1, <1>2, <1>4, <1>5, <1>8, RecordTraced DEF Inside

LEMMA DecodeNodeTraced ==
  ASSUME Placed, Scanned, Traced, db' = db, DecodeNode
  PROVE  Traced'
<1> DEFINE k == level
           j == node
           from == bitOffset
           earlier == children + blockKids
<1>1. /\ k \in HuffmanLevels /\ k \in Levels /\ j < BlockEnd /\ j \in Nat
      /\ db \in Databases /\ ScanType /\ from \in Nat
      /\ children \in Nat /\ blockKids \in Nat
      /\ depth = "full" /\ block \in Nat /\ BlockStartOf(block) < j
      /\ pc = "symbols" /\ Nodes(k) \in Nat
  BY PlacedFacts, LevelFacts DEF DecodeNode, Control, LocalType
<1>2. /\ BlockEnd \in Nat /\ j < Nodes(k) /\ BlockStartOf(block) \in Nat
      /\ BlockStartOf(block + 1) \in Nat
      /\ j < BlockStartOf(block + 1)
  <2> DEFINE last == Nodes(k)
  <2>1. /\ BlockEnd = BlockEndOf(block, last) /\ last \in Nat
        /\ BlockStartOf(block) \in Nat /\ BlockStartOf(block + 1) \in Nat
    BY <1>1, BlockStarts DEF BlockEnd
  <2> HIDE DEF last
  <2>2. /\ BlockEndOf(block, last) \in Nat /\ BlockEndOf(block, last) <= last
        /\ BlockEndOf(block, last) <= BlockStartOf(block + 1)
    BY <1>1, <2>1, BlockEnds
  <2>3. j < last
    BY <1>1, <2>1, <2>2
  <2> QED
    BY <1>1, <2>1, <2>2, <2>3 DEF last
<1>3. PICK n \in CodeLengths, m \in Masks :
        /\ NextSymbol(n, m) /\ mask' = m
        /\ node' = j + 1
        /\ Record(m, earlier, from + n)
  BY DEF DecodeNode, CountMask
<1>4. n \in Nat /\ earlier \in Nat /\ from + n \in Nat
  BY <1>1, <1>3, FormatAssumption DEF CodeLengths
<1>5. UNCHANGED <<depth, accepted, pc>> /\ level' = k
  BY DEF DecodeNode
<1>6. /\ earlier = scannedRank[k][j] /\ from = scannedStart[k][j] /\ ReadTo(k, j)
      /\ mask = scannedMask[k][j - 1]
  BY <1>1 DEF Scanned, SymbolScan, Traced
<1>7. /\ level = k /\ node = j /\ k \notin RawLevels
      /\ Decodes(db.models[k][mask], db.payload, from, LevelEnd(k), n, m)
  BY <1>1, <1>3, LevelFacts DEF NextSymbol
<1> DEFINE next == from + n
<1>8. next \in Nat /\ Record(m, earlier, next)
  BY <1>3, <1>4
<1>9. next = from + n
  OBVIOUS
<1> HIDE DEF k, j, earlier, from, next
<1>10. /\ scannedMask'[k][j] = m /\ SameUpTo(k, j)
       /\ scannedRank'[k][j + 1] = earlier + CountOnes(m)
       /\ scannedStart'[k][j + 1] = next
  BY <1>1, <1>2, <1>4, <1>5, <1>7, <1>8, RecordTraces
<1>11. /\ scannedRank'[k][j] = scannedRank[k][j]
       /\ scannedStart'[k][j] = scannedStart[k][j]
       /\ scannedMask'[k][j - 1] = scannedMask[k][j - 1]
  <2>1. j \in 0..Nodes(k) /\ j - 1 \in 0..Nodes(k) /\ j - 1 < j
    BY <1>1, <1>2
  <2> QED
    BY <2>1, <1>10 DEF SameUpTo
<1>12. \A x, y : x = k /\ y = j => NodeRead(x, y)'
  <2>1. ASSUME NEW b \in Nat, BlockStartOf(b) = j PROVE FALSE
    <3>1. j < BlockStartOf(b + 1)
      BY <1>1, <2>1, BlockStarts, FormatAssumption
    <3>2. b = block
      BY <1>1, <1>2, <2>1, <3>1, OneBlock
    <3> QED
      BY <1>1, <1>2, <2>1, <3>2
  <2>2. \A x, y : x = k /\ y = j => FirstRead(x, y)'
    BY <2>1 DEF FirstRead
  <2>3. \A x : LevelEnd(x)' = LevelEnd(x)
    BY DEF LevelEnd
  <2>4. \A x, y : x = k /\ y = j => NextRead(x, y)'
    BY <1>3, <1>6, <1>7, <1>9, <1>10, <1>11, <2>3 DEF NextRead
  <2> QED
    BY <1>6, <1>7, <1>10, <1>11, <2>2, <2>4 DEF NodeRead
<1> QED
  BY <1>1, <1>2, <1>3, <1>4, <1>5, <1>6, <1>7, <1>8, <1>12, RecordTraced DEF Inside

\* A level is done once the loop has reached its last node.
LEMMA EndLevelTraced ==
  ASSUME Placed, Traced, db' = db, EndRawLevel \/ EndHuffmanLevel \/ EndIndexedLevel
  PROVE  Traced'
<1>1. /\ level \in Levels /\ node = Nodes(level) /\ level' = level + 1
      /\ UNCHANGED <<scan, depth, accepted>> /\ pc \in Inside
      /\ pc' \in {"level", "rejected"}
      /\ pc \in {"raw", "block"} \/ depth # "full"
  BY PlacedFacts, LevelFacts
  DEF EndRawLevel, EndHuffmanLevel, EndIndexedLevel, Proceed, Control, LocalType, Inside
<1>2. ASSUME depth = "full", NEW l \in Levels, l < level + 1
      PROVE  ReadTo(l, Nodes(l))
  <2>1. l < level \/ l = level
    BY <1>1, <1>2, LevelFacts
  <2> QED
    BY <1>1, <1>2, <2>1 DEF Traced
<1> QED
  BY <1>1, <1>2, OutsideTraced

LEMMA BlockEndsTraced ==
  ASSUME Placed, Traced, db' = db, EndBlock \/ IndexBlock
  PROVE  Traced'
<1>1. CASE EndBlock
  <2>1. /\ UNCHANGED <<scan, depth, accepted, level, node>> /\ pc = "symbols"
        /\ pc' \in {"block", "rejected"} /\ depth = "full"
    BY <1>1, PlacedFacts DEF EndBlock, Proceed, Control
  <2>2. \A l, last : ReadTo(l, last)' <=> ReadTo(l, last)
    BY <2>1, ReadStays
  <2> QED
    BY <2>1, <2>2 DEF Traced, Nodes, Inside
<1>2. CASE IndexBlock
  <2>1. /\ UNCHANGED <<scan, depth, accepted, level>> /\ depth # "full"
        /\ pc' \in {"index", "rejected"}
    BY <1>2, PlacedFacts DEF IndexBlock, Proceed, Control
  <2> QED
    BY <2>1, OutsideTraced
<1> QED
  BY <1>1, <1>2

LEMMA CompleteTraced ==
  ASSUME Placed, Traced, db' = db, Complete
  PROVE  Traced'
<1>1. /\ UNCHANGED <<scan, depth>> /\ pc = "level" /\ level = LevelCount
      /\ pc' \in {"ready", "rejected"}
      /\ accepted' => accepted \/ depth = "full"
  BY DEF Complete, Proceed
<1>2. accepted' => \A l \in Levels : ReadTo(l, Nodes(l))
  BY <1>1, LevelFacts DEF Traced, Inside, Levels
<1>3. \A l, last : ReadTo(l, last)' <=> ReadTo(l, last)
  BY <1>1, ReadStays
<1> QED
  BY <1>1, <1>2, <1>3 DEF Traced, Nodes, Inside

LEMMA StepTraced == Placed /\ Scanned /\ Traced /\ [Next]_vars => Traced'
<1> SUFFICES ASSUME Placed, Scanned, Traced, [Next]_vars PROVE Traced'
  OBVIOUS
<1>1. db' = db
  BY FileStays
<1>2. ASSUME NEW mode \in {"full", "verified"}, Open(mode) PROVE Traced'
  BY <1>1, <1>2, OpenTraced
<1>3. CASE CheckEntry \/ CheckTotals \/ ValidateModels
  BY <1>1, <1>3, HeaderTraced
<1>4. CASE StartLevel
  BY <1>1, <1>4, StartLevelTraced
<1>5. CASE RawNode
  BY <1>1, <1>5, RawNodeTraced
<1>6. CASE StartBlock
  BY <1>1, <1>6, StartBlockTraced
<1>7. CASE DecodeNode
  BY <1>1, <1>7, DecodeNodeTraced
<1>8. CASE EndRawLevel \/ EndHuffmanLevel \/ EndIndexedLevel
  BY <1>1, <1>8, EndLevelTraced
<1>9. CASE EndBlock \/ IndexBlock
  BY <1>1, <1>9, BlockEndsTraced
<1>10. CASE Complete
  BY <1>1, <1>10, CompleteTraced
<1>11. CASE RejectBlock \/ RejectSymbol \/ Close
  BY <1>1, <1>11, OutsideTraced
  DEF RejectBlock, RejectSymbol, Reject, Close, Inside
<1>12. CASE UNCHANGED vars
  <2>1. UNCHANGED <<scan, depth, accepted, pc, level, node, mask>>
    BY <1>12 DEF vars, progress
  <2>2. \A l, last : ReadTo(l, last)' <=> ReadTo(l, last)
    BY <1>1, <2>1, ReadStays
  <2> QED
    BY <1>1, <2>1, <2>2 DEF Traced, Nodes, scan
<1> QED
  BY <1>2, <1>3, <1>4, <1>5, <1>6, <1>7, <1>8, <1>9, <1>10, <1>11, <1>12
  DEF Next, Construct

-----------------------------------------------------------------------------
(* What an accepted file guarantees *)

\* The interval an index lies in, and the index an interval starts at.
LEMMA Intervals ==
  ASSUME NEW r \in Nat, r # 0, NEW i \in Nat
  PROVE  /\ i \div r \in Nat
         /\ (i \div r) * r \in Nat
         /\ (i \div r) * r <= i
         /\ i < ((i \div r) + 1) * r
<1>1. i \div r \in Nat
  OBVIOUS
<1>2. (i \div r) * r \in Nat
  BY <1>1, ProductNat
<1>3. (i \div r) * r <= i
  OBVIOUS
<1>4. i < ((i \div r) + 1) * r
  OBVIOUS
<1> QED
  BY <1>1, <1>2, <1>3, <1>4

LEMMA IntervalStarts ==
  ASSUME NEW r \in Nat, r # 0, NEW k \in Nat
  PROVE  (k * r) \div r = k /\ (k * r) % r = 0
<1>1. (k * r) \div r = k
  OBVIOUS
<1>2. (k * r) % r = 0
  OBVIOUS
<1> QED
  BY <1>1, <1>2

Served == Placed /\ Scanned /\ Traced

LEMMA AcceptedFacts ==
  ASSUME Served, accepted
  PROVE  /\ db \in Databases /\ Nodes(0) = RootFaceCount
         /\ \A l \in Levels :
              /\ Nodes(l) \in Nat /\ LevelExact(l) /\ ReadTo(l, Nodes(l))
              /\ scannedMask[l] \in [0..Nodes(l) -> Masks]
              /\ scannedRank[l] \in [0..Nodes(l) -> Nat]
              /\ scannedStart[l] \in [0..Nodes(l) -> Nat]
BY PlacedFacts DEF Served, Scanned, AcceptedExact, Traced, LocalType, ScanType

-----------------------------------------------------------------------------
(* Sums over an accepted level *)

\* Every node begins a block or lies inside one.
LEMMA NodeBlock ==
  ASSUME NEW i \in Nat
  PROVE  \E b \in Nat : BlockStartOf(b) <= i /\ i < BlockStartOf(b + 1)
<1>1. BlockOf(i) \in Nat /\ BlockStartOf(BlockOf(i)) <= i
      /\ i < BlockStartOf(BlockOf(i) + 1)
  BY Intervals, FormatAssumption DEF BlockOf, BlockStartOf
<1> QED
  BY <1>1

\* A code has at most MaxCodeLength bits, and a stored mask has Fanout.
LEMMA StartsStep ==
  ASSUME Served, accepted, NEW l \in HuffmanLevels, NEW i \in Nat, i < Nodes(l)
  PROVE  /\ scannedStart[l][i] \in Nat /\ scannedStart[l][i + 1] \in Nat
         /\ scannedStart[l][i] <= scannedStart[l][i + 1]
         /\ \A b \in Nat : BlockStartOf(b) = i =>
              scannedStart[l][i + 1] = scannedStart[l][i] + Fanout
         /\ \A b \in Nat : BlockStartOf(b) < i /\ i < BlockStartOf(b + 1) =>
              scannedStart[l][i + 1] <= scannedStart[l][i] + MaxCodeLength
<1>1. /\ l \in Levels /\ Nodes(l) \in Nat /\ ReadTo(l, Nodes(l))
      /\ scannedStart[l] \in [0..Nodes(l) -> Nat]
  BY LevelFacts, AcceptedFacts
<1>2. FirstRead(l, i) /\ NextRead(l, i)
  BY <1>1 DEF ReadTo, NodeRead
<1>3. scannedStart[l][i] \in Nat /\ scannedStart[l][i + 1] \in Nat
  BY <1>1
<1>4. \A b \in Nat : BlockStartOf(b) = i =>
        scannedStart[l][i + 1] = scannedStart[l][i] + Fanout
  BY <1>2 DEF FirstRead
<1>5. ASSUME NEW b \in Nat, BlockStartOf(b) < i, i < BlockStartOf(b + 1)
      PROVE  /\ scannedStart[l][i + 1] <= scannedStart[l][i] + MaxCodeLength
             /\ scannedStart[l][i] <= scannedStart[l][i + 1]
  <2>1. PICK n \in CodeLengths : scannedStart[l][i + 1] = scannedStart[l][i] + n
    BY <1>2, <1>5 DEF NextRead
  <2>2. n \in Nat /\ n <= MaxCodeLength /\ MaxCodeLength \in Nat
    BY FormatAssumption DEF CodeLengths
  <2> QED
    BY <1>3, <2>1, <2>2
<1>6. scannedStart[l][i] <= scannedStart[l][i + 1]
  <2>1. PICK b \in Nat : BlockStartOf(b) <= i /\ i < BlockStartOf(b + 1)
    BY NodeBlock
  <2>2. BlockStartOf(b) \in Nat /\ Fanout \in Nat
    BY BlockStarts, FormatAssumption
  <2> QED
    BY <1>3, <1>4, <1>5, <2>1, <2>2
<1> QED
  BY <1>3, <1>4, <1>5, <1>6

\* Between two nodes of a level ranks grow by at most Fanout each, and offsets do
\* not decrease.
RankSpan(l, i, d) ==
  /\ scannedRank[l][i] <= scannedRank[l][i + d]
  /\ scannedRank[l][i + d] - scannedRank[l][i] <= d * Fanout

LEMMA CountOnesBound ==
  ASSUME NEW m \in Masks
  PROVE  CountOnes(m) \in Nat /\ CountOnes(m) <= Fanout
<1>1. IsFiniteSet(ChildPositions) /\ Cardinality(ChildPositions) = Fanout
  BY FormatAssumption, FS_Interval DEF ChildPositions
<1> QED
  BY <1>1, CountOnesNat, FS_Subset DEF CountOnes, Masks

LEMMA OneMore ==
  ASSUME NEW a \in Nat, NEW b \in Nat, NEW c \in Nat, NEW k \in Nat,
         NEW most \in Nat, NEW w \in Nat,
         a <= b, b - a <= most, c = b + k, k <= w
  PROVE  a <= c /\ c - a <= most + w
OBVIOUS

LEMMA RanksSpan ==
  ASSUME Served, accepted, NEW l \in Levels, NEW i \in Nat,
         NEW d \in Nat, i + d <= Nodes(l)
  PROVE  RankSpan(l, i, d)
<1> DEFINE last == Nodes(l)
           Fails == {e \in Nat : i + e <= last /\ ~RankSpan(l, i, e)}
<1>1. /\ last \in Nat /\ ReadTo(l, last) /\ Fanout \in Nat
      /\ scannedMask[l] \in [0..last -> Masks] /\ scannedRank[l] \in [0..last -> Nat]
  BY AcceptedFacts, FormatAssumption
<1>2. SUFFICES ASSUME Fails # {} PROVE FALSE
  BY <1>1
<1>3. PICK e \in Fails : \A f \in Fails : e <= f
  <2>1. Fails \subseteq Nat
    OBVIOUS
  <2> HIDE DEF Fails
  <2> QED
    BY <1>2, <2>1, LeastNatural
<1>4. e \in Nat /\ i + e <= last /\ ~RankSpan(l, i, e)
  OBVIOUS
<1>5. /\ last \in Nat /\ Fanout \in Nat
      /\ \A x \in 0..last : scannedRank[l][x] \in Nat
      /\ \A x \in 0..last : x < last => NodeRead(l, x) /\ scannedMask[l][x] \in Masks
  <2>1. \A x \in 0..last : x < last => NodeRead(l, x)
    BY <1>1 DEF ReadTo
  <2> HIDE DEF last
  <2> QED
    BY <1>1, <2>1
<1> HIDE DEF last
<1>6. e # 0
  <2>1. i \in 0..last
    BY <1>4, <1>5
  <2>2. scannedRank[l][i] \in Nat /\ i + 0 = i /\ 0 * Fanout = 0
    BY <1>5, <2>1
  <2>3. RankSpan(l, i, 0)
    BY <2>2 DEF RankSpan
  <2> QED
    BY <1>4, <2>3
<1> DEFINE f == e - 1
           j == i + f
<1>7. /\ f \in Nat /\ f < e /\ f + 1 = e /\ i + f <= last
      /\ i \in 0..last /\ j \in 0..last /\ j + 1 \in 0..last /\ j < last /\ j + 1 = i + e
  BY <1>4, <1>5, <1>6
<1>8. RankSpan(l, i, f)
  <2>1. f \notin Fails
    BY <1>3, <1>4, <1>7
  <2> QED
    BY <1>7, <2>1
<1> HIDE DEF f, j, Fails
<1>9. /\ scannedRank[l][j + 1] = scannedRank[l][j] + CountOnes(scannedMask[l][j])
      /\ CountOnes(scannedMask[l][j]) \in Nat /\ CountOnes(scannedMask[l][j]) <= Fanout
      /\ scannedRank[l][i] \in Nat /\ scannedRank[l][j] \in Nat
      /\ scannedRank[l][j + 1] \in Nat /\ scannedRank[l][i + e] = scannedRank[l][j + 1]
  <2>1. NodeRead(l, j) /\ scannedMask[l][j] \in Masks
    BY <1>5, <1>7
  <2>2. /\ scannedRank[l][i] \in Nat /\ scannedRank[l][j] \in Nat
        /\ scannedRank[l][j + 1] \in Nat
    BY <1>5, <1>7
  <2> QED
    BY <1>7, <2>1, <2>2, CountOnesBound DEF NodeRead
<1>10. e * Fanout = f * Fanout + Fanout /\ f * Fanout \in Nat
  <2>1. (f + 1) * Fanout = f * Fanout + Fanout
    BY <1>5, <1>7
  <2> QED
    BY <1>5, <1>7, <2>1, ProductNat
<1>11. RankSpan(l, i, e)
  <2> DEFINE most == f * Fanout
             a == scannedRank[l][i]
             b == scannedRank[l][j]
             c == scannedRank[l][j + 1]
             k == CountOnes(scannedMask[l][j])
  <2>1. a <= b /\ b - a <= most
    BY <1>8 DEF RankSpan, j
  <2>2. most \in Nat /\ e * Fanout = most + Fanout
    BY <1>10
  <2>3. /\ a \in Nat /\ b \in Nat /\ c \in Nat /\ k \in Nat
        /\ c = b + k /\ k <= Fanout
    BY <1>9
  <2> HIDE DEF most, a, b, c, k
  <2>4. a <= c /\ c - a <= most + Fanout
    BY <1>5, <2>1, <2>2, <2>3, OneMore
  <2> QED
    BY <1>9, <2>2, <2>4 DEF RankSpan, a, c
<1> QED
  BY <1>4, <1>11

LEMMA RanksGrow ==
  ASSUME Served, accepted, NEW l \in Levels, NEW i \in Nat, i <= Nodes(l)
  PROVE  scannedRank[l][i] <= scannedRank[l][Nodes(l)]
<1> DEFINE d == Nodes(l) - i
<1>1. Nodes(l) \in Nat
  BY AcceptedFacts
<1>2. d \in Nat /\ i + d = Nodes(l)
  BY <1>1
<1> HIDE DEF d
<1>3. RankSpan(l, i, d)
  BY <1>1, <1>2, RanksSpan
<1> QED
  BY <1>2, <1>3 DEF RankSpan

LEMMA StartsGrow ==
  ASSUME Served, accepted, NEW l \in HuffmanLevels, NEW i \in Nat, i <= Nodes(l)
  PROVE  scannedStart[l][i] <= scannedStart[l][Nodes(l)]
<1> DEFINE last == Nodes(l)
           Fails == {e \in Nat : i + e <= last /\ scannedStart[l][i + e] < scannedStart[l][i]}
<1>1. /\ last \in Nat /\ scannedStart[l] \in [0..last -> Nat]
  BY AcceptedFacts, LevelFacts
<1>2. SUFFICES ASSUME Fails # {} PROVE FALSE
  <2> DEFINE e == last - i
  <2>1. e \in Nat /\ i + e = last
    BY <1>1
  <2>2. scannedStart[l][last] \in Nat /\ scannedStart[l][i] \in Nat
    BY <1>1
  <2>3. e \notin Fails
    <3> HIDE DEF Fails
    <3> QED
      BY <1>2
  <2> HIDE DEF e, last
  <2>4. ~(scannedStart[l][last] < scannedStart[l][i])
    <3>1. last <= last
      BY <1>1
    <3> QED
      BY <2>1, <2>3, <3>1
  <2>5. scannedStart[l][i] <= scannedStart[l][last]
    BY <2>2, <2>4
  <2> QED
    BY <2>5 DEF last
<1>3. PICK e \in Fails : \A f \in Fails : e <= f
  <2>1. Fails \subseteq Nat
    OBVIOUS
  <2> HIDE DEF Fails
  <2> QED
    BY <1>2, <2>1, LeastNatural
<1>4. e \in Nat /\ i + e <= last /\ scannedStart[l][i + e] < scannedStart[l][i]
  OBVIOUS
<1>5. e # 0 /\ scannedStart[l][i] \in Nat
  BY <1>1, <1>4
<1> DEFINE j == i + (e - 1)
<1>6. e - 1 \in Nat /\ e - 1 < e /\ j \in Nat /\ j < last /\ j + 1 = i + e
  BY <1>1, <1>4, <1>5
<1>7. ~(scannedStart[l][j] < scannedStart[l][i])
  BY <1>1, <1>3, <1>6
<1> HIDE DEF j
<1>8. /\ scannedStart[l][j] \in Nat /\ scannedStart[l][j + 1] \in Nat
      /\ scannedStart[l][j] <= scannedStart[l][j + 1]
  BY <1>6, StartsStep
<1> QED
  BY <1>4, <1>5, <1>6, <1>7, <1>8

\* The coded masks of a block take at most MaxCodeLength bits each.
CodeSpan(l, i, d) ==
  /\ scannedStart[l][i] <= scannedStart[l][i + d]
  /\ scannedStart[l][i + d] - scannedStart[l][i] <= d * MaxCodeLength

LEMMA CodesSpan ==
  ASSUME Served, accepted, NEW l \in HuffmanLevels, NEW block0 \in Nat,
         NEW i \in Nat, i = BlockStartOf(block0) + 1,
         NEW d \in Nat, i + d <= Nodes(l), i + d <= BlockStartOf(block0 + 1)
  PROVE  CodeSpan(l, i, d)
<1> DEFINE last == Nodes(l)
           first == BlockStartOf(block0)
           end == BlockStartOf(block0 + 1)
           Fails == {e \in Nat : i + e <= last /\ i + e <= end /\ ~CodeSpan(l, i, e)}
<1>1. /\ last \in Nat /\ MaxCodeLength \in Nat /\ first \in Nat /\ end \in Nat
      /\ \A x \in 0..last : scannedStart[l][x] \in Nat
  <2>1. first \in Nat /\ end \in Nat
    BY BlockStarts
  <2>2. l \in Levels /\ MaxCodeLength \in Nat
    BY FormatAssumption, LevelFacts
  <2>3. last \in Nat /\ scannedStart[l] \in [0..last -> Nat]
    BY <2>2, AcceptedFacts
  <2> HIDE DEF last
  <2> QED
    BY <2>1, <2>2, <2>3
<1>2. SUFFICES ASSUME Fails # {} PROVE FALSE
  OBVIOUS
<1>3. PICK e \in Fails : \A f \in Fails : e <= f
  <2>1. Fails \subseteq Nat
    OBVIOUS
  <2> HIDE DEF Fails
  <2> QED
    BY <1>2, <2>1, LeastNatural
<1>4. e \in Nat /\ i + e <= last /\ i + e <= end /\ ~CodeSpan(l, i, e) /\ i = first + 1
  OBVIOUS
<1> HIDE DEF last, first, end
<1>5. e # 0
  <2>1. i \in 0..last
    BY <1>1, <1>4
  <2>2. scannedStart[l][i] \in Nat /\ i + 0 = i /\ 0 * MaxCodeLength = 0
    BY <1>1, <2>1
  <2>3. CodeSpan(l, i, 0)
    BY <2>2 DEF CodeSpan
  <2> QED
    BY <1>4, <2>3
<1> DEFINE f == e - 1
           j == i + f
<1>6. /\ f \in Nat /\ f < e /\ f + 1 = e /\ j \in Nat /\ j < last /\ j + 1 = i + e
      /\ first < j /\ j < end /\ j <= last /\ j <= end /\ i \in 0..last
  BY <1>1, <1>4, <1>5
<1>7. CodeSpan(l, i, f)
  <2>1. f \notin Fails
    BY <1>3, <1>4, <1>6
  <2> QED
    BY <1>6, <2>1
<1>8. scannedStart[l][i] \in Nat
  BY <1>1, <1>6
<1> HIDE DEF f, j, Fails
<1>9. /\ scannedStart[l][j] \in Nat /\ scannedStart[l][j + 1] \in Nat
      /\ scannedStart[l][j] <= scannedStart[l][j + 1]
      /\ scannedStart[l][j + 1] <= scannedStart[l][j] + MaxCodeLength
      /\ scannedStart[l][i + e] = scannedStart[l][j + 1]
  <2>1. j < Nodes(l) /\ BlockStartOf(block0) < j /\ j < BlockStartOf(block0 + 1)
    BY <1>6 DEF last, first, end
  <2> QED
    BY <1>6, <2>1, StartsStep
<1>10. e * MaxCodeLength = f * MaxCodeLength + MaxCodeLength /\ f * MaxCodeLength \in Nat
  <2>1. (f + 1) * MaxCodeLength = f * MaxCodeLength + MaxCodeLength
    BY <1>1, <1>6
  <2> QED
    BY <1>1, <1>6, <2>1, ProductNat
<1>11. CodeSpan(l, i, e)
  <2> DEFINE most == f * MaxCodeLength
             a == scannedStart[l][i]
             b == scannedStart[l][j]
             c == scannedStart[l][j + 1]
             k == c - b
  <2>1. a <= b /\ b - a <= most
    BY <1>7 DEF CodeSpan, j
  <2>2. /\ most \in Nat /\ e * MaxCodeLength = most + MaxCodeLength
        /\ a \in Nat /\ b \in Nat /\ c \in Nat /\ b <= c /\ c <= b + MaxCodeLength
    BY <1>8, <1>9, <1>10
  <2> HIDE DEF most, a, b, c
  <2>3. k \in Nat /\ c = b + k /\ k <= MaxCodeLength
    BY <1>1, <2>2
  <2>4. a <= c /\ c - a <= most + MaxCodeLength
    BY <1>1, <2>1, <2>2, <2>3, OneMore
  <2> QED
    BY <1>9, <2>2, <2>4 DEF CodeSpan, a, c
<1> QED
  BY <1>4, <1>11

\* What the validator of a verified mapping expects of every block.
LEMMA BlockBounds ==
  ASSUME Served, accepted, NEW l \in HuffmanLevels, NEW b \in BlocksOf(l),
         NEW first, first = BlockStartOf(b), NEW end, end = BlockEndOf(b, Nodes(l))
  PROVE  /\ first \in Nat /\ end \in Nat /\ first < end /\ end <= Nodes(l)
         /\ scannedStart[l][first] \in Nat /\ scannedStart[l][end] \in Nat
         /\ scannedRank[l][first] \in Nat /\ scannedRank[l][end] \in Nat
         /\ scannedStart[l][end] - scannedStart[l][first]
              \in Fanout..(Fanout + (end - first - 1) * MaxCodeLength)
         /\ scannedStart[l][end] <= scannedStart[l][Nodes(l)]
         /\ scannedRank[l][end] - scannedRank[l][first] \in Nat
         /\ scannedRank[l][end] - scannedRank[l][first] <= (end - first) * Fanout
<1>1. /\ l \in Levels /\ Nodes(l) \in Nat
      /\ scannedRank[l] \in [0..Nodes(l) -> Nat]
      /\ scannedStart[l] \in [0..Nodes(l) -> Nat]
      /\ Fanout \in Nat /\ MaxCodeLength \in Nat
  BY AcceptedFacts, LevelFacts, FormatAssumption
<1>2. b \in Nat /\ first \in Nat /\ first < Nodes(l)
  BY <1>1, BlockStarts DEF BlocksOf
<1>3. /\ end \in Nat /\ first + 1 <= end /\ end <= Nodes(l) /\ end <= BlockStartOf(b + 1)
  <2> DEFINE n == Nodes(l)
  <2>1. n \in Nat /\ end = BlockEndOf(b, n) /\ first < n
    BY <1>1, <1>2
  <2> HIDE DEF n
  <2>2. end \in Nat /\ first + 1 <= end /\ end <= n /\ end <= BlockStartOf(b + 1)
    BY <1>2, <2>1, BlockEnds
  <2> QED
    BY <2>2 DEF n
<1>4. /\ scannedStart[l][first] \in Nat /\ scannedStart[l][end] \in Nat
      /\ scannedRank[l][first] \in Nat /\ scannedRank[l][end] \in Nat
  BY <1>1, <1>2, <1>3
<1>5. /\ scannedStart[l][first + 1] = scannedStart[l][first] + Fanout
      /\ scannedStart[l][first + 1] \in Nat
  BY <1>2, StartsStep
<1>6. scannedStart[l][end] <= scannedStart[l][Nodes(l)]
  BY <1>3, StartsGrow
<1>7. /\ scannedRank[l][end] - scannedRank[l][first] \in Nat
      /\ scannedRank[l][end] - scannedRank[l][first] <= (end - first) * Fanout
  <2> DEFINE d == end - first
  <2>1. d \in Nat /\ first + d = end
    BY <1>2, <1>3
  <2> HIDE DEF d
  <2>2. RankSpan(l, first, d)
    BY <1>1, <1>2, <1>3, <2>1, RanksSpan
  <2>3. /\ scannedRank[l][first] <= scannedRank[l][end]
        /\ scannedRank[l][end] - scannedRank[l][first] <= d * Fanout
    BY <2>1, <2>2 DEF RankSpan
  <2> QED
    BY <1>4, <2>3 DEF d
<1>8. scannedStart[l][end] - scannedStart[l][first]
        \in Fanout..(Fanout + (end - first - 1) * MaxCodeLength)
  <2> DEFINE d == end - first - 1
             i == first + 1
             most == d * MaxCodeLength
  <2>1. d \in Nat /\ i \in Nat /\ i + d = end /\ i = BlockStartOf(b) + 1
    BY <1>2, <1>3
  <2>2. most \in Nat
    BY <1>1, <2>1, ProductNat
  <2> HIDE DEF d, i
  <2>3. CodeSpan(l, i, d)
    <3>1. b \in Nat /\ i + d <= Nodes(l) /\ i + d <= BlockStartOf(b + 1)
      BY <1>2, <1>3, <2>1
    <3> HIDE DEF most
    <3> QED
      BY <2>1, <3>1, CodesSpan
  <2>4. /\ scannedStart[l][i] <= scannedStart[l][end]
        /\ scannedStart[l][end] - scannedStart[l][i] <= most
    BY <2>1, <2>3 DEF CodeSpan
  <2>5. scannedStart[l][i] = scannedStart[l][first] + Fanout /\ scannedStart[l][i] \in Nat
    BY <1>5 DEF i
  <2> DEFINE s == scannedStart[l][first]
             e == scannedStart[l][end]
  <2>6. /\ s \in Nat /\ e \in Nat /\ Fanout \in Nat
        /\ s + Fanout <= e /\ e - (s + Fanout) <= most
    BY <1>1, <1>4, <2>4, <2>5
  <2> HIDE DEF most, s, e
  <2>7. e - s \in Fanout..(Fanout + most)
    BY <2>2, <2>6
  <2> QED
    BY <2>7 DEF most, d, s, e
<1> QED
  BY <1>2, <1>3, <1>4, <1>6, <1>7, <1>8

-----------------------------------------------------------------------------
(* What full validation has checked, told of the file alone *)

HeaderChecked ==
  db.header /\ db.payloadBits # 0 /\ db.leaves # 0 /\ db.terminal # 0

\* Where the directory puts the data of each level.
RawAt(l) == IF l = 0 THEN 0 ELSE LevelEnd(l - 1)
BitsAt(l) == IF l <= RawLevelCount THEN 0 ELSE LevelEnd(l - 1)

RawEntryChecked(l) ==
  /\ db.entry[l].encoding = "raw"
  /\ db.entry[l].start = RawAt(l)
  /\ db.entry[l].length = CeilDiv(db.entry[l].nodes, 2)
  /\ db.entry[l].lengthWidth = 0 /\ db.entry[l].childWidth = 0
  /\ db.entry[l].flags = {"childRanks"}

HuffmanEntryChecked(l) ==
  /\ db.entry[l].encoding = "huffman"
  /\ db.entry[l].start = BitsAt(l)
  /\ db.entry[l].length # 0
  /\ db.entry[l].lengthWidth \in 1..MaxLengthWidth
  /\ IF FinalLevel(l)
     THEN db.entry[l].flags = {} /\ db.entry[l].childWidth = 0
     ELSE db.entry[l].flags = {"childRanks"} /\ db.entry[l].childWidth \in 1..MaxChildWidth

EntryChecked(l) ==
  /\ db.entry[l].nodes \in 1..MaximumNodeCount(l)
  /\ IF l < RawLevelCount THEN RawEntryChecked(l) ELSE HuffmanEntryChecked(l)

TotalsChecked ==
  /\ Nodes(0) = RootFaceCount
  /\ db.terminal <= MaximumNodeCount(LevelCount)
  /\ db.leaves <= MaximumNodeCount(LevelCount)
  /\ BitsAt(LevelCount) = db.payloadBits
  /\ db.layout

ModelsChecked ==
  \A l \in HuffmanLevels : \A context \in Masks : ValidModel(db.models[l][context])

PaddingChecked(l) ==
  IF l < RawLevelCount
  THEN <<"masks", l>> \notin db.padding
  ELSE /\ <<"bits", l>> \notin db.padding
       /\ HasChildRanks(l) => <<"kids", l>> \notin db.padding

KidsOf(l, b) == IF HasChildRanks(l) THEN db.blockChildren[l][b] ELSE 0

Widths == [bits : Nat, kids : Nat]

\* w holds the largest packed fields of the blocks before n.
WidestTo(l, n, w) ==
  /\ \A b \in BlocksOf(l) : b < n =>
       db.blockBits[l][b] <= w.bits /\ KidsOf(l, b) <= w.kids
  /\ w.bits = 0 \/ \E b \in BlocksOf(l) : b < n /\ w.bits = db.blockBits[l][b]
  /\ w.kids = 0 \/ \E b \in BlocksOf(l) : b < n /\ w.kids = KidsOf(l, b)

WidthsChecked(l) ==
  \E w \in Widths :
    /\ WidestTo(l, Nodes(l), w)
    /\ RequiredWidth(w.bits) = db.entry[l].lengthWidth
    /\ HasChildRanks(l) => RequiredWidth(w.kids) = db.entry[l].childWidth

LevelChecked(l) ==
  /\ PaddingChecked(l)
  /\ l \in HuffmanLevels =>
       /\ scannedStart[l][0] = db.entry[l].start
       /\ scannedStart[l][Nodes(l)] = LevelEnd(l)
       /\ WidthsChecked(l)

DirectoryScan ==
  pc = "directory" =>
    /\ level <= RawLevelCount => rawOffset = RawAt(level)
    /\ bitOffset = BitsAt(level)
    /\ \A l \in Levels : l < level => EntryChecked(l)

StagesChecked ==
  /\ pc \in {"directory", "models"} \/ pc \in Inside => HeaderChecked
  /\ DirectoryScan
  /\ pc = "models" \/ pc \in Inside =>
       TotalsChecked /\ \A l \in Levels : EntryChecked(l)
  /\ pc \in Inside => ModelsChecked

LevelsChecked ==
  depth = "full" /\ pc \in Inside => \A l \in Levels : l < level => LevelChecked(l)

LoopChecked ==
  /\ depth = "full" /\ pc \in {"raw", "block", "symbols"} => PaddingChecked(level)
  /\ pc \in {"block", "symbols"} =>
       /\ scannedStart[level][0] = db.entry[level].start
       /\ WidestTo(level, block, widest)

AcceptedChecked ==
  accepted =>
    /\ HeaderChecked /\ TotalsChecked /\ ModelsChecked
    /\ <<"payload">> \notin db.padding
    /\ \A l \in Levels : EntryChecked(l) /\ LevelChecked(l)

Checked == StagesChecked /\ LevelsChecked /\ LoopChecked /\ AcceptedChecked

\* A construction with the weaker checks sees the totals that full validation saw.
Replayed ==
  accepted /\ depth = "verified" =>
    /\ pc # "rejected"
    /\ pc = "raw" => children = scannedRank[level][node]
    /\ pc = "index" =>
         /\ bitOffset = scannedStart[level][node]
         /\ HasChildRanks(level) => children = scannedRank[level][node]
         /\ WidestTo(level, block, widest)

-----------------------------------------------------------------------------

\* The mapping does not change, so what was checked of it stays.
LEMMA ChecksStay ==
  ASSUME db' = db
  PROVE  /\ HeaderChecked' = HeaderChecked /\ TotalsChecked' = TotalsChecked
         /\ ModelsChecked' = ModelsChecked
         /\ \A l : /\ EntryChecked(l)' = EntryChecked(l)
                   /\ PaddingChecked(l)' = PaddingChecked(l)
                   /\ WidthsChecked(l)' = WidthsChecked(l)
                   /\ Nodes(l)' = Nodes(l) /\ LevelEnd(l)' = LevelEnd(l)
                   /\ RawAt(l)' = RawAt(l) /\ BitsAt(l)' = BitsAt(l)
         /\ \A l, n, w : WidestTo(l, n, w)' = WidestTo(l, n, w)
<1>1. \A l : /\ Nodes(l)' = Nodes(l) /\ LevelEnd(l)' = LevelEnd(l)
             /\ RawAt(l)' = RawAt(l) /\ BitsAt(l)' = BitsAt(l)
             /\ HasChildRanks(l)' = HasChildRanks(l)
             /\ BlocksOf(l)' = BlocksOf(l)
  BY DEF Nodes, LevelEnd, RawAt, BitsAt, HasChildRanks, BlocksOf
<1>2. HeaderChecked' = HeaderChecked /\ ModelsChecked' = ModelsChecked
  BY DEF HeaderChecked, ModelsChecked
<1>3. TotalsChecked' = TotalsChecked
  BY <1>1 DEF TotalsChecked
<1>4. \A l : RawEntryChecked(l)' = RawEntryChecked(l)
  BY <1>1 DEF RawEntryChecked
<1>5. \A l : HuffmanEntryChecked(l)' = HuffmanEntryChecked(l)
  BY <1>1 DEF HuffmanEntryChecked
<1>6. \A l : /\ EntryChecked(l)' = EntryChecked(l)
             /\ PaddingChecked(l)' = PaddingChecked(l)
  BY <1>1, <1>4, <1>5 DEF EntryChecked, PaddingChecked
<1>7. \A l, b : KidsOf(l, b)' = KidsOf(l, b)
  BY <1>1 DEF KidsOf
<1>8. \A l, n, w : WidestTo(l, n, w)' = WidestTo(l, n, w)
  BY <1>1, <1>7 DEF WidestTo
<1>9. \A l : WidthsChecked(l)' = WidthsChecked(l)
  BY <1>1, <1>8 DEF WidthsChecked
<1> QED
  BY <1>1, <1>2, <1>3, <1>6, <1>8, <1>9

\* A level that is done keeps its first and last offset.
LEMMA LevelCheckedKept ==
  ASSUME db' = db, NEW l \in Levels, Nodes(l) \in Nat,
         SameUpTo(l, Nodes(l)), LevelChecked(l)
  PROVE  LevelChecked(l)'
<1>1. 0 \in 0..Nodes(l) /\ Nodes(l) \in 0..Nodes(l) /\ 0 <= Nodes(l) /\ Nodes(l) <= Nodes(l)
  OBVIOUS
<1>2. /\ scannedStart'[l][0] = scannedStart[l][0]
      /\ scannedStart'[l][Nodes(l)] = scannedStart[l][Nodes(l)]
  BY <1>1 DEF SameUpTo
<1> QED
  BY <1>2, ChecksStay DEF LevelChecked

LEMMA LevelsCheckedStay ==
  ASSUME db' = db, UNCHANGED scan
  PROVE  \A l : LevelChecked(l)' = LevelChecked(l)
BY ChecksStay DEF LevelChecked, scan

LEMMA AcceptedCheckedStays ==
  ASSUME Checked, db' = db, UNCHANGED scan, accepted' => accepted
  PROVE  AcceptedChecked'
<1>1. AcceptedChecked
  BY DEF Checked
<1>2. \A l : LevelChecked(l)' = LevelChecked(l)
  BY LevelsCheckedStay
<1> QED
  BY <1>1, <1>2, ChecksStay DEF AcceptedChecked

\* Steps inside the loops, and out of them.
LEMMA StagesStay ==
  ASSUME Checked, db' = db, pc \in Inside,
         pc' \in Inside \/ pc' \in {"ready", "rejected", "closed"}
  PROVE  StagesChecked'
<1>1. /\ HeaderChecked /\ TotalsChecked /\ ModelsChecked
      /\ \A l \in Levels : EntryChecked(l)
  BY DEF Checked, StagesChecked
<1>2. pc' \notin {"directory", "models"}
  BY DEF Inside
<1> QED
  BY <1>1, <1>2, ChecksStay DEF StagesChecked, DirectoryScan

\* Steps that keep the history and end outside the loops of a level.
LEMMA OutsideChecked ==
  ASSUME Checked, db' = db, UNCHANGED scan, accepted' => accepted, StagesChecked',
         pc' \notin {"raw", "block", "symbols"},
         depth' = "full" /\ pc' \in Inside =>
           \A l \in Levels : l < level' => LevelChecked(l)
  PROVE  Checked'
<1>1. AcceptedChecked'
  BY AcceptedCheckedStays
<1>2. LevelsChecked'
  BY LevelsCheckedStay DEF LevelsChecked
<1>3. LoopChecked'
  BY DEF LoopChecked
<1> QED
  BY <1>1, <1>2, <1>3 DEF Checked

LEMMA InitChecked == Init => Checked
BY DEF Init, Checked, StagesChecked, DirectoryScan, LevelsChecked, LoopChecked,
       AcceptedChecked, Inside

LEMMA OpenChecked ==
  ASSUME Placed, Checked, db' = db, NEW mode \in {"full", "verified"}, Open(mode)
  PROVE  Checked'
<1>1. /\ pc' = IF HeaderChecked THEN "directory" ELSE "rejected"
      /\ level' = 0 /\ rawOffset' = 0 /\ bitOffset' = 0 /\ depth' = mode
      /\ accepted' = (accepted /\ mode = "verified")
  BY DEF Open, Proceed, HeaderChecked
<1>2. RawAt(0) = 0 /\ BitsAt(0) = 0 /\ \A l \in Levels : ~(l < 0)
  BY FormatAssumption DEF RawAt, BitsAt, Levels
<1>3. StagesChecked'
  <2>1. DirectoryScan'
    BY <1>1, <1>2, ChecksStay DEF DirectoryScan
  <2> QED
    BY <1>1, <2>1, ChecksStay DEF StagesChecked, Inside
<1>4. LevelsChecked' /\ LoopChecked'
  BY <1>1 DEF LevelsChecked, LoopChecked, Inside
<1>5. AcceptedChecked'
  <2>1. CASE mode = "full"
    BY <1>1, <2>1 DEF AcceptedChecked
  <2>2. CASE mode # "full"
    BY <1>1, <2>2, AcceptedCheckedStays DEF Open
  <2> QED
    BY <2>1, <2>2
<1> QED
  BY <1>3, <1>4, <1>5 DEF Checked

LEMMA CheckEntryChecked ==
  ASSUME Placed, Checked, db' = db, CheckEntry
  PROVE  Checked'
<1> DEFINE k == level
           fits == /\ Entry.nodes \in 1..MaximumNodeCount(k)
                   /\ IF k < RawLevelCount THEN RawEntryOk(Entry) ELSE HuffmanEntryOk(Entry)
<1>1. /\ k \in Levels /\ k \in Nat /\ k < LevelCount /\ pc = "directory"
      /\ level' = k + 1 /\ UNCHANGED <<depth, scan, accepted>>
      /\ pc' = IF fits THEN "directory" ELSE "rejected"
      /\ RawLevelCount \in Nat
  BY PlacedFacts, LevelFacts DEF CheckEntry, Proceed, LocalType
<1>2. /\ k <= RawLevelCount => rawOffset = RawAt(k)
      /\ bitOffset = BitsAt(k)
      /\ \A l \in Levels : l < k => EntryChecked(l)
      /\ HeaderChecked
  BY <1>1 DEF Checked, StagesChecked, DirectoryScan
<1>3. ASSUME fits PROVE EntryChecked(k)
  <2>1. CASE k < RawLevelCount
    BY <1>1, <1>2, <1>3, <2>1 DEF EntryChecked, RawEntryOk, RawEntryChecked, Entry
  <2>2. CASE ~(k < RawLevelCount)
    BY <1>1, <1>2, <1>3, <2>2 DEF EntryChecked, HuffmanEntryOk, HuffmanEntryChecked, Entry
  <2> QED
    BY <2>1, <2>2
<1>4. ASSUME fits
      PROVE  /\ k + 1 <= RawLevelCount => rawOffset' = RawAt(k + 1)
             /\ bitOffset' = BitsAt(k + 1)
  <2>1. CASE k < RawLevelCount
    <3>1. /\ rawOffset' = rawOffset + db.entry[k].length /\ bitOffset' = bitOffset
          /\ db.entry[k].start = rawOffset
      BY <1>4, <2>1 DEF CheckEntry, RawEntryOk, Entry
    <3>2. rawOffset' = LevelEnd(k)
      BY <3>1 DEF LevelEnd
    <3>3. RawAt(k + 1) = LevelEnd(k) /\ BitsAt(k + 1) = 0 /\ BitsAt(k) = 0
      BY <1>1, <2>1 DEF RawAt, BitsAt
    <3> QED
      BY <1>2, <3>1, <3>2, <3>3
  <2>2. CASE ~(k < RawLevelCount)
    <3>1. /\ bitOffset' = bitOffset + db.entry[k].length
          /\ db.entry[k].start = bitOffset
      BY <1>4, <2>2 DEF CheckEntry, HuffmanEntryOk, Entry
    <3>2. BitsAt(k + 1) = LevelEnd(k) /\ ~(k + 1 <= RawLevelCount)
      BY <1>1, <2>2 DEF BitsAt
    <3> QED
      BY <3>1, <3>2 DEF LevelEnd
  <2> QED
    BY <2>1, <2>2
<1> HIDE DEF fits
<1>5. ASSUME pc' = "directory", NEW l \in Levels, l < k + 1 PROVE EntryChecked(l)
  <2>1. l < k \/ l = k
    BY <1>1, <1>5, LevelFacts
  <2> QED
    BY <1>1, <1>2, <1>3, <1>5, <2>1
<1> HIDE DEF k
<1>6. DirectoryScan'
  BY <1>1, <1>4, <1>5, ChecksStay DEF DirectoryScan
<1>7. StagesChecked'
  BY <1>1, <1>2, <1>6, ChecksStay DEF StagesChecked, Inside
<1> QED
  BY <1>1, <1>7, OutsideChecked DEF Inside

LEMMA CheckTotalsChecked ==
  ASSUME Placed, Checked, db' = db, CheckTotals
  PROVE  Checked'
<1>1. /\ pc = "directory" /\ level = LevelCount
      /\ UNCHANGED <<depth, scan, accepted, bitOffset>>
      /\ pc' \in {"models", "rejected"}
      /\ pc' = "models" =>
           /\ Nodes(0) = RootFaceCount
           /\ db.terminal <= MaximumNodeCount(LevelCount)
           /\ db.leaves <= MaximumNodeCount(LevelCount)
           /\ bitOffset = db.payloadBits
           /\ db.layout
  BY DEF CheckTotals, Proceed, progress
<1>2. /\ bitOffset = BitsAt(LevelCount) /\ HeaderChecked
      /\ \A l \in Levels : EntryChecked(l)
  BY <1>1, LevelFacts DEF Checked, StagesChecked, DirectoryScan, Levels
<1>3. pc' = "models" => TotalsChecked
  BY <1>1, <1>2 DEF TotalsChecked
<1>4. StagesChecked'
  BY <1>1, <1>2, <1>3, ChecksStay DEF StagesChecked, DirectoryScan, Inside
<1> QED
  BY <1>1, <1>4, OutsideChecked DEF Inside

LEMMA ValidateModelsChecked ==
  ASSUME Placed, Checked, db' = db, ValidateModels
  PROVE  Checked'
<1>1. pc' = IF ModelsChecked THEN "level" ELSE "rejected"
  BY DEF ValidateModels, Proceed, ModelsChecked
<1>2. pc = "models" /\ level' = 0 /\ UNCHANGED <<depth, scan, accepted>>
  BY DEF ValidateModels
<1>3. HeaderChecked /\ TotalsChecked /\ \A l \in Levels : EntryChecked(l)
  BY <1>2 DEF Checked, StagesChecked
<1>4. StagesChecked'
  <2>1. /\ HeaderChecked' /\ TotalsChecked' /\ \A l \in Levels : EntryChecked(l)'
        /\ pc' \in {"level", "rejected"}
        /\ pc' = "level" => ModelsChecked'
    BY <1>1, <1>3, ChecksStay
  <2> QED
    BY <2>1 DEF StagesChecked, DirectoryScan, Inside
<1>5. \A l \in Levels : ~(l < level')
  BY <1>2, LevelFacts DEF Levels
<1> QED
  BY <1>1, <1>2, <1>4, <1>5, OutsideChecked

LEMMA StartLevelChecked ==
  ASSUME Placed, Scanned, Checked, db' = db, StartLevel
  PROVE  Checked'
<1>0. PICK k : k = level
  OBVIOUS
<1>1. /\ k \in Levels /\ ScanType /\ pc = "level" /\ pc \in Inside /\ level' = k
      /\ \A l \in Levels : Nodes(l) \in Nat
      /\ block' = 0 /\ widest' = [bits |-> 0, kids |-> 0]
      /\ UNCHANGED <<depth, accepted, scannedMask, scannedRank>>
      /\ pc' \in {"raw", "block", "index", "rejected"}
      /\ pc' # "rejected" => PaddingOk
      /\ pc' = "block" => depth = "full"
  BY <1>0, PlacedFacts, LevelFacts DEF StartLevel, Proceed, LocalType, Inside
<1>2. StagesChecked'
  BY <1>1, StagesStay DEF Inside
<1>3. PaddingOk => PaddingChecked(k)
  BY <1>0 DEF PaddingOk, PaddingChecked
<1>4. WidestTo(k, 0, [bits |-> 0, kids |-> 0])
  <2>1. \A b \in BlocksOf(k) : ~(b < 0)
    BY DEF BlocksOf
  <2> QED
    BY <2>1 DEF WidestTo
<1>5. CASE depth # "full"
  <2>1. UNCHANGED scan
    BY <1>1, <1>5 DEF StartLevel, scan
  <2>2. AcceptedChecked'
    BY <1>1, <2>1, AcceptedCheckedStays
  <2>3. LevelsChecked' /\ LoopChecked'
    BY <1>1, <1>5 DEF LevelsChecked, LoopChecked
  <2> QED
    BY <1>2, <2>2, <2>3 DEF Checked
<1>6. CASE depth = "full"
  <2>1. scannedStart' = [scannedStart EXCEPT ![k][0] = Entry.start]
    BY <1>0, <1>6 DEF StartLevel
  <2>2. \A l \in Levels : l # k => SameUpTo(l, Nodes(l))
    BY <1>1, <2>1 DEF SameUpTo, ScanType
  <2>3. scannedStart'[k][0] = db.entry[k].start
    <3>1. 0 \in 0..Nodes(k)
      BY <1>1
    <3>2. k \in DOMAIN scannedStart /\ 0 \in DOMAIN scannedStart[k]
      BY <1>1, <3>1 DEF ScanType
    <3> QED
      BY <1>0, <2>1, <3>2 DEF Entry
  <2>4. ~accepted'
    BY <1>1, <1>6 DEF Scanned, Pending
  <2>5. ASSUME NEW l \in Levels, l < k PROVE LevelChecked(l)'
    <3>1. l # k /\ LevelChecked(l)
      BY <1>0, <1>1, <1>6, <2>5, LevelFacts DEF Checked, LevelsChecked
    <3> QED
      BY <1>1, <2>2, <3>1, LevelCheckedKept
  <2>6. LoopChecked'
    <3>1. pc' # "rejected" => PaddingChecked(k)'
      BY <1>1, <1>3, ChecksStay
    <3>2. \A l, n, w : WidestTo(l, n, w)' = WidestTo(l, n, w)
      BY ChecksStay
    <3>3. WidestTo(level, block, widest)'
      BY <1>1, <1>4, <3>2
    <3> QED
      BY <1>1, <2>3, <3>1, <3>3 DEF LoopChecked
  <2> QED
    BY <1>1, <1>2, <2>4, <2>5, <2>6 DEF Checked, LevelsChecked, AcceptedChecked
<1> QED
  BY <1>5, <1>6

\* A step that records the mask of the current node of level k.
LEMMA RecordChecked ==
  ASSUME Placed, Scanned, Checked, db' = db, depth = "full",
         pc \in {"raw", "block", "symbols"},
         pc' \in {"raw", "block", "symbols", "rejected"},
         pc' \in {"block", "symbols"} => pc \in {"block", "symbols"},
         NEW k \in Levels, level = k, level' = k, node < Nodes(k),
         UNCHANGED <<depth, accepted, block, widest>>,
         NEW m \in Masks, NEW earlier \in Nat, NEW next \in Nat,
         Record(m, earlier, next)
  PROVE  Checked'
<1>1. /\ db \in Databases /\ ScanType /\ node \in Nat
      /\ \A l \in Levels : Nodes(l) \in Nat
  BY PlacedFacts DEF LocalType
<1>2. /\ SameUpTo(k, node)
      /\ \A l \in Levels : l # k => SameUpTo(l, Nodes(l))
  BY <1>1, RecordTraces
<1>3. scannedStart'[k][0] = scannedStart[k][0]
  <2>1. 0 \in 0..Nodes(k) /\ 0 <= node
    BY <1>1
  <2> QED
    BY <1>2, <2>1 DEF SameUpTo
<1>4. pc \in Inside /\ ~accepted'
  BY DEF Scanned, Pending, Inside
<1>5. StagesChecked'
  BY <1>4, StagesStay DEF Inside
<1>6. ASSUME NEW l \in Levels, l < k PROVE LevelChecked(l)'
  <2>1. l # k /\ LevelChecked(l)
    BY <1>4, <1>6, LevelFacts DEF Checked, LevelsChecked
  <2> QED
    BY <1>1, <1>2, <2>1, LevelCheckedKept
<1>7. LoopChecked'
  <2>1. /\ PaddingChecked(k)
        /\ pc \in {"block", "symbols"} =>
             scannedStart[k][0] = db.entry[k].start /\ WidestTo(k, block, widest)
    BY DEF Checked, LoopChecked
  <2>2. PaddingChecked(k)' /\ WidestTo(k, block, widest)' = WidestTo(k, block, widest)
    BY <2>1, ChecksStay
  <2> QED
    BY <1>3, <2>1, <2>2 DEF LoopChecked
<1> QED
  BY <1>4, <1>5, <1>6, <1>7 DEF Checked, LevelsChecked, AcceptedChecked

LEMMA RawNodeChecked ==
  ASSUME Placed, Scanned, Checked, db' = db, RawNode
  PROVE  Checked'
<1> DEFINE m == db.masks[level][node]
<1>1. /\ level \in RawLevels /\ level \in Levels /\ node < Nodes(level) /\ node \in Nat
      /\ Nodes(level) \in Nat /\ db \in Databases /\ children \in Nat /\ bitOffset \in Nat
      /\ pc = "raw" /\ pc' \in {"raw", "rejected"} /\ level' = level
      /\ UNCHANGED <<depth, accepted, block, widest>> /\ Record(m, children, bitOffset)
  BY PlacedFacts, LevelFacts DEF RawNode, Control, LocalType, Proceed, CountMask
<1>2. m \in Masks
  BY <1>1, RawMaskType
<1> HIDE DEF m
<1>3. CASE depth # "full"
  <2>1. UNCHANGED scan
    BY <1>1, <1>3 DEF Record
  <2>2. AcceptedChecked' /\ StagesChecked'
    BY <1>1, <2>1, AcceptedCheckedStays, StagesStay DEF Inside
  <2>3. LevelsChecked' /\ LoopChecked'
    BY <1>1, <1>3 DEF LevelsChecked, LoopChecked
  <2> QED
    BY <2>2, <2>3 DEF Checked
<1>4. CASE depth = "full"
  BY <1>1, <1>2, <1>4, RecordChecked
<1> QED
  BY <1>3, <1>4

LEMMA StartBlockChecked ==
  ASSUME Placed, Scanned, Checked, db' = db, StartBlock
  PROVE  Checked'
<1> DEFINE m == PayloadMask(db.payload, bitOffset)
           next == bitOffset + Fanout
<1>1. /\ level \in Levels /\ node < Nodes(level)
      /\ children \in Nat /\ bitOffset \in Nat /\ depth = "full"
      /\ pc = "block" /\ pc' = "symbols" /\ level' = level
      /\ UNCHANGED <<depth, accepted, block, widest>> /\ Record(m, children, next)
  BY PlacedFacts, LevelFacts DEF StartBlock, Control, LocalType
<1>2. m \in Masks /\ next \in Nat
  BY <1>1, PayloadMaskType, FormatAssumption
<1> HIDE DEF m, next
<1> QED
  BY <1>1, <1>2, RecordChecked

LEMMA DecodeNodeChecked ==
  ASSUME Placed, Scanned, Checked, db' = db, DecodeNode
  PROVE  Checked'
<1>1. /\ level \in Levels /\ block \in Nat /\ Nodes(level) \in Nat /\ node < BlockEnd
      /\ children \in Nat /\ blockKids \in Nat /\ bitOffset \in Nat /\ node \in Nat
      /\ depth = "full" /\ pc = "symbols" /\ pc' = "symbols" /\ level' = level
      /\ UNCHANGED <<depth, accepted, block, widest>>
  BY PlacedFacts, LevelFacts DEF DecodeNode, Control, LocalType
<1>2. node < Nodes(level)
  BY <1>1, CurrentBlock
<1>3. PICK n \in CodeLengths, m \in Masks : Record(m, children + blockKids, bitOffset + n)
  BY DEF DecodeNode
<1> DEFINE earlier == children + blockKids
           next == bitOffset + n
<1>4. earlier \in Nat /\ next \in Nat /\ Record(m, earlier, next)
  BY <1>1, <1>3, FormatAssumption DEF CodeLengths
<1> HIDE DEF earlier, next
<1> QED
  BY <1>1, <1>2, <1>3, <1>4, RecordChecked

LEMMA BlockFields ==
  ASSUME db \in Databases, NEW l \in HuffmanLevels, FlagsChecked(l), NEW b \in BlocksOf(l)
  PROVE  b \in Nat /\ db.blockBits[l][b] \in Nat /\ KidsOf(l, b) \in Nat
<1>1. l \in Levels /\ Nodes(l) \in Nat
  BY LevelFacts, EntryFacts
<1>2. b \in 0..Nodes(l) /\ BlockStartOf(b) < Nodes(l) /\ b \in Nat
  BY <1>1 DEF BlocksOf
<1> QED
  BY <1>1, <1>2, DatabasesAssumption DEF DatabaseType, KidsOf, FlagsChecked, Nodes

\* Widen takes one more block into account.
LEMMA WidestGrows ==
  ASSUME db \in Databases, NEW l \in HuffmanLevels, FlagsChecked(l),
         NEW n \in BlocksOf(l), NEW w \in Widths, NEW v \in Widths, WidestTo(l, n, w),
         v.bits = IF db.blockBits[l][n] > w.bits THEN db.blockBits[l][n] ELSE w.bits,
         v.kids = IF KidsOf(l, n) > w.kids THEN KidsOf(l, n) ELSE w.kids
  PROVE  WidestTo(l, n + 1, v)
<1> DEFINE bits(b) == db.blockBits[l][b]
           kids(b) == KidsOf(l, b)
<1>1. \A b \in BlocksOf(l) : b \in Nat /\ bits(b) \in Nat /\ kids(b) \in Nat
  BY BlockFields
<1>2. \A b \in BlocksOf(l) : b < n => bits(b) <= w.bits /\ kids(b) <= w.kids
  BY DEF WidestTo
<1>3. /\ w.bits = 0 \/ \E b \in BlocksOf(l) : b < n /\ w.bits = bits(b)
      /\ w.kids = 0 \/ \E b \in BlocksOf(l) : b < n /\ w.kids = kids(b)
  BY DEF WidestTo
<1>4. w.bits \in Nat /\ w.kids \in Nat
  BY DEF Widths
<1>5. /\ v.bits = IF bits(n) > w.bits THEN bits(n) ELSE w.bits
      /\ v.kids = IF kids(n) > w.kids THEN kids(n) ELSE w.kids
  OBVIOUS
<1> HIDE DEF bits, kids
<1>6. n \in Nat /\ bits(n) \in Nat /\ kids(n) \in Nat
  BY <1>1
<1>7. ASSUME NEW b \in BlocksOf(l), b < n + 1
      PROVE  bits(b) <= v.bits /\ kids(b) <= v.kids
  <2>1. b \in Nat /\ bits(b) \in Nat /\ kids(b) \in Nat
    BY <1>1
  <2>2. CASE b = n
    BY <1>4, <1>5, <1>6, <2>2
  <2>3. CASE b # n
    <3>1. bits(b) <= w.bits /\ kids(b) <= w.kids
      BY <1>2, <1>6, <1>7, <2>1, <2>3
    <3> QED
      BY <1>4, <1>5, <1>6, <2>1, <3>1
  <2> QED
    BY <2>2, <2>3
<1>8. \A b \in BlocksOf(l) : b < n => b < n + 1
  BY <1>1, <1>6
<1>9. v.bits = 0 \/ \E b \in BlocksOf(l) : b < n + 1 /\ v.bits = bits(b)
  BY <1>3, <1>5, <1>6, <1>8
<1>10. v.kids = 0 \/ \E b \in BlocksOf(l) : b < n + 1 /\ v.kids = kids(b)
  BY <1>3, <1>5, <1>6, <1>8
<1> QED
  BY <1>7, <1>9, <1>10 DEF WidestTo, bits, kids

\* The same, of a step that widens by the current block.
LEMMA WidestStep ==
  ASSUME db \in Databases, db' = db, level \in HuffmanLevels, FlagsChecked(level),
         block \in BlocksOf(level), widest \in Widths, WidestTo(level, block, widest),
         Widen(db.blockBits[level][block], IndexedKids),
         level' = level, block' = block + 1
  PROVE  WidestTo(level, block, widest)'
<1>1. PICK l, n, w, v : l = level /\ n = block /\ w = widest /\ v = widest'
  OBVIOUS
<1>2. /\ KidsOf(l, n) = IndexedKids
      /\ db.blockBits[l][n] \in Nat /\ KidsOf(l, n) \in Nat
  BY <1>1, BlockFields DEF KidsOf, IndexedKids
<1>3. /\ v \in Widths /\ w \in Widths
      /\ v.bits = IF db.blockBits[l][n] > w.bits THEN db.blockBits[l][n] ELSE w.bits
      /\ v.kids = IF KidsOf(l, n) > w.kids THEN KidsOf(l, n) ELSE w.kids
  BY <1>1, <1>2 DEF Widen, Widths
<1>4. WidestTo(l, n + 1, v)
  BY <1>1, <1>3, WidestGrows
<1>5. \A x, y, z : WidestTo(x, y, z)' = WidestTo(x, y, z)
  BY ChecksStay
<1>6. level' = l /\ block' = n + 1 /\ widest' = v
  BY <1>1
<1> QED
  BY <1>4, <1>5, <1>6

LEMMA EndBlockChecked ==
  ASSUME Placed, Scanned, Checked, db' = db, EndBlock
  PROVE  Checked'
<1>1. /\ level \in HuffmanLevels /\ level \in Levels /\ Nodes(level) \in Nat
      /\ node \in Nat /\ block \in Nat /\ db \in Databases /\ FlagsChecked(level)
      /\ widest \in Widths /\ depth = "full" /\ pc = "symbols"
      /\ BlockStartOf(block) < node /\ node <= Nodes(level)
  BY PlacedFacts, LevelFacts DEF EndBlock, Control, LocalType, Inside, Widths
<1>2. /\ pc' \in {"block", "rejected"} /\ level' = level /\ block' = block + 1
      /\ UNCHANGED <<depth, scan, accepted>>
      /\ Widen(db.blockBits[level][block], IndexedKids)
  BY DEF EndBlock, Proceed
<1>3. block \in BlocksOf(level)
  <2> DEFINE last == Nodes(level)
  <2>1. last \in Nat /\ BlockStartOf(block) \in Nat /\ block <= BlockStartOf(block)
    BY <1>1, BlockStarts
  <2> HIDE DEF last
  <2>2. BlockStartOf(block) < last /\ block \in 0..last
    BY <1>1, <2>1 DEF last
  <2> QED
    BY <2>2 DEF BlocksOf, last
<1>4. /\ PaddingChecked(level) /\ scannedStart[level][0] = db.entry[level].start
      /\ WidestTo(level, block, widest)
  BY <1>1 DEF Checked, LoopChecked
<1>5. WidestTo(level, block, widest)'
  BY <1>1, <1>2, <1>3, <1>4, WidestStep
<1>6. PaddingChecked(level)'
  BY <1>2, <1>4, ChecksStay
<1>7. LoopChecked'
  BY <1>2, <1>4, <1>5, <1>6 DEF LoopChecked, scan
<1>8. StagesChecked' /\ AcceptedChecked'
  BY <1>1, <1>2, StagesStay, AcceptedCheckedStays DEF Inside
<1>9. LevelsChecked'
  BY <1>1, <1>2, LevelsCheckedStay DEF Checked, LevelsChecked, Inside
<1> QED
  BY <1>7, <1>8, <1>9 DEF Checked

\* A step to the next level, once the current one is checked.
LEMMA NextLevelChecked ==
  ASSUME Checked, db' = db, UNCHANGED <<depth, scan, accepted>>, pc \in Inside,
         pc' \in {"level", "rejected"}, level \in Levels, level' = level + 1,
         depth = "full" /\ pc' = "level" => LevelChecked(level)
  PROVE  Checked'
<1>1. StagesChecked'
  BY StagesStay DEF Inside
<1>2. ASSUME depth' = "full", pc' \in Inside, NEW l \in Levels, l < level'
      PROVE  LevelChecked(l)
  <2>1. (l < level \/ l = level) /\ pc' = "level"
    BY <1>2, LevelFacts DEF Inside
  <2> QED
    BY <1>2, <2>1 DEF Checked, LevelsChecked
<1> QED
  BY <1>1, <1>2, OutsideChecked

LEMMA EndRawLevelChecked ==
  ASSUME Placed, Checked, db' = db, EndRawLevel
  PROVE  Checked'
<1>1. /\ level \in Levels /\ level \notin HuffmanLevels /\ pc = "raw" /\ pc \in Inside
      /\ level' = level + 1 /\ UNCHANGED <<depth, scan, accepted>>
      /\ pc' \in {"level", "rejected"}
  BY PlacedFacts, LevelFacts DEF EndRawLevel, Control, Proceed, Inside
<1>2. depth = "full" => LevelChecked(level)
  BY <1>1 DEF Checked, LoopChecked, LevelChecked
<1> QED
  BY <1>1, <1>2, NextLevelChecked

\* At the end of a level every block of it has been seen.
LEMMA BlocksPassed ==
  ASSUME NEW l \in Levels, Nodes(l) \in Nat, NEW n \in Nat, Nodes(l) <= BlockStartOf(n),
         NEW b \in BlocksOf(l)
  PROVE  b < n
<1>1. b \in Nat /\ BlockStartOf(b) < Nodes(l) /\ BlockStartOf(b) \in Nat
      /\ BlockStartOf(n) \in Nat
  BY BlockStarts DEF BlocksOf
<1>2. b # n
  BY <1>1
<1>3. ~(n < b)
  <2> SUFFICES ASSUME n < b PROVE FALSE
    OBVIOUS
  <2>1. BlockStartOf(n + 1) <= BlockStartOf(b)
    BY <1>1, BlockStartsGrow
  <2>2. BlockStartOf(n) <= BlockStartOf(n + 1) /\ BlockStartOf(n + 1) \in Nat
    BY BlockStarts, FormatAssumption
  <2> QED
    BY <1>1, <2>1, <2>2
<1> QED
  BY <1>1, <1>2, <1>3

LEMMA WidestEnds ==
  ASSUME NEW l \in Levels, Nodes(l) \in Nat, NEW n \in Nat, Nodes(l) <= BlockStartOf(n),
         NEW w, WidestTo(l, n, w)
  PROVE  WidestTo(l, Nodes(l), w)
<1> DEFINE last == Nodes(l)
<1>1. \A b \in BlocksOf(l) : b < n
  BY BlocksPassed
<1>2. \A b \in BlocksOf(l) : b < last
  <2>1. ASSUME NEW b \in BlocksOf(l) PROVE b < last
    <3>1. b \in Nat /\ BlockStartOf(b) < last /\ last \in Nat
      BY DEF BlocksOf
    <3> HIDE DEF last
    <3>2. b <= BlockStartOf(b) /\ BlockStartOf(b) \in Nat
      BY <3>1, BlockStarts
    <3> QED
      BY <3>1, <3>2
  <2> QED
    BY <2>1
<1> HIDE DEF last
<1>3. WidestTo(l, last, w)
  BY <1>1, <1>2 DEF WidestTo
<1> QED
  BY <1>3 DEF last

LEMMA EndHuffmanLevelChecked ==
  ASSUME Placed, Scanned, Checked, db' = db, EndHuffmanLevel
  PROVE  Checked'
<1> DEFINE ok == PayloadConsumed /\ children = ExpectedChildren
<1>1. /\ level \in HuffmanLevels /\ level \in Levels /\ node = Nodes(level)
      /\ Nodes(level) \in Nat /\ block \in Nat /\ node = Boundary(block)
      /\ widest \in Widths /\ depth = "full"
  BY PlacedFacts, LevelFacts DEF EndHuffmanLevel, Control, LocalType, Widths
<1>2. /\ UNCHANGED <<depth, scan, accepted>> /\ pc = "block" /\ pc \in Inside
      /\ pc' = IF ok THEN "level" ELSE "rejected"
      /\ level' = level + 1
  BY DEF EndHuffmanLevel, Proceed, Inside
<1>3. ASSUME ok PROVE LevelChecked(level)
  <2>1. /\ PaddingChecked(level) /\ scannedStart[level][0] = db.entry[level].start
        /\ WidestTo(level, block, widest)
    BY <1>1, <1>2 DEF Checked, LoopChecked
  <2>2. scannedStart[level][Nodes(level)] = LevelEnd(level)
    BY <1>1, <1>2, <1>3 DEF Scanned, BlockScan, PayloadConsumed
  <2>3. Nodes(level) <= BlockStartOf(block)
    BY <1>1, BlockStarts DEF Boundary
  <2>4. WidestTo(level, Nodes(level), widest)
    BY <1>1, <2>1, <2>3, WidestEnds
  <2>5. WidthsChecked(level)
    BY <1>1, <1>3, <2>4 DEF WidthsChecked, PayloadConsumed, Entry
  <2> QED
    BY <2>1, <2>2, <2>5 DEF LevelChecked
<1> HIDE DEF ok
<1> QED
  BY <1>1, <1>2, <1>3, NextLevelChecked

LEMMA IndexChecked ==
  ASSUME Placed, Checked, db' = db, IndexBlock \/ EndIndexedLevel
  PROVE  Checked'
<1>1. /\ depth # "full" /\ pc = "index" /\ pc \in Inside /\ level \in Levels
      /\ UNCHANGED <<depth, scan, accepted>>
  BY PlacedFacts, LevelFacts DEF IndexBlock, EndIndexedLevel, Control, Inside
<1>2. CASE IndexBlock
  <2>1. pc' \in {"index", "rejected"}
    BY <1>2 DEF IndexBlock, Proceed
  <2>2. StagesChecked'
    BY <1>1, <2>1, StagesStay DEF Inside
  <2> QED
    BY <1>1, <2>1, <2>2, OutsideChecked
<1>3. CASE EndIndexedLevel
  BY <1>1, <1>3, NextLevelChecked DEF EndIndexedLevel, Proceed
<1> QED
  BY <1>2, <1>3

LEMMA CompleteChecked ==
  ASSUME Placed, Checked, db' = db, Complete
  PROVE  Checked'
<1>1. /\ pc = "level" /\ pc \in Inside /\ level = LevelCount /\ UNCHANGED <<depth, scan>>
      /\ pc' \in {"ready", "rejected"}
      /\ accepted' => accepted \/ (depth = "full" /\ <<"payload">> \notin db.padding)
  BY DEF Complete, Proceed, Inside
<1>2. StagesChecked'
  BY <1>1, StagesStay DEF Inside
<1>3. LevelsChecked' /\ LoopChecked'
  BY <1>1 DEF LevelsChecked, LoopChecked, Inside
<1>4. AcceptedChecked'
  <2>1. \A l \in Levels : l < level
    BY <1>1, LevelFacts DEF Levels
  <2>2. CASE ~accepted'
    BY <2>2 DEF AcceptedChecked
  <2>3. CASE accepted' /\ accepted
    BY <1>1, <2>3, AcceptedCheckedStays
  <2>4. CASE accepted' /\ ~accepted
    <3>1. /\ HeaderChecked /\ TotalsChecked /\ ModelsChecked
          /\ <<"payload">> \notin db.padding
          /\ \A l \in Levels : EntryChecked(l) /\ LevelChecked(l)
      BY <1>1, <2>1, <2>4 DEF Checked, StagesChecked, LevelsChecked
    <3>2. \A l : LevelChecked(l)' = LevelChecked(l)
      BY <1>1, LevelsCheckedStay
    <3> QED
      BY <3>1, <3>2, ChecksStay DEF AcceptedChecked
  <2> QED
    BY <2>2, <2>3, <2>4
<1> QED
  BY <1>2, <1>3, <1>4 DEF Checked

LEMMA LeaveChecked ==
  ASSUME Checked, db' = db, UNCHANGED <<scan, depth, accepted>>,
         pc' \in {"rejected", "closed"}
  PROVE  Checked'
<1>1. StagesChecked'
  BY DEF StagesChecked, DirectoryScan, Inside
<1> QED
  BY <1>1, OutsideChecked DEF Inside

LEMMA StutterChecked ==
  ASSUME Checked, UNCHANGED vars
  PROVE  Checked'
<1>1. UNCHANGED <<db, depth, pc, level, block, rawOffset, bitOffset, widest, scan, accepted>>
  BY DEF vars, progress
<1>2. \A l : LevelChecked(l)' = LevelChecked(l)
  BY <1>1, LevelsCheckedStay
<1>3. AcceptedChecked' /\ LevelsChecked'
  BY <1>1, <1>2, AcceptedCheckedStays DEF Checked, LevelsChecked
<1>4. DirectoryScan'
  BY <1>1, ChecksStay DEF Checked, StagesChecked, DirectoryScan
<1>5. StagesChecked'
  BY <1>1, <1>4, ChecksStay DEF Checked, StagesChecked
<1>6. LoopChecked'
  <2>1. PaddingChecked(level)' = PaddingChecked(level)
    BY <1>1 DEF PaddingChecked, HasChildRanks
  <2>2. WidestTo(level, block, widest)' = WidestTo(level, block, widest)
    BY <1>1 DEF WidestTo, BlocksOf, KidsOf, HasChildRanks, Nodes
  <2> QED
    BY <1>1, <2>1, <2>2 DEF Checked, LoopChecked, scan
<1> QED
  BY <1>3, <1>5, <1>6 DEF Checked

LEMMA StepChecked == Placed /\ Scanned /\ Checked /\ [Next]_vars => Checked'
<1> SUFFICES ASSUME Placed, Scanned, Checked, [Next]_vars PROVE Checked'
  OBVIOUS
<1>1. db' = db
  BY FileStays
<1>2. ASSUME NEW mode \in {"full", "verified"}, Open(mode) PROVE Checked'
  BY <1>1, <1>2, OpenChecked
<1>3. CASE CheckEntry
  BY <1>1, <1>3, CheckEntryChecked
<1>4. CASE CheckTotals
  BY <1>1, <1>4, CheckTotalsChecked
<1>5. CASE ValidateModels
  BY <1>1, <1>5, ValidateModelsChecked
<1>6. CASE StartLevel
  BY <1>1, <1>6, StartLevelChecked
<1>7. CASE RawNode
  BY <1>1, <1>7, RawNodeChecked
<1>8. CASE StartBlock
  BY <1>1, <1>8, StartBlockChecked
<1>9. CASE DecodeNode
  BY <1>1, <1>9, DecodeNodeChecked
<1>10. CASE EndBlock
  BY <1>1, <1>10, EndBlockChecked
<1>11. CASE EndRawLevel
  BY <1>1, <1>11, EndRawLevelChecked
<1>12. CASE EndHuffmanLevel
  BY <1>1, <1>12, EndHuffmanLevelChecked
<1>13. CASE IndexBlock \/ EndIndexedLevel
  BY <1>1, <1>13, IndexChecked
<1>14. CASE Complete
  BY <1>1, <1>14, CompleteChecked
<1>15. CASE RejectBlock \/ RejectSymbol \/ Close
  BY <1>1, <1>15, LeaveChecked DEF RejectBlock, RejectSymbol, Reject, Close
<1>16. CASE UNCHANGED vars
  BY <1>16, StutterChecked
<1> QED
  BY <1>2, <1>3, <1>4, <1>5, <1>6, <1>7, <1>8, <1>9, <1>10, <1>11, <1>12, <1>13,
     <1>14, <1>15, <1>16
  DEF Next, Construct

-----------------------------------------------------------------------------
(* The weaker checks, of a file that passed the full ones *)

LEMMA AcceptedMeans ==
  ASSUME Checked, accepted
  PROVE  /\ HeaderChecked /\ TotalsChecked /\ ModelsChecked
         /\ <<"payload">> \notin db.padding
         /\ \A l \in Levels : EntryChecked(l) /\ LevelChecked(l)
BY DEF Checked, AcceptedChecked

\* Steps that leave the loops of a verified mapping without a rejection.
LEMMA OutsideReplayed ==
  ASSUME accepted' /\ depth' = "verified" => pc' \notin {"rejected", "raw", "index"}
  PROVE  Replayed'
BY DEF Replayed

LEMMA OpenReplayed ==
  ASSUME Checked, NEW mode \in {"full", "verified"}, Open(mode)
  PROVE  Replayed'
<1>1. /\ pc' = IF HeaderChecked THEN "directory" ELSE "rejected"
      /\ accepted' => accepted
  BY DEF Open, Proceed, HeaderChecked
<1> QED
  BY <1>1, AcceptedMeans, OutsideReplayed

LEMMA HeaderReplayed ==
  ASSUME Placed, Checked, CheckEntry \/ CheckTotals \/ ValidateModels
  PROVE  Replayed'
<1>1. CASE CheckEntry
  <2>1. PICK k : k = level
    OBVIOUS
  <2>2. /\ k \in Levels /\ k \in Nat /\ pc = "directory" /\ UNCHANGED accepted
        /\ pc' = IF /\ Entry.nodes \in 1..MaximumNodeCount(k)
                    /\ IF k < RawLevelCount THEN RawEntryOk(Entry) ELSE HuffmanEntryOk(Entry)
                 THEN "directory" ELSE "rejected"
    BY <1>1, <2>1, PlacedFacts, LevelFacts DEF CheckEntry, Proceed, LocalType
  <2>3. (k <= RawLevelCount => rawOffset = RawAt(k)) /\ bitOffset = BitsAt(k)
    BY <2>1, <2>2 DEF Checked, StagesChecked, DirectoryScan
  <2>4. ASSUME accepted PROVE pc' = "directory"
    <3>1. EntryChecked(k) /\ Entry = db.entry[k] /\ RawLevelCount \in Nat
      BY <2>1, <2>2, <2>4, AcceptedMeans, LevelFacts DEF Entry
    <3>2. CASE k < RawLevelCount
      <4>1. RawEntryOk(Entry)
        BY <2>2, <2>3, <3>1, <3>2 DEF EntryChecked, RawEntryOk, RawEntryChecked
      <4> QED
        BY <2>2, <3>1, <3>2, <4>1 DEF EntryChecked
    <3>3. CASE ~(k < RawLevelCount)
      <4>1. HuffmanEntryOk(Entry)
        BY <2>1, <2>2, <2>3, <3>1, <3>3 DEF EntryChecked, HuffmanEntryOk, HuffmanEntryChecked
      <4> QED
        BY <2>2, <3>1, <3>3, <4>1 DEF EntryChecked
    <3> QED
      BY <3>2, <3>3
  <2> QED
    BY <2>2, <2>4, OutsideReplayed
<1>2. CASE CheckTotals
  <2>1. /\ pc = "directory" /\ level = LevelCount /\ UNCHANGED accepted
        /\ pc' = IF /\ Nodes(0) = RootFaceCount
                    /\ db.terminal <= MaximumNodeCount(LevelCount)
                    /\ db.leaves <= MaximumNodeCount(LevelCount)
                    /\ bitOffset = db.payloadBits
                    /\ db.layout
                 THEN "models" ELSE "rejected"
    BY <1>2 DEF CheckTotals, Proceed
  <2>2. bitOffset = BitsAt(LevelCount)
    BY <2>1 DEF Checked, StagesChecked, DirectoryScan
  <2>3. accepted => pc' = "models"
    BY <2>1, <2>2, AcceptedMeans DEF TotalsChecked
  <2> QED
    BY <2>1, <2>3, OutsideReplayed
<1>3. CASE ValidateModels
  <2>1. pc' = IF ModelsChecked THEN "level" ELSE "rejected"
    BY <1>3 DEF ValidateModels, Proceed, ModelsChecked
  <2>2. UNCHANGED accepted
    BY <1>3 DEF ValidateModels
  <2> QED
    BY <2>1, <2>2, AcceptedMeans, OutsideReplayed
<1> QED
  BY <1>1, <1>2, <1>3

LEMMA StartLevelReplayed ==
  ASSUME Placed, Scanned, Checked, db' = db, StartLevel
  PROVE  Replayed'
<1> SUFFICES ASSUME accepted', depth' = "verified" PROVE Replayed'
  BY DEF Replayed
<1>0. PICK k : k = level
  OBVIOUS
<1>1. /\ k \in Levels /\ level' = k /\ block' = 0 /\ node' = 0 /\ children' = 0
      /\ bitOffset' = db.entry[k].start /\ widest' = [bits |-> 0, kids |-> 0]
      /\ accepted /\ depth = "verified" /\ UNCHANGED scan
      /\ pc' = IF PaddingOk THEN IF k < RawLevelCount THEN "raw" ELSE "index"
               ELSE "rejected"
  BY <1>0, PlacedFacts, LevelFacts DEF StartLevel, Proceed, LocalType, scan, Entry
<1>2. LevelChecked(k)
  BY <1>1, AcceptedMeans
<1>3. PaddingOk
  BY <1>0, <1>2 DEF PaddingOk, PaddingChecked, LevelChecked
<1>4. scannedRank[k][0] = 0
  BY <1>1 DEF Scanned, RanksFromZero
<1>5. pc' = "index" => scannedStart[k][0] = db.entry[k].start
  BY <1>1, <1>2, LevelFacts DEF LevelChecked
<1>6. WidestTo(k, 0, [bits |-> 0, kids |-> 0])
  <2>1. \A b \in BlocksOf(k) : ~(b < 0)
    BY DEF BlocksOf
  <2> QED
    BY <2>1 DEF WidestTo
<1>7. WidestTo(level, block, widest)'
  <2>1. \A x, y, z : WidestTo(x, y, z)' = WidestTo(x, y, z)
    BY ChecksStay
  <2> QED
    BY <1>1, <1>6, <2>1
<1> QED
  BY <1>1, <1>3, <1>4, <1>5, <1>7 DEF Replayed, scan

LEMMA RawReplayed ==
  ASSUME Served, Checked, Replayed, db' = db, RawNode \/ EndRawLevel
  PROVE  Replayed'
<1> SUFFICES ASSUME accepted', depth' = "verified" PROVE Replayed'
  BY DEF Replayed
<1>0. PICK k, j : k = level /\ j = node
  OBVIOUS
<1>1. /\ accepted /\ depth = "verified" /\ pc = "raw"
      /\ k \in RawLevels /\ k \in Levels /\ j \in Nat /\ Nodes(k) \in Nat
  BY <1>0, PlacedFacts, LevelFacts
  DEF Served, RawNode, EndRawLevel, LocalType, Control
<1>2. /\ children = scannedRank[k][j]
      /\ LevelExact(k) /\ ReadTo(k, Nodes(k))
  BY <1>0, <1>1, AcceptedFacts DEF Replayed
<1>3. CASE RawNode
  <2>1. /\ j < Nodes(k) /\ node' = j + 1 /\ level' = k /\ UNCHANGED scan
        /\ children' = children + CountOnes(db.masks[k][j])
        /\ pc' = IF j % RawRankInterval = 0 => db.rawRanks[k][CheckpointOf(j)] = children
                 THEN "raw" ELSE "rejected"
    BY <1>0, <1>1, <1>3 DEF RawNode, CountMask, Record, Proceed
  <2>2. j \in 0..(Nodes(k) - 1)
    BY <1>1, <2>1
  <2>3. j % RawRankInterval = 0 => db.rawRanks[k][CheckpointOf(j)] = children
    BY <1>1, <1>2, <2>2 DEF LevelExact, Checkpointed
  <2>4. NodeRead(k, j)
    BY <1>2, <2>1, <2>2 DEF ReadTo
  <2>5. children' = scannedRank[k][j + 1]
    BY <1>1, <1>2, <2>1, <2>4 DEF NodeRead, RawRead
  <2> QED
    BY <2>1, <2>3, <2>5 DEF Replayed, scan
<1>4. CASE EndRawLevel
  <2>1. /\ j = Nodes(k)
        /\ pc' = IF children = ExpectedChildren THEN "level" ELSE "rejected"
    BY <1>0, <1>4 DEF EndRawLevel, Proceed
  <2>2. children = ExpectedChildren
    BY <1>0, <1>2, <2>1 DEF LevelExact, Linked, ExpectedChildren
  <2> QED
    BY <2>1, <2>2, OutsideReplayed
<1> QED
  BY <1>3, <1>4

\* The index of block n of level k, from node first to node end, is acceptable.
IndexFits(k, n, first, end) ==
  /\ db.blockBits[k][n] \in Fanout..(Fanout + (end - first - 1) * MaxCodeLength)
  /\ scannedStart[k][first] + db.blockBits[k][n] = scannedStart[k][end]
  /\ scannedStart[k][end] <= LevelEnd(k)
  /\ HasChildRanks(k) => scannedRank[k][first] + KidsOf(k, n) = scannedRank[k][end]
  /\ KidsOf(k, n) <= (end - first) * Fanout

LEMMA BlockReplayed ==
  ASSUME Served, Checked, accepted, NEW k \in HuffmanLevels, FlagsChecked(k),
         NEW n \in BlocksOf(k), NEW first, first = BlockStartOf(n),
         NEW end, end = BlockEndOf(n, Nodes(k))
  PROVE  IndexFits(k, n, first, end)
<1>1. /\ k \in Levels /\ BlockIndexed(k, n) /\ LevelChecked(k)
  BY AcceptedFacts, AcceptedMeans, LevelFacts DEF LevelExact
<1>2. /\ first \in Nat /\ end \in Nat /\ first < end
      /\ scannedStart[k][first] \in Nat /\ scannedStart[k][end] \in Nat
      /\ scannedRank[k][first] \in Nat /\ scannedRank[k][end] \in Nat
      /\ scannedStart[k][end] - scannedStart[k][first]
           \in Fanout..(Fanout + (end - first - 1) * MaxCodeLength)
      /\ scannedStart[k][end] <= scannedStart[k][Nodes(k)]
      /\ scannedRank[k][end] - scannedRank[k][first] <= (end - first) * Fanout
  BY BlockBounds
<1>3. /\ db.blockBits[k][n] = scannedStart[k][end] - scannedStart[k][first]
      /\ ~FinalLevel(k) =>
           db.blockChildren[k][n] = scannedRank[k][end] - scannedRank[k][first]
  BY <1>1 DEF BlockIndexed
<1>4. scannedStart[k][first] + db.blockBits[k][n] = scannedStart[k][end]
  BY <1>2, <1>3
<1>5. scannedStart[k][end] <= LevelEnd(k)
  BY <1>1, <1>2 DEF LevelChecked
<1>6. CASE HasChildRanks(k)
  <2>1. KidsOf(k, n) = scannedRank[k][end] - scannedRank[k][first]
    BY <1>3, <1>6 DEF KidsOf, FlagsChecked
  <2>2. scannedRank[k][first] + KidsOf(k, n) = scannedRank[k][end]
    BY <1>2, <2>1
  <2> QED
    BY <1>2, <1>3, <1>4, <1>5, <2>1, <2>2 DEF IndexFits
<1>7. CASE ~HasChildRanks(k)
  <2>1. KidsOf(k, n) = 0
    BY <1>7 DEF KidsOf
  <2>2. (end - first) * Fanout \in Nat
    BY <1>2, ProductNat, FormatAssumption
  <2>3. KidsOf(k, n) <= (end - first) * Fanout
    BY <2>1, <2>2
  <2> QED
    BY <1>2, <1>3, <1>4, <1>5, <1>7, <2>3 DEF IndexFits
<1> QED
  BY <1>6, <1>7

LEMMA IndexBlockReplayed ==
  ASSUME Served, Checked, Replayed, db' = db, IndexBlock
  PROVE  Replayed'
<1> SUFFICES ASSUME accepted', depth' = "verified" PROVE Replayed'
  BY DEF Replayed
<1>0. PICK k, n, end : k = level /\ n = block /\ end = BlockEnd
  OBVIOUS
<1>1. PICK first : first = BlockStartOf(n)
  OBVIOUS
<1>2. /\ accepted /\ depth = "verified" /\ pc = "index" /\ db \in Databases
      /\ k \in HuffmanLevels /\ k \in Levels /\ n \in Nat /\ Nodes(k) \in Nat
      /\ FlagsChecked(k) /\ node < Nodes(k) /\ node = Boundary(n) /\ widest \in Widths
  BY <1>0, PlacedFacts, LevelFacts
  DEF Served, IndexBlock, LocalType, Control, Inside, Widths
<1>3. first = node /\ first \in Nat /\ first < Nodes(k) /\ end = BlockEndOf(n, Nodes(k))
  BY <1>0, <1>1, <1>2, BlockStarts DEF Boundary, BlockEnd
<1>4. n \in BlocksOf(k)
  <2> DEFINE last == Nodes(k)
  <2>1. last \in Nat /\ first < last /\ n <= first
    BY <1>1, <1>2, <1>3, BlockStarts
  <2> HIDE DEF last
  <2>2. n \in 0..last
    BY <1>2, <1>3, <2>1
  <2> QED
    BY <1>1, <2>1, <2>2 DEF BlocksOf, last
<1>5. /\ bitOffset = scannedStart[k][first]
      /\ HasChildRanks(k) => children = scannedRank[k][first]
      /\ WidestTo(k, n, widest)
  BY <1>0, <1>2, <1>3 DEF Replayed
<1>6. IndexFits(k, n, first, end)
  BY <1>1, <1>2, <1>3, <1>4, BlockReplayed
<1>7. GroupOk
  <2>1. GroupIndexed(k, n)
    BY <1>2, <1>4, AcceptedFacts DEF LevelExact
  <2> QED
    BY <1>0, <1>1, <1>2, <1>5, <2>1 DEF GroupIndexed, GroupOk, FlagsChecked
<1>8. IndexedKids = KidsOf(k, n) /\ BlockNodes = end - first
  BY <1>0, <1>1 DEF IndexedKids, KidsOf, BlockNodes
<1>9. /\ db.blockBits[k][n] \in Fanout..(Fanout + (BlockNodes - 1) * MaxCodeLength)
      /\ bitOffset + db.blockBits[k][n] <= LevelEnd(k)
      /\ IndexedKids <= BlockNodes * Fanout
  BY <1>5, <1>6, <1>8 DEF IndexFits
<1>10. pc' = "index"
  BY <1>0, <1>7, <1>9 DEF IndexBlock, Proceed
<1>11. /\ level' = level /\ block' = block + 1 /\ UNCHANGED scan
       /\ node' = end /\ bitOffset' = bitOffset + db.blockBits[k][n]
       /\ children' = children + KidsOf(k, n)
       /\ Widen(db.blockBits[level][block], IndexedKids)
  BY <1>0, <1>8 DEF IndexBlock
<1>12. WidestTo(level, block, widest)'
  BY <1>0, <1>2, <1>4, <1>5, <1>11, WidestStep
<1>13. bitOffset' = scannedStart[k][end]
  BY <1>5, <1>6, <1>11 DEF IndexFits
<1>14. HasChildRanks(k) => children' = scannedRank[k][end]
  BY <1>5, <1>6, <1>11 DEF IndexFits
<1>15. HasChildRanks(level)' = HasChildRanks(k)
  BY <1>0, <1>11 DEF HasChildRanks
<1> QED
  BY <1>0, <1>10, <1>11, <1>12, <1>13, <1>14, <1>15 DEF Replayed, scan

\* The largest packed fields of a level are what they are.
LEMMA WidestUnique ==
  ASSUME db \in Databases, NEW l \in HuffmanLevels, FlagsChecked(l), NEW n,
         NEW w \in Widths, NEW v \in Widths, WidestTo(l, n, w), WidestTo(l, n, v)
  PROVE  w.bits = v.bits /\ w.kids = v.kids
<1>1. /\ w.bits \in Nat /\ w.kids \in Nat /\ v.bits \in Nat /\ v.kids \in Nat
      /\ \A b \in BlocksOf(l) : db.blockBits[l][b] \in Nat /\ KidsOf(l, b) \in Nat
  BY BlockFields DEF Widths
<1>2. /\ \A b \in BlocksOf(l) : b < n =>
           /\ db.blockBits[l][b] <= w.bits /\ KidsOf(l, b) <= w.kids
           /\ db.blockBits[l][b] <= v.bits /\ KidsOf(l, b) <= v.kids
      /\ w.bits = 0 \/ \E b \in BlocksOf(l) : b < n /\ w.bits = db.blockBits[l][b]
      /\ w.kids = 0 \/ \E b \in BlocksOf(l) : b < n /\ w.kids = KidsOf(l, b)
      /\ v.bits = 0 \/ \E b \in BlocksOf(l) : b < n /\ v.bits = db.blockBits[l][b]
      /\ v.kids = 0 \/ \E b \in BlocksOf(l) : b < n /\ v.kids = KidsOf(l, b)
  BY DEF WidestTo
<1>3. w.bits <= v.bits /\ v.bits <= w.bits
  BY <1>1, <1>2
<1>4. w.kids <= v.kids /\ v.kids <= w.kids
  BY <1>1, <1>2
<1> QED
  BY <1>1, <1>3, <1>4

\* A node has at most Fanout children.
LEMMA ChildrenBounded ==
  ASSUME Served, accepted, NEW k \in Levels
  PROVE  scannedRank[k][Nodes(k)] <= Nodes(k) * Fanout
<1> DEFINE last == Nodes(k)
<1>1. last \in Nat /\ scannedRank[k][last] \in Nat /\ scannedRank[k][0] = 0
  BY AcceptedFacts DEF Served, Scanned, RanksFromZero
<1>2. RankSpan(k, 0, last)
  BY <1>1, RanksSpan
<1> HIDE DEF last
<1>3. scannedRank[k][0 + last] - scannedRank[k][0] <= last * Fanout /\ 0 + last = last
  BY <1>1, <1>2 DEF RankSpan
<1>4. scannedRank[k][last] <= last * Fanout
  BY <1>1, <1>3
<1> QED
  BY <1>4 DEF last

LEMMA EndIndexedLevelReplayed ==
  ASSUME Served, Checked, Replayed, db' = db, EndIndexedLevel
  PROVE  Replayed'
<1> SUFFICES ASSUME accepted', depth' = "verified" PROVE Replayed'
  BY DEF Replayed
<1>0. PICK k, n : k = level /\ n = block
  OBVIOUS
<1>1. /\ accepted /\ depth = "verified" /\ pc = "index" /\ db \in Databases
      /\ k \in HuffmanLevels /\ k \in Levels /\ n \in Nat /\ Nodes(k) \in Nat
      /\ FlagsChecked(k) /\ node = Nodes(k) /\ node = Boundary(n) /\ widest \in Widths
  BY <1>0, PlacedFacts, LevelFacts
  DEF Served, EndIndexedLevel, LocalType, Control, Inside, Widths
<1>2. Nodes(k) <= BlockStartOf(n)
  BY <1>0, <1>1, BlockStarts DEF Boundary
<1>3. /\ bitOffset = scannedStart[k][Nodes(k)]
      /\ HasChildRanks(k) => children = scannedRank[k][Nodes(k)]
      /\ WidestTo(k, n, widest)
  BY <1>0, <1>1 DEF Replayed
<1>4. LevelChecked(k) /\ Linked(k)
  BY <1>1, AcceptedFacts, AcceptedMeans DEF LevelExact
<1>5. PayloadConsumed
  <2>1. bitOffset = LevelEnd(k)
    BY <1>1, <1>3, <1>4 DEF LevelChecked
  <2>2. PICK w \in Widths :
          /\ WidestTo(k, Nodes(k), w)
          /\ RequiredWidth(w.bits) = db.entry[k].lengthWidth
          /\ HasChildRanks(k) => RequiredWidth(w.kids) = db.entry[k].childWidth
    BY <1>1, <1>4 DEF LevelChecked, WidthsChecked
  <2>3. WidestTo(k, Nodes(k), widest)
    BY <1>1, <1>2, <1>3, WidestEnds
  <2>4. w.bits = widest.bits /\ w.kids = widest.kids
    BY <1>1, <2>2, <2>3, WidestUnique
  <2> QED
    BY <1>0, <2>1, <2>2, <2>4 DEF PayloadConsumed, Entry
<1>6. IF FinalLevel(k) THEN db.terminal <= Nodes(k) * Fanout ELSE children = Nodes(k + 1)
  <2>1. CASE FinalLevel(k)
    <3>1. scannedRank[k][Nodes(k)] = db.terminal
      BY <1>4, <2>1 DEF Linked
    <3> QED
      BY <1>1, <2>1, <3>1, ChildrenBounded
  <2>2. CASE ~FinalLevel(k)
    BY <1>1, <1>3, <1>4, <2>2 DEF Linked, FlagsChecked
  <2> QED
    BY <2>1, <2>2
<1>7. pc' = "level"
  BY <1>0, <1>5, <1>6 DEF EndIndexedLevel, Proceed
<1> QED
  BY <1>7, OutsideReplayed

LEMMA CompleteReplayed ==
  ASSUME Checked, Complete
  PROVE  Replayed'
<1>1. /\ depth' = depth
      /\ accepted' /\ depth = "verified" => accepted
      /\ depth = "verified" =>
           pc' = IF <<"payload">> \notin db.padding THEN "ready" ELSE "rejected"
  BY DEF Complete, Proceed
<1> QED
  BY <1>1, AcceptedMeans, OutsideReplayed

\* Only full validation decodes blocks.
LEMMA FullOnlyReplayed ==
  ASSUME Placed, StartBlock \/ RejectBlock \/ DecodeNode \/ RejectSymbol
                 \/ EndBlock \/ EndHuffmanLevel
  PROVE  Replayed'
<1>1. depth = "full" /\ depth' = depth
  BY PlacedFacts
  DEF Control, StartBlock, RejectBlock, DecodeNode, RejectSymbol, Reject, EndBlock,
      EndHuffmanLevel
<1> QED
  BY <1>1, OutsideReplayed

LEMMA StutterReplayed ==
  ASSUME Replayed, UNCHANGED vars
  PROVE  Replayed'
<1>1. UNCHANGED <<db, depth, pc, level, block, node, bitOffset, children, widest,
                  scan, accepted>>
  BY DEF vars, progress
<1>2. WidestTo(level, block, widest)' = WidestTo(level, block, widest)
  BY <1>1 DEF WidestTo, BlocksOf, KidsOf, HasChildRanks, Nodes
<1> QED
  BY <1>1, <1>2 DEF Replayed, HasChildRanks, scan

LEMMA StepReplayed == Served /\ Checked /\ Replayed /\ [Next]_vars => Replayed'
<1> SUFFICES ASSUME Served, Checked, Replayed, [Next]_vars PROVE Replayed'
  OBVIOUS
<1>1. db' = db /\ Placed /\ Scanned
  BY FileStays DEF Served
<1>2. ASSUME NEW mode \in {"full", "verified"}, Open(mode) PROVE Replayed'
  BY <1>2, OpenReplayed
<1>3. CASE CheckEntry \/ CheckTotals \/ ValidateModels
  BY <1>1, <1>3, HeaderReplayed
<1>4. CASE StartLevel
  BY <1>1, <1>4, StartLevelReplayed
<1>5. CASE RawNode \/ EndRawLevel
  BY <1>1, <1>5, RawReplayed
<1>6. CASE StartBlock \/ RejectBlock \/ DecodeNode \/ RejectSymbol
           \/ EndBlock \/ EndHuffmanLevel
  BY <1>1, <1>6, FullOnlyReplayed
<1>7. CASE IndexBlock
  BY <1>1, <1>7, IndexBlockReplayed
<1>8. CASE EndIndexedLevel
  BY <1>1, <1>8, EndIndexedLevelReplayed
<1>9. CASE Complete
  BY <1>9, CompleteReplayed
<1>10. CASE Close
  BY <1>10, OutsideReplayed DEF Close
<1>11. CASE UNCHANGED vars
  BY <1>11, StutterReplayed
<1> QED
  BY <1>2, <1>3, <1>4, <1>5, <1>6, <1>7, <1>8, <1>9, <1>10, <1>11 DEF Next, Construct

\* VerifiedAcceptsValidated: whatever the file, from_verified_mmap never refuses
\* bytes that from_mmap has accepted.
THEOREM ValidatedAlwaysReaccepted == Spec => []VerifiedAcceptsValidated
<1>1. Init => Replayed
  BY DEF Init, Replayed
<1>2. Served /\ Served' /\ Checked /\ [Next]_vars => Served' /\ Checked'
  BY StepChecked DEF Served
<1>3. Served /\ [Next]_vars => Served'
  BY StepPlaced, StepScanned, StepTraced DEF Served
<1>4. Init => Served /\ Checked
  BY InitPlaced, InitScanned, InitTraced, InitChecked DEF Served
<1>5. Replayed => VerifiedAcceptsValidated
  BY DEF Replayed, VerifiedAcceptsValidated
<1> QED
  BY <1>1, <1>2, <1>3, <1>4, <1>5, StepReplayed, PTL DEF Spec

-----------------------------------------------------------------------------
(* The leaf total *)

\* The nodes that full validation has found without children, up to node j of
\* level k.
Childless(k, j) ==
  {v \in Levels \X Nat :
     /\ v[2] < Nodes(v[1]) /\ scannedMask[v[1]][v[2]] = {}
     /\ v[1] < k \/ (v[1] = k /\ v[2] < j)}

CountsChildless(n, k, j) ==
  IsFiniteSet(Childless(k, j)) /\ n = Cardinality(Childless(k, j))

\* Where n childless nodes have been found: zeros counts them, and at the end the
\* header's total is theirs and the last level's.
Tally(n, k, j) ==
  \/ /\ depth = "full" /\ pc = "level"
     /\ n = zeros /\ k = level /\ j = 0
  \/ /\ depth = "full" /\ pc \in {"raw", "block", "symbols"}
     /\ n = zeros /\ k = level /\ j = node
  \/ accepted /\ n = db.leaves - db.terminal /\ k = LevelCount /\ j = 0

Tallied ==
  /\ depth = "full" /\ pc \in {"directory", "models"} => zeros = 0
  /\ \A n, k, j : Tally(n, k, j) => CountsChildless(n, k, j)

LEMMA ChildlessStays ==
  ASSUME db' = db, UNCHANGED scannedMask
  PROVE  /\ \A k, j : Childless(k, j)' = Childless(k, j)
         /\ \A n, k, j : CountsChildless(n, k, j)' <=> CountsChildless(n, k, j)
BY DEF CountsChildless, Childless, Nodes

LEMMA InitTallied == Init => Tallied
BY DEF Init, Tallied, Tally

\* Before the first level nothing is counted.
LEMMA NoneChildless == CountsChildless(0, 0, 0)
<1>1. Childless(0, 0) = {}
  BY DEF Childless, Levels
<1> QED
  BY <1>1, FS_EmptySet DEF CountsChildless

\* A level is counted once its last node is.
LEMMA LevelCounted ==
  ASSUME NEW k \in Levels, Nodes(k) \in Nat, NEW n, CountsChildless(n, k, Nodes(k))
  PROVE  CountsChildless(n, k + 1, 0)
<1>1. \A l \in Levels : l \in Nat
  BY LevelFacts
<1>2. \A v \in Levels \X Nat :
        v[2] < Nodes(v[1]) =>
          (v[1] < k \/ (v[1] = k /\ v[2] < Nodes(k))
             <=> v[1] < k + 1 \/ (v[1] = k + 1 /\ v[2] < 0))
  BY <1>1
<1>3. Childless(k, Nodes(k)) = Childless(k + 1, 0)
  BY <1>2 DEF Childless
<1> QED
  BY <1>3 DEF CountsChildless

\* Recording the mask of a node counts it when it is empty.
LEMMA RecordTallies ==
  ASSUME Placed, Tallied, db' = db, depth = "full", pc \in {"raw", "block", "symbols"},
         NEW k \in Levels, level = k, NEW j \in Nat, node = j, j < Nodes(k),
         NEW m \in Masks, NEW earlier \in Nat, NEW next \in Nat,
         Record(m, earlier, next), CountMask(m)
  PROVE  \A x, y, z : x = zeros' /\ y = k /\ z = j + 1 => CountsChildless(x, y, z)'
<1> DEFINE done == Childless(k, j)
           here == <<k, j>>
           more == Childless(k, j + 1)
<1>1. /\ db \in Databases /\ ScanType /\ \A l \in Levels : Nodes(l) \in Nat
      /\ zeros \in Nat /\ CountsChildless(zeros, k, j)
  BY PlacedFacts DEF LocalType, Tallied, Tally
<1>2. /\ scannedMask'[k][j] = m
      /\ SameUpTo(k, j)
      /\ \A l \in Levels : l # k => SameUpTo(l, Nodes(l))
  BY <1>1, RecordTraces
<1>3. \A l \in Levels : \A i \in Nat :
        i < Nodes(l) /\ (l # k \/ i < j) => scannedMask'[l][i] = scannedMask[l][i]
  BY <1>1, <1>2 DEF SameUpTo
<1>4. \A l : Nodes(l)' = Nodes(l)
  BY DEF Nodes
<1>5. here \in Levels \X Nat /\ here[1] = k /\ here[2] = j /\ here \notin done
  <2>1. here \in Levels \X Nat /\ here[1] = k /\ here[2] = j
    OBVIOUS
  <2>2. ~(k < k) /\ ~(j < j)
    BY LevelFacts
  <2> HIDE DEF here
  <2>3. here \notin done
    BY <2>1, <2>2 DEF Childless
  <2> QED
    BY <2>1, <2>3
<1>6. \A v \in Levels \X Nat :
        /\ v = <<v[1], v[2]>> /\ v[1] \in Levels /\ v[1] \in Nat /\ v[2] \in Nat
        /\ (v[1] < k \/ (v[1] = k /\ v[2] < j + 1)
              <=> v = here \/ v[1] < k \/ (v[1] = k /\ v[2] < j))
  BY LevelFacts
<1>7. ASSUME NEW v \in Levels \X Nat, v # here
      PROVE  v \in more' <=> v \in done
  <2>1. \/ v[1] < k \/ (v[1] = k /\ v[2] < j)
        \/ ~(v[1] < k \/ (v[1] = k /\ v[2] < j))
    OBVIOUS
  <2>2. CASE ~(v[1] < k \/ (v[1] = k /\ v[2] < j))
    BY <1>6, <1>7, <2>2 DEF Childless
  <2>3. CASE (v[1] < k \/ (v[1] = k /\ v[2] < j)) /\ v[2] < Nodes(v[1])
    <3>1. v[1] \in Levels /\ v[2] \in Nat /\ (v[1] # k \/ v[2] < j)
      BY <1>6, <2>3, LevelFacts
    <3>2. scannedMask'[v[1]][v[2]] = scannedMask[v[1]][v[2]]
      BY <1>3, <2>3, <3>1
    <3> QED
      BY <1>4, <1>6, <1>7, <2>3, <3>2 DEF Childless
  <2>4. CASE ~(v[2] < Nodes(v[1]))
    BY <1>4, <2>4 DEF Childless
  <2> QED
    BY <2>1, <2>2, <2>3, <2>4
<1>8. here \in more' <=> m = {}
  BY <1>2, <1>4, <1>5, <1>6 DEF Childless
<1>9. more' \subseteq Levels \X Nat /\ done \subseteq Levels \X Nat
  BY DEF Childless
<1>10. \A x, y, z : /\ x = zeros' /\ y = k /\ z = j + 1
                    /\ IsFiniteSet(more') /\ x = Cardinality(more')
                  => CountsChildless(x, y, z)'
  BY DEF CountsChildless
<1> HIDE DEF done, more, here
<1>11. CASE m = {}
  <2>1. more' = done \cup {here}
    BY <1>5, <1>7, <1>8, <1>9, <1>11
  <2>2. IsFiniteSet(done) /\ zeros = Cardinality(done)
    BY <1>1 DEF CountsChildless, done
  <2>3. IsFiniteSet(more') /\ Cardinality(more') = zeros + 1
    BY <1>5, <2>1, <2>2, FS_AddElement
  <2>4. zeros' = zeros + 1
    BY <1>11 DEF CountMask
  <2> QED
    BY <2>3, <2>4, <1>10
<1>12. CASE m # {}
  <2>1. more' = done
    BY <1>5, <1>7, <1>8, <1>9, <1>12
  <2>2. zeros' = zeros
    BY <1>1, <1>12 DEF CountMask
  <2> QED
    BY <1>1, <2>1, <2>2, <1>10 DEF CountsChildless, done
<1> QED
  BY <1>11, <1>12

\* Steps that record no mask.
LEMMA QuietTallied ==
  ASSUME db' = db, UNCHANGED scannedMask,
         depth' = "full" /\ pc' \in {"directory", "models"} => zeros' = 0,
         \A n, k, j : Tally(n, k, j)' => CountsChildless(n, k, j)
  PROVE  Tallied'
BY ChildlessStays DEF Tallied

LEMMA OpenTallied ==
  ASSUME Tallied, db' = db, NEW mode \in {"full", "verified"}, Open(mode)
  PROVE  Tallied'
<1>1. /\ pc' \in {"directory", "rejected"} /\ depth' = mode /\ zeros' = 0
      /\ accepted' = (accepted /\ mode = "verified")
  BY DEF Open, Proceed
<1>2. CASE mode = "full"
  BY <1>1, <1>2 DEF Tallied, Tally
<1>3. CASE mode # "full"
  <2>1. UNCHANGED scannedMask
    BY <1>3 DEF Open, scan
  <2>2. \A n, k, j : Tally(n, k, j)' => Tally(n, k, j)
    BY <1>1, <1>3 DEF Tally
  <2> QED
    BY <1>1, <1>3, <2>1, <2>2, QuietTallied DEF Tallied
<1> QED
  BY <1>2, <1>3

LEMMA HeaderTallied ==
  ASSUME Tallied, db' = db, CheckEntry \/ CheckTotals \/ ValidateModels
  PROVE  Tallied'
<1>1. /\ UNCHANGED <<scannedMask, depth, accepted, zeros>> /\ pc \in {"directory", "models"}
      /\ pc' \in {"directory", "models", "level", "rejected"}
      /\ pc' = "level" => level' = 0
  <2>1. CASE CheckEntry
    BY <2>1 DEF CheckEntry, Proceed, scan
  <2>2. CASE CheckTotals
    BY <2>2 DEF CheckTotals, Proceed, scan, progress
  <2>3. CASE ValidateModels
    <3> DEFINE valid == \A l \in HuffmanLevels : \A context \in Masks :
                          ValidModel(db.models[l][context])
    <3>1. pc' = IF valid THEN "level" ELSE "rejected"
      BY <2>3 DEF ValidateModels, Proceed
    <3> HIDE DEF valid
    <3> QED
      BY <2>3, <3>1 DEF ValidateModels, scan
  <2> QED
    BY <2>1, <2>2, <2>3
<1>2. depth = "full" => zeros = 0
  BY <1>1 DEF Tallied
<1>3. \A n, k, j : Tally(n, k, j)' => Tally(n, k, j) \/ (n = 0 /\ k = 0 /\ j = 0)
  BY <1>1, <1>2 DEF Tally
<1>4. \A n, k, j : Tally(n, k, j)' => CountsChildless(n, k, j)
  BY <1>3, NoneChildless DEF Tallied
<1> QED
  BY <1>1, <1>2, <1>4, QuietTallied

LEMMA StartLevelTallied ==
  ASSUME Tallied, db' = db, StartLevel
  PROVE  Tallied'
<1>1. /\ pc = "level" /\ level' = level /\ node' = 0 /\ zeros' = zeros
      /\ UNCHANGED <<depth, accepted, scannedMask>>
      /\ pc' \in {"raw", "block", "index", "rejected"}
  BY DEF StartLevel, Proceed
<1>2. \A n, k, j : Tally(n, k, j)' => Tally(n, k, j)
  BY <1>1 DEF Tally
<1> QED
  BY <1>1, <1>2, QuietTallied DEF Tallied

LEMMA RawNodeTallied ==
  ASSUME Placed, Scanned, Tallied, db' = db, RawNode
  PROVE  Tallied'
<1> DEFINE k == level
           j == node
           m == db.masks[k][j]
           earlier == children
           next == bitOffset
<1>1. /\ k \in RawLevels /\ k \in Levels /\ j < Nodes(k) /\ j \in Nat
      /\ db \in Databases /\ earlier \in Nat /\ next \in Nat
      /\ pc = "raw" /\ pc' \in {"raw", "rejected"} /\ level' = k /\ node' = j + 1
      /\ UNCHANGED <<depth, accepted>> /\ Record(m, earlier, next) /\ CountMask(m)
      /\ level = k /\ node = j
  BY PlacedFacts, LevelFacts
  DEF RawNode, Control, LocalType, Proceed, CountMask
<1>2. m \in Masks
  <2>1. Nodes(k) \in Nat
    BY <1>1, EntryFacts
  <2> QED
    BY <1>1, <2>1, RawMaskType
<1>3. CASE depth # "full"
  <2>1. UNCHANGED scannedMask
    BY <1>1, <1>3 DEF Record, scan
  <2>2. \A x, y, z : Tally(x, y, z)' => Tally(x, y, z)
    BY <1>1, <1>3 DEF Tally
  <2> QED
    BY <1>1, <2>1, <2>2, QuietTallied DEF Tallied
<1>4. CASE depth = "full"
  <2>1. ~accepted'
    BY <1>1, <1>4 DEF Scanned, Pending, Inside
  <2> HIDE DEF k, j, m, earlier, next
  <2>2. \A x, y, z : x = zeros' /\ y = k /\ z = j + 1 => CountsChildless(x, y, z)'
    BY <1>1, <1>2, <1>4, RecordTallies
  <2>3. \A x, y, z : Tally(x, y, z)' => x = zeros' /\ y = k /\ z = j + 1
    BY <1>1, <2>1 DEF Tally
  <2> QED
    BY <1>1, <2>2, <2>3 DEF Tallied
<1> QED
  BY <1>3, <1>4

LEMMA StartBlockTallied ==
  ASSUME Placed, Scanned, Tallied, db' = db, StartBlock
  PROVE  Tallied'
<1> DEFINE k == level
           j == node
           m == PayloadMask(db.payload, bitOffset)
           earlier == children
           next == bitOffset + Fanout
<1>1. /\ k \in Levels /\ j < Nodes(k) /\ j \in Nat
      /\ db \in Databases /\ earlier \in Nat /\ bitOffset \in Nat
      /\ depth = "full" /\ pc = "block" /\ pc' = "symbols" /\ level' = k /\ node' = j + 1
      /\ UNCHANGED <<depth, accepted>> /\ Record(m, earlier, next) /\ CountMask(m)
      /\ level = k /\ node = j
  BY PlacedFacts, LevelFacts DEF StartBlock, Control, LocalType, CountMask
<1>2. m \in Masks /\ next \in Nat
  BY <1>1, PayloadMaskType, FormatAssumption
<1>3. ~accepted'
  BY <1>1 DEF Scanned, Pending, Inside
<1> HIDE DEF k, j, m, earlier, next
<1>4. \A x, y, z : x = zeros' /\ y = k /\ z = j + 1 => CountsChildless(x, y, z)'
  BY <1>1, <1>2, RecordTallies
<1>5. \A x, y, z : Tally(x, y, z)' => x = zeros' /\ y = k /\ z = j + 1
  BY <1>1, <1>3 DEF Tally
<1> QED
  BY <1>1, <1>4, <1>5 DEF Tallied

LEMMA DecodeNodeTallied ==
  ASSUME Placed, Scanned, Tallied, db' = db, DecodeNode
  PROVE  Tallied'
<1> DEFINE k == level
           j == node
           from == bitOffset
           earlier == children + blockKids
<1>1. /\ k \in Levels /\ j < BlockEnd /\ j \in Nat
      /\ db \in Databases /\ from \in Nat /\ earlier \in Nat
      /\ depth = "full" /\ block \in Nat /\ pc = "symbols" /\ Nodes(k) \in Nat
      /\ level = k /\ node = j
  BY PlacedFacts, LevelFacts DEF DecodeNode, Control, LocalType
<1>2. j < Nodes(k)
  <2> DEFINE last == Nodes(k)
  <2>1. BlockEnd = BlockEndOf(block, last) /\ last \in Nat
    BY <1>1 DEF BlockEnd
  <2> HIDE DEF last
  <2>2. BlockEnd \in Int /\ BlockEnd <= last
    BY <1>1, <2>1, BlockStarts DEF BlockEndOf
  <2> QED
    BY <1>1, <2>1, <2>2 DEF last
<1>3. PICK n \in CodeLengths, m \in Masks :
        CountMask(m) /\ Record(m, earlier, from + n)
  BY DEF DecodeNode
<1> DEFINE next == from + n
<1>4. next \in Nat /\ Record(m, earlier, next)
  BY <1>1, <1>3, FormatAssumption DEF CodeLengths
<1>5. UNCHANGED <<depth, accepted, pc>> /\ level' = k /\ node' = j + 1
  BY DEF DecodeNode, CountMask
<1>6. ~accepted'
  BY <1>1, <1>5 DEF Scanned, Pending, Inside
<1> HIDE DEF k, j, earlier, from, next
<1>7. \A x, y, z : x = zeros' /\ y = k /\ z = j + 1 => CountsChildless(x, y, z)'
  BY <1>1, <1>2, <1>3, <1>4, RecordTallies
<1>8. \A x, y, z : Tally(x, y, z)' => x = zeros' /\ y = k /\ z = j + 1
  BY <1>1, <1>5, <1>6 DEF Tally
<1> QED
  BY <1>1, <1>5, <1>7, <1>8 DEF Tallied

LEMMA EndLevelTallied ==
  ASSUME Placed, Tallied, db' = db, EndRawLevel \/ EndHuffmanLevel \/ EndIndexedLevel
  PROVE  Tallied'
<1>1. /\ level \in Levels /\ node = Nodes(level) /\ level' = level + 1 /\ Nodes(level) \in Nat
      /\ UNCHANGED <<scannedMask, depth, accepted, zeros>>
      /\ pc' \in {"level", "rejected"}
      /\ pc \in {"raw", "block"} \/ depth # "full"
  BY PlacedFacts, LevelFacts
  DEF EndRawLevel, EndHuffmanLevel, EndIndexedLevel, Proceed, Control, LocalType, scan
<1>2. depth = "full" => CountsChildless(zeros, level, Nodes(level))
  BY <1>1 DEF Tallied, Tally
<1>3. depth = "full" => CountsChildless(zeros, level + 1, 0)
  BY <1>1, <1>2, LevelCounted
<1>4. \A n, k, j : Tally(n, k, j)' =>
        \/ Tally(n, k, j)
        \/ depth = "full" /\ n = zeros /\ k = level + 1 /\ j = 0
  BY <1>1 DEF Tally
<1>5. \A n, k, j : Tally(n, k, j)' => CountsChildless(n, k, j)
  BY <1>3, <1>4 DEF Tallied
<1> QED
  BY <1>1, <1>5, QuietTallied

LEMMA BlockEndsTallied ==
  ASSUME Placed, Tallied, db' = db, EndBlock \/ IndexBlock
  PROVE  Tallied'
<1>1. /\ UNCHANGED <<scannedMask, depth, accepted>> /\ pc' \in {"block", "index", "rejected"}
      /\ \A n, k, j : Tally(n, k, j)' => Tally(n, k, j)
  <2>1. CASE EndBlock
    <3>1. /\ UNCHANGED <<scannedMask, depth, accepted, level, node, zeros>> /\ pc = "symbols"
          /\ pc' \in {"block", "rejected"}
      BY <2>1 DEF EndBlock, Proceed, scan
    <3> QED
      BY <3>1 DEF Tally
  <2>2. CASE IndexBlock
    <3>1. /\ UNCHANGED <<scannedMask, depth, accepted>> /\ depth # "full"
          /\ pc' \in {"index", "rejected"}
      BY <2>2, PlacedFacts DEF IndexBlock, Control, scan, Proceed
    <3> QED
      BY <3>1 DEF Tally
  <2> QED
    BY <2>1, <2>2
<1> QED
  BY <1>1, QuietTallied DEF Tallied

LEMMA CompleteTallied ==
  ASSUME Placed, Tallied, db' = db, Complete
  PROVE  Tallied'
<1>1. /\ UNCHANGED <<scannedMask, depth, zeros>> /\ pc = "level" /\ level = LevelCount
      /\ pc' \in {"ready", "rejected"} /\ zeros \in Nat
      /\ db.leaves \in Nat /\ db.terminal \in Nat
  BY PlacedFacts, DatabasesAssumption DEF Complete, Proceed, scan, progress, LocalType, DatabaseType
<1>2. accepted' => accepted \/ (depth = "full" /\ zeros + db.terminal = db.leaves)
  BY DEF Complete
<1>3. depth = "full" /\ zeros + db.terminal = db.leaves => zeros = db.leaves - db.terminal
  BY <1>1
<1>4. \A n, k, j : Tally(n, k, j)' => Tally(n, k, j)
  BY <1>1, <1>2, <1>3 DEF Tally
<1> QED
  BY <1>1, <1>4, QuietTallied DEF Tallied

LEMMA StepTallied == Placed /\ Scanned /\ Tallied /\ [Next]_vars => Tallied'
<1> SUFFICES ASSUME Placed, Scanned, Tallied, [Next]_vars PROVE Tallied'
  OBVIOUS
<1>1. db' = db
  BY FileStays
<1>2. ASSUME NEW mode \in {"full", "verified"}, Open(mode) PROVE Tallied'
  BY <1>1, <1>2, OpenTallied
<1>3. CASE CheckEntry \/ CheckTotals \/ ValidateModels
  BY <1>1, <1>3, HeaderTallied
<1>4. CASE StartLevel
  BY <1>1, <1>4, StartLevelTallied
<1>5. CASE RawNode
  BY <1>1, <1>5, RawNodeTallied
<1>6. CASE StartBlock
  BY <1>1, <1>6, StartBlockTallied
<1>7. CASE DecodeNode
  BY <1>1, <1>7, DecodeNodeTallied
<1>8. CASE EndRawLevel \/ EndHuffmanLevel \/ EndIndexedLevel
  BY <1>1, <1>8, EndLevelTallied
<1>9. CASE EndBlock \/ IndexBlock
  BY <1>1, <1>9, BlockEndsTallied
<1>10. CASE Complete
  BY <1>1, <1>10, CompleteTallied
<1>11. CASE RejectBlock \/ RejectSymbol \/ Close
  <2>1. UNCHANGED <<scannedMask, depth, accepted>> /\ pc' \in {"rejected", "closed"}
    BY <1>11 DEF RejectBlock, RejectSymbol, Reject, Close, scan
  <2>2. \A n, k, j : Tally(n, k, j)' => Tally(n, k, j)
    BY <1>1, <2>1 DEF Tally
  <2> QED
    BY <1>1, <2>1, <2>2, QuietTallied DEF Tallied
<1>12. CASE UNCHANGED vars
  <2>1. UNCHANGED <<scannedMask, depth, accepted, pc, level, node, zeros>>
    BY <1>12 DEF vars, progress, scan
  <2>2. \A n, k, j : Tally(n, k, j)' => Tally(n, k, j)
    BY <1>1, <2>1 DEF Tally
  <2> QED
    BY <1>1, <2>1, <2>2, QuietTallied DEF Tallied
<1> QED
  BY <1>2, <1>3, <1>4, <1>5, <1>6, <1>7, <1>8, <1>9, <1>10, <1>11, <1>12
  DEF Next, Construct

-----------------------------------------------------------------------------
(* The decoder and the children of a mask *)

\* The decoder is deterministic, wherever it must stop.
LEMMA DecodesOnce ==
  ASSUME NEW model, NEW payload, NEW from, NEW end1, NEW end2,
         NEW n1 \in Nat, NEW n2 \in Nat, NEW m1, NEW m2,
         Decodes(model, payload, from, end1, n1, m1),
         Decodes(model, payload, from, end2, n2, m2)
  PROVE  n1 = n2 /\ m1 = m2
<1>1. CASE model.flag = 1
  BY <1>1 DEF Decodes
<1>2. CASE model.flag # 1
  <2>1. /\ n1 >= 1 /\ CodeMatches(model, payload, from, n1)
        /\ \A k \in 1..(n1 - 1) : ~CodeMatches(model, payload, from, k)
        /\ n2 >= 1 /\ CodeMatches(model, payload, from, n2)
        /\ \A k \in 1..(n2 - 1) : ~CodeMatches(model, payload, from, k)
    BY <1>2 DEF Decodes
  <2>2. ~(n1 < n2) /\ ~(n2 < n1)
    BY <2>1
  <2>3. n1 = n2
    BY <2>2
  <2> QED
    BY <1>2, <2>3 DEF Decodes
<1> QED
  BY <1>1, <1>2

LEMMA MasksFinite ==
  ASSUME NEW m \in Masks
  PROVE  IsFiniteSet(m) /\ m \subseteq Nat
<1>1. IsFiniteSet(ChildPositions) /\ ChildPositions \subseteq Nat
  BY FormatAssumption, FS_Interval DEF ChildPositions
<1> QED
  BY <1>1, FS_Subset DEF Masks

\* Fewer children precede a child than the mask has.
LEMMA ChildrenBeforeFewer ==
  ASSUME NEW m \in Masks, NEW p \in m
  PROVE  /\ CountOnes(ChildrenBefore(m, p)) \in Nat
         /\ CountOnes(ChildrenBefore(m, p)) < CountOnes(m)
<1> DEFINE some == ChildrenBefore(m, p)
<1>1. IsFiniteSet(m) /\ some \in SUBSET m /\ p \notin some /\ p \in Nat
  BY MasksFinite DEF ChildrenBefore
<1> HIDE DEF some
<1>2. /\ Cardinality(some) <= Cardinality(m)
      /\ Cardinality(some) \in Nat /\ Cardinality(m) \in Nat
      /\ Cardinality(m) = Cardinality(some) => m = some
  BY <1>1, FS_Subset, FS_CardinalityType
<1>3. Cardinality(some) # Cardinality(m)
  BY <1>1, <1>2
<1> QED
  BY <1>2, <1>3 DEF CountOnes, some

\* Every number below the size of a mask is the rank of one of its children.
LEMMA RankedChild ==
  ASSUME NEW m \in Masks, NEW k \in Nat, k < CountOnes(m)
  PROVE  \E p \in m : CountOnes(ChildrenBefore(m, p)) = k
<1> DEFINE Beyond == {x \in Nat : k < CountOnes(ChildrenBefore(m, x))}
<1>1. /\ IsFiniteSet(m) /\ \A q \in m : q \in Nat /\ q < Fanout
      /\ Fanout \in Nat
  BY MasksFinite, FormatAssumption DEF Masks, ChildPositions
<1>2. \A x : IsFiniteSet(ChildrenBefore(m, x)) /\ CountOnes(ChildrenBefore(m, x)) \in Nat
  <2>1. \A x : ChildrenBefore(m, x) \in SUBSET m
    BY DEF ChildrenBefore
  <2> QED
    BY <1>1, <2>1, FS_Subset, FS_CardinalityType DEF CountOnes
<1>3. Fanout \in Beyond
  <2>1. ChildrenBefore(m, Fanout) = m
    BY <1>1 DEF ChildrenBefore
  <2> QED
    BY <1>1, <2>1
<1>4. Beyond \subseteq Nat /\ Beyond # {}
  BY <1>3
<1>5. PICK x \in Beyond : \A y \in Beyond : x <= y
  <2> HIDE DEF Beyond
  <2> QED
    BY <1>4, LeastNatural
<1>6. x \in Nat /\ k < CountOnes(ChildrenBefore(m, x))
  OBVIOUS
<1>7. x # 0
  <2>1. \A q \in m : ~(q < 0)
    BY <1>1
  <2>2. ChildrenBefore(m, 0) = {}
    BY <2>1 DEF ChildrenBefore
  <2>3. CountOnes(ChildrenBefore(m, 0)) = 0
    BY <2>2, FS_EmptySet DEF CountOnes
  <2> QED
    BY <1>6, <2>3
<1> DEFINE p == x - 1
<1>8. p \in Nat /\ p < x
  BY <1>6, <1>7
<1>9. ~(k < CountOnes(ChildrenBefore(m, p)))
  BY <1>5, <1>8, <1>6
<1>10. p \in m
  <2> SUFFICES ASSUME p \notin m PROVE FALSE
    OBVIOUS
  <2>1. \A q \in m : q < x <=> q < p
    BY <1>1, <1>6, <1>8
  <2>2. ChildrenBefore(m, x) = ChildrenBefore(m, p)
    BY <2>1 DEF ChildrenBefore
  <2> QED
    BY <1>6, <1>9, <2>2
<1>11. CountOnes(ChildrenBefore(m, x)) = CountOnes(ChildrenBefore(m, p)) + 1
  <2>1. \A q \in m : q < x <=> q < p \/ q = p
    BY <1>1, <1>6, <1>8
  <2>2. ChildrenBefore(m, x) = ChildrenBefore(m, p) \cup {p}
    BY <1>10, <2>1 DEF ChildrenBefore
  <2>3. p \notin ChildrenBefore(m, p)
    BY <1>8 DEF ChildrenBefore
  <2> HIDE DEF p
  <2> QED
    BY <1>2, <2>2, <2>3, FS_AddElement DEF CountOnes
<1> HIDE DEF p
<1>12. CountOnes(ChildrenBefore(m, p)) = k
  <2>1. CountOnes(ChildrenBefore(m, p)) \in Nat
    BY <1>2
  <2> QED
    BY <1>6, <1>9, <1>11, <2>1
<1> QED
  BY <1>10, <1>12

\* A child of a node of an accepted file is a node of the next level.
LEMMA ChildInBounds ==
  ASSUME Served, accepted, NEW l \in Levels, ~FinalLevel(l),
         NEW i \in Nat, i < Nodes(l), NEW p \in scannedMask[l][i]
  PROVE  /\ l + 1 \in Levels
         /\ scannedRank[l][i] + CountOnes(ChildrenBefore(scannedMask[l][i], p)) \in Nat
         /\ scannedRank[l][i] + CountOnes(ChildrenBefore(scannedMask[l][i], p))
              < Nodes(l + 1)
<1> DEFINE last == Nodes(l)
<1>1. /\ last \in Nat /\ scannedMask[l][i] \in Masks
      /\ scannedRank[l][i] \in Nat /\ scannedRank[l][i + 1] \in Nat
      /\ scannedRank[l][i + 1] = scannedRank[l][i] + CountOnes(scannedMask[l][i])
      /\ scannedRank[l][last] = Nodes(l + 1)
  <2>1. /\ last \in Nat /\ Linked(l) /\ ReadTo(l, last)
        /\ scannedMask[l] \in [0..last -> Masks] /\ scannedRank[l] \in [0..last -> Nat]
    BY AcceptedFacts DEF LevelExact
  <2>2. scannedRank[l][last] = Nodes(l + 1)
    BY <2>1 DEF Linked
  <2>3. NodeRead(l, i)
    BY <2>1 DEF ReadTo
  <2> HIDE DEF last
  <2>4. i \in 0..last /\ i + 1 \in 0..last
    BY <2>1 DEF last
  <2> QED
    BY <2>1, <2>2, <2>3, <2>4 DEF NodeRead
<1>2. l + 1 \in Levels
  BY LevelFacts DEF FinalLevel, Levels
<1>3. Nodes(l + 1) \in Nat
  BY <1>2, AcceptedFacts
<1>4. scannedRank[l][i + 1] <= scannedRank[l][Nodes(l)]
  BY <1>1, RanksGrow
<1>5. /\ CountOnes(ChildrenBefore(scannedMask[l][i], p)) \in Nat
      /\ CountOnes(ChildrenBefore(scannedMask[l][i], p)) < CountOnes(scannedMask[l][i])
      /\ CountOnes(scannedMask[l][i]) \in Nat
  BY <1>1, ChildrenBeforeFewer, CountOnesNat
<1> QED
  BY <1>1, <1>2, <1>3, <1>4, <1>5

-----------------------------------------------------------------------------
(* Where a lookup is *)

\* A lookup runs on an accepted file, and reads a node of an existing level.
Opened == task # "idle" => pc = "ready" /\ accepted

CallTyped ==
  step # "idle" =>
    /\ task \in {"query", "reconstruct"}
    /\ call.level \in Levels
    /\ call.node \in Nat /\ call.node < Nodes(call.level)
    /\ call.rank \in BOOLEAN
    /\ call.rank => ~FinalLevel(call.level)

\* Ranks are counted only when they are asked for.
Ranked(n) == IF call.rank THEN scannedRank[call.level][n] ELSE 0

\* Between the group's checkpoint and the block of the node.
BlocksWalk ==
  step = "blocks" =>
    /\ ~Raw /\ at \in Nat /\ at <= TargetBlock
    /\ offset = scannedStart[call.level][BlockStartOf(at)]
    /\ before = Ranked(BlockStartOf(at))

\* Between a raw checkpoint and the node.
RawWalk ==
  step = "masks" /\ Raw =>
    /\ at \in Nat /\ at <= call.node
    /\ ~call.rank => at = call.node
    /\ before = Ranked(at)

\* Inside the block: the mask at is decoded, the one after it is next.
SymbolWalk ==
  step = "masks" /\ ~Raw =>
    /\ at \in Nat /\ BlockStartOf(TargetBlock) <= at /\ at <= call.node
    /\ current = scannedMask[call.level][at]
    /\ offset = scannedStart[call.level][at + 1]
    /\ before = Ranked(at)

Returned ==
  step = "return" =>
    /\ current = scannedMask[call.level][call.node]
    /\ before = Ranked(call.node)

\* A query asks for ranks exactly when it goes on below the next level.
QueryWalk ==
  task = "query" =>
    /\ cell \in QueryCells /\ step # "idle"
    /\ call.level < Target(cell)
    /\ call.rank <=> call.level + 1 # Target(cell)

Visits ==
  {v \in [level : Levels, node : Nat, cell : Seq(Nat)] : v.node < Nodes(v.level)}

\* A reconstruction has only nodes of existing levels ahead of it.
ListWalk ==
  task = "reconstruct" =>
    /\ todo \in Seq(Visits)
    /\ step # "idle" => /\ todo # <<>>
                        /\ call.level = Head(todo).level
                        /\ call.rank = ~FinalLevel(call.level)

Walking ==
  /\ Opened /\ CallTyped
  /\ BlocksWalk /\ RawWalk /\ SymbolWalk /\ Returned
  /\ QueryWalk /\ ListWalk

\* A lookup reads the file and changes nothing of it.
LEMMA FileUntouched ==
  ASSUME UNCHANGED vars
  PROVE  /\ UNCHANGED <<db, pc, accepted, scannedMask, scannedRank, scannedStart>>
         /\ \A l : Nodes(l)' = Nodes(l)
         /\ Visits' = Visits
<1>1. UNCHANGED <<db, pc, accepted, scannedMask, scannedRank, scannedStart>>
  BY DEF vars, scan
<1> QED
  BY <1>1 DEF Nodes, Visits

LEMMA InitWalking == LookupInit => Walking
BY DEF LookupInit, Walking, Opened, CallTyped, BlocksWalk, RawWalk, SymbolWalk,
       Returned, QueryWalk, ListWalk

\* Between calls nothing is claimed.
LEMMA IdleWalking ==
  ASSUME Walking, step' = "idle", task' \notin {"query", "reconstruct"},
         task' # "idle" => pc' = "ready" /\ accepted'
  PROVE  Walking'
BY DEF Walking, Opened, CallTyped, BlocksWalk, RawWalk, SymbolWalk, Returned,
       QueryWalk, ListWalk

\* What is known while mask_and_rank runs.
LEMMA CallFacts ==
  ASSUME Served, Walking, step # "idle"
  PROVE  /\ accepted /\ pc = "ready" /\ task \in {"query", "reconstruct"}
         /\ call.level \in Levels /\ call.node \in Nat
         /\ call.node < Nodes(call.level) /\ Nodes(call.level) \in Nat
         /\ call.rank \in BOOLEAN
         /\ LevelExact(call.level) /\ ReadTo(call.level, Nodes(call.level))
         /\ scannedMask[call.level] \in [0..Nodes(call.level) -> Masks]
         /\ scannedRank[call.level] \in [0..Nodes(call.level) -> Nat]
         /\ scannedStart[call.level] \in [0..Nodes(call.level) -> Nat]
         /\ Raw => call.level \in RawLevels
         /\ ~Raw => call.level \in HuffmanLevels
<1>1. /\ accepted /\ pc = "ready" /\ task \in {"query", "reconstruct"}
      /\ call.level \in Levels /\ call.node \in Nat /\ call.node < Nodes(call.level)
      /\ call.rank \in BOOLEAN
  BY DEF Walking, Opened, CallTyped
<1>2. /\ Raw => call.level \in RawLevels
      /\ ~Raw => call.level \in HuffmanLevels
  BY <1>1, LevelFacts DEF Raw
<1> QED
  BY <1>1, <1>2, AcceptedFacts

\* The steps of mask_and_rank keep the call they work for.
LEMMA SameCall ==
  ASSUME Walking, UNCHANGED vars, UNCHANGED <<task, call, cell, todo>>,
         step # "idle", step' # "idle"
  PROVE  /\ Opened' /\ CallTyped' /\ QueryWalk' /\ ListWalk'
         /\ \A n : Ranked(n)' = Ranked(n)
         /\ Raw' = Raw /\ TargetBlock' = TargetBlock
<1>1. /\ UNCHANGED <<db, pc, accepted, scannedMask, scannedRank, scannedStart>>
      /\ \A l : Nodes(l)' = Nodes(l)
      /\ Visits' = Visits
  BY FileUntouched
<1>2. Opened' /\ CallTyped'
  BY <1>1 DEF Walking, Opened, CallTyped
<1>3. QueryWalk'
  BY DEF Walking, QueryWalk, Target
<1>4. ListWalk'
  BY <1>1 DEF Walking, ListWalk
<1>5. /\ \A n : Ranked(n)' = Ranked(n)
      /\ Raw' = Raw /\ TargetBlock' = TargetBlock
  BY <1>1 DEF Ranked, Raw, TargetBlock
<1> QED
  BY <1>2, <1>3, <1>4, <1>5

-----------------------------------------------------------------------------
(* mask_and_rank *)

\* The raw walk begins at a checkpoint, with the checkpoint's rank.
LEMMA EnterRawWalks ==
  ASSUME Served, Walking, UNCHANGED vars, UNCHANGED <<task, cell, answer, todo, leaves>>,
         EnterRaw
  PROVE  Walking'
<1> DEFINE first == CheckpointStartOf(CheckpointOf(call.node))
           stored == db.rawRanks[call.level][CheckpointOf(call.node)]
<1>1. /\ step = "enter" /\ step' = "masks" /\ Raw /\ call' = call
      /\ at' = IF call.rank THEN first ELSE call.node
      /\ before' = Counted(stored)
  BY DEF EnterRaw
<1>2. /\ Opened' /\ CallTyped' /\ QueryWalk' /\ ListWalk'
      /\ \A n : Ranked(n)' = Ranked(n)
      /\ Raw' = Raw /\ TargetBlock' = TargetBlock
  BY <1>1, SameCall
<1>3. /\ call.node \in Nat /\ call.rank \in BOOLEAN
      /\ call.node < Nodes(call.level) /\ Nodes(call.level) \in Nat
      /\ Checkpointed(call.level)
  BY <1>1, CallFacts DEF LevelExact
<1>4. /\ CheckpointOf(call.node) \in Nat
      /\ first \in Nat /\ first <= call.node
  BY <1>3, Intervals, FormatAssumption DEF CheckpointOf, CheckpointStartOf
<1>5. first % RawRankInterval = 0 /\ CheckpointOf(first) = CheckpointOf(call.node)
  <2> DEFINE k == CheckpointOf(call.node)
  <2>1. k \in Nat
    BY <1>4
  <2> HIDE DEF k
  <2>2. (k * RawRankInterval) \div RawRankInterval = k /\ (k * RawRankInterval) % RawRankInterval = 0
    BY <2>1, IntervalStarts, FormatAssumption
  <2>3. CheckpointStartOf(k) % RawRankInterval = 0 /\ CheckpointOf(CheckpointStartOf(k)) = k
    BY <2>2 DEF CheckpointOf, CheckpointStartOf
  <2> QED
    BY <2>3 DEF k
<1> HIDE DEF first, stored
<1>6. stored = scannedRank[call.level][first]
  BY <1>3, <1>4, <1>5 DEF Checkpointed, stored
<1>7. RawWalk'
  <2>1. /\ at' \in Nat /\ at' <= call.node
        /\ ~call.rank => at' = call.node
    BY <1>1, <1>3, <1>4
  <2>2. before' = Ranked(at')
    BY <1>1, <1>3, <1>6 DEF Ranked, Counted
  <2>3. before' = Ranked(at)'
    BY <1>1, <2>2, FileUntouched DEF Ranked
  <2> QED
    BY <1>1, <2>1, <2>3 DEF RawWalk
<1> QED
  BY <1>1, <1>2, <1>7 DEF Walking, BlocksWalk, SymbolWalk, Returned

LEMMA AddRawMaskWalks ==
  ASSUME Served, Walking, UNCHANGED vars, UNCHANGED <<task, cell, answer, todo, leaves>>,
         AddRawMask
  PROVE  Walking'
<1> DEFINE l == call.level
           i == at
           m == db.masks[l][i]
<1>1. /\ step = "masks" /\ step' = "masks" /\ Raw /\ call' = call /\ i < call.node
      /\ before' = before + CountOnes(m) /\ at' = i + 1
  BY DEF AddRawMask
<1>2. /\ Opened' /\ CallTyped' /\ QueryWalk' /\ ListWalk'
      /\ \A n : Ranked(n)' = Ranked(n)
      /\ Raw' = Raw /\ TargetBlock' = TargetBlock
  BY <1>1, SameCall
<1>3. /\ call.node \in Nat /\ l \in RawLevels /\ call.rank \in BOOLEAN
      /\ call.node < Nodes(l) /\ Nodes(l) \in Nat /\ ReadTo(l, Nodes(l))
  BY <1>1, CallFacts
<1>4. i \in Nat /\ before = Ranked(i) /\ (~call.rank => i = call.node)
  BY <1>1 DEF Walking, RawWalk
<1>5. call.rank /\ before = scannedRank[l][i]
  BY <1>1, <1>3, <1>4 DEF Ranked
<1>6. NodeRead(l, i)
  BY <1>1, <1>3, <1>4 DEF ReadTo
<1>7. scannedRank[l][i + 1] = before + CountOnes(m)
  BY <1>3, <1>5, <1>6 DEF NodeRead, RawRead
<1>8. RawWalk'
  <2>1. at' \in Nat /\ at' <= call.node
    BY <1>1, <1>3, <1>4
  <2>2. before' = Ranked(at)'
    BY <1>1, <1>5, <1>7, FileUntouched DEF Ranked
  <2> QED
    BY <1>1, <1>5, <2>1, <2>2 DEF RawWalk
<1> QED
  BY <1>1, <1>2, <1>8 DEF Walking, BlocksWalk, SymbolWalk, Returned

LEMMA ReturnRawWalks ==
  ASSUME Served, Walking, UNCHANGED vars, UNCHANGED <<task, cell, answer, todo, leaves>>,
         ReturnRaw
  PROVE  Walking'
<1>1. /\ step = "masks" /\ step' = "return" /\ Raw /\ call' = call /\ at = call.node
      /\ current' = db.masks[call.level][call.node] /\ before' = before
  BY DEF ReturnRaw
<1>2. /\ Opened' /\ CallTyped' /\ QueryWalk' /\ ListWalk'
      /\ \A n : Ranked(n)' = Ranked(n)
  BY <1>1, SameCall
<1>3. NodeRead(call.level, call.node) /\ call.level \in RawLevels
  BY <1>1, CallFacts DEF ReadTo
<1>4. before = Ranked(call.node)
  BY <1>1 DEF Walking, RawWalk
<1>5. Returned'
  BY <1>1, <1>2, <1>3, <1>4, FileUntouched DEF Returned, NodeRead, RawRead
<1> QED
  BY <1>1, <1>2, <1>5 DEF Walking, BlocksWalk, RawWalk, SymbolWalk

\* The blocks before the one of the node lie inside the level.
LEMMA BlocksBefore ==
  ASSUME Served, Walking, step # "idle", ~Raw, NEW b \in Nat, b <= TargetBlock
  PROVE  /\ TargetBlock \in Nat /\ BlockStartOf(b) \in Nat
         /\ BlockStartOf(b) <= BlockStartOf(TargetBlock)
         /\ BlockStartOf(TargetBlock) \in Nat
         /\ BlockStartOf(TargetBlock) <= call.node
         /\ call.node < BlockStartOf(TargetBlock + 1)
         /\ BlockStartOf(TargetBlock + 1) \in Nat
         /\ b \in BlocksOf(call.level)
         /\ BlockIndexed(call.level, b) /\ GroupIndexed(call.level, b)
<1>1. /\ call.node \in Nat /\ call.node < Nodes(call.level) /\ Nodes(call.level) \in Nat
      /\ call.level \in HuffmanLevels /\ LevelExact(call.level)
  BY CallFacts
<1>2. /\ TargetBlock \in Nat
      /\ BlockStartOf(TargetBlock) <= call.node
      /\ call.node < BlockStartOf(TargetBlock + 1)
  BY <1>1, Intervals, FormatAssumption DEF TargetBlock, BlockOf, BlockStartOf
<1>3. /\ BlockStartOf(b) \in Nat /\ BlockStartOf(b + 1) \in Nat
      /\ BlockStartOf(TargetBlock) \in Nat /\ BlockStartOf(TargetBlock + 1) \in Nat
      /\ BlockStartOf(b) <= BlockStartOf(b + 1) /\ b <= BlockStartOf(b)
  BY <1>2, BlockStarts, FormatAssumption
<1>4. BlockStartOf(b) <= BlockStartOf(TargetBlock)
  <2>1. CASE b = TargetBlock
    BY <1>3, <2>1
  <2>2. CASE b < TargetBlock
    BY <1>2, <1>3, <2>2, BlockStartsGrow
  <2> QED
    BY <1>2, <2>1, <2>2
<1>5. b \in BlocksOf(call.level)
  BY <1>1, <1>2, <1>3, <1>4 DEF BlocksOf
<1> QED
  BY <1>1, <1>2, <1>3, <1>4, <1>5 DEF LevelExact

\* The walk over blocks begins with the group's absolute offset and rank.
LEMMA EnterHuffmanWalks ==
  ASSUME Served, Walking, UNCHANGED vars, UNCHANGED <<task, cell, answer, todo, leaves>>,
         EnterHuffman
  PROVE  Walking'
<1> DEFINE l == call.level
           g == GroupOf(TargetBlock)
           b == GroupStartOf(g)
<1>1. /\ step = "enter" /\ step' = "blocks" /\ ~Raw /\ call' = call
      /\ at' = b /\ offset' = db.groupOffsets[l][g]
      /\ before' = IF call.rank THEN db.groupRanks[l][g] ELSE 0
  BY DEF EnterHuffman
<1>2. /\ Opened' /\ CallTyped' /\ QueryWalk' /\ ListWalk'
      /\ \A n : Ranked(n)' = Ranked(n)
      /\ Raw' = Raw /\ TargetBlock' = TargetBlock
  BY <1>1, SameCall
<1>3. TargetBlock \in Nat /\ (call.rank => ~FinalLevel(l))
  <2>1. 0 <= TargetBlock /\ TargetBlock \in Nat
    BY <1>1, CallFacts, Intervals, FormatAssumption DEF TargetBlock, BlockOf
  <2> QED
    BY <1>1, <2>1 DEF Walking, CallTyped
<1>4. g \in Nat /\ b \in Nat /\ b <= TargetBlock
  BY <1>3, Intervals, FormatAssumption DEF GroupOf, GroupStartOf
<1>5. b % BlocksPerGroup = 0 /\ GroupOf(b) = g
  <2>1. g \in Nat
    BY <1>4
  <2> HIDE DEF g
  <2>2. (g * BlocksPerGroup) \div BlocksPerGroup = g /\ (g * BlocksPerGroup) % BlocksPerGroup = 0
    BY <2>1, IntervalStarts, FormatAssumption
  <2> QED
    BY <2>2 DEF GroupOf, GroupStartOf
<1> HIDE DEF b, g
<1>6. GroupIndexed(l, b)
  BY <1>1, <1>4, BlocksBefore
<1>7. /\ offset' = scannedStart[l][BlockStartOf(b)]
      /\ before' = Ranked(BlockStartOf(b))
  BY <1>1, <1>3, <1>5, <1>6 DEF GroupIndexed, Ranked
<1>8. BlocksWalk'
  BY <1>1, <1>2, <1>4, <1>7, FileUntouched DEF BlocksWalk
<1> QED
  BY <1>1, <1>2, <1>8 DEF Walking, RawWalk, SymbolWalk, Returned

\* A block that is skipped ends where the next one starts.
LEMMA SkipBlockWalks ==
  ASSUME Served, Walking, UNCHANGED vars, UNCHANGED <<task, cell, answer, todo, leaves>>,
         SkipBlock
  PROVE  Walking'
<1> DEFINE l == call.level
           b == at
<1>1. /\ step = "blocks" /\ step' = "blocks" /\ call' = call /\ b < TargetBlock
      /\ at' = b + 1 /\ offset' = offset + db.blockBits[l][b]
      /\ before' = IF call.rank THEN before + db.blockChildren[l][b] ELSE before
  BY DEF SkipBlock
<1>2. /\ Opened' /\ CallTyped' /\ QueryWalk' /\ ListWalk'
      /\ \A n : Ranked(n)' = Ranked(n)
      /\ Raw' = Raw /\ TargetBlock' = TargetBlock
  BY <1>1, SameCall
<1>3. /\ ~Raw /\ b \in Nat /\ (call.rank => ~FinalLevel(l))
      /\ offset = scannedStart[l][BlockStartOf(b)] /\ before = Ranked(BlockStartOf(b))
  BY <1>1 DEF Walking, BlocksWalk, CallTyped
<1>4. TargetBlock \in Nat
  BY <1>1, CallFacts, Intervals, FormatAssumption DEF TargetBlock, BlockOf
<1>5. b + 1 \in Nat /\ b + 1 <= TargetBlock /\ b <= TargetBlock
  BY <1>1, <1>3, <1>4
<1>6. /\ BlockIndexed(l, b) /\ BlockStartOf(b) \in Nat
      /\ BlockStartOf(b) <= BlockStartOf(TargetBlock)
      /\ BlockStartOf(b + 1) \in Nat
      /\ BlockStartOf(b + 1) <= BlockStartOf(TargetBlock)
      /\ BlockStartOf(TargetBlock) \in Nat
      /\ BlockStartOf(TargetBlock) <= call.node
  <2>1. step # "idle"
    BY <1>1
  <2>2. /\ BlockIndexed(l, b) /\ BlockStartOf(b) \in Nat
        /\ BlockStartOf(b) <= BlockStartOf(TargetBlock)
        /\ BlockStartOf(TargetBlock) \in Nat /\ BlockStartOf(TargetBlock) <= call.node
    BY <1>3, <1>5, <2>1, BlocksBefore
  <2>3. /\ BlockStartOf(b + 1) \in Nat
        /\ BlockStartOf(b + 1) <= BlockStartOf(TargetBlock)
    BY <1>3, <1>5, <2>1, BlocksBefore
  <2> QED
    BY <2>2, <2>3
<1>7. /\ call.node \in Nat /\ call.node < Nodes(l) /\ Nodes(l) \in Nat
      /\ call.rank \in BOOLEAN
      /\ \A x \in 0..Nodes(l) : scannedRank[l][x] \in Nat /\ scannedStart[l][x] \in Nat
  BY <1>1, CallFacts
<1>8. BlockEndOf(b, Nodes(l)) = BlockStartOf(b + 1)
  BY <1>6, <1>7 DEF BlockEndOf
<1>9. BlockStartOf(b) \in 0..Nodes(l) /\ BlockStartOf(b + 1) \in 0..Nodes(l)
  BY <1>6, <1>7
<1> HIDE DEF b, l
<1>10. offset' = scannedStart[l][BlockStartOf(b + 1)]
  <2>1. db.blockBits[l][b]
          = scannedStart[l][BlockStartOf(b + 1)] - scannedStart[l][BlockStartOf(b)]
    BY <1>6, <1>8 DEF BlockIndexed
  <2> QED
    BY <1>1, <1>3, <1>7, <1>9, <2>1
<1>11. before' = IF call.rank THEN scannedRank[l][BlockStartOf(b + 1)] ELSE 0
  <2>1. CASE call.rank
    <3>1. db.blockChildren[l][b]
            = scannedRank[l][BlockStartOf(b + 1)] - scannedRank[l][BlockStartOf(b)]
      BY <1>3, <1>6, <1>8, <2>1 DEF BlockIndexed
    <3>2. before = scannedRank[l][BlockStartOf(b)]
      BY <1>3, <2>1 DEF Ranked, l
    <3> QED
      BY <1>1, <1>7, <1>9, <2>1, <3>1, <3>2
  <2>2. CASE ~call.rank
    BY <1>1, <1>3, <2>2 DEF Ranked
  <2> QED
    BY <1>7, <2>1, <2>2
<1>12. BlocksWalk'
  <2>1. offset' = scannedStart'[call'.level][BlockStartOf(at')]
    BY <1>1, <1>10, FileUntouched DEF l
  <2>2. before' = Ranked(BlockStartOf(at))'
    BY <1>1, <1>2, <1>11, FileUntouched DEF Ranked, l
  <2> QED
    BY <1>1, <1>2, <1>3, <1>5, <2>1, <2>2 DEF BlocksWalk
<1> QED
  BY <1>1, <1>2, <1>12 DEF Walking, RawWalk, SymbolWalk, Returned

\* The block of the node begins with a mask that is stored as it is.
LEMMA ReadFirstMaskWalks ==
  ASSUME Served, Walking, UNCHANGED vars, UNCHANGED <<task, cell, answer, todo, leaves>>,
         ReadFirstMask
  PROVE  Walking'
<1> DEFINE l == call.level
           i == BlockStartOf(TargetBlock)
<1>1. /\ step = "blocks" /\ step' = "masks" /\ call' = call /\ at = TargetBlock
      /\ current' = PayloadMask(db.payload, offset)
      /\ offset' = offset + Fanout /\ at' = i /\ before' = before
  BY DEF ReadFirstMask
<1>2. /\ Opened' /\ CallTyped' /\ QueryWalk' /\ ListWalk'
      /\ \A n : Ranked(n)' = Ranked(n)
      /\ Raw' = Raw /\ TargetBlock' = TargetBlock
  BY <1>1, SameCall
<1>3. /\ ~Raw /\ TargetBlock \in Nat
      /\ offset = scannedStart[l][i] /\ before = Ranked(i)
  BY <1>1 DEF Walking, BlocksWalk
<1>4. /\ i \in Nat /\ i <= call.node /\ call.node \in Nat
      /\ call.node < Nodes(l) /\ Nodes(l) \in Nat /\ l \in HuffmanLevels
      /\ ReadTo(l, Nodes(l))
  BY <1>1, <1>3, BlocksBefore, CallFacts
<1>5. FirstRead(l, i)
  BY <1>4 DEF ReadTo, NodeRead
<1>6. /\ scannedMask[l][i] = PayloadMask(db.payload, scannedStart[l][i])
      /\ scannedStart[l][i + 1] = scannedStart[l][i] + Fanout
  BY <1>3, <1>5 DEF FirstRead
<1>7. SymbolWalk'
  <2>1. /\ at' \in Nat /\ BlockStartOf(TargetBlock') <= at' /\ at' <= call'.node
    BY <1>1, <1>2, <1>4
  <2>2. /\ current' = scannedMask'[call'.level][at']
        /\ offset' = scannedStart'[call'.level][at' + 1]
    BY <1>1, <1>3, <1>6, FileUntouched
  <2>3. before' = Ranked(at)'
    BY <1>1, <1>3, FileUntouched DEF Ranked
  <2> QED
    BY <2>1, <2>2, <2>3 DEF SymbolWalk
<1> QED
  BY <1>1, <1>2, <1>3, <1>7 DEF Walking, BlocksWalk, RawWalk, Returned

\* The decoder in the middle of a level reads what the one from its start read.
LEMMA DecodeNextWalks ==
  ASSUME Served, Walking, UNCHANGED vars, UNCHANGED <<task, cell, answer, todo, leaves>>,
         DecodeNext
  PROVE  Walking'
<1> DEFINE l == call.level
           i == at
           k == at + 1
<1>1. /\ step = "masks" /\ step' = "masks" /\ call' = call /\ ~Raw
      /\ i < call.node /\ at' = k
      /\ before' = before + Counted(CountOnes(current))
  BY DEF DecodeNext
<1>2. PICK n \in CodeLengths, m \in Masks :
        /\ Decodes(db.models[l][current], db.payload, offset, db.payloadBits, n, m)
        /\ current' = m /\ offset' = offset + n
  BY DEF DecodeNext, Following
<1>3. /\ Opened' /\ CallTyped' /\ QueryWalk' /\ ListWalk'
      /\ Raw' = Raw /\ TargetBlock' = TargetBlock
  BY <1>1, SameCall
<1>4. /\ i \in Nat /\ BlockStartOf(TargetBlock) <= i
      /\ current = scannedMask[l][i] /\ offset = scannedStart[l][k] /\ before = Ranked(i)
  BY <1>1 DEF Walking, SymbolWalk
<1>5. /\ call.node \in Nat /\ call.rank \in BOOLEAN /\ l \in HuffmanLevels
      /\ call.node < Nodes(l) /\ Nodes(l) \in Nat /\ ReadTo(l, Nodes(l))
  BY <1>1, CallFacts
<1>6. /\ TargetBlock \in Nat /\ BlockStartOf(TargetBlock) \in Nat
      /\ call.node < BlockStartOf(TargetBlock + 1)
      /\ BlockStartOf(TargetBlock + 1) \in Nat
  <2>1. TargetBlock \in Nat
    BY <1>5, Intervals, FormatAssumption DEF TargetBlock, BlockOf
  <2>2. TargetBlock <= TargetBlock /\ step # "idle"
    BY <1>1, <2>1
  <2> QED
    BY <1>1, <2>1, <2>2, BlocksBefore
<1>7. /\ k \in Nat /\ k <= call.node /\ k - 1 = i
      /\ BlockStartOf(TargetBlock) < k /\ k < BlockStartOf(TargetBlock + 1)
      /\ k \in 0..(Nodes(l) - 1) /\ i \in 0..(Nodes(l) - 1)
      /\ k < Nodes(l) /\ i < Nodes(l)
  BY <1>1, <1>4, <1>5, <1>6
<1>8. NextRead(l, k) /\ scannedRank[l][k] = scannedRank[l][i] + CountOnes(scannedMask[l][i])
  BY <1>5, <1>7 DEF ReadTo, NodeRead
<1>9. PICK x \in CodeLengths :
        /\ Decodes(db.models[l][scannedMask[l][k - 1]], db.payload,
                   scannedStart[l][k], LevelEnd(l), x, scannedMask[l][k])
        /\ scannedStart[l][k + 1] = scannedStart[l][k] + x
  BY <1>6, <1>7, <1>8 DEF NextRead
<1>10. Decodes(db.models[l][current], db.payload, offset, LevelEnd(l), x, scannedMask[l][k])
  BY <1>4, <1>7, <1>9
<1>11. n \in Nat /\ x \in Nat
  BY FormatAssumption DEF CodeLengths
<1>12. n = x /\ m = scannedMask[l][k]
  <2> HIDE DEF l, k
  <2> QED
    BY <1>2, <1>10, <1>11, DecodesOnce
<1>13. before' = Ranked(k)
  <2>1. CASE call.rank
    BY <1>1, <1>4, <1>8, <2>1 DEF Ranked, Counted
  <2>2. CASE ~call.rank
    BY <1>1, <1>4, <2>2 DEF Ranked, Counted
  <2> QED
    BY <1>5, <2>1, <2>2
<1>14. SymbolWalk'
  <2>1. /\ at' \in Nat /\ BlockStartOf(TargetBlock') <= at' /\ at' <= call'.node
    BY <1>1, <1>3, <1>6, <1>7
  <2>2. /\ current' = scannedMask'[call'.level][at']
        /\ offset' = scannedStart'[call'.level][at' + 1]
    BY <1>1, <1>2, <1>4, <1>9, <1>12, FileUntouched
  <2>3. before' = Ranked(at)'
    BY <1>1, <1>13, FileUntouched DEF Ranked
  <2> QED
    BY <2>1, <2>2, <2>3 DEF SymbolWalk
<1> QED
  BY <1>1, <1>3, <1>14 DEF Walking, BlocksWalk, RawWalk, Returned

LEMMA ReturnHuffmanWalks ==
  ASSUME Served, Walking, UNCHANGED vars, UNCHANGED <<task, cell, answer, todo, leaves>>,
         ReturnHuffman
  PROVE  Walking'
<1>1. /\ step = "masks" /\ step' = "return" /\ ~Raw /\ at = call.node
      /\ UNCHANGED <<call, at, offset, before, current>>
  BY DEF ReturnHuffman
<1>2. /\ Opened' /\ CallTyped' /\ QueryWalk' /\ ListWalk'
      /\ \A n : Ranked(n)' = Ranked(n)
  BY <1>1, SameCall
<1>3. current = scannedMask[call.level][call.node] /\ before = Ranked(call.node)
  BY <1>1 DEF Walking, SymbolWalk
<1>4. Returned'
  BY <1>1, <1>2, <1>3, FileUntouched DEF Returned
<1> QED
  BY <1>1, <1>2, <1>4 DEF Walking, BlocksWalk, RawWalk, SymbolWalk

LEMMA MaskAndRankWalks ==
  ASSUME Served, Walking, UNCHANGED vars, MaskAndRank
  PROVE  Walking'
<1>1. UNCHANGED <<task, cell, answer, todo, leaves>>
  BY DEF MaskAndRank
<1> QED
  BY <1>1, EnterRawWalks, AddRawMaskWalks, ReturnRawWalks, EnterHuffmanWalks,
     SkipBlockWalks, ReadFirstMaskWalks, DecodeNextWalks, ReturnHuffmanWalks
  DEF MaskAndRank

-----------------------------------------------------------------------------
(* query *)

LEMMA TargetFacts ==
  ASSUME NEW c \in QueryCells
  PROVE  /\ Target(c) \in Nat /\ Target(c) <= LevelCount
         /\ c[1] \in 0..(RootFaceCount - 1)
<1>1. Len(c) \in Nat /\ Len(c) >= 1 /\ LevelCount \in Nat
  BY QueryAssumption, FormatAssumption, LenProperties
<1> QED
  BY <1>1, QueryAssumption DEF Target, Level

\* A visit enters a node that exists, and asks for ranks only above the last level.
LEMMA VisitWalks ==
  ASSUME Served, UNCHANGED vars, pc = "ready", accepted,
         task' = "query", cell' \in QueryCells,
         NEW l \in Levels, NEW n \in Nat, n < Nodes(l), l < Target(cell'),
         Visit(l, n)
  PROVE  Walking'
<1>1. step' = "enter" /\ call' = [level |-> l, node |-> n, rank |-> l + 1 # Target(cell')]
  BY DEF Visit, Call
<1>2. l + 1 # Target(cell') => ~FinalLevel(l)
  BY TargetFacts, LevelFacts DEF FinalLevel, Levels
<1>3. CallTyped'
  BY <1>1, <1>2, FileUntouched DEF CallTyped
<1>4. QueryWalk'
  BY <1>1 DEF QueryWalk, Target
<1> QED
  BY <1>1, <1>3, <1>4, FileUntouched
  DEF Walking, Opened, BlocksWalk, RawWalk, SymbolWalk, Returned, ListWalk

LEMMA StartQueryWalks ==
  ASSUME Served, Walking, UNCHANGED vars, pc = "ready", accepted,
         NEW c \in QueryCells, StartQuery(c)
  PROVE  Walking'
<1>1. step = "idle"
  BY DEF StartQuery, Walking, CallTyped
<1>2. CASE Target(c) = 0
  BY <1>1, <1>2, IdleWalking, FileUntouched DEF StartQuery, lookup
<1>3. CASE Target(c) # 0
  <2>1. task' = "query" /\ cell' = c /\ Visit(0, c[1])
    BY <1>3 DEF StartQuery
  <2>2. /\ 0 \in Levels /\ c[1] \in Nat /\ c[1] < Nodes(0) /\ 0 < Target(c)
    BY <1>3, TargetFacts, LevelFacts, AcceptedFacts, FormatAssumption
  <2> QED
    BY <2>1, <2>2, VisitWalks
<1> QED
  BY <1>2, <1>3

LEMMA ContinueQueryWalks ==
  ASSUME Served, Walking, UNCHANGED vars, ContinueQuery
  PROVE  Walking'
<1> DEFINE l == call.level
           child == cell[l + 2]
           below == ChildNode(child)
<1>1. task = "query" /\ step = "return" /\ accepted /\ pc = "ready"
  BY DEF ContinueQuery, Walking, Opened
<1>2. ASSUME NEW x, Answer(x) PROVE Walking'
  BY <1>1, <1>2, IdleWalking, FileUntouched DEF Answer
<1>3. ASSUME child \in current, l + 1 # Target(cell), cell' = cell,
             Visit(l + 1, below), task' = task
      PROVE  Walking'
  <2>1. /\ cell \in QueryCells /\ l < Target(cell) /\ call.rank
        /\ l \in Levels /\ ~FinalLevel(l)
        /\ call.node \in Nat /\ call.node < Nodes(l)
        /\ current = scannedMask[l][call.node] /\ before = scannedRank[l][call.node]
    BY <1>1, <1>3 DEF Walking, QueryWalk, CallTyped, Returned, Ranked
  <2>2. l + 1 \in Levels /\ below \in Nat /\ below < Nodes(l + 1)
    BY <1>1, <1>3, <2>1, ChildInBounds DEF ChildNode
  <2>3. l + 1 < Target(cell)
    BY <1>3, <2>1, TargetFacts, LevelFacts
  <2> QED
    BY <1>1, <1>3, <2>1, <2>2, <2>3, VisitWalks
<1> QED
  BY <1>2, <1>3 DEF ContinueQuery

-----------------------------------------------------------------------------
(* reconstruct_all_leaves *)

\* A step of the traversal that is not inside mask_and_rank.
LEMMA TraversalWalks ==
  ASSUME UNCHANGED vars, Walking, task' = "reconstruct", step' = "idle",
         pc = "ready", accepted, todo' \in Seq(Visits)
  PROVE  Walking'
BY FileUntouched
DEF Walking, Opened, CallTyped, BlocksWalk, RawWalk, SymbolWalk, Returned, QueryWalk,
    ListWalk

LEMMA StartReconstructWalks ==
  ASSUME Served, Walking, UNCHANGED vars, pc = "ready", accepted, StartReconstruct
  PROVE  Walking'
<1>1. task' = "reconstruct" /\ todo' = Roots /\ step' = "idle"
  BY DEF StartReconstruct, lookup, Walking, CallTyped
<1>2. Roots \in Seq(Visits)
  <2>1. ASSUME NEW f \in 1..RootFaceCount
        PROVE  [level |-> 0, node |-> f - 1, cell |-> <<f - 1>>] \in Visits
    <3>1. f - 1 \in Nat /\ f - 1 < Nodes(0) /\ 0 \in Levels
      BY <2>1, AcceptedFacts, LevelFacts, FormatAssumption
    <3>2. <<f - 1>> \in Seq(Nat)
      BY <3>1
    <3> QED
      BY <3>1, <3>2 DEF Visits
  <2>2. Roots \in [1..RootFaceCount -> Visits]
    BY <2>1 DEF Roots
  <2> QED
    BY <2>2, FunctionIsSequence, FormatAssumption
<1> QED
  BY <1>1, <1>2, TraversalWalks

\* The next node of the traversal: ranks are wanted above the final level.
LEMMA VisitNodeWalks ==
  ASSUME Served, Walking, UNCHANGED vars, pc = "ready", accepted, VisitNode
  PROVE  Walking'
<1>1. /\ task = "reconstruct" /\ task' = task /\ todo # <<>> /\ todo' = todo
      /\ step' = "enter"
      /\ call' = [level |-> Head(todo).level, node |-> Head(todo).node,
                  rank |-> ~FinalLevel(Head(todo).level)]
  BY DEF VisitNode, Call
<1>2. todo \in Seq(Visits)
  BY <1>1 DEF Walking, ListWalk
<1>3. Head(todo) \in Visits
  BY <1>1, <1>2, HeadTailProperties
<1>4. CallTyped'
  BY <1>1, <1>3, FileUntouched DEF CallTyped, Visits
<1>5. ListWalk'
  BY <1>1, <1>2, FileUntouched DEF ListWalk
<1> QED
  BY <1>1, <1>4, <1>5, FileUntouched
  DEF Walking, Opened, BlocksWalk, RawWalk, SymbolWalk, Returned, QueryWalk

\* The children of the node just read are nodes of the next level.
LEMMA ChildrenVisitable ==
  ASSUME Served, Walking, task = "reconstruct", step = "return",
         ~FinalLevel(call.level)
  PROVE  ChildrenInOrder \in Seq(Visits)
<1> DEFINE l == call.level
           count == CountOnes(current)
           kids == [i \in 1..count |->
                      CHOOSE p \in current : CountOnes(ChildrenBefore(current, p)) = i - 1]
           Below(i) == [level |-> l + 1, node |-> ChildNode(kids[i]),
                        cell |-> Append(Head(todo).cell, kids[i])]
<1>1. /\ accepted /\ l \in Levels /\ call.node \in Nat /\ call.node < Nodes(l)
      /\ scannedMask[l] \in [0..Nodes(l) -> Masks] /\ Nodes(l) \in Nat
  BY CallFacts
<1>2. /\ current = scannedMask[l][call.node] /\ before = scannedRank[l][call.node]
      /\ todo \in Seq(Visits) /\ todo # <<>>
  BY DEF Walking, Returned, Ranked, ListWalk
<1>3. current \in Masks
  BY <1>1, <1>2
<1>4. count \in Nat
  BY <1>3, CountOnesNat
<1>5. Head(todo).cell \in Seq(Nat)
  BY <1>2, HeadTailProperties DEF Visits
<1>6. ASSUME NEW i \in 1..count PROVE Below(i) \in Visits
  <2> DEFINE kid == kids[i]
  <2>1. kid \in current
    <3>1. i - 1 \in Nat /\ i - 1 < CountOnes(current)
      BY <1>4, <1>6
    <3>2. \E p \in current : CountOnes(ChildrenBefore(current, p)) = i - 1
      BY <1>3, <3>1, RankedChild
    <3>3. kid = CHOOSE p \in current : CountOnes(ChildrenBefore(current, p)) = i - 1
      BY <1>6
    <3> HIDE DEF kid
    <3> QED
      BY <3>2, <3>3
  <2> HIDE DEF kid
  <2>2. kid \in Nat
    BY <1>3, <2>1, MasksFinite
  <2>3. /\ l + 1 \in Levels
        /\ before + CountOnes(ChildrenBefore(current, kid)) \in Nat
        /\ before + CountOnes(ChildrenBefore(current, kid)) < Nodes(l + 1)
    BY <1>1, <1>2, <2>1, ChildInBounds
  <2>4. Append(Head(todo).cell, kid) \in Seq(Nat)
    BY <1>5, <2>2, AppendProperties
  <2>5. [level |-> l + 1, node |-> ChildNode(kid),
         cell |-> Append(Head(todo).cell, kid)] \in Visits
    BY <2>3, <2>4 DEF Visits, ChildNode
  <2> QED
    BY <2>5 DEF kid
<1>7. DOMAIN kids = 1..count
  OBVIOUS
<1>8. ChildrenInOrder = [i \in 1..count |-> Below(i)]
  BY <1>7 DEF ChildrenInOrder
<1> HIDE DEF kids, Below
<1>9. ChildrenInOrder \in [1..count -> Visits]
  BY <1>6, <1>8
<1> HIDE DEF count
<1> QED
  BY <1>4, <1>9, FunctionIsSequence

LEMMA ExpandNodeWalks ==
  ASSUME Served, Walking, UNCHANGED vars, ExpandNode
  PROVE  Walking'
<1>1. /\ task = "reconstruct" /\ step = "return" /\ task' = task /\ step' = "idle"
      /\ accepted /\ pc = "ready"
  BY DEF ExpandNode, Walking, Opened
<1>2. todo \in Seq(Visits) /\ todo # <<>>
  BY <1>1 DEF Walking, ListWalk
<1>3. Tail(todo) \in Seq(Visits)
  BY <1>2, HeadTailProperties
<1>4. \/ todo' = Tail(todo)
      \/ ~FinalLevel(call.level) /\ todo' = DepthFirst(ChildrenInOrder)
  BY DEF ExpandNode
<1>5. todo' \in Seq(Visits)
  <2>1. CASE todo' = Tail(todo)
    BY <1>3, <2>1
  <2>2. CASE ~FinalLevel(call.level) /\ todo' = DepthFirst(ChildrenInOrder)
    <3>1. ChildrenInOrder \in Seq(Visits)
      BY <1>1, <2>2, ChildrenVisitable
    <3> QED
      BY <1>3, <2>2, <3>1, ConcatProperties DEF DepthFirst
  <2> QED
    BY <1>4, <2>1, <2>2
<1> QED
  BY <1>1, <1>5, TraversalWalks

-----------------------------------------------------------------------------
(* The theorems *)

LEMMA ConstructionWalks ==
  ASSUME Walking, task = "idle", UNCHANGED lvars
  PROVE  Walking'
<1>1. task' = "idle" /\ step' = "idle"
  BY DEF lvars, lookup, Walking, CallTyped
<1> QED
  BY <1>1, IdleWalking

LEMMA LookupWalks ==
  ASSUME Served, Walking, Lookup
  PROVE  Walking'
<1>1. UNCHANGED vars /\ pc = "ready" /\ accepted
  BY DEF Lookup
<1>2. CASE Request
  BY <1>1, <1>2, StartQueryWalks, StartReconstructWalks DEF Request
<1>3. CASE Work
  <2>1. CASE EndReconstruct
    BY <1>1, <2>1, IdleWalking, FileUntouched DEF EndReconstruct, lookup
  <2> QED
    BY <1>1, <1>3, <2>1, MaskAndRankWalks, ContinueQueryWalks, VisitNodeWalks,
       ExpandNodeWalks
    DEF Work
<1>4. CASE Return
  BY <1>1, <1>4, IdleWalking, FileUntouched DEF Return
<1> QED
  BY <1>2, <1>3, <1>4 DEF Lookup

LEMMA StutterWalks ==
  ASSUME Walking, UNCHANGED allVars
  PROVE  Walking'
<1>1. UNCHANGED vars /\ UNCHANGED <<task, step, call, at, offset, current, before, cell, todo>>
  BY DEF allVars, lvars, lookup
<1> QED
  BY <1>1, FileUntouched
  DEF Walking, Opened, CallTyped, BlocksWalk, RawWalk, SymbolWalk, Returned, QueryWalk,
      ListWalk, Ranked, Raw, TargetBlock, Target

LEMMA AlwaysWalking == LookupSpec => [](Served /\ Walking)
<1>1. LookupInit => Served /\ Walking
  BY InitPlaced, InitScanned, InitTraced, InitWalking DEF LookupInit, Served
<1>2. Served /\ [LookupNext]_allVars => Served'
  <2>1. [LookupNext]_allVars => [Next]_vars
    BY DEF LookupNext, Construction, Lookup, allVars
  <2> QED
    BY <2>1, StepPlaced, StepScanned, StepTraced DEF Served
<1>3. Served /\ Walking /\ [LookupNext]_allVars => Walking'
  BY ConstructionWalks, LookupWalks, StutterWalks DEF LookupNext, Construction
<1> QED
  BY <1>1, <1>2, <1>3, PTL DEF LookupSpec

\* MaskAndRankExact: for every accepted file, every size of blocks, groups and
\* checkpoints and every node that queries and reconstructions ask for, the mask
\* and the rank are those a decoder from the level's start would have.
THEOREM MaskAndRankAlwaysExact == LookupSpec => []MaskAndRankExact
<1>1. Walking => MaskAndRankExact
  BY DEF Walking, Returned, Ranked, MaskAndRankExact
<1> QED
  BY <1>1, AlwaysWalking, PTL

\* NodeInBounds: no caller ever sends mask_and_rank past the end of a level, which
\* release builds do not check.
THEOREM NodesAlwaysInBounds == LookupSpec => []NodeInBounds
<1>1. Walking => NodeInBounds
  BY DEF Walking, CallTyped, NodeInBounds
<1> QED
  BY <1>1, AlwaysWalking, PTL

-----------------------------------------------------------------------------
(* The tree of an accepted file *)

\* Nodes of every level, the one below the last masks included.
NodeCount(l) == IF l = LevelCount THEN db.terminal ELSE Nodes(l)

\* The index of a child below node i of level l.
ChildOf(l, i, p) ==
  scannedRank[l][i] + CountOnes(ChildrenBefore(scannedMask[l][i], p))

\* What acceptance says of the nodes, level by level.
LEMMA Forest ==
  ASSUME Served, accepted
  PROVE  /\ \A l \in 0..LevelCount : NodeCount(l) \in Nat
         /\ NodeCount(0) = RootFaceCount
         /\ \A l \in Levels :
              /\ NodeCount(l) = Nodes(l) /\ l \in 0..LevelCount /\ l + 1 \in 0..LevelCount
              /\ l \in Nat /\ l # LevelCount
              /\ scannedRank[l][0] = 0
              /\ scannedRank[l][NodeCount(l)] = NodeCount(l + 1)
              /\ \A i \in 0..(NodeCount(l) - 1) :
                   /\ scannedMask[l][i] \in Masks
                   /\ scannedRank[l][i] \in Nat /\ scannedRank[l][i + 1] \in Nat
                   /\ scannedRank[l][i + 1]
                        = scannedRank[l][i] + CountOnes(scannedMask[l][i])
<1>1. db.terminal \in Nat
  BY AcceptedFacts, DatabasesAssumption DEF DatabaseType
<1>2. \A l \in Levels : l \in Nat /\ l # LevelCount /\ l \in 0..LevelCount /\ l + 1 \in 0..LevelCount
  BY LevelFacts DEF Levels
<1>3. \A l \in 0..LevelCount : l = LevelCount \/ l \in Levels
  BY LevelFacts
<1>4. \A l \in Levels : NodeCount(l) = Nodes(l) /\ Nodes(l) \in Nat
  BY <1>2, AcceptedFacts DEF NodeCount
<1>5. \A l \in 0..LevelCount : NodeCount(l) \in Nat
  BY <1>1, <1>3, <1>4 DEF NodeCount
<1>6. NodeCount(0) = RootFaceCount
  BY <1>4, LevelFacts, AcceptedFacts
<1>7. ASSUME NEW l \in Levels
      PROVE  /\ scannedRank[l][0] = 0
             /\ scannedRank[l][NodeCount(l)] = NodeCount(l + 1)
  <2>1. scannedRank[l][0] = 0 /\ Linked(l)
    BY AcceptedFacts DEF Served, Scanned, RanksFromZero, LevelExact
  <2> QED
    BY <2>1, <1>4 DEF Linked, FinalLevel, NodeCount
<1>8. ASSUME NEW l \in Levels, NEW i \in 0..(NodeCount(l) - 1)
      PROVE  /\ scannedMask[l][i] \in Masks
             /\ scannedRank[l][i] \in Nat /\ scannedRank[l][i + 1] \in Nat
             /\ scannedRank[l][i + 1]
                  = scannedRank[l][i] + CountOnes(scannedMask[l][i])
  <2> DEFINE last == Nodes(l)
  <2>1. /\ last \in Nat /\ ReadTo(l, last) /\ NodeCount(l) = last
        /\ scannedMask[l] \in [0..last -> Masks] /\ scannedRank[l] \in [0..last -> Nat]
    BY <1>4, AcceptedFacts
  <2>2. NodeRead(l, i)
    BY <2>1 DEF ReadTo
  <2> HIDE DEF last
  <2>3. i \in 0..last /\ i + 1 \in 0..last
    BY <2>1
  <2> QED
    BY <2>1, <2>2, <2>3 DEF NodeRead
<1> QED
  BY <1>2, <1>4, <1>5, <1>6, <1>7, <1>8

LEMMA RanksInOrder ==
  ASSUME Served, accepted, NEW l \in Levels, NEW i \in Nat, NEW k \in Nat,
         i <= k, k <= NodeCount(l)
  PROVE  scannedRank[l][i] <= scannedRank[l][k]
<1> DEFINE d == k - i
<1>1. d \in Nat /\ i + d = k
  OBVIOUS
<1> HIDE DEF d
<1>2. RankSpan(l, i, d)
  BY <1>1, Forest, RanksSpan
<1> QED
  BY <1>1, <1>2 DEF RankSpan

\* A later child has more children before it.
LEMMA BeforeGrows ==
  ASSUME NEW m \in Masks, NEW p \in m, NEW q \in m, p < q
  PROVE  CountOnes(ChildrenBefore(m, p)) < CountOnes(ChildrenBefore(m, q))
<1> DEFINE some == ChildrenBefore(m, p)
           more == ChildrenBefore(m, q)
<1>1. IsFiniteSet(m) /\ m \subseteq Nat
  BY MasksFinite
<1>2. some \in SUBSET more /\ more \in SUBSET m /\ p \in more /\ p \notin some
  <2>1. \A x \in m : x < p => x < q
    BY <1>1
  <2>2. ~(p < p)
    BY <1>1
  <2> QED
    BY <2>1, <2>2 DEF ChildrenBefore
<1>3. IsFiniteSet(more)
  BY <1>1, <1>2, FS_Subset
<1> HIDE DEF some, more
<1>4. IsFiniteSet(some) /\ Cardinality(some) <= Cardinality(more) /\ some # more
      /\ (Cardinality(more) = Cardinality(some) => more = some)
  BY <1>2, <1>3, FS_Subset
<1>5. Cardinality(some) \in Nat /\ Cardinality(more) \in Nat
  BY <1>3, <1>4, FS_CardinalityType
<1>6. Cardinality(some) < Cardinality(more)
  BY <1>4, <1>5
<1> QED
  BY <1>6 DEF CountOnes, some, more

\* The children of a node are the nodes between its rank and the next one.
LEMMA ChildNext ==
  ASSUME Served, accepted, NEW l \in Levels, NEW i \in 0..(NodeCount(l) - 1),
         NEW p \in scannedMask[l][i]
  PROVE  /\ p \in Nat /\ ChildOf(l, i, p) \in 0..(NodeCount(l + 1) - 1)
         /\ scannedRank[l][i] <= ChildOf(l, i, p)
         /\ ChildOf(l, i, p) < scannedRank[l][i + 1]
<1>1. /\ NodeCount(l) \in Nat /\ NodeCount(l + 1) \in Nat
      /\ scannedMask[l][i] \in Masks
      /\ scannedRank[l][i] \in Nat /\ scannedRank[l][i + 1] \in Nat
      /\ scannedRank[l][NodeCount(l)] = NodeCount(l + 1)
      /\ scannedRank[l][i + 1] = scannedRank[l][i] + CountOnes(scannedMask[l][i])
  BY Forest
<1>2. scannedRank[l][i + 1] <= scannedRank[l][NodeCount(l)]
  BY <1>1, RanksInOrder
<1>3. /\ CountOnes(ChildrenBefore(scannedMask[l][i], p)) \in Nat
      /\ CountOnes(ChildrenBefore(scannedMask[l][i], p)) < CountOnes(scannedMask[l][i])
      /\ CountOnes(scannedMask[l][i]) \in Nat
  BY <1>1, ChildrenBeforeFewer, CountOnesNat
<1>4. p \in Nat
  BY <1>1, MasksFinite
<1> QED
  BY <1>1, <1>2, <1>3, <1>4 DEF ChildOf

\* Children are numbered in the order of their parents and positions.
LEMMA ChildrenOrdered ==
  ASSUME Served, accepted, NEW l \in Levels,
         NEW i \in 0..(NodeCount(l) - 1), NEW p \in scannedMask[l][i],
         NEW k \in 0..(NodeCount(l) - 1), NEW q \in scannedMask[l][k],
         i < k \/ (i = k /\ p < q)
  PROVE  ChildOf(l, i, p) < ChildOf(l, k, q)
<1>1. NodeCount(l) \in Nat /\ scannedMask[l][i] \in Masks /\ scannedRank[l][i] \in Nat
      /\ scannedRank[l][i + 1] \in Nat /\ scannedRank[l][k] \in Nat
  BY Forest
<1>2. CASE i < k
  <2>1. scannedRank[l][i + 1] <= scannedRank[l][k]
    BY <1>1, <1>2, RanksInOrder
  <2>2. /\ ChildOf(l, i, p) \in Int /\ ChildOf(l, k, q) \in Int
        /\ ChildOf(l, i, p) < scannedRank[l][i + 1] /\ scannedRank[l][k] <= ChildOf(l, k, q)
    BY ChildNext
  <2> QED
    BY <1>1, <2>1, <2>2
<1>3. CASE i = k /\ p < q
  <2>1. CountOnes(ChildrenBefore(scannedMask[l][i], p))
          < CountOnes(ChildrenBefore(scannedMask[l][i], q))
    BY <1>1, <1>3, BeforeGrows
  <2>2. /\ CountOnes(ChildrenBefore(scannedMask[l][i], p)) \in Nat
        /\ CountOnes(ChildrenBefore(scannedMask[l][i], q)) \in Nat
    BY <1>1, <1>3, ChildrenBeforeFewer
  <2> QED
    BY <1>1, <1>3, <2>1, <2>2 DEF ChildOf
<1> QED
  BY <1>2, <1>3

LEMMA ChildrenDiffer ==
  ASSUME Served, accepted, NEW l \in Levels,
         NEW i \in 0..(NodeCount(l) - 1), NEW p \in scannedMask[l][i],
         NEW k \in 0..(NodeCount(l) - 1), NEW q \in scannedMask[l][k],
         ChildOf(l, i, p) = ChildOf(l, k, q)
  PROVE  i = k /\ p = q
<1>1. ChildOf(l, i, p) \in Int /\ p \in Nat /\ q \in Nat
  BY ChildNext
<1>2. ~(i < k \/ (i = k /\ p < q)) /\ ~(k < i \/ (k = i /\ q < p))
  BY <1>1, ChildrenOrdered
<1> QED
  BY <1>1, <1>2

\* Every node below the first level is announced by a mask.
LEMMA Announced ==
  ASSUME Served, accepted, NEW l \in Levels, NEW j \in 0..(NodeCount(l + 1) - 1)
  PROVE  \E i \in 0..(NodeCount(l) - 1) : \E p \in scannedMask[l][i] :
           ChildOf(l, i, p) = j
<1> DEFINE last == NodeCount(l)
           Past == {k \in Nat : k <= last /\ j < scannedRank[l][k]}
<1>1. /\ last \in Nat /\ NodeCount(l + 1) \in Nat /\ scannedRank[l][0] = 0
      /\ scannedRank[l][last] = NodeCount(l + 1)
  BY Forest
<1>2. last \in Past
  BY <1>1
<1>3. PICK k \in Past : \A y \in Past : k <= y
  <2> HIDE DEF Past
  <2>1. Past \subseteq Nat
    BY DEF Past
  <2> QED
    BY <1>2, <2>1, LeastNatural
<1>4. k # 0
  BY <1>1, <1>3
<1> DEFINE i == k - 1
<1>5. i \in 0..(last - 1) /\ i + 1 = k /\ i \notin Past
  BY <1>1, <1>3, <1>4
<1>6. /\ scannedMask[l][i] \in Masks /\ scannedRank[l][i] \in Nat
      /\ scannedRank[l][i + 1] = scannedRank[l][i] + CountOnes(scannedMask[l][i])
  BY <1>5, Forest
<1>7. scannedRank[l][i] <= j
  BY <1>1, <1>5, <1>6
<1> DEFINE n == j - scannedRank[l][i]
<1>8. n \in Nat /\ n < CountOnes(scannedMask[l][i])
  <2>1. CountOnes(scannedMask[l][i]) \in Nat
    BY <1>6, CountOnesNat
  <2>2. j < scannedRank[l][i + 1]
    BY <1>3, <1>5
  <2> HIDE DEF i
  <2> QED
    BY <1>6, <1>7, <2>1, <2>2
<1> HIDE DEF n, i
<1>9. PICK p \in scannedMask[l][i] :
        CountOnes(ChildrenBefore(scannedMask[l][i], p)) = n
  BY <1>6, <1>8, RankedChild
<1>10. ChildOf(l, i, p) = j
  BY <1>6, <1>9 DEF ChildOf, n
<1> QED
  BY <1>5, <1>10

\* So the parent of a node and its position below it are the ones that announce it.
LEMMA ParentFound ==
  ASSUME Served, accepted, NEW l \in Levels,
         NEW i \in 0..(NodeCount(l) - 1), NEW p \in scannedMask[l][i]
  PROVE  /\ ParentOf(l, ChildOf(l, i, p)) = i
         /\ PositionOf(l, ChildOf(l, i, p)) = p
<1> DEFINE j == ChildOf(l, i, p)
<1>1. /\ NodeCount(l) = Nodes(l) /\ NodeCount(l) \in Nat
      /\ scannedRank[l][i] <= j /\ j < scannedRank[l][i + 1] /\ j \in Int
  BY Forest, ChildNext
<1>2. ASSUME NEW k \in 0..(NodeCount(l) - 1),
             scannedRank[l][k] <= j, j < scannedRank[l][k + 1]
      PROVE  k = i
  <2>1. /\ scannedRank[l][k] \in Nat /\ scannedRank[l][k + 1] \in Nat
        /\ scannedRank[l][i] \in Nat /\ scannedRank[l][i + 1] \in Nat
    BY Forest
  <2>2. CASE k < i
    <3>1. scannedRank[l][k + 1] <= scannedRank[l][i]
      BY <1>1, <2>2, RanksInOrder
    <3> HIDE DEF j
    <3> QED
      BY <1>1, <1>2, <2>1, <3>1
  <2>3. CASE i < k
    <3>1. scannedRank[l][i + 1] <= scannedRank[l][k]
      BY <1>1, <2>3, RanksInOrder
    <3> HIDE DEF j
    <3> QED
      BY <1>1, <1>2, <2>1, <3>1
  <2> QED
    BY <1>1, <2>2, <2>3
<1> HIDE DEF j
<1>3. ParentOf(l, j) = i
  BY <1>1, <1>2 DEF ParentOf
<1>4. \A q \in scannedMask[l][i] : ChildOf(l, i, q) = j => q = p
  BY ChildrenDiffer DEF j
<1>5. PositionOf(l, j) = CHOOSE q \in scannedMask[l][i] : ChildOf(l, i, q) = j
  BY <1>3 DEF PositionOf, ChildOf
<1>6. PositionOf(l, j) = p
  BY <1>4, <1>5 DEF j
<1> QED
  BY <1>3, <1>6 DEF j

-----------------------------------------------------------------------------
(* The cells of its nodes *)

\* cells gives every node its cell: the roots are the faces, and a child's cell is
\* its parent's with the position it is announced at.
IsCells(cells) ==
  /\ \A l \in 0..LevelCount : DOMAIN cells[l] = 0..(NodeCount(l) - 1)
  /\ \A f \in 0..(RootFaceCount - 1) : cells[0][f] = <<f>>
  /\ \A l \in Levels : \A i \in 0..(NodeCount(l) - 1) : \A p \in scannedMask[l][i] :
       cells[l + 1][ChildOf(l, i, p)] = Append(cells[l][i], p)

CellsTo(s, n) ==
  s = [l \in 0..n |-> IF l = 0 THEN [f \in 0..(RootFaceCount - 1) |-> <<f>>]
                              ELSE CellsBelow(l - 1, s[l - 1])]

LEMMA CellsExist ==
  ASSUME NEW n \in Nat
  PROVE  \E s : CellsTo(s, n)
<1> DEFINE Missing == {m \in Nat : ~ \E s : CellsTo(s, m)}
           faces == [f \in 0..(RootFaceCount - 1) |-> <<f>>]
<1>1. SUFFICES ASSUME Missing # {} PROVE FALSE
  OBVIOUS
<1>2. PICK m \in Missing : \A y \in Missing : m <= y
  <2> HIDE DEF Missing
  <2>1. Missing \subseteq Nat
    BY DEF Missing
  <2> QED
    BY <1>1, <2>1, LeastNatural
<1>3. CASE m = 0
  <2> DEFINE s == [l \in 0..0 |-> faces]
  <2>1. CellsTo(s, 0)
    BY DEF CellsTo
  <2> QED
    BY <1>3, <2>1
<1>4. CASE m # 0
  <2>1. PICK s : CellsTo(s, m - 1)
    BY <1>2, <1>4
  <2> DEFINE t == [l \in 0..m |-> IF l = m THEN CellsBelow(m - 1, s[m - 1]) ELSE s[l]]
  <2>2. \A l \in 0..(m - 1) : s[l] = IF l = 0 THEN faces ELSE CellsBelow(l - 1, s[l - 1])
    BY <2>1 DEF CellsTo
  <2>3. \A l \in 0..m : t[l] = IF l = 0 THEN faces ELSE CellsBelow(l - 1, t[l - 1])
    <3> HIDE DEF faces
    <3> QED
      BY <2>2, <1>4
  <2>4. CellsTo(t, m)
    BY <2>3 DEF CellsTo
  <2> QED
    BY <2>4
<1> QED
  BY <1>3, <1>4

LEMMA CellsRecursion == CellsTo(NodeCells, LevelCount)
<1> DEFINE cells == CHOOSE s : CellsTo(s, LevelCount)
<1>1. CellsTo(cells, LevelCount)
  BY LevelFacts, CellsExist
<1>2. NodeCells = cells
  BY DEF NodeCells, CellsTo
<1> QED
  BY <1>1, <1>2

\* The recursion gives every node of an accepted file its cell.
LEMMA NodeCellsDefined ==
  ASSUME Served, accepted
  PROVE  IsCells(NodeCells)
<1> DEFINE cells == NodeCells
<1>1. /\ cells[0] = [f \in 0..(RootFaceCount - 1) |-> <<f>>]
      /\ \A l \in 0..LevelCount : l # 0 => cells[l] = CellsBelow(l - 1, cells[l - 1])
  <2> DEFINE faces == [f \in 0..(RootFaceCount - 1) |-> <<f>>]
  <2>1. CellsTo(cells, LevelCount) /\ 0 \in 0..LevelCount
    BY LevelFacts, CellsRecursion
  <2> HIDE DEF cells
  <2>2. \A l \in 0..LevelCount :
          cells[l] = IF l = 0 THEN faces ELSE CellsBelow(l - 1, cells[l - 1])
    <3> DEFINE s == [l \in 0..LevelCount |-> IF l = 0 THEN faces ELSE CellsBelow(l - 1, cells[l - 1])]
    <3>1. cells = s
      BY <2>1 DEF CellsTo
    <3>2. \A l \in 0..LevelCount :
            s[l] = IF l = 0 THEN faces ELSE CellsBelow(l - 1, cells[l - 1])
      OBVIOUS
    <3> HIDE DEF s, faces
    <3> QED
      BY <3>1, <3>2
  <2> QED
    BY <2>1, <2>2
<1> HIDE DEF cells
<1>2. ASSUME NEW l \in Levels, DOMAIN cells[l] = 0..(NodeCount(l) - 1)
      PROVE  /\ DOMAIN cells[l + 1] = 0..(NodeCount(l + 1) - 1)
             /\ \A j \in 0..(NodeCount(l + 1) - 1) :
                  cells[l + 1][j] = Append(cells[l][ParentOf(l, j)], PositionOf(l, j))
  <2>1. cells[l + 1] = CellsBelow(l, cells[l])
    <3>1. l + 1 \in 0..LevelCount /\ l \in Nat
      BY Forest
    <3> QED
      BY <1>1, <3>1
  <2>2. scannedRank[l][Nodes(l)] = NodeCount(l + 1)
    BY Forest
  <2>3. \A j \in 0..(NodeCount(l + 1) - 1) : ParentOf(l, j) \in 0..(NodeCount(l) - 1)
    BY Announced, ParentFound
  <2>4. {k \in 0..(NodeCount(l + 1) - 1) : ParentOf(l, k) \in DOMAIN cells[l]}
          = 0..(NodeCount(l + 1) - 1)
    BY <1>2, <2>3
  <2> QED
    BY <2>1, <2>2, <2>4 DEF CellsBelow
<1>3. \A l \in 0..LevelCount : DOMAIN cells[l] = 0..(NodeCount(l) - 1)
  <2> DEFINE Wrong == {l \in Nat : l <= LevelCount /\ DOMAIN cells[l] # 0..(NodeCount(l) - 1)}
  <2>1. SUFFICES ASSUME Wrong # {} PROVE FALSE
    BY LevelFacts
  <2>2. PICK l \in Wrong : \A y \in Wrong : l <= y
    <3> HIDE DEF Wrong
    <3>1. Wrong \subseteq Nat
      BY DEF Wrong
    <3> QED
      BY <2>1, <3>1, LeastNatural
  <2>3. l # 0
    BY <1>1, <2>2, Forest
  <2>4. l - 1 \in Levels /\ l - 1 \in Nat /\ l - 1 <= LevelCount /\ (l - 1) + 1 = l
    BY <2>2, <2>3, LevelFacts DEF Levels
  <2>5. DOMAIN cells[l - 1] = 0..(NodeCount(l - 1) - 1)
    BY <2>2, <2>4
  <2> QED
    BY <1>2, <2>2, <2>4, <2>5
<1>4. ASSUME NEW l \in Levels, NEW i \in 0..(NodeCount(l) - 1), NEW p \in scannedMask[l][i]
      PROVE  cells[l + 1][ChildOf(l, i, p)] = Append(cells[l][i], p)
  <2>1. DOMAIN cells[l] = 0..(NodeCount(l) - 1)
    BY <1>3, Forest
  <2>2. ChildOf(l, i, p) \in 0..(NodeCount(l + 1) - 1)
    BY ChildNext
  <2>3. ParentOf(l, ChildOf(l, i, p)) = i /\ PositionOf(l, ChildOf(l, i, p)) = p
    BY ParentFound
  <2> QED
    BY <1>2, <2>1, <2>2, <2>3
<1>5. \A f \in 0..(RootFaceCount - 1) : cells[0][f] = <<f>>
  BY <1>1
<1>6. IsCells(cells)
  BY <1>3, <1>4, <1>5 DEF IsCells
<1> QED
  BY <1>6 DEF cells

LEMMA AppendedPath ==
  ASSUME NEW a \in Seq(Int), NEW p \in Int
  PROVE  /\ Append(a, p) \in Seq(Int) /\ Len(Append(a, p)) = Len(a) + 1
         /\ Len(a) \in Nat
         /\ \A i \in 1..Len(a) : Append(a, p)[i] = a[i]
         /\ Append(a, p)[Len(a) + 1] = p
         /\ IsAncestor(a, Append(a, p))
<1>1. /\ Append(a, p) \in Seq(Int) /\ Len(Append(a, p)) = Len(a) + 1
      /\ Len(a) \in Nat
      /\ \A i \in 1..Len(a) : Append(a, p)[i] = a[i]
      /\ Append(a, p)[Len(a) + 1] = p
  BY AppendProperties
<1>2. Len(a) <= Len(Append(a, p))
  BY <1>1
<1> QED
  BY <1>1, <1>2, AncestorPointwise

\* Paths that diverge stay in their order below, and siblings come in that of their
\* positions.
LEMMA AppendsPrecede ==
  ASSUME NEW a \in Seq(Int), NEW b \in Seq(Int), NEW p \in Int, NEW q \in Int,
         Precedes(a, b) \/ (a = b /\ p < q)
  PROVE  Precedes(Append(a, p), Append(b, q))
<1>1. CASE Precedes(a, b)
  <2>1. Precedes(a, Append(b, q))
    BY <1>1, AppendedPath, PrecedesOrder
  <2> QED
    BY <2>1, AppendedPath, PrecedesOrder
<1>2. CASE a = b /\ p < q
  <2> DEFINE k == Len(a) + 1
  <2>1. /\ k \in 1..Len(Append(a, p)) /\ k <= Len(Append(b, q))
        /\ Append(a, p)[k] < Append(b, q)[k]
        /\ \A i \in 1..(k - 1) : Append(a, p)[i] = Append(b, q)[i]
    BY <1>2, AppendedPath
  <2> HIDE DEF k
  <2> QED
    BY <2>1, AppendedPath, PrecedesPointwise
<1> QED
  BY <1>1, <1>2

-----------------------------------------------------------------------------
CellShaped(cells, l) ==
  \A i \in 0..(NodeCount(l) - 1) :
    /\ cells[l][i] \in Seq(Nat) /\ Len(cells[l][i]) = l + 1
    /\ cells[l][i][1] \in 0..(RootFaceCount - 1)

\* A cell of level l is a face and l child positions.
LEMMA CellShapes ==
  ASSUME Served, accepted, NEW cells, IsCells(cells), NEW k \in 0..LevelCount
  PROVE  CellShaped(cells, k)
<1> DEFINE Wrong == {l \in Nat : l <= LevelCount /\ ~CellShaped(cells, l)}
<1>1. SUFFICES ASSUME Wrong # {} PROVE FALSE
  BY LevelFacts
<1>2. PICK l \in Wrong : \A y \in Wrong : l <= y
  <2> HIDE DEF Wrong
  <2>1. Wrong \subseteq Nat
    BY DEF Wrong
  <2> QED
    BY <1>1, <2>1, LeastNatural
<1>3. CASE l = 0
  <2>1. ASSUME NEW i \in 0..(NodeCount(0) - 1)
        PROVE  /\ cells[0][i] \in Seq(Nat) /\ Len(cells[0][i]) = 0 + 1
               /\ cells[0][i][1] \in 0..(RootFaceCount - 1)
    <3>1. cells[0][i] = <<i>> /\ i \in 0..(RootFaceCount - 1) /\ i \in Nat
      BY Forest DEF IsCells
    <3> QED
      BY <3>1
  <2> QED
    BY <1>2, <1>3, <2>1 DEF CellShaped
<1>4. CASE l # 0
  <2>1. l - 1 \in Levels /\ l - 1 \in Nat /\ l - 1 <= LevelCount /\ (l - 1) + 1 = l
    BY <1>2, <1>4, LevelFacts DEF Levels
  <2>2. CellShaped(cells, l - 1)
    BY <1>2, <2>1
  <2>3. ASSUME NEW j \in 0..(NodeCount(l) - 1)
        PROVE  /\ cells[l][j] \in Seq(Nat) /\ Len(cells[l][j]) = l + 1
               /\ cells[l][j][1] \in 0..(RootFaceCount - 1)
    <3>1. PICK i \in 0..(NodeCount(l - 1) - 1) : \E p \in scannedMask[l - 1][i] :
            ChildOf(l - 1, i, p) = j
      BY <2>1, Announced
    <3>2. PICK p \in scannedMask[l - 1][i] : ChildOf(l - 1, i, p) = j
      BY <3>1
    <3>3. cells[l][j] = Append(cells[l - 1][i], p) /\ p \in Nat
      BY <2>1, <3>2, ChildNext DEF IsCells
    <3>4. /\ cells[l - 1][i] \in Seq(Nat) /\ Len(cells[l - 1][i]) = l
          /\ cells[l - 1][i][1] \in 0..(RootFaceCount - 1)
      BY <2>1, <2>2 DEF CellShaped
    <3> QED
      BY <1>2, <1>4, <3>3, <3>4, AppendProperties, SMTT(30)
  <2> QED
    BY <1>2, <2>3 DEF CellShaped
<1> QED
  BY <1>3, <1>4

LEMMA CellShape ==
  ASSUME Served, accepted, NEW cells, IsCells(cells),
         NEW l \in 0..LevelCount, NEW i \in 0..(NodeCount(l) - 1)
  PROVE  /\ cells[l][i] \in Seq(Nat) /\ cells[l][i] \in Seq(Int)
         /\ Len(cells[l][i]) = l + 1
         /\ cells[l][i][1] \in 0..(RootFaceCount - 1)
<1>1. /\ cells[l][i] \in Seq(Nat)
      /\ Len(cells[l][i]) = l + 1
      /\ cells[l][i][1] \in 0..(RootFaceCount - 1)
  BY CellShapes DEF CellShaped
<1>2. cells[l][i] \in Seq(Int)
  BY <1>1
<1> QED
  BY <1>1, <1>2

\* The node that announces a node, with the cells of both.
LEMMA CellParent ==
  ASSUME Served, accepted, NEW cells, IsCells(cells),
         NEW l \in Levels, NEW j \in 0..(NodeCount(l + 1) - 1)
  PROVE  \E i \in 0..(NodeCount(l) - 1) : \E p \in scannedMask[l][i] :
           /\ ChildOf(l, i, p) = j /\ p \in Nat
           /\ cells[l + 1][j] = Append(cells[l][i], p)
           /\ IsAncestor(cells[l][i], cells[l + 1][j])
<1>1. PICK i \in 0..(NodeCount(l) - 1) : \E p \in scannedMask[l][i] : ChildOf(l, i, p) = j
  BY Announced
<1>2. PICK p \in scannedMask[l][i] : ChildOf(l, i, p) = j
  BY <1>1
<1>3. p \in Nat /\ cells[l + 1][j] = Append(cells[l][i], p)
  BY <1>2, ChildNext DEF IsCells
<1>4. cells[l][i] \in Seq(Int)
  BY Forest, CellShape
<1>5. IsAncestor(cells[l][i], cells[l + 1][j])
  BY <1>3, <1>4, AppendedPath
<1> QED
  BY <1>2, <1>3, <1>5

CellsSorted(cells, l) ==
  \A i, j \in 0..(NodeCount(l) - 1) : i < j => Precedes(cells[l][i], cells[l][j])

\* The nodes of a level are numbered in the order of their cells.
LEMMA LevelsSorted ==
  ASSUME Served, accepted, NEW cells, IsCells(cells), NEW k \in 0..LevelCount
  PROVE  CellsSorted(cells, k)
<1> DEFINE Wrong == {l \in Nat : l <= LevelCount /\ ~CellsSorted(cells, l)}
<1>1. SUFFICES ASSUME Wrong # {} PROVE FALSE
  BY LevelFacts
<1>2. PICK l \in Wrong : \A y \in Wrong : l <= y
  <2> HIDE DEF Wrong
  <2>1. Wrong \subseteq Nat
    BY DEF Wrong
  <2> QED
    BY <1>1, <2>1, LeastNatural
<1>3. CASE l = 0
  <2>1. ASSUME NEW i \in 0..(NodeCount(0) - 1), NEW j \in 0..(NodeCount(0) - 1), i < j
        PROVE  Precedes(cells[0][i], cells[0][j])
    <3>1. cells[0][i] = <<i>> /\ cells[0][j] = <<j>> /\ i \in Int /\ j \in Int
      BY Forest DEF IsCells
    <3>2. <<i>> \in Seq(Int) /\ <<j>> \in Seq(Int)
      BY <3>1
    <3>3. /\ 1 \in 1..Len(<<i>>) /\ 1 <= Len(<<j>>) /\ <<i>>[1] < <<j>>[1]
          /\ \A n \in 1..(1 - 1) : <<i>>[n] = <<j>>[n]
      BY <2>1
    <3>4. Precedes(<<i>>, <<j>>)
      BY <3>2, <3>3, PrecedesPointwise
    <3> QED
      BY <3>1, <3>4
  <2> QED
    BY <1>2, <1>3, <2>1 DEF CellsSorted
<1>4. CASE l # 0
  <2> DEFINE u == l - 1
  <2>1. u \in Levels /\ u \in Nat /\ u <= LevelCount /\ u + 1 = l /\ u \in 0..LevelCount
    BY <1>2, <1>4, LevelFacts DEF Levels
  <2>2. CellsSorted(cells, u)
    BY <1>2, <2>1
  <2> HIDE DEF u
  <2>3. ASSUME NEW i \in 0..(NodeCount(l) - 1), NEW j \in 0..(NodeCount(l) - 1), i < j
        PROVE  Precedes(cells[l][i], cells[l][j])
    <3>0. \A n \in 0..(NodeCount(l) - 1) :
            \E a \in 0..(NodeCount(u) - 1) : \E p \in scannedMask[u][a] :
              ChildOf(u, a, p) = n /\ p \in Nat /\ cells[l][n] = Append(cells[u][a], p)
      <4>1. ASSUME NEW n \in 0..(NodeCount(u + 1) - 1)
            PROVE  \E a \in 0..(NodeCount(u) - 1) : \E p \in scannedMask[u][a] :
                     /\ ChildOf(u, a, p) = n /\ p \in Nat
                     /\ cells[u + 1][n] = Append(cells[u][a], p)
                     /\ IsAncestor(cells[u][a], cells[u + 1][n])
        <5>1. u \in Levels
          BY <2>1
        <5> QED
          BY <5>1, CellParent, Zenon
      <4> QED
        BY <2>1, <4>1
    <3>1. PICK a \in 0..(NodeCount(u) - 1) : \E p \in scannedMask[u][a] :
            ChildOf(u, a, p) = i /\ p \in Nat /\ cells[l][i] = Append(cells[u][a], p)
      BY <3>0
    <3>2. PICK p \in scannedMask[u][a] :
            ChildOf(u, a, p) = i /\ p \in Nat /\ cells[l][i] = Append(cells[u][a], p)
      BY <3>1
    <3>3. PICK b \in 0..(NodeCount(u) - 1) : \E q \in scannedMask[u][b] :
            ChildOf(u, b, q) = j /\ q \in Nat /\ cells[l][j] = Append(cells[u][b], q)
      BY <3>0
    <3>4. PICK q \in scannedMask[u][b] :
            ChildOf(u, b, q) = j /\ q \in Nat /\ cells[l][j] = Append(cells[u][b], q)
      BY <3>3
    <3>5. ~(b < a \/ (b = a /\ q < p)) /\ ~(a = b /\ p = q)
      <4>1. CASE b < a \/ (b = a /\ q < p)
        BY <2>1, <2>3, <3>2, <3>4, <4>1, ChildrenOrdered
      <4>2. CASE a = b /\ p = q
        BY <2>3, <3>2, <3>4, <4>2
      <4> QED
        BY <4>1, <4>2
    <3>6. a < b \/ (a = b /\ p < q)
      BY <3>2, <3>4, <3>5
    <3>7. Precedes(cells[u][a], cells[u][b]) \/ (cells[u][a] = cells[u][b] /\ p < q)
      BY <2>2, <3>6 DEF CellsSorted
    <3>8. cells[u][a] \in Seq(Int) /\ cells[u][b] \in Seq(Int)
      BY <2>1, CellShape
    <3> QED
      BY <3>2, <3>4, <3>7, <3>8, AppendsPrecede, SMTT(30)
  <2> QED
    BY <1>2, <2>3 DEF CellsSorted
<1> QED
  BY <1>3, <1>4

\* No two nodes have the same cell.
LEMMA CellsDiffer ==
  ASSUME Served, accepted, NEW cells, IsCells(cells),
         NEW l \in 0..LevelCount, NEW i \in 0..(NodeCount(l) - 1),
         NEW k \in 0..LevelCount, NEW j \in 0..(NodeCount(k) - 1),
         cells[l][i] = cells[k][j]
  PROVE  l = k /\ i = j
<1>1. l = k
  <2>1. Len(cells[l][i]) = l + 1 /\ Len(cells[k][j]) = k + 1
    BY CellShape
  <2> QED
    BY <2>1
<1>2. CellsSorted(cells, l)
  BY LevelsSorted
<1>3. cells[l][i] \in Seq(Int)
  BY CellShape
<1>4. ~Precedes(cells[l][i], cells[l][i])
  BY <1>3, PrecedesOrder
<1>5. i \in 0..(NodeCount(l) - 1) /\ j \in 0..(NodeCount(l) - 1)
  BY <1>1
<1>6. ~(i < j) /\ ~(j < i)
  BY <1>1, <1>2, <1>4, <1>5 DEF CellsSorted
<1> QED
  BY <1>1, <1>5, <1>6

\* The cells of level k lie above those of every level below it.
LEMMA CellAncestor ==
  ASSUME Served, accepted, NEW cells, IsCells(cells), NEW k \in 0..LevelCount,
         NEW l \in k..LevelCount, NEW i \in 0..(NodeCount(l) - 1)
  PROVE  \E j \in 0..(NodeCount(k) - 1) : IsAncestor(cells[k][j], cells[l][i])
<1> DEFINE Above(n) == \A a \in 0..(NodeCount(n) - 1) : \E j \in 0..(NodeCount(k) - 1) :
                         IsAncestor(cells[k][j], cells[n][a])
           Wrong == {n \in Nat : n >= k /\ n <= LevelCount /\ ~Above(n)}
<1>0. k \in Nat /\ LevelCount \in Nat
  BY LevelFacts
<1>1. SUFFICES ASSUME Wrong # {} PROVE FALSE
  BY <1>0
<1>2. PICK n \in Wrong : \A y \in Wrong : n <= y
  <2> HIDE DEF Wrong
  <2>1. Wrong \subseteq Nat
    BY DEF Wrong
  <2> QED
    BY <1>1, <2>1, LeastNatural
<1>3. n # k
  <2>1. ASSUME NEW a \in 0..(NodeCount(k) - 1)
        PROVE  IsAncestor(cells[k][a], cells[k][a])
    BY CellShape, AncestorOrder
  <2> QED
    BY <1>2, <2>1
<1>4. n - 1 \in Levels /\ n - 1 \in Nat /\ n - 1 >= k /\ n - 1 <= LevelCount /\ (n - 1) + 1 = n
  BY <1>0, <1>2, <1>3 DEF Levels
<1>5. Above(n - 1)
  BY <1>2, <1>4
<1>6. ASSUME NEW a \in 0..(NodeCount(n) - 1)
      PROVE  \E j \in 0..(NodeCount(k) - 1) : IsAncestor(cells[k][j], cells[n][a])
  <2>1. PICK b \in 0..(NodeCount(n - 1) - 1) : IsAncestor(cells[n - 1][b], cells[n][a])
    BY <1>4, CellParent
  <2>2. PICK j \in 0..(NodeCount(k) - 1) : IsAncestor(cells[k][j], cells[n - 1][b])
    BY <1>5
  <2>3. n \in 0..LevelCount /\ n - 1 \in 0..LevelCount
    BY <1>2, <1>4
  <2>4. cells[k][j] \in Seq(Int) /\ cells[n - 1][b] \in Seq(Int) /\ cells[n][a] \in Seq(Int)
    BY <2>3, CellShape
  <2> QED
    BY <2>1, <2>2, <2>4, AncestorOrder
<1> QED
  BY <1>2, <1>6

-----------------------------------------------------------------------------
(* Its leaves *)

LeafNode(l, i) == l = LevelCount \/ scannedMask[l][i] = {}

LEMMA LeavesAre ==
  ASSUME Served, accepted, NEW cells, IsCells(cells), NEW c
  PROVE  c \in LeavesOf(cells)
           <=> \E l \in 0..LevelCount : \E i \in 0..(NodeCount(l) - 1) :
                 LeafNode(l, i) /\ c = cells[l][i]
<1>1. /\ \A l \in Levels : l \in 0..LevelCount /\ l # LevelCount
      /\ \A l \in 0..LevelCount : l = LevelCount \/ l \in Levels
      /\ LevelCount \in 0..LevelCount
  BY Forest, LevelFacts
<1>2. \A l \in 0..LevelCount : DOMAIN cells[l] = 0..(NodeCount(l) - 1)
  BY DEF IsCells
<1>3. c \in LeavesOf(cells)
        <=> \/ \E l \in Levels : \E i \in DOMAIN cells[l] :
                scannedMask[l][i] = {} /\ c = cells[l][i]
            \/ \E i \in DOMAIN cells[LevelCount] : c = cells[LevelCount][i]
  BY DEF LeavesOf
<1>4. ASSUME NEW l \in Levels, NEW i \in DOMAIN cells[l],
             scannedMask[l][i] = {}, c = cells[l][i]
      PROVE  \E n \in 0..LevelCount : \E j \in 0..(NodeCount(n) - 1) :
               LeafNode(n, j) /\ c = cells[n][j]
  BY <1>1, <1>2, <1>4 DEF LeafNode
<1>5. ASSUME NEW i \in DOMAIN cells[LevelCount], c = cells[LevelCount][i]
      PROVE  \E n \in 0..LevelCount : \E j \in 0..(NodeCount(n) - 1) :
               LeafNode(n, j) /\ c = cells[n][j]
  BY <1>1, <1>2, <1>5 DEF LeafNode
<1>6. ASSUME NEW l \in 0..LevelCount, NEW i \in 0..(NodeCount(l) - 1),
             LeafNode(l, i), c = cells[l][i]
      PROVE  \/ \E n \in Levels : \E j \in DOMAIN cells[n] :
                scannedMask[n][j] = {} /\ c = cells[n][j]
             \/ \E j \in DOMAIN cells[LevelCount] : c = cells[LevelCount][j]
  <2>1. CASE l = LevelCount
    BY <1>2, <1>6, <2>1
  <2>2. CASE l # LevelCount
    BY <1>1, <1>2, <1>6, <2>2 DEF LeafNode
  <2> QED
    BY <2>1, <2>2
<1> QED
  BY <1>3, <1>4, <1>5, <1>6

LEMMA LeafPath ==
  ASSUME Served, accepted, NEW cells, IsCells(cells), NEW c \in LeavesOf(cells)
  PROVE  /\ c \in Seq(Nat) /\ c \in Seq(Int)
         /\ Len(c) >= 1 /\ Len(c) <= LevelCount + 1
         /\ c[1] \in 0..(RootFaceCount - 1)
<1>1. PICK l \in 0..LevelCount : \E i \in 0..(NodeCount(l) - 1) : c = cells[l][i]
  BY LeavesAre
<1>2. PICK i \in 0..(NodeCount(l) - 1) : c = cells[l][i]
  BY <1>1
<1>3. /\ cells[l][i] \in Seq(Nat) /\ cells[l][i] \in Seq(Int)
      /\ Len(cells[l][i]) = l + 1
      /\ cells[l][i][1] \in 0..(RootFaceCount - 1)
  BY CellShape
<1> QED
  BY <1>2, <1>3, LevelFacts

\* Every node is a leaf or lies above one.
LEMMA LeafBelow ==
  ASSUME Served, accepted, NEW cells, IsCells(cells),
         NEW k \in 0..LevelCount, NEW j \in 0..(NodeCount(k) - 1)
  PROVE  \E leaf \in LeavesOf(cells) : IsAncestor(cells[k][j], leaf)
<1> DEFINE Covered(l) == \A i \in 0..(NodeCount(l) - 1) :
                           \E leaf \in LeavesOf(cells) : IsAncestor(cells[l][i], leaf)
           Wrong == {d \in Nat : d <= LevelCount /\ ~Covered(LevelCount - d)}
<1>0. LevelCount \in Nat /\ LevelCount - (LevelCount - k) = k
  BY LevelFacts
<1>1. SUFFICES ASSUME Wrong # {} PROVE FALSE
  <2>1. LevelCount - k \notin Wrong
    BY <1>1
  <2>2. Covered(k)
    BY <1>0, <2>1
  <2> QED
    BY <2>2
<1>2. PICK d \in Wrong : \A y \in Wrong : d <= y
  <2> HIDE DEF Wrong
  <2>1. Wrong \subseteq Nat
    BY DEF Wrong
  <2> QED
    BY <1>1, <2>1, LeastNatural
<1> DEFINE l == LevelCount - d
<1>3. l \in 0..LevelCount /\ ~Covered(l)
  BY <1>0, <1>2
<1>4. PICK i \in 0..(NodeCount(l) - 1) :
        ~\E leaf \in LeavesOf(cells) : IsAncestor(cells[l][i], leaf)
  BY <1>3
<1>5. l \in Levels => Covered(l + 1)
  <2> SUFFICES ASSUME l \in Levels PROVE Covered(l + 1)
    OBVIOUS
  <2>1. d - 1 \in Nat /\ d - 1 <= LevelCount /\ LevelCount - (d - 1) = l + 1
    BY <1>0, <1>2 DEF Levels
  <2>2. d - 1 \notin Wrong
    BY <1>2, <2>1
  <2> QED
    BY <2>1, <2>2
<1> HIDE DEF Covered, Wrong, l
<1>6. cells[l][i] \in Seq(Int)
  BY <1>3, <1>4, CellShape
<1>7. ~LeafNode(l, i)
  <2> SUFFICES ASSUME LeafNode(l, i) PROVE FALSE
    OBVIOUS
  <2>1. cells[l][i] \in LeavesOf(cells)
    BY <1>3, LeavesAre
  <2> QED
    BY <1>4, <1>6, <2>1, AncestorOrder
<1>8. l \in Levels /\ scannedMask[l][i] # {}
  BY <1>3, <1>7, LevelFacts DEF LeafNode
<1>9. PICK p \in scannedMask[l][i] : TRUE
  BY <1>8
<1> DEFINE n == ChildOf(l, i, p)
<1>10. n \in 0..(NodeCount(l + 1) - 1) /\ p \in Nat /\ cells[l + 1][n] = Append(cells[l][i], p)
  BY <1>8, ChildNext DEF IsCells
<1>11. PICK leaf \in LeavesOf(cells) : IsAncestor(cells[l + 1][n], leaf)
  BY <1>5, <1>8, <1>10 DEF Covered
<1>12. leaf \in Seq(Int)
  BY LeafPath
<1>13. IsAncestor(cells[l][i], cells[l + 1][n]) /\ cells[l + 1][n] \in Seq(Int)
  BY <1>6, <1>10, AppendedPath
<1> QED
  BY <1>4, <1>6, <1>11, <1>12, <1>13, AncestorOrder

\* The tree above the leaves has a node for each cell, and no other.
LEMMA TreeNodes ==
  ASSUME Served, accepted, NEW cells, IsCells(cells),
         NEW a \in Seq(Nat), Len(a) >= 1
  PROVE  InTree(LeavesOf(cells), a)
           <=> \E l \in 0..LevelCount : \E i \in 0..(NodeCount(l) - 1) : a = cells[l][i]
<1>1. ASSUME NEW l \in 0..LevelCount, NEW i \in 0..(NodeCount(l) - 1), a = cells[l][i]
      PROVE  InTree(LeavesOf(cells), a)
  BY <1>1, LeafBelow DEF InTree
<1>2. ASSUME InTree(LeavesOf(cells), a)
      PROVE  \E l \in 0..LevelCount : \E i \in 0..(NodeCount(l) - 1) : a = cells[l][i]
  <2>1. PICK leaf \in LeavesOf(cells) : IsAncestor(a, leaf)
    BY <1>2 DEF InTree
  <2>2. PICK l \in 0..LevelCount : \E i \in 0..(NodeCount(l) - 1) : leaf = cells[l][i]
    BY LeavesAre
  <2>3. PICK i \in 0..(NodeCount(l) - 1) : leaf = cells[l][i]
    BY <2>2
  <2>4. leaf \in Seq(Int) /\ Len(leaf) = l + 1 /\ a \in Seq(Int) /\ Len(a) \in Nat
    <3>1. cells[l][i] \in Seq(Int) /\ Len(cells[l][i]) = l + 1
      BY CellShape
    <3>2. a \in Seq(Int) /\ Len(a) \in Nat
      OBVIOUS
    <3> QED
      BY <2>3, <3>1, <3>2
  <2> DEFINE k == Len(a) - 1
  <2>5. k \in 0..LevelCount /\ l \in k..LevelCount /\ Len(a) = k + 1
    <3>1. Len(a) <= l + 1 /\ LevelCount \in Nat
      BY <2>1, <2>4, LevelFacts DEF IsAncestor
    <3> QED
      BY <2>4, <3>1
  <2> HIDE DEF k
  <2>6. PICK j \in 0..(NodeCount(k) - 1) : IsAncestor(cells[k][j], leaf)
    BY <2>3, <2>5, CellAncestor
  <2>7. cells[k][j] \in Seq(Int) /\ Len(cells[k][j]) = Len(a)
    BY <2>5, CellShape
  <2>8. a = cells[k][j]
    BY <2>1, <2>4, <2>6, <2>7, AncestorOrder
  <2> QED
    BY <2>5, <2>8
<1> QED
  BY <1>1, <1>2

\* An accepted file holds a proper set of leaves: every face has some, none lies
\* below another, none is deeper than the last level.
LEMMA LeavesProper ==
  ASSUME Served, accepted, NEW cells, IsCells(cells)
  PROVE  /\ IsLeafSet(LeavesOf(cells), 0..(RootFaceCount - 1), LevelCount)
         /\ LeavesOf(cells) # {}
<1> DEFINE L == LeavesOf(cells)
<1>1. ASSUME NEW a \in L, NEW b \in L, IsAncestor(a, b) PROVE a = b
  <2>1. PICK k \in 0..LevelCount : \E i \in 0..(NodeCount(k) - 1) :
          LeafNode(k, i) /\ a = cells[k][i]
    BY LeavesAre
  <2>2. PICK i \in 0..(NodeCount(k) - 1) : LeafNode(k, i) /\ a = cells[k][i]
    BY <2>1
  <2>3. PICK l \in 0..LevelCount : \E j \in 0..(NodeCount(l) - 1) : b = cells[l][j]
    BY LeavesAre
  <2>4. PICK j \in 0..(NodeCount(l) - 1) : b = cells[l][j]
    BY <2>3
  <2>5. a \in Seq(Int) /\ Len(a) = k + 1 /\ b \in Seq(Int) /\ Len(b) = l + 1
    BY <2>2, <2>4, CellShape
  <2>6. k <= l
    BY <1>1, <2>5 DEF IsAncestor
  <2>7. CASE k = l
    BY <1>1, <2>5, <2>7, AncestorOrder
  <2>8. CASE k # l
    <3>1. k \in Levels /\ k + 1 \in 0..LevelCount /\ l \in (k + 1)..LevelCount /\ k # LevelCount
      BY <2>6, <2>8, LevelFacts DEF Levels
    <3>2. PICK m \in 0..(NodeCount(k + 1) - 1) : IsAncestor(cells[k + 1][m], b)
      BY <2>4, <3>1, CellAncestor
    <3>3. PICK n \in 0..(NodeCount(k) - 1) : \E p \in scannedMask[k][n] :
            IsAncestor(cells[k][n], cells[k + 1][m])
      BY <3>1, CellParent
    <3>4. /\ cells[k][n] \in Seq(Int) /\ Len(cells[k][n]) = k + 1
          /\ cells[k + 1][m] \in Seq(Int)
      BY <3>1, CellShape
    <3>5. IsAncestor(cells[k][n], b)
      <4> DEFINE x == cells[k][n]
                 y == cells[k + 1][m]
      <4>1. x \in Seq(Int) /\ y \in Seq(Int) /\ IsAncestor(x, y) /\ IsAncestor(y, b)
        BY <3>2, <3>3, <3>4
      <4> HIDE DEF x, y, L
      <4>2. IsAncestor(x, b)
        BY <2>5, <4>1, AncestorOrder
      <4> QED
        BY <4>2 DEF x
    <3>6. cells[k][n] = a
      <4> DEFINE x == cells[k][n]
      <4>1. x \in Seq(Int) /\ Len(x) = Len(a) /\ IsAncestor(x, b)
        BY <2>5, <3>4, <3>5
      <4>2. a \in Seq(Int) /\ b \in Seq(Int) /\ IsAncestor(a, b) /\ Len(x) <= Len(a)
        BY <1>1, <2>5, <4>1
      <4> HIDE DEF x, L
      <4>3. IsAncestor(x, a)
        BY <4>1, <4>2, AncestorOrder
      <4>4. x = a
        BY <4>1, <4>2, <4>3, AncestorOrder
      <4> QED
        BY <4>4 DEF x
    <3>7. n = i
      BY <2>2, <3>6, CellsDiffer
    <3> QED
      BY <2>2, <3>1, <3>3, <3>7 DEF LeafNode
  <2> QED
    BY <2>7, <2>8
<1>2. ASSUME NEW c \in L
      PROVE  c[1] \in 0..(RootFaceCount - 1) /\ Len(c) <= LevelCount + 1
  BY LeafPath
<1>3. ASSUME NEW f \in 0..(RootFaceCount - 1) PROVE \E c \in L : c[1] = f
  <2>1. /\ 0 \in 0..LevelCount /\ f \in 0..(NodeCount(0) - 1) /\ cells[0][f] = <<f>>
        /\ f \in Int
    BY Forest, LevelFacts DEF IsCells
  <2>2. PICK c \in L : IsAncestor(<<f>>, c)
    BY <2>1, LeafBelow
  <2>3. c \in Seq(Int)
    BY LeafPath
  <2>4. 1 \in 1..Len(<<f>>) /\ <<f>> \in Seq(Int) /\ <<f>>[1] = f
    BY <2>1
  <2>5. \A n \in 1..Len(<<f>>) : <<f>>[n] = c[n]
    BY <2>2, <2>3, <2>4, AncestorPointwise
  <2> QED
    BY <2>4, <2>5
<1>4. {c[1] : c \in L} = 0..(RootFaceCount - 1)
  <2> HIDE DEF L
  <2>1. \A c \in L : c[1] \in 0..(RootFaceCount - 1)
    BY <1>2
  <2>2. \A f \in 0..(RootFaceCount - 1) : \E c \in L : c[1] = f
    BY <1>3
  <2> QED
    BY <2>1, <2>2, Zenon
<1>5. L # {}
  BY <1>3, FormatAssumption
<1> HIDE DEF L
<1>6. IsLeafSet(L, 0..(RootFaceCount - 1), LevelCount)
  BY <1>1, <1>2, <1>4 DEF IsLeafSet
<1> QED
  BY <1>5, <1>6 DEF L

LEMMA AppendsEqual ==
  ASSUME NEW a \in Seq(Int), NEW b \in Seq(Int), Len(a) = Len(b),
         NEW p \in Int, NEW q \in Int, Append(a, p) = Append(b, q)
  PROVE  a = b /\ p = q
<1> DEFINE s == Append(a, p)
           t == Append(b, q)
<1>1. /\ s[Len(a) + 1] = p /\ \A i \in 1..Len(a) : s[i] = a[i]
      /\ t[Len(b) + 1] = q /\ \A i \in 1..Len(b) : t[i] = b[i]
  BY AppendedPath
<1>2. s = t
  OBVIOUS
<1> HIDE DEF s, t
<1>3. p = q /\ \A i \in 1..Len(a) : a[i] = b[i]
  BY <1>1, <1>2
<1> QED
  BY <1>3, PathsEqual

LEMMA LongerPrefix ==
  ASSUME NEW c \in Seq(Nat), NEW k \in 0..Len(c), k + 1 <= Len(c)
  PROVE  SubSeq(c, 1, k + 1) = Append(SubSeq(c, 1, k), c[k + 1]) /\ c[k + 1] \in Nat
<1> DEFINE a == SubSeq(c, 1, k + 1)
           b == SubSeq(c, 1, k)
           p == c[k + 1]
<1>1. Len(c) \in Nat /\ k + 1 \in 0..Len(c) /\ k \in Nat
  OBVIOUS
<1>2. /\ a \in Seq(Int) /\ Len(a) = k + 1 /\ \A i \in 1..(k + 1) : a[i] = c[i]
      /\ b \in Seq(Int) /\ Len(b) = k /\ \A i \in 1..k : b[i] = c[i]
  BY <1>1, SubPath
<1>3. p \in Nat
  BY <1>1, ElementOfSeq
<1> HIDE DEF a, b
<1>4. /\ Append(b, p) \in Seq(Int) /\ Len(Append(b, p)) = k + 1
      /\ \A i \in 1..k : Append(b, p)[i] = b[i]
      /\ Append(b, p)[k + 1] = p
  BY <1>2, <1>3, AppendedPath
<1>5. ASSUME NEW i \in 1..(k + 1) PROVE a[i] = Append(b, p)[i]
  <2>1. CASE i = k + 1
    BY <1>1, <1>2, <1>4, <2>1 DEF p
  <2>2. CASE i # k + 1
    <3>1. i \in 1..k
      BY <1>1, <2>2
    <3> QED
      BY <1>2, <1>4, <3>1
  <2> QED
    BY <2>1, <2>2
<1>6. a = Append(b, p)
  BY <1>2, <1>4, <1>5, PathsEqual
<1> QED
  BY <1>3, <1>6 DEF a, b

-----------------------------------------------------------------------------
(* The path of a query *)

LEMMA PathStep ==
  ASSUME Served, accepted, NEW cells, IsCells(cells),
         NEW l \in Levels, NEW n \in 0..(NodeCount(l) - 1),
         NEW c \in Seq(Nat), l + 2 <= Len(c), CellPrefix(c, l) = cells[l][n]
  PROVE  IF c[l + 2] \in scannedMask[l][n]
         THEN CellPrefix(c, l + 1) = cells[l + 1][ChildOf(l, n, c[l + 2])]
         ELSE ~InTree(LeavesOf(cells), CellPrefix(c, l + 1))
<1> DEFINE p == c[l + 2]
<1>1. /\ l \in Nat /\ Len(c) \in Nat /\ l + 1 \in 0..Len(c) /\ (l + 1) + 1 <= Len(c)
      /\ l \in 0..LevelCount /\ l + 1 \in 0..LevelCount
      /\ (l + 1) + 1 = l + 2 /\ l + 2 \in 0..Len(c) /\ l + 2 >= 1
  BY Forest, SMTT(30)
<1>2. CellPrefix(c, l) = SubSeq(c, 1, l + 1) /\ CellPrefix(c, l + 1) = SubSeq(c, 1, l + 2)
  BY <1>1 DEF CellPrefix
<1>3. CellPrefix(c, l + 1) = Append(cells[l][n], p) /\ p \in Nat
  BY <1>1, <1>2, LongerPrefix
<1>4. CASE p \in scannedMask[l][n]
  BY <1>3, <1>4 DEF IsCells
<1>5. CASE p \notin scannedMask[l][n]
  <2> DEFINE a == CellPrefix(c, l + 1)
  <2>1. SUFFICES ASSUME InTree(LeavesOf(cells), a) PROVE FALSE
    BY <1>5
  <2>2. a \in Seq(Nat) /\ Len(a) = l + 2
    <3>1. SubSeq(c, 1, l + 2) \in Seq(Nat) /\ Len(SubSeq(c, 1, l + 2)) = l + 2
      BY <1>1, SubPath
    <3> QED
      BY <1>2, <3>1
  <2> HIDE DEF a
  <2>3. PICK k \in 0..LevelCount : \E j \in 0..(NodeCount(k) - 1) : a = cells[k][j]
    <3>1. Len(a) >= 1
      BY <1>1, <2>2
    <3> QED
      BY <2>1, <2>2, <3>1, TreeNodes
  <2>4. PICK j \in 0..(NodeCount(k) - 1) : a = cells[k][j]
    BY <2>3
  <2>5. k = l + 1
    <3>1. Len(cells[k][j]) = k + 1
      BY CellShape
    <3> QED
      BY <1>1, <2>2, <2>4, <3>1
  <2>6. PICK i \in 0..(NodeCount(l) - 1) : \E q \in scannedMask[l][i] :
          q \in Nat /\ a = Append(cells[l][i], q)
    <3>1. j \in 0..(NodeCount(l + 1) - 1) /\ a = cells[l + 1][j]
      BY <2>4, <2>5
    <3>2. \E i \in 0..(NodeCount(l) - 1) : \E q \in scannedMask[l][i] :
            q \in Nat /\ cells[l + 1][j] = Append(cells[l][i], q)
      BY <3>1, CellParent, SMTT(30)
    <3> QED
      BY <3>1, <3>2
  <2>7. PICK q \in scannedMask[l][i] : q \in Nat /\ a = Append(cells[l][i], q)
    BY <2>6
  <2>8. Append(cells[l][i], q) = Append(cells[l][n], p)
    BY <1>3, <2>7 DEF a
  <2>9. /\ cells[l][i] \in Seq(Int) /\ Len(cells[l][i]) = l + 1
        /\ cells[l][n] \in Seq(Int) /\ Len(cells[l][n]) = l + 1
    BY <1>1, CellShape
  <2>10. cells[l][i] = cells[l][n] /\ q = p
    <3>1. q \in Int /\ p \in Int /\ Len(cells[l][i]) = Len(cells[l][n])
      BY <1>3, <2>7, <2>9
    <3> HIDE DEF p
    <3> QED
      BY <2>8, <2>9, <3>1, AppendsEqual
  <2>11. i = n
    BY <1>1, <2>10, CellsDiffer
  <2> QED
    BY <1>5, <2>10, <2>11
<1> QED
  BY <1>4, <1>5

LEMMA CellsKept ==
  ASSUME UNCHANGED vars, NEW cells
  PROVE  /\ \A l \in 0..LevelCount : NodeCount(l)' = NodeCount(l)
         /\ IsCells(cells)' <=> IsCells(cells)
         /\ LeavesOf(cells)' = LeavesOf(cells)
         /\ \A l, i : LeafNode(l, i)' <=> LeafNode(l, i)
         /\ \A l, i, p : ChildOf(l, i, p)' = ChildOf(l, i, p)
<1>1. /\ UNCHANGED <<db, pc, accepted, scannedMask, scannedRank, scannedStart>>
      /\ \A l : Nodes(l)' = Nodes(l)
  BY FileUntouched
<1>2. \A l : NodeCount(l)' = NodeCount(l)
  BY <1>1 DEF NodeCount
<1>3. \A l, i, p : ChildOf(l, i, p)' = ChildOf(l, i, p)
  BY <1>1 DEF ChildOf
<1>4. \A l, i : LeafNode(l, i)' <=> LeafNode(l, i)
  BY <1>1 DEF LeafNode
<1>5. IsCells(cells)' <=> IsCells(cells)
  BY <1>1, <1>2, <1>3 DEF IsCells
<1>6. LeavesOf(cells)' = LeavesOf(cells)
  BY <1>1 DEF LeavesOf
<1> QED
  BY <1>2, <1>3, <1>4, <1>5, <1>6

\* A query stands at the node whose cell is the prefix of the cell it asks for.
QueryPath(cells) ==
  task = "query" => CellPrefix(cell, call.level) = cells[call.level][call.node]

LEMMA QueryFacts ==
  ASSUME NEW c \in QueryCells
  PROVE  /\ c \in Seq(Nat) /\ Len(c) \in Nat /\ Len(c) >= 1
         /\ c[1] \in 0..(RootFaceCount - 1)
         /\ Target(c) \in Nat /\ Target(c) <= LevelCount /\ Target(c) + 1 <= Len(c)
         /\ Target(c) + 1 = Len(c) \/ Target(c) = LevelCount
<1>1. /\ c \in Seq(Nat) /\ Len(c) \in Nat /\ Len(c) >= 1
      /\ c[1] \in 0..(RootFaceCount - 1)
  BY QueryAssumption, LenProperties
<1>2. LevelCount \in Nat
  BY LevelFacts
<1> QED
  BY <1>1, <1>2 DEF Target, Level

\* What the answer at a node of the path is.
Answers(c, l) == l \in Nat /\ DeepestAncestor(tree, c) = CellPrefix(c, l)

LEMMA AnswerFound ==
  ASSUME Served, accepted, NEW cells, IsCells(cells), tree = LeavesOf(cells),
         NEW c \in QueryCells, NEW l \in 0..LevelCount, l + 1 <= Len(c),
         NEW n \in 0..(NodeCount(l) - 1), CellPrefix(c, l) = cells[l][n],
         \/ l = Target(c)
         \/ l + 1 < Len(c) /\ ~InTree(tree, CellPrefix(c, l + 1))
  PROVE  Answers(c, l)
<1>1. /\ c \in Seq(Nat) /\ Len(c) \in Nat /\ l \in Nat /\ l + 1 \in 1..Len(c)
      /\ Target(c) + 1 = Len(c) \/ Target(c) = LevelCount
  <2>1. /\ c \in Seq(Nat) /\ Len(c) \in Nat
        /\ Target(c) + 1 = Len(c) \/ Target(c) = LevelCount
    BY QueryFacts
  <2>2. LevelCount \in Nat
    BY LevelFacts
  <2> QED
    BY <2>1, <2>2
<1>2. \A leaf \in tree : leaf \in Seq(Int) /\ Len(leaf) \in Nat /\ Len(leaf) <= LevelCount + 1
  <2>1. ASSUME NEW leaf \in tree
        PROVE  leaf \in Seq(Int) /\ Len(leaf) \in Nat /\ Len(leaf) <= LevelCount + 1
    <3>1. leaf \in Seq(Int) /\ Len(leaf) <= LevelCount + 1
      BY LeafPath
    <3> QED
      BY <3>1, LenProperties
  <2> QED
    BY <2>1
<1>3. CellPrefix(c, l) = SubSeq(c, 1, l + 1)
  BY DEF CellPrefix
<1>4. InTree(tree, SubSeq(c, 1, l + 1))
  <2>1. cells[l][n] \in Seq(Nat) /\ Len(cells[l][n]) >= 1
    BY <1>1, CellShape, SMTT(30)
  <2>2. InTree(tree, cells[l][n])
    BY <2>1, TreeNodes
  <2> QED
    BY <1>3, <2>2
<1>5. l + 1 # Len(c) => ~InTree(tree, SubSeq(c, 1, (l + 1) + 1))
  <2> SUFFICES ASSUME l + 1 # Len(c), InTree(tree, SubSeq(c, 1, (l + 1) + 1)) PROVE FALSE
    OBVIOUS
  <2>1. CASE l = Target(c)
    <3>1. l = LevelCount
      BY <1>1, <2>1
    <3>2. PICK leaf \in tree : Len(SubSeq(c, 1, (l + 1) + 1)) <= Len(leaf)
      BY DEF InTree, IsAncestor
    <3>3. (l + 1) + 1 \in 0..Len(c)
      BY <1>1
    <3>4. Len(SubSeq(c, 1, (l + 1) + 1)) = (l + 1) + 1
      BY <1>1, <3>3, SubPath
    <3> QED
      BY <1>1, <1>2, <3>1, <3>2, <3>4
  <2>2. CASE l + 1 < Len(c) /\ ~InTree(tree, CellPrefix(c, l + 1))
    BY <2>2 DEF CellPrefix
  <2> QED
    BY <2>1, <2>2
<1>6. DeepestAncestor(tree, c) = SubSeq(c, 1, l + 1)
  BY <1>1, <1>2, <1>4, <1>5, DeepestFound
<1> QED
  BY <1>1, <1>3, <1>6 DEF Answers

\* A query starts at its face, and ends there when it asks for nothing deeper.
LEMMA StartQueryFinds ==
  ASSUME Served, accepted, NEW cells, IsCells(cells), tree = LeavesOf(cells),
         NEW c \in QueryCells, StartQuery(c)
  PROVE  /\ cell' = c
         /\ \/ /\ task' = "query"
               /\ CellPrefix(cell', call'.level) = cells[call'.level][call'.node]
            \/ task' = "answered" /\ Answers(c, answer')
<1>1. /\ c \in Seq(Nat) /\ Len(c) \in Nat /\ Len(c) >= 1
      /\ c[1] \in 0..(RootFaceCount - 1) /\ c[1] \in Nat
  BY QueryFacts
<1>2. cell' = c
  BY DEF StartQuery
<1>3. /\ 0 \in 0..LevelCount /\ c[1] \in 0..(NodeCount(0) - 1)
      /\ cells[0][c[1]] = <<c[1]>>
  BY <1>1, Forest, LevelFacts DEF IsCells
<1>4. CellPrefix(c, 0) = cells[0][c[1]]
  <2>1. CellPrefix(c, 0) = SubSeq(c, 1, 1) /\ 1 \in 0..Len(c)
    BY <1>1 DEF CellPrefix
  <2>2. /\ SubSeq(c, 1, 1) \in Seq(Int) /\ Len(SubSeq(c, 1, 1)) = 1
        /\ SubSeq(c, 1, 1)[1] = c[1]
    BY <1>1, <2>1, SubPath
  <2>3. <<c[1]>> \in Seq(Int) /\ Len(<<c[1]>>) = 1 /\ <<c[1]>>[1] = c[1]
    BY <1>1
  <2>4. SubSeq(c, 1, 1) = <<c[1]>>
    <3> DEFINE a == SubSeq(c, 1, 1)
               b == <<c[1]>>
    <3>1. Len(a) = Len(b) /\ \A i \in 1..Len(a) : a[i] = b[i]
      BY <2>2, <2>3
    <3> HIDE DEF a, b
    <3> QED
      BY <2>2, <2>3, <3>1, PathsEqual DEF a, b
  <2> QED
    BY <1>3, <2>1, <2>4
<1>5. CASE Target(c) = 0
  <2>1. answer' = 0 /\ task' = "answered"
    BY <1>5 DEF StartQuery
  <2>2. Answers(c, 0)
    BY <1>1, <1>3, <1>4, <1>5, AnswerFound
  <2> QED
    BY <1>2, <2>1, <2>2
<1>6. CASE Target(c) # 0
  <2>1. task' = "query" /\ Visit(0, c[1])
    BY <1>6 DEF StartQuery
  <2>2. call'.level = 0 /\ call'.node = c[1]
    BY <2>1 DEF Visit, Call
  <2> QED
    BY <1>2, <1>4, <2>1, <2>2
<1> QED
  BY <1>5, <1>6

\* Each mask read moves the query one cell down its path or answers it.
LEMMA ContinueQueryFinds ==
  ASSUME Served, Walking, NEW cells, IsCells(cells), tree = LeavesOf(cells),
         QueryPath(cells), ContinueQuery
  PROVE  /\ cell' = cell /\ cell \in QueryCells
         /\ \/ /\ task' = "query"
               /\ CellPrefix(cell', call'.level) = cells[call'.level][call'.node]
            \/ task' = "answered" /\ Answers(cell, answer')
<1> DEFINE l == call.level
           n == call.node
           child == cell[l + 2]
<1>1. task = "query" /\ step = "return"
  BY DEF ContinueQuery
<1>2. /\ accepted /\ cell \in QueryCells /\ l < Target(cell)
      /\ call.rank <=> l + 1 # Target(cell)
      /\ current = scannedMask[l][n] /\ before = Ranked(n)
  BY <1>1 DEF Walking, Opened, QueryWalk, Returned
<1>3. /\ l \in Levels /\ l \in Nat /\ l \in 0..LevelCount /\ l + 1 \in 0..LevelCount
      /\ n \in 0..(NodeCount(l) - 1)
  <2>1. l \in Levels /\ n \in Nat /\ n < Nodes(l) /\ Nodes(l) \in Nat
    BY <1>1, CallFacts
  <2> QED
    BY <1>2, <2>1, Forest
<1>4. /\ cell \in Seq(Nat) /\ Len(cell) \in Nat /\ l + 2 <= Len(cell)
      /\ Target(cell) \in Nat
  BY <1>2, <1>3, QueryFacts
<1>5. CellPrefix(cell, l) = cells[l][n]
  BY <1>1 DEF QueryPath
<1>6. IF child \in current
      THEN CellPrefix(cell, l + 1) = cells[l + 1][ChildOf(l, n, child)]
      ELSE ~InTree(LeavesOf(cells), CellPrefix(cell, l + 1))
  BY <1>2, <1>3, <1>4, <1>5, PathStep
<1>7. child \in current => ChildOf(l, n, child) \in 0..(NodeCount(l + 1) - 1)
  BY <1>2, <1>3, ChildNext
<1>8. CASE child \notin current
  <2>1. task' = "answered" /\ answer' = l /\ cell' = cell
    BY <1>8 DEF ContinueQuery, Answer
  <2>2. l + 1 < Len(cell) /\ l + 1 <= Len(cell)
    BY <1>3, <1>4
  <2>3. Answers(cell, l)
    BY <1>2, <1>3, <1>5, <1>6, <1>8, <2>2, AnswerFound
  <2> QED
    BY <1>2, <2>1, <2>3
<1>9. CASE child \in current /\ l + 1 = Target(cell)
  <2>1. task' = "answered" /\ answer' = l + 1 /\ cell' = cell
    BY <1>9 DEF ContinueQuery, Answer
  <2>2. (l + 1) + 1 <= Len(cell)
    BY <1>3, <1>4
  <2> DEFINE k == l + 1
             j == ChildOf(l, n, child)
  <2>3. /\ k \in 0..LevelCount /\ k + 1 <= Len(cell) /\ k = Target(cell)
        /\ j \in 0..(NodeCount(k) - 1) /\ CellPrefix(cell, k) = cells[k][j]
    BY <1>3, <1>6, <1>7, <1>9, <2>2
  <2> HIDE DEF k, j
  <2>4. Answers(cell, k)
    BY <1>2, <2>3, AnswerFound
  <2> QED
    BY <1>2, <2>1, <2>4 DEF k
<1>10. CASE child \in current /\ l + 1 # Target(cell)
  <2>1. task' = "query" /\ cell' = cell /\ Visit(l + 1, ChildNode(child))
    BY <1>1, <1>10 DEF ContinueQuery, Answer
  <2>2. call'.level = l + 1 /\ call'.node = ChildNode(child)
    BY <2>1 DEF Visit, Call
  <2>3. ChildNode(child) = ChildOf(l, n, child)
    BY <1>2, <1>10 DEF ChildNode, ChildOf, Ranked
  <2> QED
    BY <1>2, <1>6, <1>10, <2>1, <2>2, <2>3
<1> QED
  BY <1>8, <1>9, <1>10

-----------------------------------------------------------------------------
(* Sequences of paths in traversal order *)

Sorted(s) == \A i, j \in 1..Len(s) : i < j => Precedes(s[i], s[j])

AllBefore(s, t) == \A i \in 1..Len(s), j \in 1..Len(t) : Precedes(s[i], t[j])

Paths == Seq(Seq(Int))

\* What a concatenation holds, and where.
LEMMA Joined ==
  ASSUME NEW T, NEW s \in Seq(T), NEW t \in Seq(T)
  PROVE  /\ s \o t \in Seq(T) /\ Len(s) \in Nat /\ Len(t) \in Nat
         /\ Len(s \o t) = Len(s) + Len(t)
         /\ \A i \in 1..Len(s) : i \in 1..Len(s \o t) /\ (s \o t)[i] = s[i]
         /\ \A j \in 1..Len(t) : Len(s) + j \in 1..Len(s \o t) /\ (s \o t)[Len(s) + j] = t[j]
         /\ \A k \in 1..Len(s \o t) :
              \/ k \in 1..Len(s)
              \/ \E j \in 1..Len(t) : k = Len(s) + j
<1> DEFINE u == s \o t
<1>1. /\ u \in Seq(T) /\ Len(s) \in Nat /\ Len(t) \in Nat /\ Len(u) = Len(s) + Len(t)
      /\ \A i \in 1..(Len(s) + Len(t)) :
           u[i] = IF i <= Len(s) THEN s[i] ELSE t[i - Len(s)]
  BY ConcatProperties, LenProperties
<1> HIDE DEF u
<1>2. \A i \in 1..Len(s) : i \in 1..Len(u) /\ u[i] = s[i]
  BY <1>1
<1>3. ASSUME NEW j \in 1..Len(t)
      PROVE  Len(s) + j \in 1..Len(u) /\ u[Len(s) + j] = t[j]
  <2>1. Len(s) + j \in 1..(Len(s) + Len(t)) /\ ~(Len(s) + j <= Len(s))
        /\ (Len(s) + j) - Len(s) = j
    BY <1>1
  <2> QED
    BY <1>1, <2>1
<1>4. ASSUME NEW k \in 1..Len(u), k \notin 1..Len(s)
      PROVE  \E j \in 1..Len(t) : k = Len(s) + j
  <2>1. k - Len(s) \in 1..Len(t) /\ k = Len(s) + (k - Len(s))
    BY <1>1, <1>4
  <2> QED
    BY <2>1
<1> QED
  BY <1>1, <1>2, <1>3, <1>4 DEF u

LEMMA JoinedSorted ==
  ASSUME NEW s \in Paths, NEW t \in Paths, Sorted(s), Sorted(t), AllBefore(s, t)
  PROVE  Sorted(s \o t)
<1> DEFINE u == s \o t
<1>1. /\ Len(s) \in Nat /\ Len(t) \in Nat
      /\ \A i \in 1..Len(s) : u[i] = s[i]
      /\ \A j \in 1..Len(t) : u[Len(s) + j] = t[j]
      /\ \A k \in 1..Len(u) : k \in 1..Len(s) \/ \E j \in 1..Len(t) : k = Len(s) + j
  BY Joined DEF Paths
<1> HIDE DEF u
<1>2. ASSUME NEW a \in 1..Len(u), NEW b \in 1..Len(u), a < b
      PROVE  Precedes(u[a], u[b])
  <2>1. CASE a \in 1..Len(s) /\ b \in 1..Len(s)
    BY <1>1, <1>2, <2>1 DEF Sorted
  <2>2. CASE a \in 1..Len(s) /\ b \notin 1..Len(s)
    BY <1>1, <2>2 DEF AllBefore
  <2>3. CASE a \notin 1..Len(s)
    <3>1. PICK i \in 1..Len(t) : a = Len(s) + i
      BY <1>1, <2>3
    <3>2. b \notin 1..Len(s)
      BY <1>1, <1>2, <3>1
    <3>3. PICK j \in 1..Len(t) : b = Len(s) + j
      BY <1>1, <3>2
    <3>4. i < j
      BY <1>1, <1>2, <3>1, <3>3
    <3> QED
      BY <1>1, <3>1, <3>3, <3>4 DEF Sorted
  <2> QED
    BY <2>1, <2>2, <2>3
<1> QED
  BY <1>2 DEF Sorted, u

LEMMA JoinedBefore ==
  ASSUME NEW r \in Paths, NEW s \in Paths, NEW t \in Paths
  PROVE  /\ AllBefore(r, s) /\ AllBefore(r, t) => AllBefore(r, s \o t)
         /\ AllBefore(r, t) /\ AllBefore(s, t) => AllBefore(r \o s, t)
<1>1. ASSUME AllBefore(r, s), AllBefore(r, t) PROVE AllBefore(r, s \o t)
  <2> DEFINE u == s \o t
  <2>1. /\ \A i \in 1..Len(s) : u[i] = s[i]
        /\ \A j \in 1..Len(t) : u[Len(s) + j] = t[j]
        /\ \A k \in 1..Len(u) : k \in 1..Len(s) \/ \E j \in 1..Len(t) : k = Len(s) + j
    BY Joined DEF Paths
  <2> HIDE DEF u
  <2>2. AllBefore(r, u)
    BY <1>1, <2>1 DEF AllBefore
  <2> QED
    BY <2>2 DEF u
<1>2. ASSUME AllBefore(r, t), AllBefore(s, t) PROVE AllBefore(r \o s, t)
  <2> DEFINE u == r \o s
  <2>1. /\ \A i \in 1..Len(r) : u[i] = r[i]
        /\ \A j \in 1..Len(s) : u[Len(r) + j] = s[j]
        /\ \A k \in 1..Len(u) : k \in 1..Len(r) \/ \E j \in 1..Len(s) : k = Len(r) + j
    BY Joined DEF Paths
  <2> HIDE DEF u
  <2>2. AllBefore(u, t)
    BY <1>2, <2>1 DEF AllBefore
  <2> QED
    BY <2>2 DEF u
<1> QED
  BY <1>1, <1>2

-----------------------------------------------------------------------------
(* The children of the node a reconstruction has read *)

CellSeq(nodes) == [i \in 1..Len(nodes) |-> nodes[i].cell]

LEMMA CellSeqPaths ==
  ASSUME NEW T, \A v \in T : v.cell \in Seq(Nat), NEW s \in Seq(T)
  PROVE  /\ CellSeq(s) \in Paths /\ Len(CellSeq(s)) = Len(s) /\ Len(s) \in Nat
         /\ \A i \in 1..Len(s) : CellSeq(s)[i] = s[i].cell
<1>1. Len(s) \in Nat /\ \A i \in 1..Len(s) : s[i] \in T
  BY LenProperties, ElementOfSeq
<1>2. \A i \in 1..Len(s) : s[i].cell \in Seq(Int)
  <2>1. ASSUME NEW i \in 1..Len(s) PROVE s[i].cell \in Seq(Int)
    <3>1. s[i].cell \in Seq(Nat)
      BY <1>1
    <3> QED
      BY <3>1
  <2> QED
    BY <2>1
<1>3. CellSeq(s) \in [1..Len(s) -> Seq(Int)]
  BY <1>2 DEF CellSeq
<1> HIDE DEF CellSeq
<1>4. CellSeq(s) \in Seq(Seq(Int)) /\ DOMAIN CellSeq(s) = 1..Len(s)
  BY <1>1, <1>3, FunctionIsSequence
<1>5. Len(CellSeq(s)) = Len(s)
  BY <1>1, <1>4, LenProperties
<1> QED
  BY <1>1, <1>4, <1>5 DEF CellSeq, Paths

\* The i-th child is the node that many places after the rank of its parent.
LEMMA ChildListed ==
  ASSUME Served, accepted, NEW cells, IsCells(cells),
         NEW l \in Levels, NEW n \in 0..(NodeCount(l) - 1),
         l = call.level, current = scannedMask[l][n], todo # <<>>,
         Head(todo).cell = cells[l][n]
  PROVE  /\ CountOnes(current) \in Nat
         /\ DOMAIN ChildrenInOrder = 1..CountOnes(current)
         /\ \A i \in 1..CountOnes(current) :
              /\ scannedRank[l][n] + (i - 1) \in 0..(NodeCount(l + 1) - 1)
              /\ ChildrenInOrder[i].cell = cells[l + 1][scannedRank[l][n] + (i - 1)]
              /\ ChildrenInOrder[i].level = l + 1
              /\ IsAncestor(cells[l][n], ChildrenInOrder[i].cell)
              /\ before = scannedRank[l][n] =>
                   ChildrenInOrder[i].node = scannedRank[l][n] + (i - 1)
<1> DEFINE count == CountOnes(current)
           kids == [i \in 1..count |->
                      CHOOSE p \in current : CountOnes(ChildrenBefore(current, p)) = i - 1]
<1>1. current \in Masks /\ count \in Nat
  BY Forest, CountOnesNat
<1>2. DOMAIN kids = 1..count
  OBVIOUS
<1>3. ChildrenInOrder = [i \in 1..count |->
                           [level |-> l + 1, node |-> ChildNode(kids[i]),
                            cell |-> Append(Head(todo).cell, kids[i])]]
  BY <1>2 DEF ChildrenInOrder
<1>4. ASSUME NEW i \in 1..count
      PROVE  kids[i] \in current /\ CountOnes(ChildrenBefore(current, kids[i])) = i - 1
  <2>1. i - 1 \in Nat /\ i - 1 < CountOnes(current)
    BY <1>1, <1>4
  <2>2. \E p \in current : CountOnes(ChildrenBefore(current, p)) = i - 1
    BY <1>1, <2>1, RankedChild
  <2>3. kids[i] = CHOOSE p \in current : CountOnes(ChildrenBefore(current, p)) = i - 1
    BY <1>4
  <2> DEFINE kid == kids[i]
  <2> HIDE DEF kid
  <2>4. kid \in current /\ CountOnes(ChildrenBefore(current, kid)) = i - 1
    BY <2>2, <2>3 DEF kid
  <2> QED
    BY <2>4 DEF kid
<1> HIDE DEF kids, count
<1>5. ASSUME NEW i \in 1..count
      PROVE  /\ scannedRank[l][n] + (i - 1) \in 0..(NodeCount(l + 1) - 1)
             /\ ChildrenInOrder[i].cell = cells[l + 1][scannedRank[l][n] + (i - 1)]
             /\ ChildrenInOrder[i].level = l + 1
             /\ IsAncestor(cells[l][n], ChildrenInOrder[i].cell)
             /\ before = scannedRank[l][n] =>
                  ChildrenInOrder[i].node = scannedRank[l][n] + (i - 1)
  <2> DEFINE p == kids[i]
  <2>1. p \in scannedMask[l][n] /\ CountOnes(ChildrenBefore(current, p)) = i - 1
    BY <1>4
  <2>2. ChildrenInOrder[i] = [level |-> l + 1, node |-> ChildNode(p),
                              cell |-> Append(Head(todo).cell, p)]
    BY <1>3
  <2> HIDE DEF p
  <2>3. ChildOf(l, n, p) = scannedRank[l][n] + (i - 1)
    BY <2>1 DEF ChildOf
  <2>4. ChildOf(l, n, p) \in 0..(NodeCount(l + 1) - 1)
    BY <2>1, ChildNext
  <2>5. cells[l + 1][ChildOf(l, n, p)] = Append(cells[l][n], p)
    BY <2>1 DEF IsCells
  <2>6. before = scannedRank[l][n] => ChildNode(p) = scannedRank[l][n] + (i - 1)
    BY <2>1 DEF ChildNode
  <2>7. /\ ChildrenInOrder[i].cell = Append(cells[l][n], p)
        /\ ChildrenInOrder[i].level = l + 1
        /\ ChildrenInOrder[i].node = ChildNode(p)
    BY <2>2
  <2>8. ChildrenInOrder[i].cell = cells[l + 1][scannedRank[l][n] + (i - 1)]
    BY <2>3, <2>5, <2>7
  <2>9. scannedRank[l][n] + (i - 1) \in 0..(NodeCount(l + 1) - 1)
    BY <2>3, <2>4
  <2>10. before = scannedRank[l][n] =>
           ChildrenInOrder[i].node = scannedRank[l][n] + (i - 1)
    BY <2>6, <2>7
  <2>11. IsAncestor(cells[l][n], ChildrenInOrder[i].cell)
    <3>1. cells[l][n] \in Seq(Int)
      BY Forest, CellShape
    <3>2. p \in Int
      BY <2>1, ChildNext
    <3> QED
      BY <2>7, <3>1, <3>2, AppendedPath
  <2> QED
    BY <2>7, <2>8, <2>9, <2>10, <2>11
<1>6. DOMAIN ChildrenInOrder = 1..count
  BY <1>3
<1> QED
  BY <1>1, <1>5, <1>6 DEF count

\* Every leaf below an inner node lies below one of its children.
LEMMA ChildrenCover ==
  ASSUME Served, accepted, NEW cells, IsCells(cells),
         NEW l \in Levels, NEW n \in 0..(NodeCount(l) - 1), scannedMask[l][n] # {},
         NEW leaf \in LeavesOf(cells), IsAncestor(cells[l][n], leaf)
  PROVE  \E i \in 1..CountOnes(scannedMask[l][n]) :
           /\ scannedRank[l][n] + (i - 1) \in 0..(NodeCount(l + 1) - 1)
           /\ IsAncestor(cells[l + 1][scannedRank[l][n] + (i - 1)], leaf)
<1>1. PICK k \in 0..LevelCount : \E j \in 0..(NodeCount(k) - 1) :
        LeafNode(k, j) /\ leaf = cells[k][j]
  BY LeavesAre
<1>2. PICK j \in 0..(NodeCount(k) - 1) : LeafNode(k, j) /\ leaf = cells[k][j]
  BY <1>1
<1>3. /\ l \in Nat /\ l \in 0..LevelCount /\ l + 1 \in 0..LevelCount /\ l # LevelCount
      /\ LevelCount \in Nat
  BY Forest, LevelFacts
<1>4. /\ leaf \in Seq(Int) /\ Len(leaf) = k + 1
      /\ cells[l][n] \in Seq(Int) /\ Len(cells[l][n]) = l + 1
  BY <1>2, <1>3, CellShape
<1>5. l <= k
  BY <1>3, <1>4 DEF IsAncestor
<1>6. l # k
  <2> SUFFICES ASSUME l = k PROVE FALSE
    OBVIOUS
  <2>1. cells[l][n] = leaf
    BY <1>4, AncestorOrder
  <2>2. n = j
    BY <1>2, <1>3, <2>1, CellsDiffer
  <2> QED
    BY <1>2, <1>3, <2>2 DEF LeafNode
<1>7. k \in (l + 1)..LevelCount
  BY <1>3, <1>5, <1>6
<1>8. PICK m \in 0..(NodeCount(l + 1) - 1) : IsAncestor(cells[l + 1][m], leaf)
  BY <1>2, <1>3, <1>7, CellAncestor
<1>9. PICK a \in 0..(NodeCount(l) - 1) : \E p \in scannedMask[l][a] :
        ChildOf(l, a, p) = m /\ IsAncestor(cells[l][a], cells[l + 1][m])
  BY CellParent
<1>10. PICK p \in scannedMask[l][a] :
         ChildOf(l, a, p) = m /\ IsAncestor(cells[l][a], cells[l + 1][m])
  BY <1>9
<1>11. /\ cells[l][a] \in Seq(Int) /\ Len(cells[l][a]) = l + 1
       /\ cells[l + 1][m] \in Seq(Int)
  BY <1>3, CellShape
<1>12. IsAncestor(cells[l][a], leaf)
  BY <1>4, <1>8, <1>10, <1>11, AncestorOrder
<1>13. cells[l][a] = cells[l][n]
  <2> DEFINE x == cells[l][a]
             y == cells[l][n]
  <2>1. /\ x \in Seq(Int) /\ y \in Seq(Int) /\ leaf \in Seq(Int)
        /\ Len(x) = l + 1 /\ Len(y) = l + 1
        /\ IsAncestor(x, leaf) /\ IsAncestor(y, leaf)
    BY <1>4, <1>11, <1>12
  <2> HIDE DEF x, y
  <2>2. Len(x) <= Len(y) /\ Len(x) = Len(y)
    BY <1>3, <2>1
  <2>3. IsAncestor(x, y)
    BY <2>1, <2>2, AncestorOrder
  <2>4. x = y
    BY <2>1, <2>2, <2>3, AncestorOrder
  <2> QED
    BY <2>4 DEF x, y
<1>14. a = n
  BY <1>3, <1>13, CellsDiffer
<1>15. /\ scannedMask[l][n] \in Masks
       /\ CountOnes(ChildrenBefore(scannedMask[l][n], p)) \in Nat
       /\ CountOnes(ChildrenBefore(scannedMask[l][n], p)) < CountOnes(scannedMask[l][n])
       /\ CountOnes(scannedMask[l][n]) \in Nat
  BY <1>10, <1>14, Forest, ChildrenBeforeFewer, CountOnesNat
<1> DEFINE i == CountOnes(ChildrenBefore(scannedMask[l][n], p)) + 1
<1>16. i \in 1..CountOnes(scannedMask[l][n])
       /\ CountOnes(ChildrenBefore(scannedMask[l][n], p)) = i - 1
  BY <1>15
<1> HIDE DEF i
<1>17. scannedRank[l][n] + (i - 1) = m
  BY <1>10, <1>14, <1>16 DEF ChildOf
<1> QED
  BY <1>8, <1>16, <1>17

-----------------------------------------------------------------------------
(* A reconstruction on its way through the tree *)

\* Every node ahead carries its own cell.
Ahead(cells, nodes) ==
  \A i \in 1..Len(nodes) : nodes[i].cell = cells[nodes[i].level][nodes[i].node]

\* What is listed comes before what is ahead, both in traversal order.
InOrder(done, nodes) ==
  Sorted(done) /\ Sorted(CellSeq(nodes)) /\ AllBefore(done, CellSeq(nodes))

\* Every leaf of L is listed or lies below a node ahead, and nothing else is listed.
Covers(L, done, nodes) ==
  /\ \A i \in 1..Len(done) : done[i] \in L
  /\ \A leaf \in L :
       \/ \E i \in 1..Len(done) : done[i] = leaf
       \/ \E i \in 1..Len(nodes) : IsAncestor(nodes[i].cell, leaf)

Progress(cells, done, nodes) ==
  /\ done \in Paths /\ nodes \in Seq(Visits)
  /\ Ahead(cells, nodes) /\ InOrder(done, nodes)
  /\ Covers(LeavesOf(cells), done, nodes)

LEMMA VisitPath ==
  ASSUME NEW v \in Visits
  PROVE  /\ v.cell \in Seq(Nat) /\ v.cell \in Seq(Int)
         /\ v.level \in Levels /\ v.node \in Nat /\ v.node < Nodes(v.level)
<1>1. /\ v.cell \in Seq(Nat) /\ v.level \in Levels /\ v.node \in Nat
      /\ v.node < Nodes(v.level)
  BY DEF Visits
<1>2. v.cell \in Seq(Int)
  BY <1>1
<1> QED
  BY <1>1, <1>2

\* The nodes behind the first one.
LEMMA BehindHead ==
  ASSUME NEW nodes \in Seq(Visits), nodes # <<>>
  PROVE  /\ Head(nodes) \in Visits /\ Head(nodes) = nodes[1] /\ 1 \in 1..Len(nodes)
         /\ Tail(nodes) \in Seq(Visits)
         /\ Len(nodes) \in Nat /\ Len(Tail(nodes)) \in Nat /\ Len(Tail(nodes)) + 1 = Len(nodes)
         /\ \A i \in 1..Len(Tail(nodes)) :
              i + 1 \in 1..Len(nodes) /\ Tail(nodes)[i] = nodes[i + 1]
<1>1. /\ Head(nodes) \in Visits /\ Tail(nodes) \in Seq(Visits)
      /\ Len(Tail(nodes)) = Len(nodes) - 1
      /\ \A i \in 1..Len(Tail(nodes)) : Tail(nodes)[i] = nodes[i + 1]
  BY HeadTailProperties
<1>2. Len(nodes) \in Nat \ {0}
  BY EmptySeq
<1>3. Head(nodes) = nodes[1]
  OBVIOUS
<1> QED
  BY <1>1, <1>2, <1>3

LEMMA VisitCells ==
  ASSUME NEW nodes \in Seq(Visits)
  PROVE  /\ CellSeq(nodes) \in Paths /\ Len(CellSeq(nodes)) = Len(nodes) /\ Len(nodes) \in Nat
         /\ \A i \in 1..Len(nodes) :
              /\ nodes[i] \in Visits /\ CellSeq(nodes)[i] = nodes[i].cell
              /\ nodes[i].cell \in Seq(Int)
<1>1. \A v \in Visits : v.cell \in Seq(Nat) /\ v.cell \in Seq(Int)
  BY VisitPath
<1>2. /\ CellSeq(nodes) \in Paths /\ Len(CellSeq(nodes)) = Len(nodes) /\ Len(nodes) \in Nat
      /\ \A i \in 1..Len(nodes) : CellSeq(nodes)[i] = nodes[i].cell
  BY <1>1, CellSeqPaths
<1>3. \A i \in 1..Len(nodes) : nodes[i] \in Visits
  BY ElementOfSeq
<1> QED
  BY <1>1, <1>2, <1>3

\* Cells below the first node ahead keep its place in the order.
LEMMA BelowHead ==
  ASSUME NEW done \in Paths, NEW nodes \in Seq(Visits), nodes # <<>>,
         InOrder(done, nodes), NEW new \in Paths, Sorted(new),
         \A i \in 1..Len(new) : IsAncestor(Head(nodes).cell, new[i])
  PROVE  /\ AllBefore(done, new) /\ AllBefore(new, CellSeq(Tail(nodes)))
         /\ AllBefore(done, CellSeq(Tail(nodes))) /\ Sorted(CellSeq(Tail(nodes)))
<1> DEFINE head == Head(nodes).cell
           rest == CellSeq(Tail(nodes))
           all == CellSeq(nodes)
<1>1. /\ head \in Seq(Int) /\ 1 \in 1..Len(all) /\ all[1] = head
      /\ Len(all) \in Nat
  BY BehindHead, VisitCells
<1>2. \A i \in 1..Len(rest) : i + 1 \in 1..Len(all) /\ rest[i] = all[i + 1] /\ rest[i] \in Seq(Int)
  <2> DEFINE behind == Tail(nodes)
  <2>1. /\ behind \in Seq(Visits)
        /\ \A i \in 1..Len(behind) : i + 1 \in 1..Len(nodes) /\ behind[i] = nodes[i + 1]
    BY BehindHead
  <2>2. /\ Len(CellSeq(behind)) = Len(behind)
        /\ \A i \in 1..Len(behind) :
             CellSeq(behind)[i] = behind[i].cell /\ behind[i].cell \in Seq(Int)
    BY <2>1, VisitCells
  <2>3. /\ Len(all) = Len(nodes)
        /\ \A i \in 1..Len(nodes) : all[i] = nodes[i].cell
    BY VisitCells
  <2> HIDE DEF behind, all
  <2> QED
    BY <2>1, <2>2, <2>3 DEF behind
<1>3. \A i \in 1..Len(done) : done[i] \in Seq(Int)
  BY ElementOfSeq DEF Paths
<1>4. \A i \in 1..Len(new) : new[i] \in Seq(Int)
  BY ElementOfSeq DEF Paths
<1>5. Sorted(all) /\ AllBefore(done, all)
  BY DEF InOrder
<1>6. Len(rest) \in Nat /\ Len(done) \in Nat /\ Len(new) \in Nat
  BY BehindHead, VisitCells DEF Paths
<1>7. \A i \in 1..Len(new) : IsAncestor(head, new[i])
  OBVIOUS
<1> HIDE DEF head, rest, all
<1>8. AllBefore(done, new)
  <2>1. ASSUME NEW i \in 1..Len(done), NEW j \in 1..Len(new)
        PROVE  Precedes(done[i], new[j])
    <3>1. Precedes(done[i], head)
      BY <1>1, <1>5 DEF AllBefore
    <3> QED
      BY <1>1, <1>3, <1>4, <1>7, <3>1, PrecedesOrder
  <2> QED
    BY <2>1 DEF AllBefore
<1>9. AllBefore(new, rest)
  <2>1. ASSUME NEW i \in 1..Len(new), NEW j \in 1..Len(rest)
        PROVE  Precedes(new[i], rest[j])
    <3>1. Precedes(all[1], all[j + 1])
      <4>1. j + 1 \in 1..Len(all) /\ 1 < j + 1
        BY <1>2, <1>6
      <4> QED
        BY <1>1, <1>5, <4>1 DEF Sorted
    <3>2. Precedes(head, rest[j])
      BY <1>1, <1>2, <3>1
    <3> QED
      BY <1>1, <1>2, <1>4, <1>7, <3>2, PrecedesOrder
  <2> QED
    BY <2>1 DEF AllBefore
<1>10. AllBefore(done, rest)
  BY <1>2, <1>5 DEF AllBefore
<1>11. Sorted(rest)
  <2>1. ASSUME NEW i \in 1..Len(rest), NEW j \in 1..Len(rest), i < j
        PROVE  Precedes(rest[i], rest[j])
    <3>1. i + 1 \in 1..Len(all) /\ j + 1 \in 1..Len(all)
      BY <1>2
    <3>2. i + 1 < j + 1
      BY <1>6, <2>1
    <3> QED
      BY <1>2, <1>5, <3>1, <3>2 DEF Sorted
  <2> QED
    BY <2>1 DEF Sorted
<1> QED
  BY <1>8, <1>9, <1>10, <1>11 DEF rest

\* A node ahead is either the first one or one of those behind it.
LEMMA FirstOrBehind ==
  ASSUME NEW nodes \in Seq(Visits), nodes # <<>>, NEW i \in 1..Len(nodes)
  PROVE  nodes[i] = Head(nodes) \/ \E j \in 1..Len(Tail(nodes)) : nodes[i] = Tail(nodes)[j]
<1>1. CASE i = 1
  BY <1>1, BehindHead
<1>2. CASE i # 1
  <2>1. i - 1 \in 1..Len(Tail(nodes)) /\ (i - 1) + 1 = i
    BY <1>2, BehindHead
  <2>2. Tail(nodes)[i - 1] = nodes[i]
    BY <2>1, BehindHead
  <2> QED
    BY <2>1, <2>2
<1> QED
  BY <1>1, <1>2

\* The first node ahead gives way to its children.
LEMMA HeadExpanded ==
  ASSUME NEW cells, NEW done, NEW nodes, Progress(cells, done, nodes), nodes # <<>>,
         NEW kids \in Seq(Visits), Ahead(cells, kids), Sorted(CellSeq(kids)),
         \A i \in 1..Len(kids) : IsAncestor(Head(nodes).cell, kids[i].cell),
         \A leaf \in LeavesOf(cells) : IsAncestor(Head(nodes).cell, leaf) =>
           \E i \in 1..Len(kids) : IsAncestor(kids[i].cell, leaf)
  PROVE  Progress(cells, done, kids \o Tail(nodes))
<1> DEFINE rest == Tail(nodes)
           ahead == kids \o rest
<1>1. /\ done \in Paths /\ nodes \in Seq(Visits)
      /\ Ahead(cells, nodes) /\ InOrder(done, nodes)
      /\ Covers(LeavesOf(cells), done, nodes)
  BY DEF Progress
<1>2. rest \in Seq(Visits) /\ \A i \in 1..Len(rest) : i + 1 \in 1..Len(nodes) /\ rest[i] = nodes[i + 1]
  BY <1>1, BehindHead
<1>3. /\ ahead \in Seq(Visits)
      /\ \A i \in 1..Len(kids) : i \in 1..Len(ahead) /\ ahead[i] = kids[i]
      /\ \A j \in 1..Len(rest) : Len(kids) + j \in 1..Len(ahead) /\ ahead[Len(kids) + j] = rest[j]
      /\ \A k \in 1..Len(ahead) : k \in 1..Len(kids) \/ \E j \in 1..Len(rest) : k = Len(kids) + j
  <2> HIDE DEF rest
  <2> QED
    BY <1>2, Joined
<1>4. /\ CellSeq(kids) \in Paths /\ CellSeq(rest) \in Paths
      /\ CellSeq(ahead) = CellSeq(kids) \o CellSeq(rest)
  <2>1. /\ CellSeq(kids) \in Paths /\ Len(CellSeq(kids)) = Len(kids) /\ Len(kids) \in Nat
        /\ \A i \in 1..Len(kids) : CellSeq(kids)[i] = kids[i].cell
    BY VisitCells
  <2>2. /\ CellSeq(rest) \in Paths /\ Len(CellSeq(rest)) = Len(rest) /\ Len(rest) \in Nat
        /\ \A i \in 1..Len(rest) : CellSeq(rest)[i] = rest[i].cell
    BY <1>2, VisitCells
  <2>3. /\ CellSeq(ahead) \in Paths /\ Len(CellSeq(ahead)) = Len(ahead) /\ Len(ahead) \in Nat
        /\ \A i \in 1..Len(ahead) : CellSeq(ahead)[i] = ahead[i].cell
    BY <1>3, VisitCells
  <2>4. Len(ahead) = Len(kids) + Len(rest)
    BY <1>2, ConcatProperties
  <2> DEFINE first == CellSeq(kids)
             last == CellSeq(rest)
             both == CellSeq(ahead)
  <2> HIDE DEF rest, ahead, first, last, both
  <2>5. /\ first \o last \in Paths /\ Len(first \o last) = Len(first) + Len(last)
        /\ \A i \in 1..Len(first) : (first \o last)[i] = first[i]
        /\ \A j \in 1..Len(last) : (first \o last)[Len(first) + j] = last[j]
    <3>1. first \in Seq(Seq(Int)) /\ last \in Seq(Seq(Int))
      BY <2>1, <2>2 DEF Paths, first, last
    <3> QED
      BY <3>1, Joined DEF Paths
  <2>6. /\ Len(first) = Len(kids) /\ Len(last) = Len(rest) /\ Len(both) = Len(ahead)
        /\ \A i \in 1..Len(kids) : first[i] = kids[i].cell
        /\ \A i \in 1..Len(rest) : last[i] = rest[i].cell
        /\ \A i \in 1..Len(ahead) : both[i] = ahead[i].cell
    BY <2>1, <2>2, <2>3 DEF first, last, both
  <2>7. ASSUME NEW i \in 1..Len(both) PROVE both[i] = (first \o last)[i]
    <3>1. CASE i \in 1..Len(kids)
      BY <1>3, <2>5, <2>6, <3>1
    <3>2. CASE i \notin 1..Len(kids)
      <4>1. PICK j \in 1..Len(rest) : i = Len(kids) + j
        BY <1>3, <2>6, <3>2
      <4>2. both[i] = rest[j].cell
        BY <1>3, <2>6, <4>1
      <4> QED
        BY <2>5, <2>6, <4>1, <4>2
    <3> QED
      BY <3>1, <3>2
  <2>8. both = first \o last
    <3>1. Len(both) = Len(first \o last) /\ both \in Seq(Seq(Int)) /\ first \o last \in Seq(Seq(Int))
      BY <2>3, <2>4, <2>5, <2>6 DEF Paths, both
    <3> QED
      BY <2>7, <3>1, SeqEqual
  <2> QED
    BY <2>1, <2>2, <2>8 DEF first, last, both
<1>5. Ahead(cells, ahead)
  <2>1. ASSUME NEW k \in 1..Len(ahead)
        PROVE  ahead[k].cell = cells[ahead[k].level][ahead[k].node]
    <3>1. CASE k \in 1..Len(kids)
      <4>1. ahead[k] = kids[k]
        BY <1>3, <3>1
      <4> QED
        BY <3>1, <4>1 DEF Ahead
    <3>2. CASE k \notin 1..Len(kids)
      <4>1. PICK j \in 1..Len(rest) : k = Len(kids) + j
        BY <1>3, <3>2
      <4>2. j + 1 \in 1..Len(nodes) /\ ahead[k] = nodes[j + 1]
        BY <1>2, <1>3, <4>1
      <4> QED
        BY <1>1, <4>2 DEF Ahead
    <3> QED
      BY <3>1, <3>2
  <2> QED
    BY <2>1 DEF Ahead
<1>6. InOrder(done, ahead)
  <2>1. \A i \in 1..Len(CellSeq(kids)) : IsAncestor(Head(nodes).cell, CellSeq(kids)[i])
    BY VisitCells
  <2>2. /\ AllBefore(done, CellSeq(kids)) /\ AllBefore(CellSeq(kids), CellSeq(rest))
        /\ AllBefore(done, CellSeq(rest)) /\ Sorted(CellSeq(rest))
    BY <1>1, <1>4, <2>1, BelowHead
  <2>3. Sorted(CellSeq(ahead)) /\ AllBefore(done, CellSeq(ahead))
    <3> HIDE DEF ahead, rest
    <3> QED
      BY <1>1, <1>4, <2>2, JoinedSorted, JoinedBefore
  <2> QED
    BY <1>1, <2>3 DEF InOrder
<1>7. Covers(LeavesOf(cells), done, ahead)
  <2>1. ASSUME NEW leaf \in LeavesOf(cells), ~ \E i \in 1..Len(done) : done[i] = leaf
        PROVE  \E i \in 1..Len(ahead) : IsAncestor(ahead[i].cell, leaf)
    <3>1. PICK i \in 1..Len(nodes) : IsAncestor(nodes[i].cell, leaf)
      BY <1>1, <2>1 DEF Covers
    <3>2. CASE nodes[i] = Head(nodes)
      <4>1. PICK j \in 1..Len(kids) : IsAncestor(kids[j].cell, leaf)
        BY <3>1, <3>2
      <4> HIDE DEF ahead
      <4> QED
        BY <1>3, <4>1
    <3>3. CASE \E j \in 1..Len(rest) : nodes[i] = rest[j]
      <4>1. PICK j \in 1..Len(rest) : nodes[i] = rest[j]
        BY <3>3
      <4> HIDE DEF ahead
      <4> QED
        BY <1>3, <3>1, <4>1
    <3> QED
      BY <1>1, <3>2, <3>3, FirstOrBehind
  <2> QED
    BY <1>1, <2>1 DEF Covers
<1> HIDE DEF ahead
<1>8. Progress(cells, done, ahead)
  BY <1>1, <1>3, <1>5, <1>6, <1>7 DEF Progress
<1> QED
  BY <1>8 DEF ahead

\* The first node ahead gives way to the leaves below it.
LEMMA HeadListed ==
  ASSUME NEW cells, NEW done, NEW nodes, Progress(cells, done, nodes), nodes # <<>>,
         NEW new \in Paths, Sorted(new),
         \A i \in 1..Len(new) : new[i] \in LeavesOf(cells) /\ IsAncestor(Head(nodes).cell, new[i]),
         \A leaf \in LeavesOf(cells) : IsAncestor(Head(nodes).cell, leaf) =>
           \E i \in 1..Len(new) : new[i] = leaf
  PROVE  Progress(cells, done \o new, Tail(nodes))
<1> DEFINE rest == Tail(nodes)
           all == done \o new
<1>1. /\ done \in Paths /\ nodes \in Seq(Visits)
      /\ Ahead(cells, nodes) /\ InOrder(done, nodes)
      /\ Covers(LeavesOf(cells), done, nodes)
  BY DEF Progress
<1>2. rest \in Seq(Visits) /\ \A i \in 1..Len(rest) : i + 1 \in 1..Len(nodes) /\ rest[i] = nodes[i + 1]
  BY <1>1, BehindHead
<1>3. /\ all \in Paths
      /\ \A i \in 1..Len(done) : i \in 1..Len(all) /\ all[i] = done[i]
      /\ \A j \in 1..Len(new) : Len(done) + j \in 1..Len(all) /\ all[Len(done) + j] = new[j]
      /\ \A k \in 1..Len(all) : k \in 1..Len(done) \/ \E j \in 1..Len(new) : k = Len(done) + j
  BY <1>1, Joined DEF Paths
<1>4. Ahead(cells, rest)
  BY <1>1, <1>2 DEF Ahead
<1>5. /\ AllBefore(done, new) /\ AllBefore(new, CellSeq(rest))
      /\ AllBefore(done, CellSeq(rest)) /\ Sorted(CellSeq(rest))
  BY <1>1, BelowHead
<1>6. InOrder(all, rest)
  <2>1. CellSeq(rest) \in Paths /\ Sorted(done)
    BY <1>1, <1>2, VisitCells DEF InOrder
  <2>2. Sorted(all) /\ AllBefore(all, CellSeq(rest))
    BY <1>1, <1>5, <2>1, JoinedSorted, JoinedBefore
  <2> QED
    BY <1>5, <2>2 DEF InOrder
<1>7. Covers(LeavesOf(cells), all, rest)
  <2> HIDE DEF all
  <2>1. ASSUME NEW k \in 1..Len(all) PROVE all[k] \in LeavesOf(cells)
    <3>1. CASE k \in 1..Len(done)
      BY <1>1, <1>3, <3>1 DEF Covers
    <3>2. CASE k \notin 1..Len(done)
      <4>1. PICK j \in 1..Len(new) : k = Len(done) + j
        BY <1>3, <3>2
      <4> QED
        BY <1>3, <4>1
    <3> QED
      BY <3>1, <3>2
  <2>2. ASSUME NEW leaf \in LeavesOf(cells)
        PROVE  \/ \E k \in 1..Len(all) : all[k] = leaf
               \/ \E j \in 1..Len(rest) : IsAncestor(rest[j].cell, leaf)
    <3>1. CASE \E i \in 1..Len(done) : done[i] = leaf
      BY <1>3, <3>1
    <3>2. CASE \E i \in 1..Len(nodes) : IsAncestor(nodes[i].cell, leaf)
      <4>1. PICK i \in 1..Len(nodes) : IsAncestor(nodes[i].cell, leaf)
        BY <3>2
      <4>2. CASE nodes[i] = Head(nodes)
        <5>1. PICK j \in 1..Len(new) : new[j] = leaf
          BY <4>1, <4>2
        <5> QED
          BY <1>3, <5>1
      <4>3. CASE \E j \in 1..Len(rest) : nodes[i] = rest[j]
        BY <4>1, <4>3
      <4> QED
        BY <1>1, <4>2, <4>3, FirstOrBehind
    <3> QED
      BY <1>1, <3>1, <3>2 DEF Covers
  <2> QED
    BY <2>1, <2>2 DEF Covers
<1> HIDE DEF all
<1>8. Progress(cells, all, rest)
  BY <1>2, <1>3, <1>4, <1>6, <1>7 DEF Progress
<1> QED
  BY <1>8 DEF all

\* When nothing is ahead, the leaves are all listed.
LEMMA AllListed ==
  ASSUME NEW cells, NEW done, Progress(cells, done, <<>>)
  PROVE  Listing(LeavesOf(cells), done)
<1>1. done \in Paths /\ InOrder(done, <<>>) /\ Covers(LeavesOf(cells), done, <<>>)
  BY DEF Progress
<1>2. DOMAIN done = 1..Len(done)
  BY <1>1, LenProperties DEF Paths
<1>3. 1..Len(<<>>) = {}
  OBVIOUS
<1>4. {done[i] : i \in 1..Len(done)} = LeavesOf(cells)
  BY <1>1, <1>3 DEF Covers
<1>5. \A i, j \in 1..Len(done) : i < j => Precedes(done[i], done[j])
  BY <1>1 DEF InOrder, Sorted
<1> QED
  BY <1>2, <1>4, <1>5 DEF Listing

-----------------------------------------------------------------------------
(* The steps of a reconstruction *)

\* The node being read is the first one ahead.
ListPath(cells) ==
  task = "reconstruct" =>
    /\ Progress(cells, leaves, todo)
    /\ step # "idle" => call.node = Head(todo).node

\* Only a reconstruction lists leaves.
Cleared == task \in {"idle", "query", "answered"} => leaves = <<>>

\* It begins with the faces ahead.
LEMMA RootsAhead ==
  ASSUME Served, accepted, NEW cells, IsCells(cells), Roots \in Seq(Visits)
  PROVE  Progress(cells, <<>>, Roots)
<1>1. Len(Roots) = RootFaceCount /\ RootFaceCount \in Nat
  BY FormatAssumption DEF Roots
<1>2. ASSUME NEW f \in 1..RootFaceCount
      PROVE  /\ Roots[f].level = 0 /\ Roots[f].node = f - 1 /\ Roots[f].cell = <<f - 1>>
             /\ f - 1 \in 0..(RootFaceCount - 1)
             /\ Roots[f].cell = cells[0][f - 1]
  <2>1. Roots[f] = [level |-> 0, node |-> f - 1, cell |-> <<f - 1>>]
    BY DEF Roots
  <2>2. f - 1 \in 0..(RootFaceCount - 1)
    BY <1>1
  <2>3. cells[0][f - 1] = <<f - 1>>
    BY <2>2 DEF IsCells
  <2> QED
    BY <2>1, <2>2, <2>3
<1> HIDE DEF Roots
<1>3. Ahead(cells, Roots)
  BY <1>1, <1>2 DEF Ahead
<1>4. 0 \in 0..LevelCount /\ NodeCount(0) = RootFaceCount /\ LevelCount \in Nat
  BY Forest, LevelFacts
<1>5. /\ Len(CellSeq(Roots)) = RootFaceCount
      /\ \A f \in 1..RootFaceCount : CellSeq(Roots)[f] = cells[0][f - 1]
  BY <1>1, <1>2, VisitCells
<1>6. Sorted(CellSeq(Roots))
  <2>1. ASSUME NEW f \in 1..RootFaceCount, NEW g \in 1..RootFaceCount, f < g
        PROVE  Precedes(CellSeq(Roots)[f], CellSeq(Roots)[g])
    <3>1. f - 1 \in 0..(NodeCount(0) - 1) /\ g - 1 \in 0..(NodeCount(0) - 1) /\ f - 1 < g - 1
      BY <1>1, <1>4, <2>1
    <3>2. CellsSorted(cells, 0)
      BY <1>4, LevelsSorted
    <3>3. Precedes(cells[0][f - 1], cells[0][g - 1])
      BY <3>1, <3>2 DEF CellsSorted
    <3> QED
      BY <1>5, <3>3
  <2> QED
    BY <1>5, <2>1 DEF Sorted
<1>7. 1..Len(<<>>) = {} /\ <<>> \in Paths
  BY DEF Paths
<1>8. InOrder(<<>>, Roots)
  BY <1>6, <1>7 DEF InOrder, Sorted, AllBefore
<1>9. ASSUME NEW leaf \in LeavesOf(cells)
      PROVE  \E f \in 1..Len(Roots) : IsAncestor(Roots[f].cell, leaf)
  <2>1. PICK l \in 0..LevelCount : \E i \in 0..(NodeCount(l) - 1) :
          LeafNode(l, i) /\ leaf = cells[l][i]
    BY LeavesAre
  <2>2. PICK i \in 0..(NodeCount(l) - 1) : leaf = cells[l][i]
    BY <2>1
  <2>3. PICK j \in 0..(NodeCount(0) - 1) : IsAncestor(cells[0][j], leaf)
    BY <1>4, <2>2, CellAncestor
  <2>4. j + 1 \in 1..RootFaceCount /\ (j + 1) - 1 = j
    BY <1>1, <1>4
  <2>5. Roots[j + 1].cell = cells[0][j]
    BY <1>2, <2>4
  <2> QED
    BY <1>1, <2>3, <2>4, <2>5
<1>10. Covers(LeavesOf(cells), <<>>, Roots)
  BY <1>7, <1>9 DEF Covers
<1> QED
  BY <1>3, <1>7, <1>8, <1>10 DEF Progress

\* A leaf lies below no other one.
LEMMA LeafAlone ==
  ASSUME Served, accepted, NEW cells, IsCells(cells),
         NEW a \in LeavesOf(cells), NEW b \in LeavesOf(cells), IsAncestor(a, b)
  PROVE  a = b
BY LeavesProper DEF IsLeafSet

\* What a reconstruction knows of the node it has read.
LEMMA NodeToExpand ==
  ASSUME Served, Walking, NEW cells, IsCells(cells), ListPath(cells), ExpandNode
  PROVE  /\ accepted /\ call.level \in Levels /\ call.node \in 0..(NodeCount(call.level) - 1)
         /\ current = scannedMask[call.level][call.node]
         /\ ~FinalLevel(call.level) => before = scannedRank[call.level][call.node]
         /\ todo # <<>> /\ Head(todo).cell = cells[call.level][call.node]
         /\ Progress(cells, leaves, todo)
<1>1. task = "reconstruct" /\ step = "return"
  BY DEF ExpandNode
<1>2. /\ accepted /\ call.level \in Levels /\ call.node \in Nat
      /\ call.node < Nodes(call.level) /\ Nodes(call.level) \in Nat
      /\ current = scannedMask[call.level][call.node]
  BY <1>1, CallFacts DEF Walking, Returned
<1>3. call.node \in 0..(NodeCount(call.level) - 1)
  BY <1>2, Forest
<1>4. /\ todo # <<>> /\ call.level = Head(todo).level
      /\ call.rank = ~FinalLevel(call.level)
  BY <1>1 DEF Walking, ListWalk
<1>5. ~FinalLevel(call.level) => before = scannedRank[call.level][call.node]
  BY <1>1, <1>4 DEF Walking, Returned, Ranked
<1>6. Progress(cells, leaves, todo) /\ call.node = Head(todo).node
  BY <1>1 DEF ListPath
<1>7. Head(todo).cell = cells[Head(todo).level][Head(todo).node]
  <2>1. todo \in Seq(Visits) /\ Ahead(cells, todo)
    BY <1>6 DEF Progress
  <2>2. Head(todo) = todo[1] /\ 1 \in 1..Len(todo)
    BY <1>4, <2>1, BehindHead
  <2> QED
    BY <2>1, <2>2 DEF Ahead
<1> QED
  BY <1>2, <1>3, <1>4, <1>5, <1>6, <1>7

\* The cells of the children are in order, below the node, and above its leaves.
LEMMA ChildCells ==
  ASSUME Served, Walking, NEW cells, IsCells(cells), ListPath(cells), ExpandNode,
         current # {}
  PROVE  /\ CountOnes(current) \in Nat
         /\ DOMAIN ChildrenInOrder = 1..CountOnes(current)
         /\ \A i \in 1..CountOnes(current) :
              /\ ChildrenInOrder[i].cell \in Seq(Int)
              /\ IsAncestor(Head(todo).cell, ChildrenInOrder[i].cell)
              /\ \E j \in 0..(NodeCount(call.level + 1) - 1) :
                   ChildrenInOrder[i].cell = cells[call.level + 1][j]
              /\ ~FinalLevel(call.level) =>
                   ChildrenInOrder[i].cell
                     = cells[ChildrenInOrder[i].level][ChildrenInOrder[i].node]
         /\ \A i, k \in 1..CountOnes(current) :
              i < k => Precedes(ChildrenInOrder[i].cell, ChildrenInOrder[k].cell)
         /\ \A leaf \in LeavesOf(cells) : IsAncestor(Head(todo).cell, leaf) =>
              \E i \in 1..CountOnes(current) : IsAncestor(ChildrenInOrder[i].cell, leaf)
<1> DEFINE l == call.level
           n == call.node
           kids == ChildrenInOrder
           count == CountOnes(current)
           first == scannedRank[l][n]
<1>1. /\ accepted /\ l \in Levels /\ n \in 0..(NodeCount(l) - 1)
      /\ current = scannedMask[l][n]
      /\ ~FinalLevel(l) => before = first
      /\ todo # <<>> /\ Head(todo).cell = cells[l][n]
  BY NodeToExpand
<1>2. /\ count \in Nat /\ DOMAIN kids = 1..count
      /\ \A i \in 1..count :
           /\ first + (i - 1) \in 0..(NodeCount(l + 1) - 1)
           /\ kids[i].cell = cells[l + 1][first + (i - 1)]
           /\ kids[i].level = l + 1
           /\ IsAncestor(cells[l][n], kids[i].cell)
           /\ before = first => kids[i].node = first + (i - 1)
  BY <1>1, ChildListed
<1>3. l + 1 \in 0..LevelCount /\ first \in Nat
  BY <1>1, Forest
<1>4. \A j \in 0..(NodeCount(l + 1) - 1) : cells[l + 1][j] \in Seq(Int)
  BY <1>1, <1>3, CellShape
<1>5. CellsSorted(cells, l + 1)
  BY <1>1, <1>3, LevelsSorted
<1>6. ASSUME NEW leaf \in LeavesOf(cells), IsAncestor(Head(todo).cell, leaf)
      PROVE  \E i \in 1..count : IsAncestor(kids[i].cell, leaf)
  <2>1. PICK i \in 1..CountOnes(scannedMask[l][n]) :
          IsAncestor(cells[l + 1][scannedRank[l][n] + (i - 1)], leaf)
    BY <1>1, <1>6, ChildrenCover
  <2>2. i \in 1..count
    BY <1>1
  <2> HIDE DEF count, kids, l, n
  <2> QED
    BY <1>2, <2>1, <2>2
<1> HIDE DEF kids, count, l, n, first
<1>7. ASSUME NEW i \in 1..count, NEW k \in 1..count, i < k
      PROVE  Precedes(kids[i].cell, kids[k].cell)
  <2>1. /\ first + (i - 1) \in 0..(NodeCount(l + 1) - 1)
        /\ first + (k - 1) \in 0..(NodeCount(l + 1) - 1)
        /\ kids[i].cell = cells[l + 1][first + (i - 1)]
        /\ kids[k].cell = cells[l + 1][first + (k - 1)]
    BY <1>2
  <2>2. first + (i - 1) < first + (k - 1)
    BY <1>2, <1>3, <1>7
  <2> QED
    BY <1>5, <2>1, <2>2 DEF CellsSorted
<1>8. ASSUME NEW i \in 1..count
      PROVE  /\ kids[i].cell \in Seq(Int) /\ IsAncestor(Head(todo).cell, kids[i].cell)
             /\ \E j \in 0..(NodeCount(l + 1) - 1) : kids[i].cell = cells[l + 1][j]
             /\ ~FinalLevel(l) => kids[i].cell = cells[kids[i].level][kids[i].node]
  BY <1>1, <1>2, <1>4
<1>9. /\ \A i \in 1..count :
           /\ kids[i].cell \in Seq(Int) /\ IsAncestor(Head(todo).cell, kids[i].cell)
           /\ \E j \in 0..(NodeCount(l + 1) - 1) : kids[i].cell = cells[l + 1][j]
           /\ ~FinalLevel(l) => kids[i].cell = cells[kids[i].level][kids[i].node]
      /\ \A i, k \in 1..count : i < k => Precedes(kids[i].cell, kids[k].cell)
  BY <1>7, <1>8
<1> QED
  BY <1>2, <1>6, <1>9 DEF kids, count, l

\* Whichever way a node is expanded, the reconstruction goes on from its children.
LEMMA ExpandNodeLists ==
  ASSUME Served, Walking, NEW cells, IsCells(cells), ListPath(cells), ExpandNode
  PROVE  Progress(cells, leaves', todo')
<1> DEFINE l == call.level
           head == Head(todo).cell
           kids == ChildrenInOrder
           count == CountOnes(current)
           L == LeavesOf(cells)
<1>1. /\ accepted /\ l \in Levels /\ call.node \in 0..(NodeCount(l) - 1)
      /\ current = scannedMask[l][call.node]
      /\ todo # <<>> /\ head = cells[l][call.node]
      /\ Progress(cells, leaves, todo)
  BY NodeToExpand
<1>2. l + 1 \in 0..LevelCount /\ l \in 0..LevelCount
  BY <1>1, Forest
<1>3. head \in Seq(Int) /\ leaves \in Paths /\ todo \in Seq(Visits)
  BY <1>1, <1>2, CellShape DEF Progress
<1>4. CASE current = {} /\ leaves' = Append(leaves, head) /\ todo' = Tail(todo)
  <2> DEFINE new == <<head>>
  <2>1. new \in Paths /\ Len(new) = 1 /\ new[1] = head
    BY <1>3 DEF Paths
  <2>2. leaves' = leaves \o new
    BY <1>3, <1>4, AppendIsConcat DEF Paths
  <2>3. head \in L
    BY <1>1, <1>2, <1>4, LeavesAre DEF LeafNode
  <2>4. IsAncestor(head, head)
    BY <1>3, AncestorOrder
  <2>5. \A leaf \in L : IsAncestor(head, leaf) => leaf = head
    BY <1>1, <2>3, LeafAlone
  <2> HIDE DEF new, L, head
  <2>6. Sorted(new)
    BY <2>1 DEF Sorted
  <2>7. /\ \A i \in 1..Len(new) : new[i] \in L /\ IsAncestor(head, new[i])
        /\ \A leaf \in L : IsAncestor(head, leaf) => \E i \in 1..Len(new) : new[i] = leaf
    BY <2>1, <2>3, <2>4, <2>5
  <2>8. Progress(cells, leaves \o new, Tail(todo))
    BY <1>1, <2>1, <2>6, <2>7, HeadListed DEF head, L
  <2> QED
    BY <1>4, <2>2, <2>8
<1>5. CASE current # {} /\ ~FinalLevel(l) /\ todo' = DepthFirst(kids) /\ leaves' = leaves
  <2>1. kids \in Seq(Visits)
    BY <1>5, ChildrenVisitable DEF ExpandNode
  <2>2. /\ count \in Nat /\ DOMAIN kids = 1..count
        /\ \A i \in 1..count :
             /\ IsAncestor(head, kids[i].cell)
             /\ kids[i].cell = cells[kids[i].level][kids[i].node]
        /\ \A i, k \in 1..count : i < k => Precedes(kids[i].cell, kids[k].cell)
        /\ \A leaf \in L : IsAncestor(head, leaf) =>
             \E i \in 1..count : IsAncestor(kids[i].cell, leaf)
    BY <1>5, ChildCells
  <2> HIDE DEF kids, count, L, head
  <2>3. Len(kids) = count
    BY <2>1, <2>2, LenProperties
  <2>4. Sorted(CellSeq(kids))
    <3>1. /\ Len(CellSeq(kids)) = count
          /\ \A i \in 1..count : CellSeq(kids)[i] = kids[i].cell
      BY <2>1, <2>3, VisitCells
    <3> QED
      BY <2>2, <3>1 DEF Sorted
  <2>5. Ahead(cells, kids)
    BY <2>2, <2>3 DEF Ahead
  <2>6. Progress(cells, leaves, kids \o Tail(todo))
    BY <1>1, <2>1, <2>2, <2>3, <2>4, <2>5, HeadExpanded DEF head, L
  <2> QED
    BY <1>5, <2>6 DEF DepthFirst
<1>6. CASE /\ current # {} /\ FinalLevel(l)
           /\ leaves' = leaves \o [i \in DOMAIN kids |-> kids[i].cell]
           /\ todo' = Tail(todo)
  <2>1. /\ count \in Nat /\ DOMAIN kids = 1..count
        /\ \A i \in 1..count :
             /\ kids[i].cell \in Seq(Int) /\ IsAncestor(head, kids[i].cell)
             /\ \E j \in 0..(NodeCount(l + 1) - 1) : kids[i].cell = cells[l + 1][j]
        /\ \A i, k \in 1..count : i < k => Precedes(kids[i].cell, kids[k].cell)
        /\ \A leaf \in L : IsAncestor(head, leaf) =>
             \E i \in 1..count : IsAncestor(kids[i].cell, leaf)
    BY <1>6, ChildCells
  <2>2. l + 1 = LevelCount
    BY <1>6 DEF FinalLevel
  <2>3. \A i \in 1..count : kids[i].cell \in L
    <3>1. ASSUME NEW i \in 1..count PROVE kids[i].cell \in L
      <4>1. PICK j \in 0..(NodeCount(l + 1) - 1) : kids[i].cell = cells[l + 1][j]
        BY <2>1
      <4>2. LeafNode(l + 1, j)
        BY <2>2 DEF LeafNode
      <4> QED
        BY <1>1, <1>2, <4>1, <4>2, LeavesAre
    <3> QED
      BY <3>1
  <2> DEFINE new == [i \in DOMAIN kids |-> kids[i].cell]
  <2> HIDE DEF kids, count, L, head
  <2>4. new \in [1..count -> Seq(Int)] /\ \A i \in 1..count : new[i] = kids[i].cell
    BY <2>1
  <2> HIDE DEF new
  <2>5. new \in Paths /\ Len(new) = count
    <3>1. new \in Seq(Seq(Int)) /\ DOMAIN new = 1..count
      BY <2>1, <2>4, FunctionIsSequence
    <3>2. Len(new) = count
      BY <2>1, <3>1, LenProperties
    <3> QED
      BY <3>1, <3>2 DEF Paths
  <2>6. Sorted(new)
    BY <2>1, <2>4, <2>5 DEF Sorted
  <2>7. ASSUME NEW leaf \in L, IsAncestor(head, leaf)
        PROVE  \E i \in 1..Len(new) : new[i] = leaf
    <3>1. PICK i \in 1..count : IsAncestor(kids[i].cell, leaf)
      BY <2>1, <2>7
    <3>2. kids[i].cell \in L
      BY <2>3
    <3>3. kids[i].cell = leaf
      BY <1>1, <3>1, <3>2, LeafAlone DEF L
    <3> QED
      BY <2>4, <2>5, <3>3
  <2>8. \A i \in 1..Len(new) : new[i] \in L /\ IsAncestor(head, new[i])
    BY <2>1, <2>3, <2>4, <2>5
  <2>9. Progress(cells, leaves \o new, Tail(todo))
    BY <1>1, <2>5, <2>6, <2>7, <2>8, HeadListed DEF head, L
  <2> QED
    BY <1>6, <2>9 DEF new
<1> QED
  BY <1>4, <1>5, <1>6 DEF ExpandNode

-----------------------------------------------------------------------------
(* The open tree and the call on its way through it *)

\* The open file is the tree its masks describe, and the call knows where it is.
Tracked(cells) ==
  IsCells(cells) /\ tree = LeavesOf(cells) /\ QueryPath(cells) /\ ListPath(cells)

LEMMA TrackedKept ==
  ASSUME UNCHANGED <<vars, tree>>, NEW cells, Tracked(cells),
         task' = "query" =>
           CellPrefix(cell', call'.level) = cells[call'.level][call'.node],
         task' = "reconstruct" =>
           /\ Progress(cells, leaves', todo')
           /\ step' # "idle" => call'.node = Head(todo').node
  PROVE  Tracked(cells)'
<1>1. /\ IsCells(cells)' /\ LeavesOf(cells)' = LeavesOf(cells)
      /\ tree' = tree /\ Visits' = Visits
  BY CellsKept, FileUntouched DEF Tracked
<1>2. QueryPath(cells)'
  BY DEF QueryPath
<1>3. Progress(cells, leaves', todo') => Progress(cells, leaves, todo)'
  BY <1>1 DEF Progress, Ahead, InOrder, Covers, Sorted, AllBefore, CellSeq
<1>4. ListPath(cells)'
  BY <1>3 DEF ListPath
<1> QED
  BY <1>1, <1>2, <1>4 DEF Tracked

\* mask_and_rank keeps the arguments it was called with.
LEMMA MaskAndRankKeeps ==
  ASSUME MaskAndRank
  PROVE  /\ UNCHANGED <<task, call, cell, answer, todo, leaves>>
         /\ step # "idle" /\ step' # "idle"
BY DEF MaskAndRank, EnterRaw, AddRawMask, ReturnRaw, EnterHuffman, SkipBlock,
       ReadFirstMask, DecodeNext, ReturnHuffman

LEMMA LookupTracks ==
  ASSUME Served, Walking, Cleared, NEW cells, Tracked(cells), Lookup
  PROVE  Tracked(cells)' /\ Cleared'
<1>1. /\ UNCHANGED <<vars, tree>> /\ UNCHANGED vars /\ pc = "ready" /\ accepted
      /\ IsCells(cells) /\ tree = LeavesOf(cells)
      /\ QueryPath(cells) /\ ListPath(cells)
  BY DEF Lookup, Tracked
<1>2. task = "idle" => step = "idle" /\ leaves = <<>>
  BY DEF Walking, CallTyped, Cleared
<1>3. ASSUME NEW c \in QueryCells, StartQuery(c) PROVE Tracked(cells)' /\ Cleared'
  <2>1. /\ task = "idle" /\ leaves' = leaves /\ task' # "reconstruct"
        /\ task' = "query" =>
             CellPrefix(cell', call'.level) = cells[call'.level][call'.node]
    BY <1>1, <1>3, StartQueryFinds DEF StartQuery
  <2>2. Tracked(cells)'
    BY <1>1, <2>1, TrackedKept
  <2> QED
    BY <1>2, <2>1, <2>2 DEF Cleared
<1>4. CASE StartReconstruct
  <2>1. /\ task = "idle" /\ task' = "reconstruct" /\ todo' = Roots
        /\ leaves' = leaves /\ step' = step
    BY <1>4 DEF StartReconstruct, lookup
  <2>2. Roots \in Seq(Visits)
    <3>1. Walking'
      BY <1>1, <1>4, StartReconstructWalks
    <3>2. todo' \in Seq(Visits') /\ Visits' = Visits
      BY <1>1, <2>1, <3>1, FileUntouched DEF Walking, ListWalk
    <3> QED
      BY <2>1, <3>2
  <2>3. Progress(cells, leaves', todo')
    BY <1>1, <1>2, <2>1, <2>2, RootsAhead
  <2>4. Tracked(cells)'
    BY <1>1, <1>2, <2>1, <2>3, TrackedKept
  <2> QED
    BY <2>1, <2>4 DEF Cleared
<1>5. CASE MaskAndRank
  <2>1. /\ UNCHANGED <<task, call, cell, answer, todo, leaves>>
        /\ step # "idle" /\ step' # "idle"
    BY <1>5, MaskAndRankKeeps
  <2>2. Tracked(cells)'
    BY <1>1, <2>1, TrackedKept DEF QueryPath, ListPath
  <2> QED
    BY <2>1, <2>2 DEF Cleared
<1>6. CASE ContinueQuery
  <2>1. /\ task = "query" /\ leaves' = leaves /\ task' # "reconstruct"
        /\ task' = "query" =>
             CellPrefix(cell', call'.level) = cells[call'.level][call'.node]
    BY <1>1, <1>6, ContinueQueryFinds DEF ContinueQuery
  <2>2. Tracked(cells)'
    BY <1>1, <2>1, TrackedKept
  <2> QED
    BY <2>1, <2>2 DEF Cleared
<1>7. CASE VisitNode
  <2>1. /\ task = "reconstruct" /\ UNCHANGED <<task, todo, leaves>>
        /\ call'.node = Head(todo).node
    BY <1>7 DEF VisitNode, Call
  <2>2. Progress(cells, leaves, todo)
    BY <1>1, <2>1 DEF ListPath
  <2>3. Tracked(cells)'
    BY <1>1, <2>1, <2>2, TrackedKept
  <2> QED
    BY <2>1, <2>3 DEF Cleared
<1>8. CASE ExpandNode
  <2>1. task = "reconstruct" /\ task' = task /\ step' = "idle"
    BY <1>8 DEF ExpandNode
  <2>2. Progress(cells, leaves', todo')
    BY <1>1, <1>8, ExpandNodeLists
  <2>3. Tracked(cells)'
    BY <1>1, <2>1, <2>2, TrackedKept
  <2> QED
    BY <2>1, <2>3 DEF Cleared
<1>9. CASE EndReconstruct
  <2>1. task' \in {"listed", "failed"}
    BY <1>9 DEF EndReconstruct
  <2>2. Tracked(cells)'
    BY <1>1, <2>1, TrackedKept
  <2> QED
    BY <2>1, <2>2 DEF Cleared
<1>10. CASE Return
  <2>1. task' = "idle" /\ leaves' = <<>>
    BY <1>10 DEF Return
  <2>2. Tracked(cells)'
    BY <1>1, <2>1, TrackedKept
  <2> QED
    BY <2>1, <2>2 DEF Cleared
<1> QED
  BY <1>3, <1>4, <1>5, <1>6, <1>7, <1>8, <1>9, <1>10 DEF Lookup, Request, Work

\* The nodes that are leaves: the childless ones and those below the last masks.
LeafNodes ==
  Childless(LevelCount, 0) \cup ({LevelCount} \X (0..(db.terminal - 1)))

LEMMA LeafNodesCounted ==
  ASSUME Served, Tallied, accepted
  PROVE  IsFiniteSet(LeafNodes) /\ Cardinality(LeafNodes) = db.leaves
<1> DEFINE upper == Childless(LevelCount, 0)
           last == {LevelCount} \X (0..(db.terminal - 1))
<1>1. db.leaves \in Nat /\ db.terminal \in Nat /\ LevelCount \in Nat
  BY AcceptedFacts, DatabasesAssumption, LevelFacts DEF DatabaseType
<1>2. IsFiniteSet(upper) /\ Cardinality(upper) = db.leaves - db.terminal
  BY DEF Tallied, Tally, CountsChildless
<1>3. IsFiniteSet(last) /\ Cardinality(last) = db.terminal
  <2> DEFINE S == 0..(db.terminal - 1)
             pair == [i \in S |-> <<LevelCount, i>>]
  <2>1. IsFiniteSet(S) /\ Cardinality(S) = db.terminal
    <3>1. ASSUME NEW n \in Nat
          PROVE  IsFiniteSet(0..(n - 1)) /\ Cardinality(0..(n - 1)) = n
      <4>1. 0 \in Int /\ n - 1 \in Int
        OBVIOUS
      <4>2. /\ IsFiniteSet(0..(n - 1))
            /\ Cardinality(0..(n - 1)) = (IF 0 > n - 1 THEN 0 ELSE (n - 1) - 0 + 1)
        BY <4>1, FS_Interval
      <4> QED
        BY <4>2
    <3> QED
      BY <1>1, <3>1
  <2>2. pair \in [S -> last]
    OBVIOUS
  <2>3. \A i, j \in S : pair[i] = pair[j] => i = j
    OBVIOUS
  <2>4. \A v \in last : \E i \in S : pair[i] = v
    <3>1. ASSUME NEW v \in last PROVE v[2] \in S /\ v = <<LevelCount, v[2]>>
      BY <3>1
    <3> QED
      BY <3>1
  <2> HIDE DEF S, pair, last
  <2>5. pair \in Injection(S, last)
    BY <2>2, <2>3 DEF Injection, IsInjective
  <2>6. pair \in Surjection(S, last)
    BY <2>2, <2>4 DEF Surjection
  <2>7. pair \in Bijection(S, last)
    BY <2>5, <2>6 DEF Bijection
  <2> QED
    BY <2>1, <2>7, FS_Bijection DEF ExistsBijection
<1>4. upper \cap last = {}
  <2>1. LevelCount \notin Levels
    BY <1>1 DEF Levels
  <2> QED
    BY <2>1 DEF Childless
<1>5. LeafNodes = upper \cup last
  BY DEF LeafNodes
<1> HIDE DEF upper, last
<1>6. /\ IsFiniteSet(LeafNodes)
      /\ Cardinality(LeafNodes)
           = Cardinality(upper) + Cardinality(last) - Cardinality(upper \cap last)
  BY <1>2, <1>3, <1>5, FS_Union
<1>7. Cardinality(upper \cap last) = 0
  BY <1>4, FS_EmptySet
<1> QED
  BY <1>1, <1>2, <1>3, <1>6, <1>7

LEMMA LeafNodesAre ==
  ASSUME Served, accepted, NEW l, NEW i
  PROVE  <<l, i>> \in LeafNodes
           <=> l \in 0..LevelCount /\ i \in 0..(NodeCount(l) - 1) /\ LeafNode(l, i)
<1>1. /\ LevelCount \in Nat /\ db.terminal \in Nat /\ NodeCount(LevelCount) = db.terminal
      /\ LevelCount \in 0..LevelCount /\ LevelCount \notin Levels
  BY AcceptedFacts, DatabasesAssumption, LevelFacts DEF DatabaseType, NodeCount, Levels
<1>2. CASE l \in Levels
  <2>1. l \in 0..LevelCount /\ NodeCount(l) = Nodes(l) /\ NodeCount(l) \in Nat /\ l # LevelCount
        /\ l \in Nat /\ l < LevelCount
    BY <1>2, Forest, LevelFacts DEF Levels
  <2>2. <<l, i>> \in LeafNodes <=> i \in Nat /\ i < Nodes(l) /\ scannedMask[l][i] = {}
    BY <1>2, <2>1 DEF LeafNodes, Childless
  <2> QED
    BY <2>1, <2>2 DEF LeafNode
<1>3. CASE l = LevelCount
  <2>1. <<l, i>> \in LeafNodes <=> i \in 0..(db.terminal - 1)
    BY <1>1, <1>3 DEF LeafNodes, Childless
  <2> QED
    BY <1>1, <1>3, <2>1 DEF LeafNode
<1>4. CASE l \notin Levels /\ l # LevelCount
  <2>1. l \notin 0..LevelCount
    BY <1>1, <1>4 DEF Levels
  <2> QED
    BY <1>4, <2>1 DEF LeafNodes, Childless
<1> QED
  BY <1>2, <1>3, <1>4

\* Different leaf nodes have different cells, so the tree has db.leaves leaves.
LEMMA LeavesCounted ==
  ASSUME Served, Tallied, accepted, NEW cells, IsCells(cells)
  PROVE  IsFiniteSet(LeavesOf(cells)) /\ Cardinality(LeavesOf(cells)) = db.leaves
<1> DEFINE cellOf == [v \in LeafNodes |-> cells[v[1]][v[2]]]
           L == LeavesOf(cells)
<1>1. ASSUME NEW v \in LeafNodes
      PROVE  /\ v = <<v[1], v[2]>>
             /\ v[1] \in 0..LevelCount /\ v[2] \in 0..(NodeCount(v[1]) - 1)
             /\ LeafNode(v[1], v[2])
  <2>1. v = <<v[1], v[2]>>
    BY <1>1 DEF LeafNodes, Childless
  <2> QED
    BY <1>1, <2>1, LeafNodesAre
<1>2. \A v \in LeafNodes : cellOf[v] \in L
  BY <1>1, LeavesAre
<1>3. ASSUME NEW v \in LeafNodes, NEW w \in LeafNodes, cellOf[v] = cellOf[w]
      PROVE  v = w
  <2>1. cells[v[1]][v[2]] = cells[w[1]][w[2]]
    BY <1>3
  <2>2. v[1] = w[1] /\ v[2] = w[2]
    BY <1>1, <2>1, CellsDiffer
  <2> QED
    BY <1>1, <2>2
<1>4. ASSUME NEW c \in L PROVE \E v \in LeafNodes : cellOf[v] = c
  <2>1. PICK l \in 0..LevelCount : \E i \in 0..(NodeCount(l) - 1) :
          LeafNode(l, i) /\ c = cells[l][i]
    BY <1>4, LeavesAre
  <2>2. PICK i \in 0..(NodeCount(l) - 1) : LeafNode(l, i) /\ c = cells[l][i]
    BY <2>1
  <2>3. <<l, i>> \in LeafNodes
    BY <2>2, LeafNodesAre
  <2>4. cellOf[<<l, i>>] = c
    BY <2>2, <2>3
  <2> QED
    BY <2>3, <2>4
<1>5. cellOf \in [LeafNodes -> L]
  BY <1>2
<1> HIDE DEF cellOf, L
<1>6. cellOf \in Bijection(LeafNodes, L)
  <2>1. cellOf \in Injection(LeafNodes, L)
    BY <1>3, <1>5 DEF Injection, IsInjective
  <2>2. cellOf \in Surjection(LeafNodes, L)
    BY <1>4, <1>5 DEF Surjection
  <2> QED
    BY <2>1, <2>2 DEF Bijection
<1>7. IsFiniteSet(L) /\ Cardinality(L) = Cardinality(LeafNodes)
  BY <1>6, LeafNodesCounted, FS_Bijection DEF ExistsBijection
<1> QED
  BY <1>7, LeafNodesCounted DEF L

\* A listing has as many entries as there are leaves.
LEMMA ListingLength ==
  ASSUME NEW L, NEW done \in Paths, Listing(L, done)
  PROVE  IsFiniteSet(L) /\ Cardinality(L) = Len(done)
<1> DEFINE S == 1..Len(done)
<1>1. Len(done) \in Nat /\ DOMAIN done = S /\ done \in [S -> Seq(Int)]
  BY LenProperties DEF Paths
<1>2. /\ {done[i] : i \in S} = L
      /\ \A i, j \in S : i < j => Precedes(done[i], done[j])
  BY <1>1 DEF Listing
<1>3. ASSUME NEW i \in S, NEW j \in S, done[i] = done[j] PROVE i = j
  <2>1. done[i] \in Seq(Int) /\ done[j] \in Seq(Int)
    BY <1>1
  <2>2. ~(i < j) /\ ~(j < i)
    BY <1>2, <1>3, <2>1, PrecedesOrder
  <2> QED
    BY <2>2
<1>4. done \in [S -> L]
  BY <1>1, <1>2
<1>5. IsFiniteSet(S) /\ Cardinality(S) = Len(done)
  <2>1. ASSUME NEW n \in Nat
        PROVE  IsFiniteSet(1..n) /\ Cardinality(1..n) = n
    <3>1. 1 \in Int /\ n \in Int
      OBVIOUS
    <3>2. /\ IsFiniteSet(1..n)
          /\ Cardinality(1..n) = (IF 1 > n THEN 0 ELSE n - 1 + 1)
      BY <3>1, FS_Interval
    <3> QED
      BY <3>2
  <2> QED
    BY <1>1, <2>1
<1> HIDE DEF S
<1>6. done \in Bijection(S, L)
  <2>1. done \in Injection(S, L)
    BY <1>3, <1>4 DEF Injection, IsInjective
  <2>2. done \in Surjection(S, L)
    BY <1>2, <1>4 DEF Surjection
  <2> QED
    BY <2>1, <2>2 DEF Bijection
<1> QED
  BY <1>5, <1>6, FS_Bijection DEF ExistsBijection

-----------------------------------------------------------------------------
(* The refinement *)

Faces == 0..(RootFaceCount - 1)

\* An accepted file describes a tree, with a cell for every node.
Described ==
  accepted =>
    \E cells : /\ IsCells(cells) /\ TreeLeaves = LeavesOf(cells)
               /\ Index!IsLeafSet(TreeLeaves, Faces, LevelCount) /\ TreeLeaves # {}

LEMMA ServedDescribed == Served => Described
<1> SUFFICES ASSUME Served, accepted
             PROVE  /\ IsCells(NodeCells) /\ TreeLeaves = LeavesOf(NodeCells)
                    /\ Index!IsLeafSet(TreeLeaves, Faces, LevelCount) /\ TreeLeaves # {}
  BY DEF Described
<1>1. IsCells(NodeCells) /\ TreeLeaves = LeavesOf(NodeCells)
  BY NodeCellsDefined DEF TreeLeaves
<1>2. IsLeafSet(TreeLeaves, Faces, LevelCount) /\ TreeLeaves # {}
  BY <1>1, LeavesProper DEF Faces
<1>3. Index!IsLeafSet(TreeLeaves, Faces, LevelCount)
  BY <1>2 DEF IsLeafSet, IsAncestor, Index!IsLeafSet, Index!IsAncestor
<1> QED
  BY <1>1, <1>2, <1>3

\* While a file that may be asked is open, the history is its tree.
Tracking ==
  /\ Cleared
  /\ IF pc = "ready" /\ accepted THEN \E cells : Tracked(cells) ELSE tree = {}

LEMMA InitTracking == LookupInit => Tracking
BY DEF LookupInit, Init, Tracking, Cleared

LEMMA ReadyEnds ==
  ASSUME Next, pc = "ready"
  PROVE  pc' # "ready"
BY DEF Next, Open, Construct, CheckEntry, CheckTotals, ValidateModels, StartLevel, RawNode,
       EndRawLevel, StartBlock, RejectBlock, DecodeNode, RejectSymbol, EndBlock,
       EndHuffmanLevel, IndexBlock, EndIndexedLevel, Complete, Close

LEMMA ConstructionTracks ==
  ASSUME Cleared, Described', Construction
  PROVE  Tracking'
<1>1. task' = "idle" /\ Cleared'
  BY DEF Construction, Cleared, lvars
<1>2. CASE pc' = "ready" /\ accepted'
  <2>1. tree' = TreeLeaves'
    BY <1>2 DEF Construction
  <2>2. PICK cells : IsCells(cells)' /\ TreeLeaves' = LeavesOf(cells)'
    BY <1>2 DEF Described
  <2>3. Tracked(cells)'
    BY <1>1, <2>1, <2>2 DEF Tracked, QueryPath, ListPath
  <2> QED
    BY <1>1, <1>2, <2>3 DEF Tracking
<1>3. CASE ~(pc' = "ready" /\ accepted')
  BY <1>1, <1>3 DEF Construction, Tracking
<1> QED
  BY <1>2, <1>3

LEMMA StepTracking ==
  ASSUME Served, Walking, Tracking, Described', [LookupNext]_allVars
  PROVE  Tracking'
<1>1. CASE Construction
  BY <1>1, ConstructionTracks DEF Tracking
<1>2. CASE Lookup
  <2>1. PICK cells : Tracked(cells)
    BY <1>2 DEF Tracking, Lookup
  <2>2. Tracked(cells)' /\ Cleared'
    BY <1>2, <2>1, LookupTracks DEF Tracking
  <2>3. pc' = "ready" /\ accepted'
    BY <1>2, FileUntouched DEF Lookup
  <2> QED
    BY <2>2, <2>3 DEF Tracking
<1>3. CASE UNCHANGED allVars
  <2>1. UNCHANGED <<vars, tree>> /\ UNCHANGED <<task, step, call, cell, todo, leaves>>
    BY <1>3 DEF allVars, lvars, lookup
  <2>2. Cleared' /\ UNCHANGED <<pc, accepted, tree>>
    BY <2>1, FileUntouched DEF Tracking, Cleared
  <2>3. ASSUME NEW cells, Tracked(cells) PROVE Tracked(cells)'
    BY <2>1, <2>3, TrackedKept DEF Tracked, QueryPath, ListPath
  <2> QED
    BY <2>2, <2>3 DEF Tracking
<1> QED
  BY <1>1, <1>2, <1>3 DEF LookupNext

\* Constructing and closing open and close the index.
LEMMA ConstructionRefines ==
  ASSUME Tracking, Described, Described', Walking, Construction
  PROVE  Index!Open \/ Index!Close \/ UNCHANGED <<tree, Reply>>
<1>1. task = "idle" /\ task' = "idle" /\ Next
  BY DEF Construction, lvars
<1>2. Reply = Index!NoReply /\ Reply' = Reply
  BY <1>1 DEF Reply, Index!NoReply
<1>3. CASE tree = {} /\ tree' # {}
  <2>1. tree' = TreeLeaves' /\ accepted'
    BY <1>3 DEF Construction
  <2>2. Index!IsLeafSet(tree', Faces, LevelCount)
    BY <2>1 DEF Described
  <2> QED
    BY <1>2, <1>3, <2>2 DEF Index!Open, Faces
<1>4. CASE tree # {}
  <2>1. pc = "ready"
    BY <1>4 DEF Tracking
  <2>2. tree' = {}
    BY <1>1, <2>1, ReadyEnds DEF Construction
  <2> QED
    BY <1>2, <1>4, <2>2 DEF Index!Close
<1> QED
  BY <1>2, <1>3, <1>4

\* Answering is what a query is for.
LEMMA AnsweringRefines ==
  ASSUME NEW c \in QueryCells, task \in {"idle", "query"}, task' = "answered", cell' = c,
         tree # {}, tree' = tree, DeepestAncestor(tree, c) = CellPrefix(c, answer')
  PROVE  Index!Query
<1>1. Reply = Index!NoReply
  BY DEF Reply, Index!NoReply
<1>2. Reply' = [kind |-> "ancestor", of |-> c, is |-> CellPrefix(c, answer')]
  BY DEF Reply, CellPrefix
<1>3. Index!DeepestAncestor(tree, c) = DeepestAncestor(tree, c)
  BY DEF DeepestAncestor, InTree, IsAncestor,
         Index!DeepestAncestor, Index!InTree, Index!IsAncestor
<1> QED
  BY <1>1, <1>2, <1>3 DEF Index!Query

\* At the end of a reconstruction every leaf is listed, as many as announced.
LEMMA ListingRefines ==
  ASSUME Served, Tallied, accepted, NEW cells, IsCells(cells), tree = LeavesOf(cells),
         tree # {}, ListPath(cells), EndReconstruct, tree' = tree
  PROVE  Index!Reconstruct
<1>1. /\ task = "reconstruct" /\ todo = <<>> /\ leaves' = leaves
      /\ task' = IF Len(leaves) = db.leaves THEN "listed" ELSE "failed"
  BY DEF EndReconstruct
<1>2. Progress(cells, leaves, <<>>)
  BY <1>1 DEF ListPath
<1>3. Listing(tree, leaves) /\ leaves \in Paths
  BY <1>2, AllListed DEF Progress
<1>4. Len(leaves) = db.leaves
  BY <1>3, ListingLength, LeavesCounted
<1>5. task' = "listed"
  BY <1>1, <1>4
<1>6. Reply = Index!NoReply
  BY <1>1 DEF Reply, Index!NoReply
<1>7. Reply' = [kind |-> "leaves", list |-> leaves]
  BY <1>1, <1>5 DEF Reply
<1>8. Index!Listing(tree, leaves)
  BY <1>3 DEF Listing, Precedes, Index!Listing, Index!Precedes
<1> QED
  BY <1>6, <1>7, <1>8 DEF Index!Reconstruct

LEMMA LookupRefines ==
  ASSUME Served, Walking, Tallied, Tracking, Lookup
  PROVE  Index!Next \/ UNCHANGED <<tree, Reply>>
<1>1. pc = "ready" /\ accepted /\ tree' = tree
  BY DEF Lookup
<1>2. PICK cells : Tracked(cells)
  BY <1>1 DEF Tracking
<1>3. IsCells(cells) /\ tree = LeavesOf(cells) /\ QueryPath(cells) /\ ListPath(cells)
  BY <1>2 DEF Tracked
<1>4. tree # {}
  BY <1>1, <1>3, LeavesProper
<1>5. ASSUME NEW c \in QueryCells, StartQuery(c) PROVE Index!Query \/ UNCHANGED Reply
  <2>1. CASE task' = "answered"
    <3>1. cell' = c /\ Answers(c, answer') /\ task = "idle"
      BY <1>1, <1>3, <1>5, <2>1, StartQueryFinds DEF StartQuery
    <3> QED
      BY <1>1, <1>4, <2>1, <3>1, AnsweringRefines DEF Answers
  <2>2. CASE task' # "answered"
    BY <1>5, <2>2 DEF StartQuery, Reply
  <2> QED
    BY <2>1, <2>2
<1>6. CASE ContinueQuery
  <2>1. CASE task' = "answered"
    <3>1. cell' = cell /\ cell \in QueryCells /\ Answers(cell, answer') /\ task = "query"
      BY <1>1, <1>3, <1>6, <2>1, ContinueQueryFinds DEF ContinueQuery
    <3> QED
      BY <1>1, <1>4, <2>1, <3>1, AnsweringRefines DEF Answers, Index!Next
  <2>2. CASE task' # "answered"
    <3>1. task = "query" /\ task' = "query"
      BY <1>3, <1>6, <2>2, ContinueQueryFinds DEF ContinueQuery
    <3> QED
      BY <1>1, <3>1 DEF Reply
  <2> QED
    BY <2>1, <2>2
<1>7. CASE EndReconstruct
  BY <1>1, <1>3, <1>4, <1>7, ListingRefines DEF Index!Next
<1>8. CASE Return
  <2>1. Reply # Index!NoReply /\ Reply' = Index!NoReply
    BY <1>8 DEF Return, Reply, Index!NoReply
  <2> QED
    BY <1>1, <2>1 DEF Index!Take, Index!Next
<1>9. CASE MaskAndRank \/ VisitNode \/ ExpandNode \/ StartReconstruct
  <2>1. task \in {"idle", "query", "reconstruct"} /\ task' \in {"idle", "query", "reconstruct"}
    BY <1>9, MaskAndRankKeeps DEF VisitNode, ExpandNode, StartReconstruct, Walking, CallTyped
  <2> QED
    BY <1>1, <2>1 DEF Reply
<1> QED
  BY <1>1, <1>5, <1>6, <1>7, <1>8, <1>9 DEF Lookup, Request, Work, Index!Next

LEMMA AlwaysTracking ==
  LookupSpec => [](Served /\ Walking /\ Tallied /\ Described /\ Tracking)
<1>1. LookupInit => Tallied /\ Tracking
  BY InitTallied, InitTracking DEF LookupInit
<1>2. [LookupNext]_allVars => [Next]_vars
  BY DEF LookupNext, Construction, Lookup, allVars
<1>3. Served /\ Tallied /\ [Next]_vars => Tallied'
  BY StepTallied DEF Served
<1>4. Served /\ Walking /\ Tracking /\ Described' /\ [LookupNext]_allVars => Tracking'
  BY StepTracking
<1> QED
  BY <1>1, <1>2, <1>3, <1>4, AlwaysWalking, ServedDescribed, PTL DEF LookupSpec

LEMMA StepRefines ==
  ASSUME Served, Walking, Tallied, Described, Tracking, Described', [LookupNext]_allVars
  PROVE  [Index!Next]_<<tree, Reply>>
<1>1. CASE Construction
  BY <1>1, ConstructionRefines DEF Index!Next
<1>2. CASE Lookup
  BY <1>2, LookupRefines
<1>3. CASE UNCHANGED allVars
  BY <1>3 DEF allVars, lvars, Reply, CellPrefix
<1> QED
  BY <1>1, <1>2, <1>3 DEF LookupNext

\* ImplementsIndex: for every accepted file, whatever its blocks, groups, codes and
\* offsets, queries return the deepest ancestor in the tree its masks describe, and
\* a reconstruction lists that tree's leaves in order and never fails.
THEOREM IndexImplemented == LookupSpec => ImplementsIndex
<1>1. LookupInit => Index!Init
  BY DEF LookupInit, Reply, Index!Init, Index!NoReply
<1>2. (Served /\ Walking /\ Tallied /\ Described /\ Tracking /\ Described'
        /\ [LookupNext]_allVars) => [Index!Next]_<<tree, Reply>>
  BY StepRefines
<1> QED
  BY <1>1, <1>2, AlwaysTracking, PTL
     DEF LookupSpec, ImplementsIndex, Index!Spec
=============================================================================
