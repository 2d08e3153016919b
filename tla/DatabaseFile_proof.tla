------------------------- MODULE DatabaseFile_proof -------------------------
(***************************************************************************)
(* Publication of the database is atomic, mappings are immutable and       *)
(* mismatches have a cause, for any number of builders, readers, files,    *)
(* chunks, kills and crashes.                                              *)
(***************************************************************************)
EXTENDS DatabaseFile, TLAPS

USE DatabaseFileAssumption

Data == {Dataset[b] : b \in Builders}

LEMMA DatabaseContent ==
  ASSUME NEW b \in Builders
  PROVE  /\ Database(b) \in Contents /\ Len(Database(b)) = Chunks
         /\ \A k \in 1..Chunks : Database(b)[k] = Dataset[b]
BY DEF Database, Contents

LEMMA EmptyContent == <<>> \in Contents
BY DEF Contents

LEMMA AppendContent ==
  ASSUME NEW c \in Contents, Len(c) < Chunks, NEW e \in Data
  PROVE  /\ Append(c, e) \in Contents
         /\ Len(Append(c, e)) = Len(c) + 1
         /\ Append(c, e)[Len(c) + 1] = e
         /\ \A k \in 1..Len(c) : Append(c, e)[k] = c[k]
BY DEF Contents, Data

LEMMA ContentFacts ==
  ASSUME NEW c \in Contents
  PROVE  Len(c) \in 0..Chunks /\ \A k \in 1..Len(c) : c[k] \in Data
BY DEF Contents, Data

\* Contents of one length that agree in every chunk are one content.
LEMMA ContentsEqual ==
  ASSUME NEW c \in Contents, NEW d \in Contents, Len(c) = Len(d),
         \A k \in 1..Len(c) : c[k] = d[k]
  PROVE  c = d
BY DEF Contents

-----------------------------------------------------------------------------
(* Types, and which handles builders and readers have open in which phase *)

Handles ==
  /\ \A b \in Builders :
       /\ phase[b] = "writing" <=> temporary[b] # None
       /\ phase[b] = "reading" <=> opened[b] # None
       /\ phase[b] \notin {"idle", "writing"} => renamed = TRUE /\ name # None
  /\ \A r \in Readers : engine[r] = "none" <=> mapped[r] = None

Shape == TypeOK /\ Handles

LEMMA ShapeInit == Init => Shape
<1> SUFFICES ASSUME Init PROVE Shape
  OBVIOUS
<1>1. data \in [Inodes -> Contents] /\ disk.data \in [Inodes -> Contents]
  BY EmptyContent DEF Init
<1>2. disk \in [data : [Inodes -> Contents], name : Inodes \union {None},
                temps : SUBSET Inodes]
  BY <1>1 DEF Init
<1>3. /\ snapshot \in [Builders -> Contents] /\ seen \in [Readers -> Contents]
      /\ crashes \in 0..MaxFaults /\ kills \in 0..MaxFaults
  BY EmptyContent DEF Init
<1>4. Handles
  BY DEF Init, Handles
<1> QED
  BY <1>1, <1>2, <1>3, <1>4 DEF Init, Shape, TypeOK, Phases

LEMMA ShapeBuilder ==
  ASSUME Shape, NEW b \in Builders, BuilderStep(b)
  PROVE  Shape'
<1> USE DEF Shape, TypeOK, Phases, Handles
<1>1. CASE CreateTemporary(b)
  <2> PICK i \in Inodes :
        /\ temporary' = [temporary EXCEPT ![b] = i]
        /\ temps' = temps \union {i}
        /\ data' = [data EXCEPT ![i] = <<>>]
        /\ disk' = [disk EXCEPT !.data[i] = <<>>]
    BY <1>1 DEF CreateTemporary
  <2>1. disk' \in [data : [Inodes -> Contents], name : Inodes \union {None},
                   temps : SUBSET Inodes]
    BY EmptyContent
  <2> QED
    BY <1>1, <2>1, EmptyContent DEF CreateTemporary, readerVars, historyVars
<1>2. CASE WriteChunk(b)
  <2>1. temporary[b] \in Inodes /\ Dataset[b] \in Data
    BY <1>2 DEF WriteChunk, Data
  <2>2. Append(data[temporary[b]], Dataset[b]) \in Contents
    BY <1>2, <2>1, AppendContent DEF WriteChunk
  <2> QED
    BY <1>2, <2>1, <2>2 DEF WriteChunk, builderVars, readerVars, historyVars
<1>3. CASE AbandonTemporary(b)
  BY <1>3 DEF AbandonTemporary, readerVars, historyVars
<1>4. CASE Persist(b)
  <2>1. name' \in Inodes \union {None} /\ temps' \subseteq Inodes
    BY <1>4 DEF Persist, Rename
  <2>2. overtaken' \subseteq Builders /\ renamed' \in BOOLEAN
    BY <1>4 DEF Persist, Rename
  <2>3. Handles'
    BY <1>4 DEF Persist, Rename, readerVars
  <2>4. phase' \in [Builders -> Phases] /\ temporary' \in [Builders -> Inodes \union {None}]
    BY <1>4 DEF Persist, Rename
  <2> QED
    <3>1. UNCHANGED <<opened, snapshot, mapped, engine, seen, data, disk, crashes, kills, strays>>
      BY <1>4 DEF Persist, Rename, readerVars
    <3> QED
      BY <2>1, <2>2, <2>3, <2>4, <3>1
<1>5. CASE OpenBack(b)
  BY <1>5 DEF OpenBack, readerVars, fileVars, historyVars
<1>6. CASE ReadChunk(b)
  <2>1. data[opened[b]] \in Contents
    BY <1>6 DEF ReadChunk
  <2>2. Append(snapshot[b], data[opened[b]][Len(snapshot[b]) + 1]) \in Contents
    <3>1. Len(snapshot[b]) \in 0..Chunks /\ Len(snapshot[b]) < Len(data[opened[b]])
      BY <1>6, ContentFacts DEF ReadChunk
    <3>2. Len(snapshot[b]) + 1 \in 1..Len(data[opened[b]])
      BY <2>1, <3>1, ContentFacts
    <3>3. data[opened[b]][Len(snapshot[b]) + 1] \in Data /\ Len(snapshot[b]) < Chunks
      BY <2>1, <3>1, <3>2, ContentFacts
    <3> QED
      BY <3>3, AppendContent
  <2> QED
    BY <1>6, <2>2 DEF ReadChunk, readerVars, fileVars, historyVars
<1>7. CASE Compare(b)
  BY <1>7, EmptyContent DEF Compare, readerVars, fileVars, historyVars
<1>8. CASE FailReadBack(b)
  BY <1>8, EmptyContent DEF FailReadBack, readerVars, fileVars, historyVars
<1>9. CASE Mismatch(b)
  BY <1>9 DEF Mismatch, readerVars, fileVars, historyVars
<1>10. CASE Kill(b)
  <2>1. kills' \in 0..MaxFaults
    BY <1>10, DatabaseFileAssumption DEF Kill, FaultAhead
  <2> QED
    BY <1>10, <2>1, EmptyContent DEF Kill, readerVars, fileVars
<1> QED
  BY <1>1, <1>2, <1>3, <1>4, <1>5, <1>6, <1>7, <1>8, <1>9, <1>10 DEF BuilderStep

LEMMA ShapeReader ==
  ASSUME Shape, NEW r \in Readers, ReaderStep(r)
  PROVE  Shape'
<1> USE DEF Shape, TypeOK, Phases, Handles, builderVars, fileVars, historyVars
<1>1. CASE MapFile(r)
  BY <1>1 DEF MapFile
<1>2. CASE Validate(r)
  BY <1>2 DEF Validate
<1>3. CASE RejectFile(r) \/ DropEngine(r)
  BY <1>3, EmptyContent DEF RejectFile, DropEngine, Unmap
<1> QED
  BY <1>1, <1>2, <1>3 DEF ReaderStep

LEMMA ShapeMachine ==
  ASSUME Shape, (\E i \in Inodes : WriteBack(i)) \/ WriteBackDirectory \/ Crash
  PROVE  Shape'
<1> USE DEF Shape, TypeOK, Phases, Handles
<1>1. ASSUME NEW i \in Inodes, WriteBack(i) PROVE Shape'
  <2>1. disk' \in [data : [Inodes -> Contents], name : Inodes \union {None},
                   temps : SUBSET Inodes]
    BY <1>1 DEF WriteBack
  <2> QED
    BY <1>1, <2>1 DEF WriteBack, builderVars, readerVars, historyVars
<1>2. CASE WriteBackDirectory
  BY <1>2 DEF WriteBackDirectory, builderVars, readerVars, historyVars
<1>3. CASE Crash
  <2>1. /\ data' \in [Inodes -> Contents] /\ name' \in Inodes \union {None}
        /\ temps' \subseteq Inodes /\ strays' \subseteq Inodes
    BY <1>3 DEF Crash
  <2>2. renamed' \in BOOLEAN /\ overtaken' \subseteq Builders
    BY <1>3 DEF Crash
  <2>4. crashes' \in 0..MaxFaults /\ kills' \in 0..MaxFaults
    BY <1>3, DatabaseFileAssumption DEF Crash, FaultAhead
  <2>3. snapshot' \in [Builders -> Contents] /\ seen' \in [Readers -> Contents]
    BY <1>3, EmptyContent DEF Crash
  <2> QED
    BY <1>3, <2>1, <2>2, <2>3, <2>4 DEF Crash
<1> QED
  BY <1>1, <1>2, <1>3

\* Variables keep their types, and a builder has a file open exactly while it
\* writes or reads back.
LEMMA AlwaysShape == Spec => []Shape
<1>1. Shape /\ [Next]_vars => Shape'
  <2> SUFFICES ASSUME Shape, [Next]_vars PROVE Shape'
    OBVIOUS
  <2>1. CASE UNCHANGED vars
    BY <2>1 DEF vars, builderVars, readerVars, fileVars, historyVars, Shape,
                TypeOK, Handles
  <2> QED
    BY <2>1, ShapeBuilder, ShapeReader, ShapeMachine DEF Next
<1> QED
  BY <1>1, ShapeInit, PTL DEF Spec

\* Whatever the builders, readers, kills and crashes, the state keeps its types.
THEOREM TypeCorrect == Spec => []TypeOK
BY AlwaysShape, PTL DEF Shape

-----------------------------------------------------------------------------
(* Temporary files are apart from every file in use *)

Apart ==
  /\ NoStrayTemporaries
  /\ disk.name \notin disk.temps
  /\ \A b \in Builders : opened[b] \notin temps
  /\ \A r \in Readers : mapped[r] \notin temps

LEMMA ApartInit == Init => Apart
BY DEF Init, Apart, NoStrayTemporaries

LEMMA ApartBuilder ==
  ASSUME Shape, Apart, NEW b \in Builders, BuilderStep(b)
  PROVE  Apart'
<1> USE DEF Shape, TypeOK, Handles, Apart, NoStrayTemporaries
<1>1. CASE CreateTemporary(b)
  <2> PICK i \in Inodes :
        /\ NewFile(i)
        /\ temporary' = [temporary EXCEPT ![b] = i]
        /\ temps' = temps \union {i}
        /\ disk' = [disk EXCEPT !.data[i] = <<>>]
    BY <1>1 DEF CreateTemporary
  <2>1. /\ temporary[b] = None /\ i \notin temps \union strays
        /\ i # name /\ \A r \in Readers : mapped[r] # i
        /\ \A c \in Builders : opened[c] # i /\ temporary[c] # i
    BY <1>1 DEF CreateTemporary, NewFile, Free
  <2>2. UNCHANGED <<opened, mapped, name, strays>>
    BY <1>1 DEF CreateTemporary, readerVars, historyVars
  <2>3. disk'.name = disk.name /\ disk'.temps = disk.temps
    OBVIOUS
  <2>4. temps' = strays' \union ({temporary'[c] : c \in Builders} \ {None})
    BY <2>1, <2>2
  <2> QED
    BY <2>1, <2>2, <2>3, <2>4
<1>2. CASE WriteChunk(b)
  BY <1>2 DEF WriteChunk, builderVars, readerVars, historyVars
<1>3. CASE AbandonTemporary(b)
  <2>1. UNCHANGED <<opened, mapped, name, strays, disk>>
    BY <1>3 DEF AbandonTemporary, readerVars, historyVars
  <2>2. temps' = strays' \union ({temporary'[c] : c \in Builders} \ {None})
    BY <1>3, <2>1 DEF AbandonTemporary
  <2> QED
    BY <1>3, <2>1, <2>2 DEF AbandonTemporary
<1>4. CASE Persist(b)
  <2>1. UNCHANGED <<opened, mapped, strays, disk>>
    BY <1>4 DEF Persist, Rename, readerVars
  <2>2. temps' = strays' \union ({temporary'[c] : c \in Builders} \ {None})
    BY <1>4, <2>1 DEF Persist, Rename
  <2> QED
    BY <1>4, <2>1, <2>2 DEF Persist, Rename
<1>5. CASE OpenBack(b)
  BY <1>5 DEF OpenBack, readerVars, fileVars, historyVars
<1>6. CASE ReadChunk(b) \/ Mismatch(b)
  BY <1>6 DEF ReadChunk, Mismatch, readerVars, fileVars, historyVars
<1>7. CASE Compare(b) \/ FailReadBack(b)
  BY <1>7 DEF Compare, FailReadBack, readerVars, fileVars, historyVars
<1>8. CASE Kill(b)
  <2>1. UNCHANGED <<mapped, name, temps, disk>>
    BY <1>8 DEF Kill, readerVars, fileVars
  <2>2. temps' = strays' \union ({temporary'[c] : c \in Builders} \ {None})
    BY <1>8, <2>1 DEF Kill
  <2> QED
    BY <1>8, <2>1, <2>2 DEF Kill
<1> QED
  BY <1>1, <1>2, <1>3, <1>4, <1>5, <1>6, <1>7, <1>8 DEF BuilderStep

LEMMA ApartReader ==
  ASSUME Shape, Apart, NEW r \in Readers, ReaderStep(r)
  PROVE  Apart'
BY DEF Shape, TypeOK, Apart, NoStrayTemporaries, ReaderStep, MapFile, Validate,
       RejectFile, DropEngine, Unmap, builderVars, fileVars, historyVars

LEMMA ApartMachine ==
  ASSUME Shape, Apart,
         (\E i \in Inodes : WriteBack(i)) \/ WriteBackDirectory \/ Crash
  PROVE  Apart'
<1> USE DEF Shape, TypeOK, Apart, NoStrayTemporaries
<1>1. ASSUME NEW i \in Inodes, WriteBack(i) PROVE Apart'
  BY <1>1 DEF WriteBack, builderVars, readerVars, historyVars
<1>2. CASE WriteBackDirectory
  BY <1>2 DEF WriteBackDirectory, builderVars, readerVars, historyVars
<1>3. CASE Crash
  BY <1>3 DEF Crash
<1> QED
  BY <1>1, <1>2, <1>3

LEMMA AlwaysApart == Spec => []Apart
<1>1. Shape /\ Apart /\ [Next]_vars => Apart'
  <2> SUFFICES ASSUME Shape, Apart, [Next]_vars PROVE Apart'
    OBVIOUS
  <2>1. CASE UNCHANGED vars
    BY <2>1 DEF vars, builderVars, readerVars, fileVars, historyVars, Apart,
                NoStrayTemporaries
  <2> QED
    BY <2>1, ApartBuilder, ApartReader, ApartMachine DEF Next
<1> QED
  BY <1>1, ApartInit, AlwaysShape, PTL DEF Spec

\* Nobody leaves a temporary file behind but a kill or a crash, and no builder
\* writes a file that another one writes or that is published.
THEOREM TemporariesAlwaysOwned == Spec => []NoStrayTemporaries
BY AlwaysApart, PTL DEF Apart

-----------------------------------------------------------------------------
(* What the files in use contain *)

Prefix(c, d) == Len(c) <= Len(d) /\ \A k \in 1..Len(c) : c[k] = d[k]

WritingOK(b) ==
  temporary[b] # None =>
    \A k \in 1..Len(data[temporary[b]]) : data[temporary[b]][k] = Dataset[b]

ReadingOK(b) ==
  /\ opened[b] # None =>
       /\ Complete(data[opened[b]])
       /\ Prefix(snapshot[b], data[opened[b]])
       /\ b \notin overtaken => data[opened[b]] = Database(b)
  /\ opened[b] = None => snapshot[b] = <<>>

PublishedOK(b) ==
  phase[b] = "published" /\ b \notin overtaken => data[name] = Database(b)

Contained ==
  /\ PathComplete
  /\ MappingsImmutable
  /\ MismatchesExplained
  /\ \A b \in Builders : WritingOK(b) /\ ReadingOK(b) /\ PublishedOK(b)

LEMMA ContainedInit == Init => Contained
BY DEF Init, Contained, PathComplete, MappingsImmutable, MismatchesExplained,
       WritingOK, ReadingOK, PublishedOK

Referenced(i) ==
  i = name \/ (\E b \in Builders : opened[b] = i) \/ (\E r \in Readers : mapped[r] = i)

\* A builder writes no file that anyone else uses.
LEMMA ReferencedKept ==
  ASSUME Shape, Apart, NEW b \in Builders, BuilderStep(b)
  PROVE  \A i \in Inodes : Referenced(i) => data'[i] = data[i]
<1>1. CASE CreateTemporary(b)
  BY <1>1 DEF CreateTemporary, NewFile, Free, Referenced, Shape, TypeOK
<1>2. CASE WriteChunk(b)
  BY <1>2 DEF WriteChunk, Referenced, Shape, TypeOK, Handles, Apart,
              NoStrayTemporaries
<1>3. CASE ~CreateTemporary(b) /\ ~WriteChunk(b)
  <2>1. data' = data
    BY <1>3 DEF BuilderStep, AbandonTemporary, Persist, Rename, OpenBack, ReadChunk,
                Compare, FailReadBack, Mismatch, Kill, fileVars
  <2> QED
    BY <2>1
<1> QED
  BY <1>1, <1>2, <1>3

\* A part of the builder's length is the whole.
LEMMA WrittenWhole ==
  ASSUME NEW b \in Builders, NEW c \in Contents, Len(c) = Chunks,
         \A k \in 1..Len(c) : c[k] = Dataset[b]
  PROVE  c = Database(b)
BY DatabaseContent, ContentsEqual

LEMMA DatabaseComplete ==
  ASSUME NEW b \in Builders
  PROVE  Complete(Database(b))
BY DEF Complete, Databases

LEMMA CompleteFacts ==
  ASSUME NEW c, Complete(c)
  PROVE  c \in Contents /\ Len(c) = Chunks
BY DatabaseContent DEF Complete, Databases

\* The step of a builder leaves every mapping as it is.
LEMMA ReadersUndisturbed ==
  ASSUME Shape, Apart, Contained, NEW b \in Builders, BuilderStep(b)
  PROVE  MappingsImmutable'
<1>1. UNCHANGED <<mapped, engine, seen>>
  BY DEF BuilderStep, CreateTemporary, WriteChunk, AbandonTemporary, Persist, Rename,
         OpenBack, ReadChunk, Compare, FailReadBack, Mismatch, Kill, readerVars
<1>2. \A r \in Readers : mapped[r] # None => data'[mapped[r]] = data[mapped[r]]
  BY ReferencedKept DEF Referenced, Shape, TypeOK
<1> QED
  BY <1>1, <1>2 DEF Contained, MappingsImmutable

\* What an idle or waiting builder knows stays true while another one works.
LEMMA OthersUndisturbed ==
  ASSUME Shape, Apart, Contained, NEW b \in Builders, BuilderStep(b),
         NEW c \in Builders \ {b}
  PROVE  /\ WritingOK(c)' /\ ReadingOK(c)' /\ PublishedOK(c)'
         /\ phase'[c] = "mismatched" => c \in overtaken'
<1>1. /\ phase'[c] = phase[c] /\ temporary'[c] = temporary[c]
      /\ opened'[c] = opened[c] /\ snapshot'[c] = snapshot[c]
  <2>1. CASE CreateTemporary(b)
    BY <2>1 DEF CreateTemporary, Shape, TypeOK
  <2>2. CASE WriteChunk(b) \/ Mismatch(b)
    BY <2>2 DEF WriteChunk, Mismatch, builderVars, Shape, TypeOK
  <2>3. CASE AbandonTemporary(b) \/ Persist(b)
    BY <2>3 DEF AbandonTemporary, Persist, Rename, Shape, TypeOK
  <2>4. CASE OpenBack(b) \/ ReadChunk(b)
    BY <2>4 DEF OpenBack, ReadChunk, Shape, TypeOK
  <2>5. CASE Compare(b) \/ FailReadBack(b) \/ Kill(b)
    BY <2>5 DEF Compare, FailReadBack, Kill, Shape, TypeOK
  <2> QED
    BY <2>1, <2>2, <2>3, <2>4, <2>5 DEF BuilderStep
<1>2. opened[c] # None => data'[opened[c]] = data[opened[c]]
  BY ReferencedKept DEF Referenced, Shape, TypeOK
<1>3. temporary[c] # None => data'[temporary[c]] = data[temporary[c]]
  <2>1. CASE CreateTemporary(b)
    BY <2>1 DEF CreateTemporary, NewFile, Free, Shape, TypeOK, Apart,
                NoStrayTemporaries
  <2>2. CASE WriteChunk(b)
    BY <2>2 DEF WriteChunk, Shape, TypeOK, Apart, NoStrayTemporaries
  <2>3. CASE ~CreateTemporary(b) /\ ~WriteChunk(b)
    <3>1. data' = data
      BY <2>3 DEF BuilderStep, AbandonTemporary, Persist, Rename, OpenBack, ReadChunk,
                  Compare, FailReadBack, Mismatch, Kill, fileVars
    <3> QED
      BY <3>1
  <2> QED
    BY <2>1, <2>2, <2>3
<1>4. WritingOK(c)'
  BY <1>1, <1>3 DEF Contained, WritingOK
<1>5. CASE Persist(b)
  <2>1. /\ c \in overtaken => c \in overtaken'
        /\ c \notin overtaken' => Dataset[c] = Dataset[b]
        /\ name' = temporary[b] /\ data' = data
    BY <1>5 DEF Persist, Rename
  <2>2. data[temporary[b]] = Database(b)
    BY <1>5, WrittenWhole DEF Persist, Contained, WritingOK, Shape, TypeOK, Handles
  <2>3. c \notin overtaken' => data'[name'] = Database(c)
    BY <2>1, <2>2 DEF Database
  <2>4. ReadingOK(c)'
    BY <1>1, <2>1 DEF Contained, ReadingOK, Complete, Prefix
  <2> QED
    BY <1>1, <1>4, <2>1, <2>3, <2>4 DEF Contained, PublishedOK, MismatchesExplained
<1>6. CASE ~Persist(b)
  <2>1. overtaken' = overtaken /\ name' = name
    BY <1>6 DEF BuilderStep, CreateTemporary, WriteChunk, AbandonTemporary, OpenBack,
                ReadChunk, Compare, FailReadBack, Mismatch, Kill, fileVars, historyVars
  <2>2. ReadingOK(c)'
    BY <1>1, <1>2, <2>1 DEF Contained, ReadingOK, Complete, Prefix
  <2>3. phase[c] = "published" => data'[name] = data[name]
    BY ReferencedKept DEF Referenced, Shape, TypeOK, Handles
  <2> QED
    BY <1>1, <1>4, <2>1, <2>2, <2>3 DEF Contained, PublishedOK, MismatchesExplained
<1> QED
  BY <1>5, <1>6

\* The builder itself, and the path.
LEMMA OwnStepKept ==
  ASSUME Shape, Apart, Contained, NEW b \in Builders, BuilderStep(b)
  PROVE  /\ WritingOK(b)' /\ ReadingOK(b)' /\ PublishedOK(b)'
         /\ phase'[b] = "mismatched" => b \in overtaken'
         /\ PathComplete'
<1> USE DEF Shape, TypeOK, Handles, Contained, WritingOK, ReadingOK, PublishedOK
<1>1. CASE ~Persist(b)
  <2>1. UNCHANGED <<name, crashes, renamed, overtaken>>
    BY <1>1 DEF BuilderStep, CreateTemporary, WriteChunk, AbandonTemporary, OpenBack,
                ReadChunk, Compare, FailReadBack, Mismatch, Kill, fileVars, historyVars
  <2>2. name # None => data'[name] = data[name]
    BY ReferencedKept DEF Referenced
  <2>3. PathComplete'
    BY <2>1, <2>2 DEF PathComplete
  <2>4. CASE CreateTemporary(b)
    BY <2>3, <2>4 DEF CreateTemporary
  <2>5. CASE WriteChunk(b)
    <3>1. temporary[b] \in Inodes /\ Dataset[b] \in Data
      BY <2>5 DEF WriteChunk, Data
    <3>2. data[temporary[b]] \in Contents /\ Len(data[temporary[b]]) \in Nat
      BY <3>1, ContentFacts
    <3> DEFINE c == data[temporary[b]]
    <3>4. /\ temporary'[b] = temporary[b]
          /\ data'[temporary[b]] = Append(c, Dataset[b]) /\ Len(c) < Chunks
          /\ \A k \in 1..Len(c) : c[k] = Dataset[b]
      BY <2>5, <3>1 DEF WriteChunk, builderVars
    <3>5. \A k \in 1..(Len(c) + 1) : Append(c, Dataset[b])[k] = Dataset[b]
      BY <3>1, <3>2, <3>4, AppendContent
    <3>6. Len(Append(c, Dataset[b])) = Len(c) + 1
      BY <3>1, <3>2, <3>4, AppendContent
    <3>3. WritingOK(b)'
      BY <3>4, <3>5, <3>6
    <3> QED
      BY <2>3, <2>5, <3>3 DEF WriteChunk, builderVars
  <2>6. CASE AbandonTemporary(b) \/ Mismatch(b)
    BY <2>3, <2>6 DEF AbandonTemporary, Mismatch
  <2>7. CASE OpenBack(b)
    <3>1. snapshot'[b] = <<>> /\ opened'[b] = name /\ data' = data
          /\ temporary'[b] = None /\ phase'[b] = "reading"
      BY <2>7 DEF OpenBack, fileVars
    <3>2. Complete(data[name])
      BY <2>7 DEF OpenBack, PathComplete
    <3>3. Prefix(<<>>, data[name])
      BY <3>2, CompleteFacts, ContentFacts DEF Prefix
    <3> QED
      BY <2>1, <2>3, <2>7, <3>1, <3>2, <3>3 DEF OpenBack, Complete
  <2>8. CASE ReadChunk(b)
    <3> DEFINE file == data[opened[b]]
    <3>1. /\ snapshot[b] \in Contents /\ file \in Contents /\ Len(file) \in Nat
          /\ Len(snapshot[b]) \in Nat /\ Len(snapshot[b]) < Len(file)
      BY <2>8, ContentFacts DEF ReadChunk
    <3>2. snapshot'[b] = Append(snapshot[b], file[Len(snapshot[b]) + 1])
      BY <2>8 DEF ReadChunk
    <3>3. Len(snapshot[b]) < Chunks /\ file[Len(snapshot[b]) + 1] \in Data
      BY <3>1, ContentFacts
    <3>4. Prefix(snapshot'[b], file)
      BY <2>8, <3>1, <3>2, <3>3, AppendContent DEF Prefix, ReadChunk
    <3> QED
      BY <2>1, <2>3, <2>8, <3>4 DEF ReadChunk, fileVars, Complete
  <2>9. CASE Compare(b)
    <3>1. b \notin overtaken => snapshot[b] = Database(b)
      <4> SUFFICES ASSUME b \notin overtaken PROVE snapshot[b] = Database(b)
        OBVIOUS
      <4>1. /\ data[opened[b]] = Database(b) /\ Prefix(snapshot[b], Database(b))
            /\ Len(snapshot[b]) >= Len(Database(b))
        BY <2>9 DEF Compare
      <4>2. snapshot[b] \in Contents /\ Database(b) \in Contents
        BY DatabaseContent
      <4> QED
        BY <4>1, <4>2, ContentFacts, ContentsEqual DEF Prefix
    <3> QED
      BY <2>1, <2>3, <2>9, <3>1 DEF Compare
  <2>10. CASE FailReadBack(b)
    BY <2>3, <2>10 DEF FailReadBack
  <2>11. CASE Kill(b)
    BY <2>3, <2>11 DEF Kill
  <2> QED
    BY <1>1, <2>4, <2>5, <2>6, <2>7, <2>8, <2>9, <2>10, <2>11 DEF BuilderStep
<1>2. CASE Persist(b)
  <2>1. data[temporary[b]] = Database(b)
    BY <1>2, WrittenWhole DEF Persist
  <2>2. /\ name' = temporary[b] /\ data' = data
        /\ UNCHANGED <<opened, snapshot>>
        /\ temporary'[b] = None /\ phase'[b] = "published" /\ opened[b] = None
    BY <1>2 DEF Persist, Rename
  <2> QED
    BY <2>1, <2>2, DatabaseComplete DEF PathComplete, Complete
<1> QED
  BY <1>1, <1>2

LEMMA ContainedBuilder ==
  ASSUME Shape, Apart, Contained, NEW b \in Builders, BuilderStep(b)
  PROVE  Contained'
<1>1. \A c \in Builders : /\ WritingOK(c)' /\ ReadingOK(c)' /\ PublishedOK(c)'
                          /\ phase'[c] = "mismatched" => c \in overtaken'
  BY OthersUndisturbed, OwnStepKept
<1> QED
  BY <1>1, OwnStepKept, ReadersUndisturbed DEF Contained, MismatchesExplained

LEMMA ContainedReader ==
  ASSUME Shape, Contained, NEW r \in Readers, ReaderStep(r)
  PROVE  Contained'
<1>1. UNCHANGED <<builderVars, fileVars, historyVars>>
  BY DEF ReaderStep, MapFile, Validate, RejectFile, DropEngine, Unmap
<1>2. MappingsImmutable'
  <2>1. CASE MapFile(r)
    BY <2>1 DEF MapFile, fileVars, Shape, TypeOK, Contained, MappingsImmutable
  <2>2. CASE Validate(r)
    BY <2>2 DEF Validate, fileVars, Shape, TypeOK, Contained, MappingsImmutable
  <2>3. CASE RejectFile(r) \/ DropEngine(r)
    BY <2>3 DEF RejectFile, DropEngine, Unmap, fileVars, Shape, TypeOK, Contained,
                MappingsImmutable
  <2> QED
    BY <2>1, <2>2, <2>3 DEF ReaderStep
<1> QED
  BY <1>1, <1>2 DEF Contained, PathComplete, MismatchesExplained, WritingOK,
       ReadingOK, PublishedOK, Complete, builderVars, fileVars, historyVars

LEMMA ContainedMachine ==
  ASSUME Shape, Contained,
         (\E i \in Inodes : WriteBack(i)) \/ WriteBackDirectory \/ Crash
  PROVE  Contained'
<1> USE DEF Contained, PathComplete, MappingsImmutable, MismatchesExplained, WritingOK,
            ReadingOK, PublishedOK, Complete
<1>1. CASE Crash
  BY <1>1 DEF Crash, Shape, TypeOK
<1>2. CASE (\E i \in Inodes : WriteBack(i)) \/ WriteBackDirectory
  BY <1>2 DEF WriteBack, WriteBackDirectory, builderVars, readerVars, historyVars
<1> QED
  BY <1>1, <1>2

LEMMA AlwaysContained == Spec => []Contained
<1>1. Shape /\ Apart /\ Contained /\ [Next]_vars => Contained'
  <2> SUFFICES ASSUME Shape, Apart, Contained, [Next]_vars PROVE Contained'
    OBVIOUS
  <2>1. CASE UNCHANGED vars
    BY <2>1 DEF vars, builderVars, readerVars, fileVars, historyVars, Contained,
                PathComplete, MappingsImmutable, MismatchesExplained, WritingOK,
                ReadingOK, PublishedOK, Complete
  <2> QED
    BY <2>1, ContainedBuilder, ContainedReader, ContainedMachine DEF Next
<1> QED
  BY <1>1, ContainedInit, AlwaysShape, AlwaysApart, PTL DEF Spec

\* Publication is atomic while the machine is up, and the first one after a crash
\* puts a complete database at the path again.
THEOREM PathAlwaysComplete == Spec => []PathComplete
BY AlwaysContained, PTL DEF Contained

\* No sequence of builds, failures, kills and crashes changes bytes that a reader
\* has mapped, or lets a validated engine stand on a part of a database.
THEOREM MappingsAlwaysImmutable == Spec => []MappingsImmutable
BY AlwaysContained, PTL DEF Contained

\* A builder whose comparison fails was overtaken by one with other data.
THEOREM MismatchesAlwaysExplained == Spec => []MismatchesExplained
BY AlwaysContained, PTL DEF Contained

LEMMA ContainedWhole ==
  ASSUME Shape, Contained
  PROVE  SnapshotsWhole
<1> SUFFICES ASSUME NEW b \in Builders, phase[b] = "reading"
             PROVE  \E d \in Databases :
                      snapshot[b] = SubSeq(d, 1, Len(snapshot[b]))
  BY DEF SnapshotsWhole
<1> DEFINE d == data[opened[b]]
<1>1. d \in Databases /\ Prefix(snapshot[b], d) /\ snapshot[b] \in Contents
  BY DEF Shape, TypeOK, Handles, Contained, ReadingOK, Complete
<1>2. d \in Contents
  BY <1>1, CompleteFacts DEF Complete
<1>3. snapshot[b] = SubSeq(d, 1, Len(snapshot[b]))
  BY <1>1, <1>2 DEF Prefix, Contents
<1> QED
  BY <1>1, <1>3

\* What a builder reads back is the beginning of one database.
THEOREM SnapshotsAlwaysWhole == Spec => []SnapshotsWhole
BY AlwaysShape, AlwaysContained, ContainedWhole, PTL

-----------------------------------------------------------------------------
(* The refinement *)

Maps == {Dataset[b] : b \in Builders}

LEMMA CompleteMap ==
  ASSUME NEW c, Complete(c)
  PROVE  c[1] \in Maps
BY DatabaseContent DEF Complete, Databases, Maps

LEMMA InitPromised == Init => Promise!Init
BY DEF Init, Promise!Init, AtPath, Serving

\* A builder's step publishes a complete database or changes nothing that shows.
LEMMA BuilderPromised ==
  ASSUME Shape, Apart, Contained, NEW b \in Builders, BuilderStep(b)
  PROVE  Promise!Publish \/ UNCHANGED <<AtPath, Serving>>
<1>1. Serving' = Serving
  <2>1. UNCHANGED mapped
    BY DEF BuilderStep, CreateTemporary, WriteChunk, AbandonTemporary, Persist, Rename,
           OpenBack, ReadChunk, Compare, FailReadBack, Mismatch, Kill, readerVars
  <2>2. \A r \in Readers : mapped[r] # None => data'[mapped[r]] = data[mapped[r]]
    BY ReferencedKept DEF Referenced, Shape, TypeOK
  <2> QED
    BY <2>1, <2>2 DEF Serving, Held, Complete
<1>2. CASE Persist(b)
  <2>3. data[temporary[b]] = Database(b)
    BY <1>2, WrittenWhole DEF Persist, Contained, WritingOK, Shape, TypeOK, Handles
  <2>1. /\ name' = temporary[b] /\ data' = data /\ name' # None
        /\ data[temporary[b]] = Database(b)
    BY <1>2, <2>3 DEF Persist, Rename, Shape, TypeOK, Handles
  <2>2. AtPath' \in Maps
    BY <2>1, DatabaseComplete, CompleteMap DEF AtPath, Held, Complete
  <2> QED
    BY <1>1, <2>2 DEF Promise!Publish, Maps
<1>3. CASE ~Persist(b)
  <2>1. name' = name
    BY <1>3 DEF BuilderStep, CreateTemporary, WriteChunk, AbandonTemporary, OpenBack,
                ReadChunk, Compare, FailReadBack, Mismatch, Kill, fileVars
  <2>2. name # None => data'[name] = data[name]
    BY ReferencedKept DEF Referenced, Shape, TypeOK
  <2> QED
    BY <1>1, <2>1, <2>2 DEF AtPath, Held, Complete
<1> QED
  BY <1>2, <1>3

LEMMA ReaderPromised ==
  ASSUME Shape, NEW r \in Readers, ReaderStep(r)
  PROVE  Promise!Open(r) \/ Promise!Close(r) \/ UNCHANGED <<AtPath, Serving>>
<1>1. AtPath' = AtPath /\ data' = data
  BY DEF ReaderStep, MapFile, Validate, RejectFile, DropEngine, Unmap, fileVars,
         AtPath, Held, Complete
<1> USE DEF Shape, TypeOK, Handles
<1>2. CASE MapFile(r)
  <2>1. mapped' = [mapped EXCEPT ![r] = name] /\ mapped[r] = None /\ name # None
    BY <1>2 DEF MapFile
  <2>2. CASE Complete(data[name])
    <3>1. Serving' = [Serving EXCEPT ![r] = AtPath]
      BY <1>1, <2>1, <2>2 DEF Serving, Held, AtPath, Complete
    <3>2. AtPath \in Maps /\ Serving[r] = None
      BY <2>1, <2>2, CompleteMap DEF Serving, AtPath, Held
    <3> QED
      BY <1>1, <3>1, <3>2 DEF Promise!Open, Maps
  <2>3. CASE ~Complete(data[name])
    <3>1. Serving' = Serving
      BY <1>1, <2>1, <2>3 DEF Serving, Held, Complete
    <3> QED
      BY <1>1, <3>1
  <2> QED
    BY <2>2, <2>3
<1>3. CASE Validate(r)
  BY <1>1, <1>3 DEF Validate, Serving, Held, Complete
<1>4. CASE RejectFile(r) \/ DropEngine(r)
  <2>1. mapped' = [mapped EXCEPT ![r] = None] /\ mapped \in [Readers -> Inodes \union {None}]
    BY <1>4 DEF RejectFile, DropEngine, Unmap
  <2>2. Serving' = [Serving EXCEPT ![r] = None]
    BY <1>1, <2>1 DEF Serving, Held, Complete
  <2> QED
    BY <1>1, <2>2 DEF Promise!Close
<1> QED
  BY <1>2, <1>3, <1>4 DEF ReaderStep

LEMMA MachinePromised ==
  ASSUME Shape, (\E i \in Inodes : WriteBack(i)) \/ WriteBackDirectory \/ Crash
  PROVE  Promise!Crash \/ UNCHANGED <<AtPath, Serving>>
<1>1. CASE Crash
  <2>1. Serving' = [r \in Readers |-> None]
    BY <1>1 DEF Crash, Serving
  <2>2. AtPath' \in Maps \union {None, Torn}
    BY CompleteMap DEF AtPath, Held, Complete
  <2> QED
    BY <2>1, <2>2 DEF Promise!Crash, Maps
<1>2. CASE (\E i \in Inodes : WriteBack(i)) \/ WriteBackDirectory
  <2>1. UNCHANGED <<data, name, mapped>>
    BY <1>2 DEF WriteBack, WriteBackDirectory, readerVars
  <2> QED
    BY <2>1 DEF AtPath, Serving, Held, Complete
<1> QED
  BY <1>1, <1>2

\* Users of the path see the abstract publication and nothing else.
THEOREM PublicationImplemented == Spec => ImplementsPublication
<1>1. Shape /\ Apart /\ Contained /\ [Next]_vars
        => [Promise!Next]_<<AtPath, Serving>>
  <2> SUFFICES ASSUME Shape, Apart, Contained, [Next]_vars
               PROVE  [Promise!Next]_<<AtPath, Serving>>
    OBVIOUS
  <2>1. CASE UNCHANGED vars
    BY <2>1 DEF vars, readerVars, fileVars, AtPath, Serving, Held, Complete
  <2> QED
    BY <2>1, BuilderPromised, ReaderPromised, MachinePromised DEF Next, Promise!Next
<1> QED
  BY <1>1, InitPromised, AlwaysShape, AlwaysApart, AlwaysContained, PTL
     DEF Spec, ImplementsPublication, Promise!Spec
=============================================================================
