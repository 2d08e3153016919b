------------------------- MODULE BuildPipeline_proof -------------------------
(***************************************************************************)
(* Builds decode the pinned source or nothing, in directories of their     *)
(* own, for any number of runs and any changes of the source path; this is *)
(* proved of SourceStaging.  main implements it, so it holds of the whole  *)
(* tool, and an invariant of its back half gives what the path, the        *)
(* readers and the comparison at the end see.                              *)
(***************************************************************************)
EXTENDS BuildPipeline, TLAPS

USE StagingAssumption

LEMMA ContentFacts ==
  ASSUME NEW c \in Contents
  PROVE  /\ c \in Seq(Buffers) /\ Len(c) \in 0..MaxLength
         /\ \A k \in 1..Len(c) : c[k] \in Buffers
BY DEF Contents

LEMMA SequenceContent ==
  ASSUME NEW c \in Seq(Buffers), Len(c) <= MaxLength
  PROVE  c \in Contents
<1>1. c \in [1..Len(c) -> Buffers] /\ Len(c) \in 0..MaxLength
  OBVIOUS
<1> QED
  BY <1>1 DEF Contents

LEMMA EmptyContent == <<>> \in Contents
<1>1. <<>> \in Seq(Buffers) /\ Len(<<>>) <= MaxLength
  OBVIOUS
<1> QED
  BY <1>1, SequenceContent

\* A copy that is shorter than the file takes one more buffer of it.
LEMMA CopiedContent ==
  ASSUME NEW c \in Contents, NEW d \in Contents, Len(c) < Len(d)
  PROVE  Append(c, d[Len(c) + 1]) \in Contents
<1>1. c \in Seq(Buffers) /\ Len(c) \in Nat /\ Len(d) \in 0..MaxLength
  BY ContentFacts
<1>2. Len(c) + 1 \in 1..Len(d)
  BY <1>1
<1>3. d[Len(c) + 1] \in Buffers
  BY <1>2, ContentFacts
<1>4. Append(c, d[Len(c) + 1]) \in Seq(Buffers)
      /\ Len(Append(c, d[Len(c) + 1])) = Len(c) + 1
  BY <1>1, <1>3
<1>5. Len(Append(c, d[Len(c) + 1])) <= MaxLength
  BY <1>1, <1>4
<1> QED
  BY <1>4, <1>5, SequenceContent

LEMMA NoFileType == NoFile \in FileType
BY EmptyContent DEF NoFile, FileType

-----------------------------------------------------------------------------
(* The inductive invariant: what a run has at each stage *)

Copied(b) == stage[b] \in {"staged", "described", "converting", "prepared", "decoded"}
Converted(b) == stage[b] \in {"converting", "prepared", "decoded"}

RunOK(b) ==
  /\ stage[b] \in {"start", "opened", "exited", "killed"} => snapshotDir[b] = None
  /\ stage[b] = "copying" \/ Copied(b) => snapshotDir[b] # None
  /\ Converted(b) => preparedDir[b] # None
  /\ preparedDir[b] # None => Converted(b) \/ stage[b] = "leaving"
  /\ stage[b] \in {"opened", "copying"} => opened[b] # None
  /\ stage[b] = "copying" =>
       /\ Snapshot(b).content = hashed[b]
       /\ Snapshot(b).readonly = FALSE
  /\ Copied(b) => Snapshot(b).content = Pinned[b]
  /\ stage[b] = "converting" => held[preparedDir[b]].readonly = FALSE
  /\ stage[b] = "prepared" => held[preparedDir[b]].content = Pinned[b]
  /\ stage[b] = "decoded" =>
       image[b].content = Pinned[b] /\ image[b].shape = "pinned"

IInv == TypeOK /\ DirectoriesOwned /\ \A b \in Builders : RunOK(b)

LEMMA InitIInv == Init => IInv
<1> SUFFICES ASSUME Init PROVE IInv
  OBVIOUS
<1>1. /\ hashed \in [Builders -> Contents] /\ image \in [Builders -> FileType]
      /\ held \in [Directories -> FileType]
  BY EmptyContent, NoFileType DEF Init
<1>2. edits \in 0..MaxEdits /\ losses \in 0..MaxLosses
  BY DEF Init
<1>3. TypeOK
  BY <1>1, <1>2 DEF Init, TypeOK, Stages
<1>4. DirectoriesOwned
  BY DEF Init, DirectoriesOwned, Owned
<1>5. \A b \in Builders : RunOK(b)
  BY DEF Init, RunOK, Copied, Converted
<1> QED
  BY <1>3, <1>4, <1>5 DEF IInv

-----------------------------------------------------------------------------
(* A run and the others *)

\* What belongs to another run is neither written nor removed.
LEMMA HeldKept ==
  ASSUME IInv, NEW b \in Builders, BuilderStep(b)
  PROVE  \A d \in exists \ Owned(b) : held'[d] = held[d] /\ d \in exists'
<1> USE DEF IInv, TypeOK, RunOK, Copied, Converted, Owned
<1>1. CASE CreateSnapshot(b)
  BY <1>1 DEF CreateSnapshot, NewDirectory
<1>2. CASE CreatePrepared(b)
  BY <1>2 DEF CreatePrepared, NewDirectory
<1>3. CASE CopyBuffer(b)
  BY <1>3 DEF CopyBuffer
<1>4. CASE Seal(b)
  BY <1>4 DEF Seal
<1>5. CASE Convert(b)
  BY <1>5 DEF Convert
<1>6. CASE DropPrepared(b) \/ DropSnapshot(b)
  <2>1. CASE DropPrepared(b)
    BY <2>1 DEF DropPrepared, Remove
  <2>2. CASE DropSnapshot(b)
    BY <2>2 DEF DropSnapshot, Remove
  <2> QED
    BY <1>6, <2>1, <2>2
<1>7. CASE OpenSource(b) \/ ValidateMetadata(b) \/ Decode(b) \/ Leave(b) \/ Rerun(b)
  BY <1>7 DEF OpenSource, ValidateMetadata, Decode, Leave, Rerun, tempVars
<1>8. CASE Kill(b)
  BY <1>8 DEF Kill
<1> QED
  BY <1>1, <1>2, <1>3, <1>4, <1>5, <1>6, <1>7, <1>8 DEF BuilderStep, Stage, Drop

LEMMA OthersKept ==
  ASSUME IInv, NEW b \in Builders, BuilderStep(b), NEW c \in Builders \ {b}
  PROVE  /\ stage'[c] = stage[c] /\ opened'[c] = opened[c] /\ hashed'[c] = hashed[c]
         /\ snapshotDir'[c] = snapshotDir[c] /\ preparedDir'[c] = preparedDir[c]
         /\ image'[c] = image[c]
<1> USE DEF IInv, TypeOK, Proceed
<1>1. CASE OpenSource(b) \/ CreateSnapshot(b)
  BY <1>1 DEF OpenSource, CreateSnapshot
<1>2. CASE CopyBuffer(b) \/ Seal(b)
  BY <1>2 DEF CopyBuffer, Seal
<1>3. CASE ValidateMetadata(b) \/ CreatePrepared(b)
  BY <1>3 DEF ValidateMetadata, CreatePrepared
<1>4. CASE Convert(b) \/ Decode(b)
  BY <1>4 DEF Convert, Decode
<1>5. CASE Leave(b) \/ Rerun(b)
  BY <1>5 DEF Leave, Rerun
<1>6. CASE DropPrepared(b) \/ DropSnapshot(b)
  BY <1>6 DEF DropPrepared, DropSnapshot
<1>7. CASE Kill(b)
  BY <1>7 DEF Kill
<1> QED
  BY <1>1, <1>2, <1>3, <1>4, <1>5, <1>6, <1>7 DEF BuilderStep, Stage, Drop

LEMMA OtherRunOK ==
  ASSUME IInv, NEW b \in Builders, BuilderStep(b), NEW c \in Builders \ {b}
  PROVE  RunOK(c)'
<1>1. Owned(c) \subseteq exists \ Owned(b)
  BY DEF IInv, DirectoriesOwned
<1>2. /\ snapshotDir[c] # None => held'[snapshotDir[c]] = held[snapshotDir[c]]
      /\ preparedDir[c] # None => held'[preparedDir[c]] = held[preparedDir[c]]
  BY <1>1, HeldKept DEF Owned
<1>3. /\ stage'[c] = stage[c] /\ opened'[c] = opened[c] /\ hashed'[c] = hashed[c]
      /\ snapshotDir'[c] = snapshotDir[c] /\ preparedDir'[c] = preparedDir[c]
      /\ image'[c] = image[c]
  BY OthersKept
<1>4. RunOK(c)
  BY DEF IInv
<1> QED
  BY <1>2, <1>3, <1>4 DEF RunOK, Copied, Converted, Snapshot

-----------------------------------------------------------------------------
(* The steps of a run *)

LEMMA ReadonlySet ==
  ASSUME NEW f \in FileType, NEW ok \in BOOLEAN
  PROVE  [f EXCEPT !.readonly = ok] \in FileType
BY DEF FileType

\* A destructor removes the directory, or leaves it as it is and nobody's.
LEMMA RemovedTypes ==
  ASSUME TypeOK, NEW d \in Directories \union {None}, Remove(d)
  PROVE  /\ exists' \subseteq Directories /\ held' \in [Directories -> FileType]
         /\ orphans' \subseteq Directories /\ losses' \in 0..MaxLosses
<1>1. CASE UNCHANGED <<orphans, losses>> /\ exists' = exists \ {d}
           /\ held' = [e \in Directories |-> IF e = d THEN NoFile ELSE held[e]]
  BY <1>1, NoFileType DEF TypeOK
<1>2. CASE /\ d # None /\ losses < MaxLosses
           /\ orphans' = orphans \union {d} /\ losses' = losses + 1
           /\ UNCHANGED <<held, exists>>
  BY <1>2 DEF TypeOK
<1> QED
  BY <1>1, <1>2 DEF Remove

LEMMA TypeKept ==
  ASSUME IInv, NEW b \in Builders, BuilderStep(b)
  PROVE  TypeOK'
<1> USE DEF IInv, TypeOK, Stages, Proceed, sourceVars, tempVars
<1>1. CASE OpenSource(b)
  BY <1>1 DEF OpenSource
<1>2. CASE CreateSnapshot(b)
  <2>1. [NoFile EXCEPT !.shape = "source"] \in FileType
    BY EmptyContent DEF NoFile, FileType
  <2> QED
    BY <1>2, <2>1, EmptyContent DEF CreateSnapshot
<1>3. CASE CopyBuffer(b)
  <2> DEFINE c == Append(hashed[b], content[opened[b]][Len(hashed[b]) + 1])
  <2>1. /\ opened[b] \in Files /\ snapshotDir[b] \in Directories
        /\ Snapshot(b).content = hashed[b]
    BY <1>3 DEF CopyBuffer, RunOK
  <2>2. c \in Contents
    BY <1>3, <2>1, CopiedContent DEF CopyBuffer
  <2>3. [Snapshot(b) EXCEPT !.content = c] \in FileType
    <3>1. Snapshot(b) \in FileType
      BY <2>1 DEF Snapshot
    <3> HIDE DEF c
    <3> QED
      BY <2>2, <3>1 DEF FileType
  <2>4. hashed' = [hashed EXCEPT ![b] = c]
    BY <1>3 DEF CopyBuffer
  <2>5. held' = [held EXCEPT ![snapshotDir[b]] = [Snapshot(b) EXCEPT !.content = c]]
    BY <1>3, <2>1 DEF CopyBuffer, Snapshot
  <2> HIDE DEF c
  <2>6. hashed' \in [Builders -> Contents] /\ held' \in [Directories -> FileType]
    BY <2>2, <2>3, <2>4, <2>5
  <2> QED
    BY <1>3, <2>6 DEF CopyBuffer
<1>4. CASE Seal(b)
  <2>1. held' \in [Directories -> FileType]
    <3> DEFINE ok == Digest(hashed[b]) = Digest(Pinned[b])
    <3>1. held' = [held EXCEPT ![snapshotDir[b]].readonly = ok] /\ ok \in BOOLEAN
      BY <1>4 DEF Seal
    <3> HIDE DEF ok
    <3>2. \A e \in Directories : [held[e] EXCEPT !.readonly = ok] \in FileType
      BY <3>1, ReadonlySet
    <3> QED
      BY <3>1, <3>2
  <2> QED
    BY <1>4, <2>1, EmptyContent DEF Seal
<1>5. CASE ValidateMetadata(b)
  BY <1>5 DEF ValidateMetadata
<1>6. CASE CreatePrepared(b)
  BY <1>6, NoFileType DEF CreatePrepared
<1>7. CASE Convert(b)
  <2>1. PICK shape \in {"none", "pinned", "other"} :
          held' = [held EXCEPT ![preparedDir[b]] =
                     [content |-> Snapshot(b).content, shape |-> shape,
                      readonly |-> FALSE]]
    BY <1>7 DEF Convert
  <2>2. Snapshot(b).content \in Contents
    BY <1>7 DEF Convert, RunOK, Copied
  <2>3. held' \in [Directories -> FileType]
    BY <2>1, <2>2 DEF FileType
  <2> QED
    BY <1>7, <2>3 DEF Convert
<1>8. CASE Decode(b)
  <2>1. PreparedFile(b) \in FileType
    BY <1>8 DEF Decode, RunOK, Converted, PreparedFile
  <2> QED
    BY <1>8, <2>1 DEF Decode
<1>9. CASE Leave(b) \/ Rerun(b)
  BY <1>9 DEF Leave, Rerun
<1>10. CASE DropPrepared(b)
  <2>1. /\ exists' \subseteq Directories /\ held' \in [Directories -> FileType]
        /\ orphans' \subseteq Directories /\ losses' \in 0..MaxLosses
    BY <1>10, NoFileType, RemovedTypes DEF DropPrepared
  <2> QED
    BY <1>10, <2>1, NoFileType DEF DropPrepared
<1>11. CASE DropSnapshot(b)
  <2>1. /\ exists' \subseteq Directories /\ held' \in [Directories -> FileType]
        /\ orphans' \subseteq Directories /\ losses' \in 0..MaxLosses
    BY <1>11, NoFileType, RemovedTypes DEF DropSnapshot
  <2> QED
    BY <1>11, <2>1, EmptyContent DEF DropSnapshot
<1>12. CASE Kill(b)
  <2>1. orphans' \subseteq Directories /\ losses' \in 0..MaxLosses
    BY <1>12 DEF Kill, Owned
  <2> QED
    BY <1>12, <2>1, NoFileType, EmptyContent DEF Kill
<1> QED
  BY <1>1, <1>2, <1>3, <1>4, <1>5, <1>6, <1>7, <1>8, <1>9, <1>10, <1>11, <1>12
     DEF BuilderStep, Stage, Drop

LEMMA OwnedKept ==
  ASSUME IInv, NEW b \in Builders, BuilderStep(b)
  PROVE  DirectoriesOwned'
<1> USE DEF IInv, TypeOK, Owned
<1>0. \A c \in Builders \ {b} : Owned(c)' = Owned(c)
  BY OthersKept
<1>1. CASE CreateSnapshot(b) \/ CreatePrepared(b)
  <2>1. PICK d \in Directories :
          /\ d \notin exists /\ exists' = exists \union {d}
          /\ Owned(b)' = Owned(b) \union {d}
          /\ preparedDir'[b] # None => snapshotDir'[b] \notin {None, preparedDir'[b]}
    <3>1. CASE CreateSnapshot(b)
      BY <3>1 DEF CreateSnapshot, NewDirectory, RunOK, Converted
    <3>2. CASE CreatePrepared(b)
      BY <3>2 DEF CreatePrepared, NewDirectory, RunOK, Copied, Converted, DirectoriesOwned
    <3> QED
      BY <1>1, <3>1, <3>2
  <2>2. orphans' = orphans
    BY <1>1 DEF CreateSnapshot, CreatePrepared
  <2>3. \A c \in Builders \ {b} : preparedDir'[c] # None =>
          snapshotDir'[c] \notin {None, preparedDir'[c]}
    BY OthersKept DEF DirectoriesOwned
  <2> HIDE DEF Owned
  <2> QED
    BY <1>0, <2>1, <2>2, <2>3 DEF DirectoriesOwned
<1>2. CASE DropPrepared(b) \/ DropSnapshot(b)
  <2>1. PICK d : /\ Remove(d)
                 /\ Owned(b)' = Owned(b) \ {d}
                 /\ d \in Owned(b) \union {None}
                 /\ preparedDir'[b] = None
    <3>1. CASE DropPrepared(b)
      <4>1. /\ Remove(preparedDir[b]) /\ preparedDir'[b] = None
            /\ snapshotDir'[b] = snapshotDir[b]
        BY <3>1 DEF DropPrepared
      <4>2. preparedDir[b] # None => snapshotDir[b] # preparedDir[b]
        BY DEF DirectoriesOwned
      <4>3. Owned(b)' = Owned(b) \ {preparedDir[b]}
        BY <4>1, <4>2
      <4>4. preparedDir[b] \in Owned(b) \union {None}
        OBVIOUS
      <4> QED
        BY <4>1, <4>3, <4>4
    <3>2. CASE DropSnapshot(b)
      <4>1. /\ Remove(snapshotDir[b]) /\ snapshotDir'[b] = None
            /\ preparedDir'[b] = preparedDir[b]
        BY <3>2 DEF DropSnapshot
      <4>2. preparedDir[b] = None
        BY <3>2 DEF DropSnapshot, RunOK, Converted
      <4>3. Owned(b)' = Owned(b) \ {snapshotDir[b]}
        BY <4>1, <4>2
      <4>4. snapshotDir[b] \in Owned(b) \union {None}
        OBVIOUS
      <4> QED
        BY <4>1, <4>2, <4>3, <4>4
    <3> QED
      BY <1>2, <3>1, <3>2
  <2>2. \/ exists' = exists \ {d} /\ orphans' = orphans
        \/ exists' = exists /\ orphans' = orphans \union {d} /\ d \in Owned(b)
    BY <2>1 DEF Remove
  <2>3. \A c \in Builders \ {b} : preparedDir'[c] # None =>
          snapshotDir'[c] \notin {None, preparedDir'[c]}
    BY OthersKept DEF DirectoriesOwned
  <2>4. None \notin exists
    OBVIOUS
  <2> HIDE DEF Owned
  <2>5. /\ exists = orphans \union UNION {Owned(c) : c \in Builders}
        /\ \A x, y \in Builders : x # y => Owned(x) \intersect Owned(y) = {}
        /\ \A c \in Builders : Owned(c) \intersect orphans = {} /\ Owned(c) \subseteq exists
    BY DEF DirectoriesOwned
  <2>6. exists' = orphans' \union UNION {Owned(c)' : c \in Builders}
    <3>1. CASE exists' = exists \ {d} /\ orphans' = orphans
      BY <1>0, <2>1, <2>4, <2>5, <3>1
    <3>2. CASE exists' = exists /\ orphans' = orphans \union {d} /\ d \in Owned(b)
      BY <1>0, <2>1, <2>5, <3>2
    <3> QED
      BY <2>2, <3>1, <3>2
  <2>7. \A c \in Builders : Owned(c)' \subseteq Owned(c)
    BY <1>0, <2>1
  <2>8. \A c \in Builders : Owned(c)' \intersect orphans' = {}
    BY <1>0, <2>1, <2>2, <2>5
  <2>9. \A x, y \in Builders : x # y => Owned(x)' \intersect Owned(y)' = {}
    BY <2>5, <2>7
  <2> QED
    BY <2>1, <2>3, <2>6, <2>8, <2>9 DEF DirectoriesOwned
<1>3. CASE Kill(b)
  <2>1. exists' = exists /\ orphans' = orphans \union Owned(b) /\ Owned(b)' = {}
        /\ preparedDir'[b] = None
    BY <1>3 DEF Kill
  <2>2. \A c \in Builders \ {b} : preparedDir'[c] # None =>
          snapshotDir'[c] \notin {None, preparedDir'[c]}
    BY OthersKept DEF DirectoriesOwned
  <2> HIDE DEF Owned
  <2> QED
    BY <1>0, <2>1, <2>2 DEF DirectoriesOwned
<1>4. CASE /\ ~CreateSnapshot(b) /\ ~CreatePrepared(b) /\ ~DropPrepared(b)
           /\ ~DropSnapshot(b) /\ ~Kill(b)
  <2>1. UNCHANGED <<snapshotDir, preparedDir, exists, orphans>>
    BY <1>4 DEF BuilderStep, Stage, Drop, OpenSource, CopyBuffer, Seal,
                ValidateMetadata, Convert, Decode, Leave, Rerun, tempVars
  <2>2. \A c \in Builders : Owned(c)' = Owned(c)
    BY <2>1
  <2> HIDE DEF Owned
  <2> QED
    BY <2>1, <2>2 DEF DirectoriesOwned
<1> QED
  BY <1>1, <1>2, <1>3, <1>4

LEMMA OwnRunOK ==
  ASSUME IInv, NEW b \in Builders, BuilderStep(b)
  PROVE  RunOK(b)'
<1> USE DEF IInv, TypeOK, RunOK, Copied, Converted, Snapshot, Proceed
<1>1. CASE OpenSource(b)
  BY <1>1 DEF OpenSource
<1>2. CASE CreateSnapshot(b)
  <2>1. PICK d \in Directories :
          /\ snapshotDir' = [snapshotDir EXCEPT ![b] = d]
          /\ held' = [held EXCEPT ![d] = [NoFile EXCEPT !.shape = "source"]]
    BY <1>2 DEF CreateSnapshot
  <2>2. held'[snapshotDir'[b]].content = <<>> /\ held'[snapshotDir'[b]].readonly = FALSE
    BY <2>1 DEF NoFile
  <2> QED
    BY <1>2, <2>1, <2>2 DEF CreateSnapshot
<1>3. CASE CopyBuffer(b)
  <2> DEFINE d == snapshotDir[b]
             buffer == content[opened[b]][Len(hashed[b]) + 1]
  <2>1. /\ d \in Directories /\ held[d].content = hashed[b]
        /\ held[d] \in FileType /\ held[d].readonly = FALSE
    BY <1>3 DEF CopyBuffer
  <2>2. /\ hashed' = [hashed EXCEPT ![b] = Append(@, buffer)]
        /\ held' = [held EXCEPT ![d].content = Append(@, buffer)]
        /\ UNCHANGED <<stage, opened, snapshotDir, preparedDir>>
    BY <1>3 DEF CopyBuffer
  <2> HIDE DEF buffer
  <2>3. held'[d].content = hashed'[b] /\ held'[d].readonly = FALSE
    BY <2>1, <2>2 DEF FileType
  <2> QED
    BY <1>3, <2>1, <2>2, <2>3 DEF CopyBuffer
<1>4. CASE Seal(b)
  <2>1. hashed[b] \in Contents /\ Pinned[b] \in Contents
    OBVIOUS
  <2>2. Digest(hashed[b]) = Digest(Pinned[b]) => hashed[b] = Pinned[b]
    BY <2>1
  <2> QED
    BY <1>4, <2>2 DEF Seal, FileType
<1>5. CASE ValidateMetadata(b)
  BY <1>5 DEF ValidateMetadata, tempVars
<1>6. CASE CreatePrepared(b)
  <2>1. snapshotDir[b] \in exists
    BY <1>6 DEF CreatePrepared, DirectoriesOwned, Owned
  <2> QED
    BY <1>6, <2>1 DEF CreatePrepared, NewDirectory, NoFile
<1>7. CASE Convert(b)
  BY <1>7 DEF Convert, DirectoriesOwned
<1>8. CASE Decode(b)
  BY <1>8 DEF Decode, PreparedFile, tempVars
<1>9. CASE Leave(b) \/ Rerun(b)
  BY <1>9 DEF Leave, Rerun, tempVars
<1>10. CASE DropPrepared(b) \/ DropSnapshot(b)
  BY <1>10 DEF DropPrepared, DropSnapshot
<1>11. CASE Kill(b)
  BY <1>11 DEF Kill
<1> QED
  BY <1>1, <1>2, <1>3, <1>4, <1>5, <1>6, <1>7, <1>8, <1>9, <1>10, <1>11
     DEF BuilderStep, Stage, Drop

-----------------------------------------------------------------------------
(* The theorems *)

\* What the invariant says of runs depends on the variables of runs.
LEMMA RunsUnchanged ==
  ASSUME IInv, UNCHANGED <<stage, opened, hashed, snapshotDir, preparedDir, image,
                           held, exists, orphans>>, TypeOK'
  PROVE  IInv'
<1>1. \A b \in Builders : Owned(b)' = Owned(b)
  BY DEF Owned
<1>2. DirectoriesOwned'
  BY <1>1 DEF IInv, DirectoriesOwned
<1>3. \A b \in Builders : RunOK(b)'
  BY DEF IInv, RunOK, Copied, Converted, Snapshot
<1> QED
  BY <1>2, <1>3 DEF IInv

LEMMA SourceKept ==
  ASSUME IInv, Replace \/ \E f \in Files : Rewrite(f)
  PROVE  IInv'
<1>1. UNCHANGED <<stage, opened, hashed, snapshotDir, preparedDir, image, tempVars>>
  BY DEF Replace, Rewrite
<1>2. /\ source' \in Files \union {None} /\ content' \in [Files -> Contents]
      /\ edits' \in 0..MaxEdits
  BY DEF IInv, TypeOK, Replace, Rewrite
<1>3. UNCHANGED <<held, exists, orphans, losses>>
  BY <1>1 DEF tempVars
<1>4. TypeOK'
  BY <1>1, <1>2, <1>3 DEF IInv, TypeOK
<1> QED
  BY <1>1, <1>3, <1>4, RunsUnchanged

LEMMA AlwaysIInv == Spec => []IInv
<1>1. IInv /\ [Next]_vars => IInv'
  <2> SUFFICES ASSUME IInv, [Next]_vars PROVE IInv'
    OBVIOUS
  <2>1. ASSUME NEW b \in Builders, BuilderStep(b) PROVE IInv'
    BY <2>1, TypeKept, OwnedKept, OwnRunOK, OtherRunOK DEF IInv
  <2>2. CASE UNCHANGED vars
    <3>1. TypeOK'
      BY <2>2 DEF vars, sourceVars, tempVars, IInv, TypeOK
    <3> QED
      BY <2>2, <3>1, RunsUnchanged DEF vars, tempVars
  <2> QED
    BY <2>1, <2>2, SourceKept DEF Next
<1> QED
  BY <1>1, InitIInv, PTL DEF Spec

\* Types hold whatever happens to the source and to the runs.
THEOREM TypeCorrect == Spec => []TypeOK
BY AlwaysIInv, PTL DEF IInv

\* Directories are private while a run uses them and gone when it has returned.
THEOREM DirectoriesAlwaysOwned == Spec => []DirectoriesOwned
BY AlwaysIInv, PTL DEF IInv

\* Only pixels of the pinned source are aggregated.
THEOREM AlwaysDecodesPinnedSource == Spec => []DecodesPinnedSource
<1>1. IInv => DecodesPinnedSource
  BY DEF IInv, RunOK, Converted, DecodesPinnedSource
<1> QED
  BY <1>1, AlwaysIInv, PTL

\* A snapshot stays what its digest was computed of.
THEOREM SnapshotsAlwaysSealed == Spec => SnapshotsSealed
<1> DEFINE Kept == \A d \in Directories :
              held[d].readonly /\ d \in exists /\ d \in exists' => held'[d] = held[d]
<1>1. IInv /\ [Next]_vars => [Kept]_vars
  <2> SUFFICES ASSUME IInv, [Next]_vars PROVE [Kept]_vars
    OBVIOUS
  <2>1. ASSUME NEW b \in Builders, BuilderStep(b) PROVE Kept
    <3> SUFFICES ASSUME NEW d \in Owned(b), held[d].readonly, d \in exists, d \in exists'
                 PROVE  held'[d] = held[d]
      BY <2>1, HeldKept
    <3> USE DEF IInv, TypeOK, RunOK, Owned
    <3>1. CASE CreateSnapshot(b) \/ CreatePrepared(b)
      <4>1. \A x \in exists : held'[x] = held[x]
        BY <3>1 DEF CreateSnapshot, CreatePrepared, NewDirectory
      <4> QED
        BY <4>1
    <3>2. CASE CopyBuffer(b) \/ Seal(b)
      BY <3>2 DEF CopyBuffer, Seal, Snapshot, Copied, Converted
    <3>3. CASE Convert(b)
      <4>1. held[preparedDir[b]].readonly = FALSE /\ preparedDir[b] \in Directories
        BY <3>3 DEF Convert, Converted
      <4>2. \A x \in Directories \ {preparedDir[b]} : held'[x] = held[x]
        BY <3>3 DEF Convert
      <4> QED
        BY <4>1, <4>2
    <3>4. CASE DropPrepared(b) \/ DropSnapshot(b)
      <4>1. \A x \in exists' : held'[x] = held[x]
        <5>1. CASE DropPrepared(b)
          BY <5>1 DEF DropPrepared, Remove
        <5>2. CASE DropSnapshot(b)
          BY <5>2 DEF DropSnapshot, Remove
        <5> QED
          BY <3>4, <5>1, <5>2
      <4> QED
        BY <4>1
    <3>5. CASE Kill(b) \/ OpenSource(b) \/ ValidateMetadata(b) \/ Decode(b) \/ Leave(b) \/ Rerun(b)
      BY <3>5 DEF Kill, OpenSource, ValidateMetadata, Decode, Leave, Rerun, tempVars
    <3> QED
      BY <2>1, <3>1, <3>2, <3>3, <3>4, <3>5 DEF BuilderStep, Stage, Drop
  <2>2. CASE Replace \/ \E f \in Files : Rewrite(f)
    BY <2>2 DEF Replace, Rewrite, tempVars
  <2> QED
    BY <2>1, <2>2 DEF Next
<1> QED
  BY <1>1, AlwaysIInv, PTL DEF Spec, SnapshotsSealed

-----------------------------------------------------------------------------
(* Every step of the tool is a step of staging or leaves its variables alone *)

LEMMA FrontStep ==
  ASSUME [PipelineNext]_pipelineVars
  PROVE  [Next]_vars
<1>1. ASSUME NEW b \in Builders, Prepare(b)
      PROVE  Next
  BY <1>1 DEF Prepare, Next, BuilderStep
<1>2. ASSUME NEW b \in Builders, Compute(b) \/ Publish(b) \/ ReadBack(b) \/ Compare(b)
      PROVE  UNCHANGED vars
  BY <1>2 DEF Compute, Publish, ReadBack, Compare
<1>3. ASSUME NEW b \in Builders, Return(b) \/ KillBuilder(b)
      PROVE  Next
  BY <1>3 DEF Return, KillBuilder, Next, BuilderStep
<1>4. CASE EditSource
  BY <1>4 DEF EditSource, Next
<1>5. ASSUME NEW r \in Readers, Serve(r)
      PROVE  UNCHANGED vars
  BY <1>5 DEF Serve
<1>6. CASE UNCHANGED pipelineVars
  BY <1>6 DEF pipelineVars
<1> QED
  BY <1>1, <1>2, <1>3, <1>4, <1>5, <1>6 DEF PipelineNext, MainStep

\* main runs staging, so its theorems hold of main.
THEOREM StagingImplemented == PipelineSpec => Spec
<1>1. PipelineInit => Init
  BY DEF PipelineInit
<1> QED
  BY <1>1, FrontStep, PTL DEF PipelineSpec, Spec

\* In particular the pinned source is all that a builder ever decodes.
Front == TypeOK /\ DirectoriesOwned /\ DecodesPinnedSource

LEMMA AlwaysFront == PipelineSpec => []Front
BY StagingImplemented, AlwaysDecodesPinnedSource, DirectoriesAlwaysOwned, TypeCorrect, PTL
   DEF Front

-----------------------------------------------------------------------------
(* The back half: what a builder has computed, published and read *)

BackTypes ==
  /\ phase \in [Builders -> Phases]
  /\ computed \in [Builders -> Maps \union {None}]
  /\ readBack \in [Builders -> Maps \union {None}]
  /\ serving \in [Readers -> Maps \union {None}]
  /\ current \in Maps \union {None}
  /\ overtaken \subseteq Builders

\* Until another release is published, the path and what was read from it are the
\* map of the builder itself.
BackOK(b) ==
  /\ computed[b] \in {MapOf(b), None}
  /\ phase[b] # "waiting" =>
       stage[b] = "decoded" /\ computed[b] = MapOf(b) /\ MapOf(b) # None
  /\ phase[b] \in {"published", "read", "compared", "mismatched"} =>
       b \in overtaken \/ current = MapOf(b)
  /\ phase[b] = "read" /\ b \notin overtaken => readBack[b] = MapOf(b)
  /\ phase[b] = "mismatched" => b \in overtaken

Back == BackTypes /\ \A b \in Builders : BackOK(b)

LEMMA InitBack == PipelineInit => Back
BY DEF PipelineInit, Init, Published!Init, Back, BackTypes, BackOK, Phases, MapOf

\* Steps before the image is there change no stage that has one.
LEMMA PrepareStages ==
  ASSUME Front, NEW b \in Builders, Prepare(b), NEW c \in Builders,
         stage[c] = "decoded"
  PROVE  stage'[c] = "decoded"
<1> USE DEF Proceed
<1>1. stage \in [Builders -> Stages]
  BY DEF Front, TypeOK
<1>2. CASE OpenSource(b)
  BY <1>1, <1>2 DEF OpenSource
<1>3. CASE CreateSnapshot(b) \/ Seal(b) \/ ValidateMetadata(b)
  BY <1>1, <1>3 DEF CreateSnapshot, Seal, ValidateMetadata
<1>4. CASE CopyBuffer(b)
  BY <1>4 DEF CopyBuffer
<1>5. CASE CreatePrepared(b) \/ Convert(b) \/ Decode(b)
  BY <1>1, <1>5 DEF CreatePrepared, Convert, Decode
<1>6. CASE Drop(b)
  BY <1>1, <1>6 DEF Drop, DropPrepared, DropSnapshot
<1>7. CASE Rerun(b)
  BY <1>1, <1>7 DEF Rerun
<1> QED
  BY <1>2, <1>3, <1>4, <1>5, <1>6, <1>7 DEF Prepare, Stage

\* Leaving and dying are a builder's own.
LEMMA ReturnStages ==
  ASSUME Front, NEW b \in Builders, Return(b) \/ KillBuilder(b), NEW c \in Builders, c # b
  PROVE  stage'[c] = stage[c]
<1>1. stage \in [Builders -> Stages]
  BY DEF Front, TypeOK
<1> QED
  BY <1>1 DEF Return, KillBuilder, Leave, Kill, Proceed

LEMMA PrepareBack ==
  ASSUME Front, Back, NEW b \in Builders, Prepare(b)
  PROVE  Back'
<1>1. BackTypes'
  BY DEF Back, BackTypes, Prepare
<1>2. ASSUME NEW c \in Builders PROVE BackOK(c)'
  BY PrepareStages DEF Back, BackOK, MapOf, Prepare
<1> QED
  BY <1>1, <1>2 DEF Back

LEMMA ComputeBack ==
  ASSUME Front, Back, NEW b \in Builders, Compute(b)
  PROVE  Back'
<1>1. image[b].content = Pinned[b]
  BY DEF Front, DecodesPinnedSource, Compute
<1>2. BackTypes'
  BY <1>1 DEF Back, BackTypes, Compute, Decoded, Advance, Phases, Maps, MapOf
<1>3. ASSUME NEW c \in Builders PROVE BackOK(c)'
  BY <1>1, <1>3 DEF Back, BackTypes, BackOK, MapOf, Compute, Decoded, Advance, vars
<1> QED
  BY <1>2, <1>3 DEF Back

LEMMA PublishBack ==
  ASSUME Front, Back, NEW b \in Builders, Publish(b)
  PROVE  Back'
<1>1. BackTypes'
  BY DEF Back, BackTypes, Publish, Advance, Phases
<1>2. ASSUME NEW c \in Builders PROVE BackOK(c)'
  <2>1. c \notin overtaken' => Pinned[c] = Pinned[b]
    BY DEF Publish
  <2>2. c \notin overtaken' => current' = MapOf(c)
    BY <2>1 DEF Back, BackOK, MapOf, Publish
  <2>3. c # b /\ c \in overtaken => c \in overtaken'
    BY DEF Publish
  <2> QED
    BY <2>2, <2>3 DEF Back, BackTypes, BackOK, MapOf, Publish, Advance, vars
<1> QED
  BY <1>1, <1>2 DEF Back

LEMMA ReadBackBack ==
  ASSUME Front, Back, NEW b \in Builders, ReadBack(b)
  PROVE  Back'
<1>1. BackTypes'
  BY DEF Back, BackTypes, ReadBack, Advance, Phases
<1>2. ASSUME NEW c \in Builders PROVE BackOK(c)'
  BY DEF Back, BackTypes, BackOK, MapOf, ReadBack, Advance, vars
<1> QED
  BY <1>1, <1>2 DEF Back

LEMMA CompareBack ==
  ASSUME Front, Back, NEW b \in Builders, Compare(b)
  PROVE  Back'
<1>1. BackTypes'
  BY DEF Back, BackTypes, Compare, Advance, Phases
<1>2. ASSUME NEW c \in Builders PROVE BackOK(c)'
  BY DEF Back, BackTypes, BackOK, MapOf, Compare, Advance, vars
<1> QED
  BY <1>1, <1>2 DEF Back

LEMMA ReturnBack ==
  ASSUME Front, Back, NEW b \in Builders, Return(b) \/ KillBuilder(b)
  PROVE  Back'
<1>1. Forget(b)
  BY DEF Return, KillBuilder
<1>2. BackTypes'
  BY <1>1 DEF Back, BackTypes, Forget, Advance, Phases
<1>3. ASSUME NEW c \in Builders PROVE BackOK(c)'
  BY <1>1, ReturnStages DEF Back, BackTypes, BackOK, MapOf, Forget, Advance
<1> QED
  BY <1>2, <1>3 DEF Back

LEMMA OwnerBack ==
  ASSUME Back, EditSource
  PROVE  Back'
<1>1. stage' = stage
  BY DEF EditSource, Rewrite, Replace
<1>2. BackTypes'
  BY DEF Back, BackTypes, EditSource
<1>3. ASSUME NEW c \in Builders PROVE BackOK(c)'
  BY <1>1 DEF Back, BackOK, MapOf, EditSource
<1> QED
  BY <1>2, <1>3 DEF Back

LEMMA ServeBack ==
  ASSUME Back, NEW r \in Readers, Serve(r)
  PROVE  Back'
<1>1. current' = current
  BY DEF Serve, Published!Open, Published!Close
<1>2. BackTypes'
  BY <1>1 DEF Back, BackTypes, Serve, Published!Open, Published!Close
<1>3. ASSUME NEW c \in Builders PROVE BackOK(c)'
  BY <1>1 DEF Back, BackOK, MapOf, Serve, vars
<1> QED
  BY <1>2, <1>3 DEF Back

LEMMA NextBack == Front /\ Back /\ [PipelineNext]_pipelineVars => Back'
<1> SUFFICES ASSUME Front, Back, [PipelineNext]_pipelineVars PROVE Back'
  OBVIOUS
<1>1. CASE UNCHANGED pipelineVars
  BY <1>1 DEF Back, BackTypes, BackOK, MapOf, pipelineVars, vars
<1> QED
  BY <1>1, PrepareBack, ComputeBack, PublishBack, ReadBackBack, CompareBack,
     ReturnBack, OwnerBack, ServeBack DEF PipelineNext, MainStep

LEMMA AlwaysBack == PipelineSpec => []Back
BY InitBack, NextBack, AlwaysFront, PTL DEF PipelineSpec

-----------------------------------------------------------------------------
(* What the tool keeps *)

\* Types, and a builder that computes, publishes or compares still has its image
\* and both temporary directories.
THEOREM PipelineTypeCorrect == PipelineSpec => []PipelineTypeOK
<1>1. Front /\ Back => PipelineTypeOK
  <2> SUFFICES ASSUME Front, Back, NEW b \in Builders, phase[b] # "waiting"
               PROVE  {snapshotDir[b], preparedDir[b]} \subseteq exists
    BY DEF Back, BackTypes, BackOK, PipelineTypeOK
  <2>1. stage[b] = "decoded"
    BY DEF Back, BackOK
  <2>2. preparedDir[b] # None /\ snapshotDir[b] # None
    BY <2>1 DEF Front, DecodesPinnedSource, DirectoriesOwned
  <2>3. Owned(b) \subseteq exists
    BY DEF Front, DirectoriesOwned
  <2> QED
    BY <2>2, <2>3 DEF Owned
<1> QED
  BY <1>1, AlwaysFront, AlwaysBack, PTL

\* From end to end, for any number of builders, readers and changes of the source:
\* the path and every engine hold the density map of a pinned dataset.
THEOREM AlwaysServedFromPinned == PipelineSpec => []ServedFromPinned
<1>1. Back => ServedFromPinned
  BY DEF Back, BackTypes, BackOK, ServedFromPinned
<1> QED
  BY <1>1, AlwaysBack, PTL

\* The comparison at the end of main fails only after another release was published.
THEOREM MismatchesAlwaysOfOtherReleases == PipelineSpec => []MismatchesOfOtherReleases
<1>1. Back => MismatchesOfOtherReleases
  BY DEF Back, BackOK, MismatchesOfOtherReleases
<1> QED
  BY <1>1, AlwaysBack, PTL

\* Once published, the map of a builder stays at the path, for its own comparison and
\* for readers, until a builder of another release publishes.
THEOREM PublishedAlwaysKept == PipelineSpec => []KeptUntilOvertaken
<1>1. Back => KeptUntilOvertaken
  BY DEF Back, BackOK, KeptUntilOvertaken
<1> QED
  BY <1>1, AlwaysBack, PTL
==============================================================================
