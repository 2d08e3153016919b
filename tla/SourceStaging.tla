---------------------------- MODULE SourceStaging ----------------------------
(***************************************************************************)
(* The front half of build_database: each run copies the source GeoTIFF    *)
(* into a private directory while it hashes what it copies                 *)
(* (SourceGeoTiffSnapshot::stage), checks the digest and the metadata of   *)
(* the copy, lets tiffcp convert it in a second directory (geotiff.rs) and *)
(* decodes the result.  Meanwhile the owner of the source path may rewrite *)
(* the file in place, replace it or remove it, any input or output may     *)
(* fail, the removal of a directory too, and a run may be killed.          *)
(*                                                                         *)
(* A content is a sequence of read buffers.  A temporary file is           *)
(* [content, shape, readonly]; shape is what a decoder finds in it: a      *)
(* "source" still compressed, pixels of the "pinned" dimensions and type,  *)
(* an "other" image, or "none" while the directory holds no file.          *)
(***************************************************************************)
EXTENDS Integers, Sequences

CONSTANTS
  Builders,     \* runs of build_database
  Buffers,      \* what one read from the source may return
  MaxLength,    \* bound: reads that a source takes
  Digest(_),    \* SHA-256
  Pinned,       \* of each builder: the content with digest SOURCE_GEOTIFF_SHA256
  Metadata(_),  \* GeoTiffMetadata::read of a content; None for an error
  Required,     \* the metadata of the pinned dataset, LZW compression included
  Files,        \* bound: files that are or were at the source path
  Directories,  \* bound: names of temporary directories
  MaxEdits,     \* bound: changes to the source path and to the files
  MaxLosses,    \* bound: builders killed and removals of a directory that fail
  None

Contents == UNION {[1..n -> Buffers] : n \in 0..MaxLength}

\* No two contents share a digest.
ASSUME StagingAssumption ==
  /\ MaxLength \in Nat /\ MaxEdits \in Nat /\ MaxLosses \in Nat
  /\ Pinned \in [Builders -> Contents]
  /\ \A c, d \in Contents : Digest(c) = Digest(d) => c = d
  /\ None \notin Files /\ None \notin Directories /\ Required # None

VARIABLES
  source,      \* the file at the source path
  content,     \* what each source file contains
  edits,
  stage,       \* of each builder: what it does next
  opened,      \* of each builder: source_file
  hashed,      \* of each builder: what the hasher was fed
  snapshotDir, \* of each builder: the directory of the snapshot
  preparedDir, \* of each builder: the directory of PreparedGeoTiff::temporary
  image,       \* of each builder: the file that was decoded
  held,        \* the file in each directory
  exists,      \* the directories that exist
  orphans,     \* history: directories that nobody will remove
  losses

sourceVars == <<source, content, edits>>
tempVars == <<held, exists, orphans, losses>>
vars == <<sourceVars, stage, opened, hashed, snapshotDir, preparedDir, image,
          tempVars>>

NoFile == [content |-> <<>>, shape |-> "none", readonly |-> FALSE]

Init ==
  /\ source \in Files /\ content \in [Files -> Contents] /\ edits = 0
  /\ stage = [b \in Builders |-> "start"]
  /\ opened = [b \in Builders |-> None]
  /\ hashed = [b \in Builders |-> <<>>]
  /\ snapshotDir = [b \in Builders |-> None]
  /\ preparedDir = [b \in Builders |-> None]
  /\ image = [b \in Builders |-> NoFile]
  /\ held = [d \in Directories |-> NoFile]
  /\ exists = {} /\ orphans = {} /\ losses = 0

\* An error leaves main, and the directories are dropped on the way out.
Proceed(b, ok, next) ==
  stage' = [stage EXCEPT ![b] = IF ok THEN next ELSE "leaving"]

Snapshot(b) == held[snapshotDir[b]]

\* The directories that a run removes on its way out.
Owned(b) == {snapshotDir[b], preparedDir[b]} \ {None}

-----------------------------------------------------------------------------
(* SourceGeoTiffSnapshot::stage *)

OpenSource(b) ==
  /\ stage[b] = "start"
  /\ Proceed(b, source # None, "opened")
  /\ opened' = [opened EXCEPT ![b] = source]
  /\ UNCHANGED <<sourceVars, hashed, snapshotDir, preparedDir, image, tempVars>>

\* Mutant: one name for all builders' directories.
AnyDirectory(d) == TRUE

\* tempdir makes a directory of a name that is not in use.
NewDirectory(d) == d \notin exists

CreateSnapshot(b) ==
  /\ stage[b] = "opened"
  /\ \E d \in Directories :
       /\ NewDirectory(d)
       /\ exists' = exists \union {d}
       /\ snapshotDir' = [snapshotDir EXCEPT ![b] = d]
       /\ held' = [held EXCEPT ![d] = [NoFile EXCEPT !.shape = "source"]]
  /\ hashed' = [hashed EXCEPT ![b] = <<>>]
  /\ Proceed(b, TRUE, "copying")
  /\ UNCHANGED <<sourceVars, opened, preparedDir, image, orphans, losses>>

\* One turn of copy_and_calculate_sha256: a buffer is read, hashed and written.
CopyBuffer(b) ==
  /\ stage[b] = "copying" /\ Len(hashed[b]) < Len(content[opened[b]])
  /\ \E buffer \in {content[opened[b]][Len(hashed[b]) + 1]} :
       /\ hashed' = [hashed EXCEPT ![b] = Append(@, buffer)]
       /\ held' = [held EXCEPT ![snapshotDir[b]].content = Append(@, buffer)]
  /\ UNCHANGED <<sourceVars, stage, opened, snapshotDir, preparedDir, image,
                 exists, orphans, losses>>

\* Mutant: whatever was copied is taken.
SealUnchecked(b) ==
  /\ stage[b] = "copying" /\ Len(hashed[b]) >= Len(content[opened[b]])
  /\ Proceed(b, TRUE, "staged")
  /\ held' = [held EXCEPT ![snapshotDir[b]].readonly = TRUE]
  /\ opened' = [opened EXCEPT ![b] = None]
  /\ hashed' = [hashed EXCEPT ![b] = <<>>]
  /\ UNCHANGED <<sourceVars, snapshotDir, preparedDir, image,
                 exists, orphans, losses>>

\* Mutant: the copy goes on until it has the length of the pinned source.
SealAtPinnedLength(b) ==
  /\ stage[b] = "copying" /\ Len(hashed[b]) >= Len(Pinned[b])
  /\ \E ok \in {Digest(hashed[b]) = Digest(Pinned[b])} :
       /\ Proceed(b, ok, "staged")
       /\ held' = [held EXCEPT ![snapshotDir[b]].readonly = ok]
  /\ opened' = [opened EXCEPT ![b] = None]
  /\ hashed' = [hashed EXCEPT ![b] = <<>>]
  /\ UNCHANGED <<sourceVars, snapshotDir, preparedDir, image,
                 exists, orphans, losses>>

\* The read that returns nothing ends the copy.
Seal(b) ==
  /\ stage[b] = "copying" /\ Len(hashed[b]) >= Len(content[opened[b]])
  /\ \E ok \in {Digest(hashed[b]) = Digest(Pinned[b])} :
       /\ Proceed(b, ok, "staged")
       /\ held' = [held EXCEPT ![snapshotDir[b]].readonly = ok]
  /\ opened' = [opened EXCEPT ![b] = None]
  /\ hashed' = [hashed EXCEPT ![b] = <<>>]
  /\ UNCHANGED <<sourceVars, snapshotDir, preparedDir, image,
                 exists, orphans, losses>>

-----------------------------------------------------------------------------
(* Metadata, conversion and decoding *)

\* Every field is compared with its pinned value.
Described(c) == Metadata(c) = Required

ValidateMetadata(b) ==
  /\ stage[b] = "staged"
  /\ Proceed(b, Described(Snapshot(b).content), "described")
  /\ UNCHANGED <<sourceVars, opened, hashed, snapshotDir, preparedDir, image, tempVars>>

\* prepare_geotiff: LZW is what validate required, so the copy is converted.
CreatePrepared(b) ==
  /\ stage[b] = "described"
  /\ \E d \in Directories :
       /\ NewDirectory(d)
       /\ exists' = exists \union {d}
       /\ preparedDir' = [preparedDir EXCEPT ![b] = d]
       /\ held' = [held EXCEPT ![d] = NoFile]
  /\ Proceed(b, TRUE, "converting")
  /\ UNCHANGED <<sourceVars, opened, hashed, snapshotDir, image, orphans, losses>>

\* tiffcp keeps the pixels or writes another image; it may fail half way.
Convert(b) ==
  /\ stage[b] = "converting"
  /\ \E shape \in {"none", "pinned", "other"}, status \in BOOLEAN :
       /\ status => shape # "none"
       /\ held' = [held EXCEPT ![preparedDir[b]] =
                     [content |-> Snapshot(b).content, shape |-> shape,
                      readonly |-> FALSE]]
       /\ Proceed(b, status, "prepared")
  /\ UNCHANGED <<sourceVars, opened, hashed, snapshotDir, preparedDir, image,
                 exists, orphans, losses>>

PreparedFile(b) == held[preparedDir[b]]

\* Dimensions, color type, sample type and length of the decoded image.
Decode(b) ==
  /\ stage[b] = "prepared"
  /\ Proceed(b, PreparedFile(b).shape = "pinned", "decoded")
  /\ image' = [image EXCEPT ![b] = PreparedFile(b)]
  /\ UNCHANGED <<sourceVars, opened, hashed, snapshotDir, preparedDir, tempVars>>

-----------------------------------------------------------------------------
(* The end of a run *)

Working(b) == stage[b] \notin {"start", "leaving", "dropping", "exited", "killed"}

\* An operation returns an error, or main is done with the image.
Leave(b) ==
  /\ Working(b)
  /\ Proceed(b, FALSE, "leaving")
  /\ UNCHANGED <<sourceVars, opened, hashed, snapshotDir, preparedDir, image, tempVars>>

\* TempDir's drop removes the directory with the file in it; it reports no error,
\* and a directory it could not remove stays.
Remove(d) ==
  \/ /\ exists' = exists \ {d}
     /\ held' = [e \in Directories |-> IF e = d THEN NoFile ELSE held[e]]
     /\ UNCHANGED <<orphans, losses>>
  \/ /\ d # None /\ losses < MaxLosses
     /\ orphans' = orphans \union {d} /\ losses' = losses + 1
     /\ UNCHANGED <<held, exists>>

\* Locals are dropped in reverse order: prepared_tiff goes first.
DropPrepared(b) ==
  /\ stage[b] = "leaving"
  /\ Proceed(b, TRUE, "dropping")
  /\ Remove(preparedDir[b])
  /\ preparedDir' = [preparedDir EXCEPT ![b] = None]
  /\ image' = [image EXCEPT ![b] = NoFile]
  /\ UNCHANGED <<sourceVars, opened, hashed, snapshotDir>>

\* Mutant: the path is kept and its directory is not.
DropNothing(b) ==
  /\ stage[b] = "dropping"
  /\ Proceed(b, TRUE, "exited")
  /\ snapshotDir' = [snapshotDir EXCEPT ![b] = None]
  /\ opened' = [opened EXCEPT ![b] = None]
  /\ hashed' = [hashed EXCEPT ![b] = <<>>]
  /\ UNCHANGED <<sourceVars, preparedDir, image, held, exists, orphans, losses>>

DropSnapshot(b) ==
  /\ stage[b] = "dropping"
  /\ Proceed(b, TRUE, "exited")
  /\ Remove(snapshotDir[b])
  /\ snapshotDir' = [snapshotDir EXCEPT ![b] = None]
  /\ opened' = [opened EXCEPT ![b] = None]
  /\ hashed' = [hashed EXCEPT ![b] = <<>>]
  /\ UNCHANGED <<sourceVars, preparedDir, image>>

\* A killed process drops nothing.
Kill(b) ==
  /\ stage[b] \notin {"start", "exited", "killed"} /\ losses < MaxLosses
  /\ stage' = [stage EXCEPT ![b] = "killed"]
  /\ orphans' = orphans \union Owned(b)
  /\ snapshotDir' = [snapshotDir EXCEPT ![b] = None]
  /\ preparedDir' = [preparedDir EXCEPT ![b] = None]
  /\ opened' = [opened EXCEPT ![b] = None]
  /\ hashed' = [hashed EXCEPT ![b] = <<>>]
  /\ image' = [image EXCEPT ![b] = NoFile]
  /\ losses' = losses + 1
  /\ UNCHANGED <<sourceVars, held, exists>>

\* The tool is started again.
Rerun(b) ==
  /\ stage[b] \in {"exited", "killed"}
  /\ Proceed(b, TRUE, "start")
  /\ UNCHANGED <<sourceVars, opened, hashed, snapshotDir, preparedDir, image, tempVars>>

-----------------------------------------------------------------------------
(* The owner of the source path *)

Rewrite(f) ==
  /\ edits < MaxEdits
  /\ \E c \in Contents : content' = [content EXCEPT ![f] = c]
  /\ edits' = edits + 1
  /\ UNCHANGED <<source, stage, opened, hashed, snapshotDir, preparedDir, image, tempVars>>

Replace ==
  /\ edits < MaxEdits
  /\ source' \in (Files \union {None}) \ {source}
  /\ edits' = edits + 1
  /\ UNCHANGED <<content, stage, opened, hashed, snapshotDir, preparedDir, image, tempVars>>

Stage(b) ==
  \/ CreateSnapshot(b) \/ CopyBuffer(b) \/ Seal(b)
  \/ ValidateMetadata(b) \/ CreatePrepared(b) \/ Convert(b) \/ Decode(b)

Drop(b) == DropPrepared(b) \/ DropSnapshot(b)

BuilderStep(b) ==
  OpenSource(b) \/ Stage(b) \/ Leave(b) \/ Drop(b) \/ Kill(b) \/ Rerun(b)

Next ==
  \/ \E b \in Builders : BuilderStep(b)
  \/ \E f \in Files : Rewrite(f)
  \/ Replace

Spec == Init /\ [][Next]_vars

\* A run that was started goes on; nothing makes it fail, die or start.
FairSpec == Spec /\ \A b \in Builders : WF_vars(Stage(b)) /\ WF_vars(Drop(b))

-----------------------------------------------------------------------------
(* Properties *)

Stages == {"start", "opened", "copying", "staged", "described", "converting",
           "prepared", "decoded", "leaving", "dropping", "exited", "killed"}
FileType ==
  [content : Contents, shape : {"none", "source", "pinned", "other"},
   readonly : BOOLEAN]

TypeOK ==
  /\ source \in Files \union {None} /\ content \in [Files -> Contents]
  /\ edits \in 0..MaxEdits /\ losses \in 0..MaxLosses
  /\ stage \in [Builders -> Stages]
  /\ opened \in [Builders -> Files \union {None}]
  /\ hashed \in [Builders -> Contents]
  /\ snapshotDir \in [Builders -> Directories \union {None}]
  /\ preparedDir \in [Builders -> Directories \union {None}]
  /\ image \in [Builders -> FileType]
  /\ held \in [Directories -> FileType]
  /\ exists \subseteq Directories /\ orphans \subseteq Directories

\* A build works on the pixels of the pinned source or on none: changes of the
\* source during and after the copy, mixtures of two files, other builders and
\* other images tiffcp may write never reach the aggregation.
DecodesPinnedSource ==
  \A b \in Builders : stage[b] = "decoded" =>
    /\ image[b].content = Pinned[b]
    /\ image[b].shape = "pinned"
    /\ preparedDir[b] # None

\* Whatever fails, a run that returned has removed its directories, as far as the
\* file system let it: those that exist belong to one run that is going on, or were
\* left by a kill or by a removal that failed, and nobody uses those again.
DirectoriesOwned ==
  /\ exists = orphans \union UNION {Owned(b) : b \in Builders}
  /\ \A b \in Builders :
       /\ Owned(b) \intersect orphans = {}
       /\ preparedDir[b] # None => snapshotDir[b] \notin {None, preparedDir[b]}
       /\ \A c \in Builders \ {b} : Owned(b) \intersect Owned(c) = {}

\* A snapshot is not written again once its digest was accepted, by any builder.
SnapshotsSealed ==
  [][\A d \in Directories :
       held[d].readonly /\ d \in exists /\ d \in exists' => held'[d] = held[d]]_vars

\* A run that opened the source decodes it, returns or is killed: after finitely
\* many changes of the source, which may leave it shorter than what was copied or
\* expected, the copy ends.  (A source that is appended to for ever is copied for
\* ever, by the code too.)
RunsEnd ==
  \A b \in Builders : stage[b] = "opened" ~> stage[b] \in {"decoded", "exited", "killed"}
=============================================================================
