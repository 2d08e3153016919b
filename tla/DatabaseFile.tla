---------------------------- MODULE DatabaseFile ----------------------------
(***************************************************************************)
(* The database file and those who use its path: builders, which write a   *)
(* temporary file next to it, rename that over it and read it back         *)
(* (write_topology_database and the end of main in build_database.rs), and *)
(* readers, which map it and validate the mapping (QueryEngine::open).     *)
(*                                                                         *)
(* Nothing is synced before the rename, so the kernel writes file data and *)
(* directory entries back whenever it likes, and a crash keeps what it has *)
(* written.  A content is the sequence of the chunks written so far, each  *)
(* of which is the density map it comes from.  Full validation is          *)
(* TopologyValidation's: here it accepts the complete databases.           *)
(***************************************************************************)
EXTENDS Integers, Sequences

CONSTANTS
  Builders,    \* runs of build_database
  Dataset,     \* of each builder: the density map it computes
  Readers,     \* processes that open the database
  Inodes,      \* bound: files that may exist at the same time
  Chunks,      \* bound: writes that make up a database
  MaxFaults,   \* bound: builders killed and crashes of the machine
  None

ASSUME DatabaseFileAssumption ==
  /\ Chunks \in Nat \ {0} /\ MaxFaults \in Nat
  /\ None \notin Inodes

Database(b) == [k \in 1..Chunks |-> Dataset[b]]
Databases == {Database(b) : b \in Builders}

VARIABLES
  phase,     \* of each builder: what it does; an idle one may be run, or run again
  temporary, \* the inode of each builder's temporary_file
  opened,    \* the inode each builder reads back
  snapshot,  \* what each builder has read back of it
  mapped,    \* the inode each reader has mapped
  engine,    \* of each reader: "none", "mapped" or "ready"
  seen,      \* history: the file each reader's mapping showed when it was made
  data,      \* the content of each inode
  name,      \* the inode at database_path
  temps,     \* the inodes with a temporary name in the output directory
  disk,      \* what the disk holds of data, name and temps
  crashes,
  kills,
  strays,    \* history: temporary files that killed builders and crashes left
  renamed,   \* history: a database was published since the last crash
  overtaken  \* history: builders after which other data was published

builderVars == <<phase, temporary, opened, snapshot>>
readerVars == <<mapped, engine, seen>>
fileVars == <<data, name, temps, disk>>
historyVars == <<crashes, kills, strays, renamed, overtaken>>
vars == <<builderVars, readerVars, fileVars, historyVars>>

Complete(c) == c \in Databases

Init ==
  /\ phase = [b \in Builders |-> "idle"]
  /\ temporary = [b \in Builders |-> None]
  /\ opened = [b \in Builders |-> None]
  /\ snapshot = [b \in Builders |-> <<>>]
  /\ mapped = [r \in Readers |-> None]
  /\ engine = [r \in Readers |-> "none"]
  /\ seen = [r \in Readers |-> <<>>]
  /\ data = [i \in Inodes |-> <<>>]
  /\ name = None /\ temps = {}
  /\ disk = [data |-> data, name |-> None, temps |-> {}]
  /\ crashes = 0 /\ kills = 0
  /\ strays = {} /\ renamed = FALSE /\ overtaken = {}

\* An inode is free once no name, no handle and no mapping refers to it.
Free(i) ==
  /\ i # name /\ i # disk.name
  /\ i \notin temps \union disk.temps
  /\ \A b \in Builders : opened[b] # i
  /\ \A r \in Readers : mapped[r] # i

-----------------------------------------------------------------------------
(* write_topology_database *)

\* Mutant: the file that is at database_path may be opened for writing.
NewOrPublished(i) == Free(i) \/ i = name

\* NamedTempFile::new_in creates a file.
NewFile(i) == Free(i)

CreateTemporary(b) ==
  /\ phase[b] = "idle"
  /\ \E i \in Inodes :
       /\ NewFile(i)
       /\ temporary' = [temporary EXCEPT ![b] = i]
       /\ temps' = temps \union {i}
       /\ data' = [data EXCEPT ![i] = <<>>]
       /\ disk' = [disk EXCEPT !.data[i] = <<>>]
  /\ phase' = [phase EXCEPT ![b] = "writing"]
  /\ UNCHANGED <<opened, snapshot, readerVars, name, historyVars>>

WriteChunk(b) ==
  /\ phase[b] = "writing" /\ Len(data[temporary[b]]) < Chunks
  /\ data' = [data EXCEPT ![temporary[b]] = Append(@, Dataset[b])]
  /\ UNCHANGED <<builderVars, readerVars, name, temps, disk, historyVars>>

\* Mutant: the temporary file stays behind.
KeepTemporary(b) ==
  /\ phase[b] = "writing"
  /\ phase' = [phase EXCEPT ![b] = "idle"]
  /\ temporary' = [temporary EXCEPT ![b] = None]
  /\ UNCHANGED <<opened, snapshot, readerVars, fileVars, historyVars>>

\* A write, the flush or the rename fails: dropping the handle unlinks the file.
AbandonTemporary(b) ==
  /\ phase[b] = "writing"
  /\ phase' = [phase EXCEPT ![b] = "idle"]
  /\ temporary' = [temporary EXCEPT ![b] = None]
  /\ temps' = temps \ {temporary[b]}
  /\ UNCHANGED <<opened, snapshot, readerVars, data, name, disk, historyVars>>

\* database_path names the builder's file, the temporary name is gone.
Rename(b) ==
  /\ name' = temporary[b]
  /\ temps' = temps \ {temporary[b]}
  /\ temporary' = [temporary EXCEPT ![b] = None]
  /\ phase' = [phase EXCEPT ![b] = "published"]
  /\ renamed' = TRUE
  /\ overtaken' = {c \in Builders \ {b} : c \in overtaken \/ Dataset[c] # Dataset[b]}
  /\ UNCHANGED <<opened, snapshot, readerVars, data, disk, crashes, kills, strays>>

\* Mutant: the file is renamed while buffered data is still to be written.
PersistUnflushed(b) == phase[b] = "writing" /\ Rename(b)

\* persist renames once everything is written and flushed.
Persist(b) ==
  /\ phase[b] = "writing" /\ Len(data[temporary[b]]) = Chunks
  /\ Rename(b)

-----------------------------------------------------------------------------
(* open_database_snapshot and the comparison at the end of main *)

\* fs::read opens whatever the path names by now.
OpenBack(b) ==
  /\ phase[b] = "published"
  /\ opened' = [opened EXCEPT ![b] = name]
  /\ phase' = [phase EXCEPT ![b] = "reading"]
  /\ UNCHANGED <<temporary, snapshot, readerVars, fileVars, historyVars>>

\* Mutant: each read opens the path again.
ReadByPath(b) ==
  /\ phase[b] = "reading" /\ Len(snapshot[b]) < Len(data[name])
  /\ snapshot' = [snapshot EXCEPT ![b] = Append(@, data[name][Len(@) + 1])]
  /\ UNCHANGED <<phase, temporary, opened, readerVars, fileVars, historyVars>>

ReadChunk(b) ==
  /\ phase[b] = "reading" /\ Len(snapshot[b]) < Len(data[opened[b]])
  /\ snapshot' = [snapshot EXCEPT ![b] = Append(@, data[opened[b]][Len(@) + 1])]
  /\ UNCHANGED <<phase, temporary, opened, readerVars, fileVars, historyVars>>

\* Validation and reconstruction of the copy, and the comparison of the leaves.
Compare(b) ==
  /\ phase[b] = "reading" /\ Len(snapshot[b]) >= Len(data[opened[b]])
  /\ phase' = [phase EXCEPT ![b] =
                 IF snapshot[b] = Database(b) THEN "idle" ELSE "mismatched"]
  /\ opened' = [opened EXCEPT ![b] = None]
  /\ snapshot' = [snapshot EXCEPT ![b] = <<>>]
  /\ UNCHANGED <<temporary, readerVars, fileVars, historyVars>>

\* The file cannot be opened or read.
FailReadBack(b) ==
  /\ phase[b] \in {"published", "reading"}
  /\ phase' = [phase EXCEPT ![b] = "idle"]
  /\ opened' = [opened EXCEPT ![b] = None]
  /\ snapshot' = [snapshot EXCEPT ![b] = <<>>]
  /\ UNCHANGED <<temporary, readerVars, fileVars, historyVars>>

\* The error is reported; the published file stays.
Mismatch(b) ==
  /\ phase[b] = "mismatched"
  /\ phase' = [phase EXCEPT ![b] = "idle"]
  /\ UNCHANGED <<temporary, opened, snapshot, readerVars, fileVars, historyVars>>

FaultAhead == crashes + kills < MaxFaults

\* A killed builder leaves its temporary file behind.
Kill(b) ==
  /\ phase[b] \in {"writing", "published", "reading"} /\ FaultAhead
  /\ kills' = kills + 1
  /\ phase' = [phase EXCEPT ![b] = "idle"]
  /\ strays' = strays \union ({temporary[b]} \ {None})
  /\ temporary' = [temporary EXCEPT ![b] = None]
  /\ opened' = [opened EXCEPT ![b] = None]
  /\ snapshot' = [snapshot EXCEPT ![b] = <<>>]
  /\ UNCHANGED <<readerVars, fileVars, crashes, renamed, overtaken>>

-----------------------------------------------------------------------------
(* A reader *)

MapFile(r) ==
  /\ engine[r] = "none" /\ name # None
  /\ mapped' = [mapped EXCEPT ![r] = name]
  /\ seen' = [seen EXCEPT ![r] = data[name]]
  /\ engine' = [engine EXCEPT ![r] = "mapped"]
  /\ UNCHANGED <<builderVars, fileVars, historyVars>>

\* Mutant: the file is taken for a verified resource.
TrustFile(r) ==
  /\ engine[r] = "mapped"
  /\ engine' = [engine EXCEPT ![r] = "ready"]
  /\ UNCHANGED <<builderVars, mapped, seen, fileVars, historyVars>>

\* Validation reads through the mapping, not through the path.
Validate(r) ==
  /\ engine[r] = "mapped" /\ Complete(data[mapped[r]])
  /\ engine' = [engine EXCEPT ![r] = "ready"]
  /\ UNCHANGED <<builderVars, mapped, seen, fileVars, historyVars>>

Unmap(r) ==
  /\ engine' = [engine EXCEPT ![r] = "none"]
  /\ mapped' = [mapped EXCEPT ![r] = None]
  /\ seen' = [seen EXCEPT ![r] = <<>>]
  /\ UNCHANGED <<builderVars, fileVars, historyVars>>

\* The error of from_mmap drops the mapping.
RejectFile(r) ==
  engine[r] = "mapped" /\ ~Complete(data[mapped[r]]) /\ Unmap(r)

DropEngine(r) == engine[r] = "ready" /\ Unmap(r)

-----------------------------------------------------------------------------
(* The machine *)

\* What a file that has a name has so far reaches the disk, which nobody looks at
\* once the bound leaves no crash.
WriteBack(i) ==
  /\ FaultAhead /\ disk.data[i] # data[i]
  /\ i \in temps \union disk.temps \union {name, disk.name}
  /\ disk' = [disk EXCEPT !.data[i] = data[i]]
  /\ UNCHANGED <<builderVars, readerVars, data, name, temps, historyVars>>

\* The directory reaches the disk.
WriteBackDirectory ==
  /\ <<disk.name, disk.temps>> # <<name, temps>>
  /\ disk' = [disk EXCEPT !.name = name, !.temps = temps]
  /\ UNCHANGED <<builderVars, readerVars, data, name, temps, historyVars>>

Crash ==
  /\ FaultAhead
  /\ crashes' = crashes + 1
  /\ data' = disk.data /\ name' = disk.name /\ temps' = disk.temps
  /\ strays' = disk.temps
  /\ renamed' = FALSE /\ overtaken' = {}
  /\ phase' = [b \in Builders |-> "idle"]
  /\ temporary' = [b \in Builders |-> None]
  /\ opened' = [b \in Builders |-> None]
  /\ snapshot' = [b \in Builders |-> <<>>]
  /\ mapped' = [r \in Readers |-> None]
  /\ engine' = [r \in Readers |-> "none"]
  /\ seen' = [r \in Readers |-> <<>>]
  /\ UNCHANGED <<disk, kills>>

BuilderStep(b) ==
  \/ CreateTemporary(b) \/ WriteChunk(b) \/ AbandonTemporary(b) \/ Persist(b)
  \/ OpenBack(b) \/ ReadChunk(b) \/ Compare(b) \/ FailReadBack(b)
  \/ Mismatch(b) \/ Kill(b)

ReaderStep(r) == MapFile(r) \/ Validate(r) \/ RejectFile(r) \/ DropEngine(r)

Next ==
  \/ \E b \in Builders : BuilderStep(b)
  \/ \E r \in Readers : ReaderStep(r)
  \/ \E i \in Inodes : WriteBack(i)
  \/ WriteBackDirectory
  \/ Crash

Spec == Init /\ [][Next]_vars

-----------------------------------------------------------------------------
(* Properties *)

Phases == {"idle", "writing", "published", "reading", "mismatched"}
Contents == {c \in Seq({Dataset[b] : b \in Builders}) : Len(c) <= Chunks}

TypeOK ==
  /\ phase \in [Builders -> Phases]
  /\ temporary \in [Builders -> Inodes \union {None}]
  /\ opened \in [Builders -> Inodes \union {None}]
  /\ snapshot \in [Builders -> Contents]
  /\ mapped \in [Readers -> Inodes \union {None}]
  /\ engine \in [Readers -> {"none", "mapped", "ready"}]
  /\ seen \in [Readers -> Contents]
  /\ data \in [Inodes -> Contents]
  /\ name \in Inodes \union {None} /\ temps \subseteq Inodes
  /\ disk \in [data : [Inodes -> Contents], name : Inodes \union {None},
               temps : SUBSET Inodes]
  /\ crashes \in 0..MaxFaults /\ kills \in 0..MaxFaults
  /\ strays \subseteq Inodes /\ renamed \in BOOLEAN /\ overtaken \subseteq Builders

\* Publication is atomic: whoever opens the path finds no file or a complete
\* database while builders write, fail, die and overtake each other.  A crash may
\* leave a part of a database there; the next build that gets through heals it.
PathComplete ==
  (crashes = 0 \/ renamed) /\ name # None => Complete(data[name])

\* The bytes under a mapping never change while it exists, although the database
\* is replaced and rebuilt: this is the obligation QueryEngine::open places on its
\* callers.  So an engine that was validated stays on the complete database, even
\* one that was opened after a crash.
MappingsImmutable ==
  \A r \in Readers : mapped[r] # None =>
    /\ data[mapped[r]] = seen[r]
    /\ engine[r] = "ready" => Complete(data[mapped[r]])

\* What a builder reads back is never a mixture of two databases, although the
\* path changes hands between its reads.
SnapshotsWhole ==
  \A b \in Builders : phase[b] = "reading" =>
    \E d \in Databases : snapshot[b] = SubSeq(d, 1, Len(snapshot[b]))

\* The published database is compared too late to keep a wrong one from the path;
\* but a comparison fails only when another builder published other data after
\* this one did, so the mismatch is never of a builder with its own file.
MismatchesExplained ==
  \A b \in Builders : phase[b] = "mismatched" => b \in overtaken

\* The output directory holds no temporary file that is neither being written nor
\* left by a kill or a crash, every builder writes a file of its own, and none
\* writes the published one: every way out of write_topology_database removes or
\* renames its own file.
NoStrayTemporaries ==
  /\ temps = strays \union ({temporary[b] : b \in Builders} \ {None})
  /\ name \notin temps
  /\ \A b \in Builders : temporary[b] # None =>
       /\ temporary[b] \notin strays
       /\ \A c \in Builders \ {b} : temporary[b] # temporary[c]

-----------------------------------------------------------------------------
(* The abstract specification *)

Torn == [torn |-> TRUE]
Held(i) == IF Complete(data[i]) THEN data[i][1] ELSE Torn

\* An engine stands for its map from the moment the file is mapped; a mapping
\* that validation will reject stands for none.
AtPath == IF name = None THEN None ELSE Held(name)
Serving ==
  [r \in Readers |-> IF mapped[r] = None \/ ~Complete(data[mapped[r]])
                     THEN None ELSE Held(mapped[r])]

Promise == INSTANCE Publication WITH
  Maps <- {Dataset[b] : b \in Builders}, current <- AtPath, serving <- Serving

\* Temporary files, renames, mappings, failures and kills in any order look to
\* users of the path like single steps that replace, open and close a database.
ImplementsPublication == Promise!Spec
=============================================================================
