---------------------------- MODULE BuildPipeline ----------------------------
(***************************************************************************)
(* main of build_database from end to end, by several builders at once:    *)
(* SourceStaging's run up to the decoded image, then the density map is    *)
(* computed, published, read back and compared, and only then are the      *)
(* temporary directories dropped.  Readers open the path meanwhile.        *)
(*                                                                         *)
(* The computation is a function of the decoded pixels (Aggregation and    *)
(* PrunedTree show that schedules and hash orders do not matter); a file   *)
(* is replaced and read in one step, as Publication says and DatabaseFile  *)
(* is proved to implement.                                                 *)
(***************************************************************************)
EXTENDS SourceStaging

CONSTANTS
  Derive(_),  \* the density map of a content; None if a face stays empty
  Readers,    \* processes that open the database
  MaxDisturbances,  \* bound: changes of the source, kills and failed removals
  Torn        \* Publication's unreadable file

VARIABLES
  phase,      \* of each builder: how far main is with the decoded image
  computed,   \* of each builder: compact_leaves, or None
  readBack,   \* of each builder: the map of query_engine, or None
  current,    \* the map at database_path, or None
  serving,    \* of each reader: the map of its engine, or None
  overtaken   \* history: builders after which another dataset was published

Published == INSTANCE Publication WITH Maps <- {Derive(Pinned[b]) : b \in Builders} \ {None}

\* vars are SourceStaging's.
pipelineVars == <<vars, phase, computed, readBack, current, serving, overtaken>>

Phases == {"waiting", "computed", "published", "read", "compared", "mismatched"}

PipelineInit ==
  /\ Init /\ Published!Init
  /\ phase = [b \in Builders |-> "waiting"]
  /\ computed = [b \in Builders |-> None]
  /\ readBack = [b \in Builders |-> None]
  /\ overtaken = {}

Advance(b, next) == phase' = [phase EXCEPT ![b] = next]

\* The bound on what happens to the builders from outside.
MayDisturb == edits + losses < MaxDisturbances

\* Steps before the image is decoded and after main has returned.
Prepare(b) ==
  /\ \/ OpenSource(b) \/ Stage(b)
     \/ Drop(b) \/ Rerun(b)
  /\ losses' # losses => MayDisturb
  /\ UNCHANGED <<phase, computed, readBack, current, serving, overtaken>>

\* Mutant: the computation reads the source path again.
DecodedOfSource(b) == IF source = None THEN <<>> ELSE content[source]

\* The pixels that the computation works on.
Decoded(b) == image[b].content

\* Steps 1 to 3 of main: aggregation, propagation, extraction and sorting.
Compute(b) ==
  /\ stage[b] = "decoded" /\ phase[b] = "waiting"
  /\ Derive(Decoded(b)) # None
  /\ computed' = [computed EXCEPT ![b] = Derive(Decoded(b))]
  /\ Advance(b, "computed")
  /\ UNCHANGED <<vars, readBack, current, serving, overtaken>>

\* write_topology_database
Publish(b) ==
  /\ phase[b] = "computed"
  /\ current' = computed[b]
  /\ overtaken' = {c \in Builders : c \in overtaken \/ Pinned[c] # Pinned[b]} \ {b}
  /\ Advance(b, "published")
  /\ UNCHANGED <<vars, computed, readBack, serving>>

\* open_database_snapshot and reconstruct_all_leaves
ReadBack(b) ==
  /\ phase[b] = "published"
  /\ readBack' = [readBack EXCEPT ![b] = current]
  /\ Advance(b, "read")
  /\ UNCHANGED <<vars, computed, current, serving, overtaken>>

\* Mutant: a builder that finds another map takes the file away.
CompareAndWithdraw(b) ==
  /\ phase[b] = "read"
  /\ Advance(b, IF readBack[b] = computed[b] THEN "compared" ELSE "mismatched")
  /\ current' = IF readBack[b] = computed[b] THEN current ELSE None
  /\ UNCHANGED <<vars, computed, readBack, serving, overtaken>>

\* The comparison at the end of main; an error leaves the file in place.
Compare(b) ==
  /\ phase[b] = "read"
  /\ Advance(b, IF readBack[b] = computed[b] THEN "compared" ELSE "mismatched")
  /\ UNCHANGED <<vars, computed, readBack, current, serving, overtaken>>

Forget(b) ==
  /\ Advance(b, "waiting")
  /\ computed' = [computed EXCEPT ![b] = None]
  /\ readBack' = [readBack EXCEPT ![b] = None]
  /\ UNCHANGED <<current, serving, overtaken>>

\* main returns, with an error at any point or at its end.
Return(b) == Leave(b) /\ Forget(b)

KillBuilder(b) == MayDisturb /\ Kill(b) /\ Forget(b)

\* The owner of the source path.
EditSource ==
  /\ MayDisturb
  /\ (\E f \in Files : Rewrite(f)) \/ Replace
  /\ UNCHANGED <<phase, computed, readBack, current, serving, overtaken>>

\* QueryEngine::open, and the drop of an engine.
Serve(r) ==
  /\ Published!Open(r) \/ (serving[r] # None /\ Published!Close(r))
  /\ UNCHANGED <<vars, phase, computed, readBack, overtaken>>

MainStep(b) ==
  \/ Prepare(b) \/ Compute(b) \/ Publish(b) \/ ReadBack(b) \/ Compare(b)
  \/ Return(b) \/ KillBuilder(b)

PipelineNext ==
  \/ \E b \in Builders : MainStep(b)
  \/ EditSource
  \/ \E r \in Readers : Serve(r)

PipelineSpec == PipelineInit /\ [][PipelineNext]_pipelineVars

-----------------------------------------------------------------------------
(* Properties *)

MapOf(b) == Derive(Pinned[b])
Maps == {MapOf(b) : b \in Builders}

\* Types, and that main works on a decoded image until it returns.
PipelineTypeOK ==
  /\ phase \in [Builders -> Phases]
  /\ overtaken \subseteq Builders
  /\ \A b \in Builders : phase[b] # "waiting" =>
       /\ stage[b] = "decoded"
       /\ {snapshotDir[b], preparedDir[b]} \subseteq exists

\* From end to end: whatever happens to the source file while any number of
\* builders copy, convert and publish, the path and every engine hold the density
\* map of a pinned dataset, and each builder publishes that of its own.
ServedFromPinned ==
  /\ current \in Maps \union {None}
  /\ \A r \in Readers : serving[r] \in Maps \union {None}
  /\ \A b \in Builders : computed[b] \in {MapOf(b), None}

\* Builders of one release agree: the comparison at the end fails only if a
\* builder with another pinned dataset published in between, although each one
\* copied the source at another time and reads what others have published.
MismatchesOfOtherReleases ==
  \A b \in Builders : phase[b] = "mismatched" => b \in overtaken

\* A published map stays at the path while its builder reads it back and compares,
\* and after a comparison that failed, until a builder of another release publishes:
\* builders of the same release, those that fail or find another map and those that
\* are killed take nothing away from it.
KeptUntilOvertaken ==
  \A b \in Builders :
    phase[b] \in {"published", "read", "compared", "mismatched"} =>
      b \in overtaken \/ current = MapOf(b)
=============================================================================
