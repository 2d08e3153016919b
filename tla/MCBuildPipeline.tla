-------------------------- MODULE MCBuildPipeline ---------------------------
(***************************************************************************)
(* Two builders of one release and one of another, one source file that is *)
(* rewritten, removed or put back, or one builder that is killed or cannot *)
(* remove a directory, and a reader.  A content is one buffer.             *)
(***************************************************************************)
EXTENDS BuildPipeline, TLC

CONSTANTS b1, b2, b3, First, Second

MCDigest(c) == [sha256 |-> c]
MCPinned == (b1 :> <<First>>) @@ (b2 :> <<First>>) @@ (b3 :> <<Second>>)
MCMetadata(c) == IF c # <<>> THEN "required" ELSE None
MCDerive(c) == [map |-> c]

Symmetry == Permutations({b1, b2}) \union Permutations(Directories)
=============================================================================
