-------------------------- MODULE MCSourceStaging --------------------------
(***************************************************************************)
(* Sources of up to two buffers, one of them pinned, and the changes that  *)
(* turn one into another between two reads.  The first buffer holds the    *)
(* metadata, so other pixels, or fewer, may come with the right metadata.  *)
(***************************************************************************)
EXTENDS SourceStaging, TLC

CONSTANTS First, Second

MCDigest(c) == [sha256 |-> c]
MCPinned == [b \in Builders |-> <<First, Second>>]
MCMetadata(c) == IF c # <<>> /\ c[1] = First THEN "required" ELSE None

Symmetry == Permutations(Builders) \union Permutations(Directories) \union Permutations(Files)
=============================================================================
