--------------------------- MODULE MCDatabaseFile ---------------------------
(***************************************************************************)
(* Two builders with different data and a reader of one path, with a kill  *)
(* of a builder or a crash of the machine at any point.  Three files are   *)
(* enough for one being written, one published and one still mapped.       *)
(***************************************************************************)
EXTENDS DatabaseFile, TLC

MCDataset == [b \in Builders |-> b]

Symmetry ==
  Permutations(Builders) \union Permutations(Readers) \union Permutations(Inodes)
=============================================================================
