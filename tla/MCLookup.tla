------------------------------ MODULE MCLookup ------------------------------
(***************************************************************************)
(* Queries and reconstructions on the engines built from the written files *)
(* and from those damaged ones that still pass full validation.            *)
(***************************************************************************)
EXTENDS TopologyLookup, MCTopologyData

Instances == Written \union Damaged(MixedDatabase) \union Damaged(OddDatabase)
MCDatabases == Instances

\* Cells of every level a database has, and below its deepest one.
Asked == UNION {Cells(l) : l \in 0..(LevelCount + 1)}
MCQueryCells == Asked
=============================================================================
