---------------------------- MODULE MCPrunedTree ----------------------------
(***************************************************************************)
(* Density maps of two faces and two levels: all populations around the    *)
(* threshold on the first face, one populated cell on the second.          *)
(***************************************************************************)
EXTENDS PrunedTree

MCFaces == 0..1

Base == CellsAt(Depth)
Lone == <<1, 1, 0>>
Densities ==
  {[c \in Base |-> IF c = Lone THEN v ELSE IF c[1] = 0 THEN d[c] ELSE 0] :
     v \in {0, 2, 3, 4}, d \in [{c \in Base : c[1] = 0} -> 0..4]}
MCAggregates == Densities
=============================================================================
