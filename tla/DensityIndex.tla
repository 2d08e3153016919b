---------------------------- MODULE DensityIndex ----------------------------
(***************************************************************************)
(* What a population density database promises, whatever its encoding      *)
(* (QueryEngine in core/src/lib.rs): it holds a set of leaf cells, a query *)
(* returns the deepest ancestor of the asked cell that the tree above the  *)
(* leaves contains, and reconstruction lists the leaves in cell order.     *)
(***************************************************************************)
EXTENDS CellTree

CONSTANTS
  Asked,   \* cells a caller may ask for
  Faces,   \* root faces
  Depth    \* level of the deepest leaves

VARIABLES
  index,  \* the leaf cells of the open database, {} when none is open
  reply   \* the result handed to the caller

NoReply == [kind |-> "none"]

Init == index = {} /\ reply = NoReply

Open ==
  /\ index = {} /\ reply = NoReply
  /\ IsLeafSet(index', Faces, Depth)
  /\ reply' = reply

Query ==
  /\ index # {} /\ reply = NoReply
  /\ reply'.kind = "ancestor" /\ reply'.of \in Asked
  /\ reply' = [kind |-> "ancestor", of |-> reply'.of,
               is |-> DeepestAncestor(index, reply'.of)]
  /\ index' = index

Reconstruct ==
  /\ index # {} /\ reply = NoReply
  /\ reply'.kind = "leaves"
  /\ Listing(index, reply'.list)
  /\ index' = index

Take == reply # NoReply /\ reply' = NoReply /\ index' = index

Close == index # {} /\ reply = NoReply /\ index' = {} /\ reply' = reply

Next == Open \/ Query \/ Reconstruct \/ Take \/ Close

Spec == Init /\ [][Next]_<<index, reply>>
=============================================================================
