------------------------------ MODULE CellTree ------------------------------
(***************************************************************************)
(* Cells of the S2 quadtree by the paths that lead to them, <<face, child, *)
(* child, ...>>: what core/src/lib.rs computes on identifiers (get_level,  *)
(* get_ancestor, get_children_ids) is a length, a prefix, an append.       *)
(***************************************************************************)
EXTENDS Integers, Sequences, FiniteSets

IsAncestor(a, c) == Len(a) <= Len(c) /\ SubSeq(c, 1, Len(a)) = a

\* Leaves do not nest, every face has some, and none is below level depth.
IsLeafSet(L, faces, depth) ==
  /\ \A a, b \in L : IsAncestor(a, b) => a = b
  /\ {c[1] : c \in L} = faces
  /\ \A c \in L : Len(c) <= depth + 1

InTree(L, c) == \E leaf \in L : IsAncestor(c, leaf)

DeepestAncestor(L, c) ==
  CHOOSE a \in {SubSeq(c, 1, k) : k \in 1..Len(c)} :
    /\ InTree(L, a)
    /\ \A k \in 1..Len(c) : InTree(L, SubSeq(c, 1, k)) => k <= Len(a)

\* a comes before c in S2 traversal order; neither is an ancestor of the other.
Precedes(a, c) ==
  \E k \in 1..Len(a) :
    k <= Len(c) /\ SubSeq(a, 1, k - 1) = SubSeq(c, 1, k - 1) /\ a[k] < c[k]

Listing(L, s) ==
  /\ {s[i] : i \in DOMAIN s} = L
  /\ \A i, j \in DOMAIN s : i < j => Precedes(s[i], s[j])
=============================================================================
