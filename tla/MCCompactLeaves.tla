-------------------------- MODULE MCCompactLeaves ---------------------------
(***************************************************************************)
(* Two of four face numbers, three S2 levels and two database levels: 512  *)
(* identifiers of nine bits and 128 compact ones.                          *)
(***************************************************************************)
EXTENDS CompactLeaves

\* Every kind of refusal and cells of every level on both faces.
MCQueries ==
  {0, 1, 2, 8, 127, 128, 136, 256, 300, 511}
    \cup {IdOf(p) : p \in {<<0>>, <<1>>, <<0, 0>>, <<0, 3>>, <<1, 1>>, <<1, 2>>,
                           <<0, 0, 0>>, <<0, 1, 2>>, <<0, 2, 3>>, <<0, 3, 3>>,
                           <<1, 0, 3>>, <<1, 2, 0>>, <<1, 3, 1>>, <<1, 1, 2, 3>>}}
MCRandomValues == {0, 1, 37, 63}
=============================================================================
