--------------------------- MODULE MCPackedFields ---------------------------
(***************************************************************************)
(* Sections for MCPackedFields.cfg with the byte, window and chunk sizes of  *)
(* the code: every packed width the format allows with values at the       *)
(* boundaries, mask arrays on both sides of a chunk and of a checkpoint,   *)
(* three-byte fields at their byte boundaries, and streams of three codes  *)
(* of lengths that cross bytes.                                            *)
(***************************************************************************)
EXTENDS PackedFields

Section(kind, values, widths) ==
  [kind |-> kind, values |-> values, widths |-> widths]

\* n values, all `others` except the j-th.
OneDiffers(n, j, value, others) ==
  [i \in 1..n |-> IF i = j THEN value ELSE others]

PackedInputs ==
  UNION {
    {Section("packed", OneDiffers(n, j, value, others), <<>>) :
       j \in {1, n}, value \in {0, 1, 2 ^ (w - 1), 2 ^ w - 1}, others \in {0, 2 ^ w - 1}} :
    w \in 1..MaxLengthWidth, n \in {1, 2, 3, 6}}

MaskInputs ==
  {Section("masks", [i \in 1..n |-> (a * i + b) % SymbolCount], <<>>) :
     n \in {1, 2, 3, 17, 18, 19, 20, 21, 22, 39}, a \in {0, 1, 7}, b \in {0, 15}}

U24Values == {0, 1, 255, 256, 65535, 65536, MaxU24, MaxU24 + 1}

U24Inputs == {Section("u24", <<v, w>>, <<>>) : v, w \in U24Values}

Codes == {<<0, 0>>, <<1, 1>>, <<0, 2>>, <<5, 3>>, <<8, 4>>, <<7, 4>>, <<300, 9>>, <<16385, 15>>}

PayloadInputs ==
  {Section("payload", <<a[1], b[1], c[1]>>, <<a[2], b[2], c[2]>>) : a, b, c \in Codes}

AllInputs == PackedInputs \cup MaskInputs \cup U24Inputs \cup PayloadInputs
MCInputs == AllInputs \cup {Section("packed", <<>>, <<>>)}
=============================================================================
