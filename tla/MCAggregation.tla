--------------------------- MODULE MCAggregation ----------------------------
(***************************************************************************)
(* Aggregation of images of three rows of two pixels over two cells: every *)
(* image whose left column has values at each limit of the conversion,     *)
(* with totals on both sides of MaxPopulation, and whose right column has  *)
(* half a unit per row, which rounds up to one.                            *)
(***************************************************************************)
EXTENDS Aggregation, TLC

\* No data, a negative value, less than half a unit, half a unit, more units,
\* and a value out of range by itself.
MCNoData == -9
Values == {MCNoData, -1, 1, 2, 12, 20}

Width == 2
Height == 3
MCPixelCount == Width * Height
MCRowStarts == {r * Width : r \in 0..(Height - 1)}

Images ==
  {[value |-> [p \in Pixels |-> IF p % Width = 0 THEN v[p] ELSE 2],
    cell  |-> [p \in Pixels |-> IF p % Width = 0 THEN c[p] ELSE 2]] :
     v \in [MCRowStarts -> Values],
     c \in {d \in [MCRowStarts -> Cells] : d[0] = 1}}
MCSources == Images

PixelValues == [s \in Images |-> s.value]
MCValueAt == PixelValues
PixelCells == [s \in Images |-> s.cell]
MCCellAt == PixelCells
=============================================================================
