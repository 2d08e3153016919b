--------------------------- MODULE MCTopologyData ---------------------------
(***************************************************************************)
(* Databases for the model-checking runs: what TopologyEncoder writes for  *)
(* a few densities, and each of these files with one field changed.        *)
(***************************************************************************)
EXTENDS TopologyEncoder

Cells(l) ==
  {<<f>> \o p : f \in 0..(RootFaceCount - 1), p \in [1..l -> ChildPositions]}
Sorted(cells) == SortedBy(cells, LAMBDA a, b : CellId(a) < CellId(b))

\* One dense face next to two empty ones; leaves on every level; a uniform
\* pattern whose contexts have a sole successor; every deepest cell populated.
Dense == Sorted({<<1>>, <<2>>} \union {c \in Cells(3) : c[1] = 0})
Mixed == Sorted({<<0>>, <<1, 0>>, <<1, 1, 1, 0>>, <<1, 1, 1, 1>>, <<2, 0, 1>>,
                 <<2, 1, 0, 1>>})
Odd   == Sorted({c \in Cells(3) : c[4] = 1 /\ c # <<1, 1, 1, 1>>}
                  \union {<<1, 1, 1>>})
Full  == Sorted(Cells(3))

DenseDatabase == Encode(Dense)
MixedDatabase == Encode(Mixed)
OddDatabase   == Encode(Odd)
FullDatabase  == Encode(Full)

Written == {DenseDatabase, MixedDatabase, OddDatabase, FullDatabase}

-----------------------------------------------------------------------------
(* One changed field *)

Bumped(f) == {[f EXCEPT ![i] = @ + 1] : i \in DOMAIN f}
             \union {[f EXCEPT ![i] = @ - 1] : i \in {j \in DOMAIN f : f[j] > 0}}

\* One unit moved from an entry of f to another one: totals stay right.
Shifted(f) == {[f EXCEPT ![i] = @ + 1, ![j] = @ - 1] :
                 i \in DOMAIN f, j \in {k \in DOMAIN f : f[k] > 0}} \ {f}

WithTotals(d) ==
  {[d EXCEPT !.header = FALSE], [d EXCEPT !.layout = FALSE],
   [d EXCEPT !.leaves = @ + 1], [d EXCEPT !.leaves = 0],
   [d EXCEPT !.terminal = @ + 1], [d EXCEPT !.payloadBits = @ - 1]}

WithPadding(d) ==
  {[d EXCEPT !.padding = {p}] :
     p \in {<<"payload">>, <<"masks", 0>>, <<"bits", 1>>, <<"kids", 1>>,
            <<"bits", 2>>}}

WithEntry(d) ==
  UNION {{[d EXCEPT !.entry[l].start = @ + 1],
          [d EXCEPT !.entry[l].length = @ + 1],
          [d EXCEPT !.entry[l].lengthWidth = @ + 1],
          [d EXCEPT !.entry[l].childWidth = @ + 1],
          [d EXCEPT !.entry[l].encoding = IF @ = "raw" THEN "huffman" ELSE "raw"],
          [d EXCEPT !.entry[l].flags = {"childRanks"} \ @],
          [d EXCEPT !.entry[l].flags = @ \union {"unknown"}],
          [d EXCEPT !.entry[l].nodes = @ - 1]} : l \in Levels}

WithMasks(d) ==
  UNION {{[d EXCEPT !.masks[l][i] = m] : i \in DOMAIN d.masks[l], m \in Masks} :
           l \in RawLevels}

WithIndexes(d) ==
  UNION {{[d EXCEPT !.rawRanks[l] = f] : f \in Bumped(d.rawRanks[l])} :
           l \in RawLevels}
  \union
  UNION {{[d EXCEPT !.groupOffsets[l] = f] : f \in Bumped(d.groupOffsets[l])}
         \union {[d EXCEPT !.groupRanks[l] = f] : f \in Bumped(d.groupRanks[l])}
         \union {[d EXCEPT !.blockBits[l] = f] :
                   f \in Bumped(d.blockBits[l]) \union Shifted(d.blockBits[l])}
         \union {[d EXCEPT !.blockChildren[l] = f] :
                   f \in Bumped(d.blockChildren[l])
                           \union Shifted(d.blockChildren[l])} :
           l \in HuffmanLevels}

WithPayload(d) ==
  {[d EXCEPT !.payload[k] = 1 - @] : k \in DOMAIN d.payload}

WithModels(d) ==
  UNION {{[d EXCEPT !.models[l][c].flag = @ + 1],
          [d EXCEPT !.models[l][c].counts[1] = @ + 1],
          [d EXCEPT !.models[l][c].symbols[0] = ChildPositions \ @],
          [d EXCEPT !.models[l][c].symbols[1] = ChildPositions \ @]} :
           l \in HuffmanLevels, c \in Masks}

Damaged(d) ==
  WithTotals(d) \union WithPadding(d) \union WithEntry(d) \union WithMasks(d)
    \union WithIndexes(d) \union WithPayload(d) \union WithModels(d)

ASSUME EncoderSucceeds == \A x \in {Dense, Mixed, Odd, Full} : Encodes(x)
=============================================================================
