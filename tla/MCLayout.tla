------------------------------ MODULE MCLayout ------------------------------
(***************************************************************************)
(* TopologyLayout on files of four levels, two raw and two Huffman coded,  *)
(* with bytes of four bits.  The files are those the encoder writes for    *)
(* three directories, and each of them with one byte of the header         *)
(* replaced by any other, with a gap or an overlap of one or two bytes     *)
(* before a section, with one offset at the end of the address space, and  *)
(* with the mapping longer or shorter than the file.                       *)
(***************************************************************************)
EXTENDS TopologyLayout, TLC

Directory(leaves, nodes, bits, lengthWidth, childWidth) ==
  [leaves |-> leaves, terminal |-> leaves, nodes |-> nodes, bits |-> bits,
   lengthWidth |-> lengthWidth, childWidth |-> childWidth]

MCDirectories ==
  {Directory(1, [l \in Levels |-> 2], 2 :> 1 @@ 3 :> 5, 2 :> 1 @@ 3 :> 1, 2 :> 1 @@ 3 :> 0),
   Directory(9, 0 :> 2 @@ 1 :> 4 @@ 2 :> 8 @@ 3 :> 16,
             2 :> 9 @@ 3 :> 19, 2 :> 3 @@ 3 :> 3, 2 :> 2 @@ 3 :> 0),
   Directory(7, 0 :> 2 @@ 1 :> 3 @@ 2 :> 5 @@ 3 :> 9,
             2 :> 8 @@ 3 :> 12, 2 :> 2 @@ 3 :> 3, 2 :> 1 @@ 3 :> 0)}

Encoded == {EncodedFile(d) : d \in MCDirectories}

\* One byte of the header is another.
Damaged ==
  {[f EXCEPT !.header[p] = b] :
     f \in Encoded, p \in 0..(HeaderSize - 1), b \in 0..(ByteBase - 1)}

\* A section and all behind it are shifted, the file size with them.
Offsets == <<"rawMasks", "rawRanks", "models", "groupBits", "groupRanks",
             "blockLengths", "blockKids", "payload", "fileSize">>

Shifted(f, i, by) ==
  [size |-> f.size + by,
   header |-> WrittenFields(f.header, [j \in i..9 |-> FixedField[Offsets[j]]],
                            [j \in i..9 |-> Fixed(f.header, Offsets[j]) + by])]

Gapped == {Shifted(f, i, by) : f \in Encoded, i \in 1..8, by \in {-2, -1, 1, 2}}

\* One offset is among the largest numbers a field holds.
Extreme ==
  {[f EXCEPT !.header =
      WrittenFields(@, [j \in {i} |-> FixedField[Offsets[j]]], [j \in {i} |-> MaxUsize - n])] :
     f \in Encoded, i \in 1..9, n \in 0..9}

Resized == {[f EXCEPT !.size = f.size + n] : f \in Encoded, n \in {-1, 1}}
Truncated == {[f EXCEPT !.size = HeaderSize - 1] : f \in Encoded}

AllFiles == Encoded \cup Damaged \cup Gapped \cup Extreme \cup Resized \cup Truncated
MCFiles == AllFiles
=============================================================================
