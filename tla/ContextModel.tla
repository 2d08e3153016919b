---------------------------- MODULE ContextModel ----------------------------
(***************************************************************************)
(* The life of one context of a Huffman level (EncodedHuffmanLevel::new    *)
(* and ContextModel of cli/src/topology_database.rs): transitions out of   *)
(* the context are counted one mask at a time, the model built from the    *)
(* counts is written to the file, and there any field may be damaged.  A   *)
(* reader has only the written table and the bits: validate_models of      *)
(* core/src/topology.rs must accept every table of the encoder, and only   *)
(* tables on which decode_symbol terminates.                               *)
(***************************************************************************)
EXTENDS HuffmanModel

CONSTANTS MaxCount  \* bound: occurrences counted for one symbol

ASSUME MaxCountAssumption == MaxCount \in Nat

\* The longest code is one less than the number of symbols (15 for 16 masks),
\* which merging so many nodes cannot exceed.
ASSUME LengthAssumption == SymbolCount - 1 <= MaxCodeLength

VARIABLES
  counts,  \* counts[context]: how often each mask has followed it
  table,   \* the context's [flag, counts, symbols] as serialized
  phase    \* "counting", "refused", "written" or "damaged"

modelVars == <<counts, table, phase>>

NoCounts == [s \in Masks |-> 0]

\* The zeroed bytes that the encoder appends before it fills them.
ZeroTable ==
  [flag    |-> 0,
   counts  |-> [n \in 1..MaxCodeLength |-> 0],
   symbols |-> [i \in 0..(SymbolCount - 1) |-> {}]]

ModelInit ==
  /\ counts = NoCounts
  /\ table = ZeroTable
  /\ phase = "counting"

\* One neighbouring pair of masks inside a restart block.
CountTransition(s) ==
  /\ phase = "counting"
  /\ counts[s] < MaxCount
  /\ counts' = [counts EXCEPT ![s] = @ + 1]
  /\ UNCHANGED <<table, phase>>

\* ContextModel::from_counts fails on a code that is too long; otherwise the
\* model is appended to the file.
WriteModel ==
  /\ phase = "counting"
  /\ phase' = IF ModelFits(counts) THEN "written" ELSE "refused"
  /\ table' = IF ModelFits(counts) THEN SerializedModel(counts) ELSE table
  /\ UNCHANGED counts

\* The table of a mapped file, with a field of any value in it.  Nothing is left
\* of the counts there.
Damaged(other) ==
  /\ phase \in {"written", "damaged"}
  /\ phase' = "damaged"
  /\ table' = other
  /\ counts' = NoCounts

SetFlag(value) == Damaged([table EXCEPT !.flag = value])

SetCount(n, value) == Damaged([table EXCEPT !.counts[n] = value])

SetSymbol(i, m) == Damaged([table EXCEPT !.symbols[i] = m])

ModelNext ==
  \/ \E s \in Masks : CountTransition(s)
  \/ WriteModel
  \/ \E value \in 0..2 : SetFlag(value)
  \/ \E n \in 1..MaxCodeLength, value \in 0..SymbolCount : SetCount(n, value)
  \/ \E i \in 0..(SymbolCount - 1), m \in Masks : SetSymbol(i, m)

ModelSpec == ModelInit /\ [][ModelNext]_modelVars

-----------------------------------------------------------------------------
(* Properties *)

Present == {s \in Masks : counts[s] # 0}

\* The encoder's length limit never rejects a context in a format whose longest
\* code is one less than its number of symbols (15 for 16 masks), and the table
\* it writes is one that the reader accepts, for every outcome of counting, an
\* unused context and a sole successor included.
ReaderAcceptsModel ==
  /\ phase # "refused"
  /\ phase = "written" => ValidModel(table)

Payload(bits) == [k \in 0..(Len(bits) - 1) |-> bits[k + 1]]
Tails == [1..MaxCodeLength -> {0, 1}]

\* Written bits decode to the symbol they were written for, and the decoder stops
\* at their last bit, whatever symbol the encoder wrote next.
SymbolsRoundTrip ==
  phase = "written" =>
    LET words == Codewords(counts)
    IN  \A s \in Present : \A tail \in Tails :
          LET payload == Payload(words[s] \o tail)
              end     == Len(words[s]) + MaxCodeLength
          IN  \A n \in CodeLengths, m \in Masks :
                Decodes(table, payload, 0, end, n, m)
                  <=> n = Len(words[s]) /\ m = s

\* Code lengths that fill the code space exactly, over the present symbols.
CompleteLengths ==
  LET longest == Cardinality(Present)
  IN  {f \in [Present -> 1..longest] :
         SetSum([s \in Present |-> 2 ^ (longest - f[s])], Present) = 2 ^ longest}

Cost(f) == SetSum([s \in Present |-> counts[s] * f[s]], Present)

\* Merging the two lightest nodes gives an optimal code: no complete assignment
\* of code lengths writes the context's transitions in fewer bits.
LengthsOptimal ==
  phase = "written" /\ Cardinality(Present) > 1 =>
    \A f \in CompleteLengths : Cost(CodeLengthsOf(counts)) <= Cost(f)

\* The context of a table that never occurs: it has nothing to decode.
NeverOccurs == table.flag = 0 /\ \A n \in 1..MaxCodeLength : table.counts[n] = 0

\* A table that passes validation decodes every bit string to exactly one mask,
\* and every symbol it lists is the one of some bit string: the decoder's fall
\* through past the longest code, which the code calls unreachable, is.
ValidTablesDecode ==
  phase \in {"written", "damaged"} /\ ValidModel(table) /\ ~NeverOccurs =>
    LET decoded == [tail \in Tails |->
                      {d \in CodeLengths \X Masks :
                         Decodes(table, Payload(tail), 0, MaxCodeLength, d[1], d[2])}]
    IN  /\ \A tail \in Tails : Cardinality(decoded[tail]) = 1
        /\ table.flag = 0 =>
             \A i \in 0..(CodesBelow(table, MaxCodeLength + 1) - 1) :
               \E tail \in Tails : \E d \in decoded[tail] : d[2] = table.symbols[i]
=============================================================================
