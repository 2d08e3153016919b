---------------------------- MODULE HuffmanModel ----------------------------
(***************************************************************************)
(* ContextModel of cli/src/topology_database.rs: the canonical Huffman     *)
(* model of one context (the previous mask of a restart block), built from *)
(* how often each mask follows that context.                               *)
(*                                                                         *)
(* A model is computed in two passes, as in the code: the merge loop gives *)
(* every present symbol a code length, and the canonical pass numbers the  *)
(* codes in the order of (length, symbol).                                 *)
(***************************************************************************)
EXTENDS TopologyFormat, SequencesExt

\* A symbol's position in the code's arrays: the mask as a binary number.
SymbolValue(m) ==
  PrefixSum([p \in ChildPositions |-> IF p \in m THEN 2 ^ p ELSE 0], Fanout)

\* f itself; TLC tabulates it instead of evaluating each application anew.
Table(f) == CHOOSE g \in {f} : g = f

\* A finite set in the order of a strict total order on it.
SortedBy(S, Before(_, _)) ==
  Table([i \in 1..Cardinality(S) |->
           CHOOSE x \in S : Cardinality({y \in S : Before(y, x)}) = i - 1])

-----------------------------------------------------------------------------
(* Code lengths: repeatedly merge the two lightest nodes.  A node is         *)
(* [count, symbols]; equal counts are ordered by the least symbol.           *)

LeastSymbol(n) == Min({SymbolValue(s) : s \in n.symbols})

\* Mutant: nodes are taken by symbol alone.
LighterBySymbol(a, b) == LeastSymbol(a) < LeastSymbol(b)

Lighter(a, b) ==
  \/ a.count < b.count
  \/ a.count = b.count /\ LeastSymbol(a) < LeastSymbol(b)

Lightest(active) == CHOOSE a \in active : \A b \in active \ {a} : Lighter(a, b)

\* One turn of the merge loop: every symbol below the new node is one deeper.
MergeLightest(forest) ==
  LET left  == Lightest(forest.active)
      right == Lightest(forest.active \ {left})
      both  == left.symbols \union right.symbols
  IN  [active  |-> (forest.active \ {left, right})
                     \union {[count |-> left.count + right.count,
                              symbols |-> both]},
       lengths |-> Table([s \in Masks |->
                            forest.lengths[s] + IF s \in both THEN 1 ELSE 0])]

\* Mutant: a symbol without rivals gets a code of one bit.
LoneSymbolCoded(present) == [s \in Masks |-> IF present = {s} THEN 1 ELSE 0]

NoLengths(present) == [s \in Masks |-> 0]

CodeLengthsOf(counts) ==
  LET present == {s \in Masks : counts[s] # 0}
      single  == {[count |-> counts[s], symbols |-> {s}] : s \in present}
      forest[turn \in 0..Cardinality(present)] ==
        IF turn = 0
        THEN [active |-> single, lengths |-> NoLengths(present)]
        ELSE MergeLightest(forest[turn - 1])
  IN  IF present = {} THEN NoLengths(present)
      ELSE forest[Cardinality(present) - 1].lengths

-----------------------------------------------------------------------------
(* Canonical codes *)

\* Symbols that have a code, shortest first, equal lengths by symbol.
CanonicalOrder(lengths) ==
  LET Before(s, t) == \/ lengths[s] < lengths[t]
                      \/ lengths[s] = lengths[t] /\ SymbolValue(s) < SymbolValue(t)
  IN  SortedBy({s \in Masks : lengths[s] # 0}, Before)

\* Mutant: the bits of a code are written least significant first.
ReversedWordOf(value, n) == Table([k \in 1..n |-> (value \div 2 ^ (k - 1)) % 2])

\* The n low bits of a value, most significant first (BitWriter::write).
WordOf(value, n) == Table([k \in 1..n |-> (value \div 2 ^ (n - k)) % 2])

\* The construction fails when a code is longer than the format allows.
ModelFits(counts) ==
  \A s \in Masks : CodeLengthsOf(counts)[s] <= MaxCodeLength

\* A context with one successor has no codes, and a flag says so.
Sole(present) == Cardinality(present) = 1

SerializedFrom(present, lengths, order) ==
  [flag    |-> IF Sole(present) THEN 1 ELSE 0,
   counts  |-> Table([n \in 1..MaxCodeLength |->
                        Cardinality({s \in Masks : lengths[s] = n})]),
   symbols |-> Table([i \in 0..(SymbolCount - 1) |->
                        IF Sole(present) /\ i = 0 THEN CHOOSE s \in present : TRUE
                        ELSE IF i < Len(order) THEN order[i + 1] ELSE {}])]

\* append_serialized: the table the decoder reads.
SerializedModel(counts) ==
  SerializedFrom({s \in Masks : counts[s] # 0}, CodeLengthsOf(counts),
                 CanonicalOrder(CodeLengthsOf(counts)))

\* The bits of each symbol: codes are numbered in canonical order, and grow by a
\* zero bit wherever the length does.
WordsIn(order, lengths) ==
  LET code[i \in 1..Len(order)] ==
        IF i = 1 THEN 0
        ELSE (code[i - 1] + 1) * 2 ^ (lengths[order[i]] - lengths[order[i - 1]])
  IN  Table([s \in Masks |->
         IF lengths[s] = 0 THEN <<>>
         ELSE WordOf(code[CHOOSE i \in 1..Len(order) : order[i] = s], lengths[s])])

\* The bits written for each symbol: none for a sole symbol.
Codewords(counts) ==
  WordsIn(CanonicalOrder(CodeLengthsOf(counts)), CodeLengthsOf(counts))
=============================================================================
