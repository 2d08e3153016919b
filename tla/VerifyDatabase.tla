--------------------------- MODULE VerifyDatabase ---------------------------
(***************************************************************************)
(* verify_database: one database is opened by both constructors, its       *)
(* leaves are reconstructed twice and encoded again, and then every cell   *)
(* of every level is asked and compared with a reference that knows the    *)
(* sorted leaves only (LeafVectorOracle, reference_query).                 *)
(*                                                                         *)
(* The faces of a level are verified in parallel.  Each one walks its      *)
(* cells in order with an insertion index into the leaves of the face that *)
(* only moves forward, and answers from the two leaves around it.          *)
(*                                                                         *)
(* A cell is [face, level, path], the path as a number; its identifier is  *)
(* arithmetic as in the code.  A report is what the two engines say: the   *)
(* leaves each reconstructs, whether these encode to the same bytes, and   *)
(* the path the preverified engine answers for each cell.                  *)
(***************************************************************************)
EXTENDS CellTree

CONSTANTS
  FaceCount,     \* NUM_ROOT_FACES
  BitsPerLevel,  \* BITS_PER_LEVEL
  MaxLevel,      \* MAX_DB_LEVEL
  QuickPaths,    \* QUICK_PATH_COUNT_PER_FACE_LEVEL
  Reports        \* what the engines under test may say

ASSUME VerifyAssumption ==
  /\ FaceCount \in Nat \ {0} /\ BitsPerLevel \in Nat \ {0}
  /\ MaxLevel \in Nat /\ QuickPaths \in Nat \ {0}

Faces == 0..(FaceCount - 1)
PathCount(l) == 2 ^ (BitsPerLevel * l)
Cell(f, l, p) == [face |-> f, level |-> l, path |-> p]
CellsOf(l) == {Cell(f, l, p) : f \in Faces, p \in 0..(PathCount(l) - 1)}
AllCells == UNION {CellsOf(l) : l \in 0..MaxLevel}

\* Odd multiple of the range below a cell: parents lie amid their children.
CellId(c) ==
  (2 * (c.face * PathCount(c.level) + c.path) + 1) * PathCount(MaxLevel - c.level)

AncestorAt(c, l) == Cell(c.face, l, c.path \div PathCount(c.level - l))

\* The path of CellTree that leads to a cell.
PathOf(c) ==
  <<c.face>> \o [i \in 1..c.level |->
                   AncestorAt(c, i).path % 2 ^ BitsPerLevel]

\* LeafVectorOracle::new
OracleAccepts(L) ==
  /\ L # <<>>
  /\ \A i \in 2..Len(L) : CellId(L[i - 1]) < CellId(L[i])
  /\ \A i \in DOMAIN L : L[i].level <= MaxLevel
  /\ {L[i].face : i \in DOMAIN L} = Faces

\* Reconstruction descends from face cells to children, so that what it lists are
\* cells; and the encoder, whose bytes a canonical database has, refuses leaves
\* that are out of order or leave out a face (validate_compact_leaves).
ASSUME ReportsAssumption ==
  \A r \in Reports :
    /\ r.strict \in Seq(AllCells)
    /\ r.canonical \in BOOLEAN
    /\ r.canonical => OracleAccepts(r.strict)

VARIABLES
  report,     \* [strict, verified, canonical, answer]: what the engines say
  quick,      \* the --quick argument
  pc,
  oracle,     \* LeafVectorOracle: the sorted leaves of each face
  level,      \* the level verified now
  asked,      \* of each face: how many cells were asked
  insertion   \* of each face: insertion_index

vars == <<report, quick, pc, oracle, level, asked, insertion>>

-----------------------------------------------------------------------------
(* The reference *)

\* Sorted leaves lie face after face: face_offsets[f] leaves come before face f.
FaceOffset(L, f) == Cardinality({i \in DOMAIN L : L[i].face < f})
FaceLeaves(L) ==
  [f \in Faces |-> SubSeq(L, FaceOffset(L, f) + 1, FaceOffset(L, f + 1))]

\* How many low bits of two paths to drop until they agree.
DifferentBits(p, q) ==
  CHOOSE n \in 0..(BitsPerLevel * MaxLevel) :
    /\ p \div 2 ^ n = q \div 2 ^ n
    /\ n > 0 => p \div 2 ^ (n - 1) # q \div 2 ^ (n - 1)

\* shared_ancestor: the level of the deepest common ancestor.
SharedLevel(c, leaf) ==
  LET compared == IF c.level < leaf.level THEN c.level ELSE leaf.level
      bits == DifferentBits(AncestorAt(c, compared).path,
                            AncestorAt(leaf, compared).path)
  IN  (BitsPerLevel * compared - bits) \div BitsPerLevel

\* reference_query: the neighbour that shares more, the preceding one on a tie.
ReferenceQuery(c, L, i) ==
  LET before == IF i > 0 THEN SharedLevel(c, L[i]) ELSE -1
      after  == IF i < Len(L) THEN SharedLevel(c, L[i + 1]) ELSE -1
  IN  AncestorAt(c, IF after > before THEN after ELSE before)

\* Counting on from index i, k leaves lie before a cell.
Advances(L, i, c, k) ==
  /\ \A j \in (i + 1)..k : CellId(L[j]) < CellId(c)
  /\ k < Len(L) => CellId(L[k + 1]) >= CellId(c)

-----------------------------------------------------------------------------
(* The tool *)

Init ==
  /\ report \in Reports
  /\ quick \in BOOLEAN
  /\ pc = "reconstruct"
  /\ oracle = [f \in Faces |-> <<>>]
  /\ level = 0
  /\ asked = [f \in Faces |-> 0]
  /\ insertion = [f \in Faces |-> 0]

Proceed(ok, next) == pc' = IF ok THEN next ELSE "failed"

CompareLeaves ==
  /\ pc = "reconstruct"
  /\ Proceed(report.strict = report.verified, "encode")
  /\ UNCHANGED <<report, quick, oracle, level, asked, insertion>>

VerifyCanonicalEncoding ==
  /\ pc = "encode"
  /\ Proceed(report.canonical, "oracle")
  /\ UNCHANGED <<report, quick, oracle, level, asked, insertion>>

BuildOracle ==
  /\ pc = "oracle"
  /\ Proceed(OracleAccepts(report.strict), "queries")
  /\ oracle' = FaceLeaves(report.strict)
  /\ UNCHANGED <<report, quick, level, asked, insertion>>

CheckedPaths(l) ==
  IF quick /\ QuickPaths < PathCount(l) THEN QuickPaths ELSE PathCount(l)

SampledPath(i) == (i * PathCount(level)) \div CheckedPaths(level)

\* One turn of the loop over a face's cells.
Ask(f) ==
  /\ pc = "queries" /\ asked[f] < CheckedPaths(level)
  /\ \E c \in {Cell(f, level, SampledPath(asked[f]))},
        index \in insertion[f]..Len(oracle[f]) :
       /\ Advances(oracle[f], insertion[f], c, index)
       /\ insertion' = [insertion EXCEPT ![f] = index]
       /\ Proceed(report.answer[c]
                    = PathOf(ReferenceQuery(c, oracle[f], index)),
                  "queries")
  /\ asked' = [asked EXCEPT ![f] = @ + 1]
  /\ UNCHANGED <<report, quick, oracle, level>>

\* Mutant: the insertion indexes are not started again.
FinishLevelKeepingIndex ==
  /\ pc = "queries" /\ \A f \in Faces : asked[f] = CheckedPaths(level)
  /\ IF level < MaxLevel THEN level' = level + 1 /\ pc' = pc
                         ELSE level' = level /\ pc' = "passed"
  /\ asked' = [f \in Faces |-> 0]
  /\ UNCHANGED <<report, quick, oracle, insertion>>

\* Mutant: the deepest level is left out.
FinishLevelEarly ==
  /\ pc = "queries" /\ \A f \in Faces : asked[f] = CheckedPaths(level)
  /\ IF level + 1 < MaxLevel THEN level' = level + 1 /\ pc' = pc
                             ELSE level' = level /\ pc' = "passed"
  /\ asked' = [f \in Faces |-> 0]
  /\ insertion' = [f \in Faces |-> 0]
  /\ UNCHANGED <<report, quick, oracle>>

\* The results of all faces are collected before the next level begins.
FinishLevel ==
  /\ pc = "queries" /\ \A f \in Faces : asked[f] = CheckedPaths(level)
  /\ IF level < MaxLevel THEN level' = level + 1 /\ pc' = pc
                         ELSE level' = level /\ pc' = "passed"
  /\ asked' = [f \in Faces |-> 0]
  /\ insertion' = [f \in Faces |-> 0]
  /\ UNCHANGED <<report, quick, oracle>>

Next ==
  \/ CompareLeaves \/ VerifyCanonicalEncoding \/ BuildOracle
  \/ \E f \in Faces : Ask(f)
  \/ FinishLevel

Spec == Init /\ [][Next]_vars

-----------------------------------------------------------------------------
(* Properties *)

RightAnswer(L, c) == DeepestAncestor({PathOf(L[i]) : i \in DOMAIN L}, PathOf(c))

Correct(r) ==
  /\ r.strict = r.verified /\ r.canonical
  /\ \A c \in AllCells : r.answer[c] = RightAnswer(r.strict, c)

\* No false alarm: the reference, which looks at two leaves only, agrees with
\* every engine that answers with the deepest ancestor.
CorrectEnginesPass == pc = "failed" => ~Correct(report)

\* No false pass: exhaustive verification finds any single wrong answer, in any
\* level, and every difference between the reconstructions or the encodings.
FaultsFound == pc = "passed" /\ ~quick => Correct(report)
=============================================================================
