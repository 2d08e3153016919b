------------------------------- MODULE S2Cell -------------------------------
(***************************************************************************)
(* S2 cell identifiers as the numbers they are: the bit arithmetic of      *)
(* core/src/lib.rs, core/src/topology.rs, cli/src/topology_database.rs and *)
(* of the verifier and the benchmark, for any number of levels, and the    *)
(* paths of CellTree they stand for.                                       *)
(*                                                                         *)
(* From the most significant bit, an identifier holds the face, two bits   *)
(* per level, a sentinel bit, and zeros.  A compact identifier drops the   *)
(* bits below the sentinel of a cell of the deepest database level.        *)
(***************************************************************************)
EXTENDS CellTree, PrefixSums, FiniteSetsExt

CONSTANTS
  MaxS2Level,        \* MAX_S2_LEVEL, 30 in the code
  MaxDatabaseLevel,  \* MAX_DB_LEVEL, 12 in the code
  NumRootFaces,      \* NUM_ROOT_FACES, 6 in the code
  FaceBits           \* S2_FACE_BITS, 3 in the code

ASSUME CellAssumption ==
  /\ MaxS2Level \in Nat \ {0} /\ MaxDatabaseLevel \in 1..MaxS2Level
  /\ FaceBits \in Nat \ {0} /\ NumRootFaces \in 1..(2 ^ FaceBits)

BitsPerLevel == 2
MaxS2Bits == BitsPerLevel * MaxS2Level
FaceShift == MaxS2Bits + 1
IdBits == FaceShift + FaceBits
ShiftCompact == BitsPerLevel * (MaxS2Level - MaxDatabaseLevel)
MaxCompactCellId == 2 ^ (IdBits - ShiftCompact) - 1
Ids == 0..(2 ^ IdBits - 1)

Face(id) == id \div 2 ^ FaceShift
Sentinel(level) == MaxS2Bits - BitsPerLevel * level

\* id & id.wrapping_neg(): zero for zero.
LowestBit(id) ==
  IF id = 0 THEN 0 ELSE 2 ^ Max({k \in 0..(IdBits - 1) : id % 2 ^ k = 0})

TrailingZeros(bit) ==
  CHOOSE k \in 0..IdBits : bit = 2 ^ k \/ (bit = 0 /\ k = IdBits)

\* try_get_level succeeds.
ValidId(id) ==
  /\ id # 0
  /\ Face(id) < NumRootFaces
  /\ LET zeros == TrailingZeros(LowestBit(id))
     IN  zeros <= MaxS2Bits /\ zeros % 2 = 0

Level(id) == (MaxS2Bits - TrailingZeros(LowestBit(id))) \div BitsPerLevel

\* get_ancestor: (id & !((1 << s) - 1)) | (1 << s).
Ancestor(id, level) ==
  (id \div 2 ^ (Sentinel(level) + 1)) * 2 ^ (Sentinel(level) + 1) + 2 ^ Sentinel(level)

\* get_children_ids of a cell of this level.
ChildId(id, level, child) ==
  (id - 2 ^ Sentinel(level)) + child * 2 ^ (Sentinel(level) - 1) + 2 ^ (Sentinel(level) - 2)

\* Mutant: the two bits are taken at the parent's sentinel.
ChildIndexAtSentinel(id, level) == (id \div 2 ^ Sentinel(level)) % 4

\* child_index of the engine, child_position of the encoder.
ChildIndex(id, level) == (id \div 2 ^ (Sentinel(level) - 1)) % 4

Compact(id) == id \div 2 ^ ShiftCompact
Expanded(compact) == compact * 2 ^ ShiftCompact
CompactAncestor(compact, level) == Compact(Ancestor(Expanded(compact), level))

\* Mutant: the range of a leaf reaches half as far.
RangeRadiusHalved(id) == LowestBit(id) \div 2

RangeRadius(id) == LowestBit(id) - 1
RangeStart(id) == id - RangeRadius(id)
RangeEnd(id) == id + RangeRadius(id)

\* create_level_30_descendant
DeepestDescendant(id, random) ==
  (id - LowestBit(id) + 1) + (random % LowestBit(id)) * 2

\* One query of create_global_level_30_queries.
GlobalQuery(index, random) ==
  (index % NumRootFaces) * 2 ^ FaceShift + (random % 2 ^ MaxS2Bits) * 2 + 1

-----------------------------------------------------------------------------
(* The verifier's oracle *)

\* The number of significant bits of a number.
BitLength(n) == CHOOSE k \in 0..IdBits : n < 2 ^ k /\ (k = 0 \/ n >= 2 ^ (k - 1))

Xor(a, b) ==
  LET bits == 0..(IdBits - 1)
  IN  SetSum([k \in bits |-> 2 ^ k],
             {k \in bits : (a \div 2 ^ k) % 2 # (b \div 2 ^ k) % 2})

Smaller(a, b) == IF a <= b THEN a ELSE b

\* Mutant: a difference in the low bit of a level still counts as shared.
SharedLevelRoundedUp(id, level, leaf) ==
  LET compared == Smaller(level, Level(leaf))
      different == Xor(id, leaf) \div 2 ^ (Sentinel(compared) + 1)
  IN  IF different = 0 THEN compared
      ELSE (BitsPerLevel * compared - BitLength(different) + 1) \div BitsPerLevel

\* shared_ancestor: the level of the deepest common ancestor.
SharedLevel(id, level, leaf) ==
  LET compared == Smaller(level, Level(leaf))
      different == Xor(id, leaf) \div 2 ^ (Sentinel(compared) + 1)
  IN  IF different = 0 THEN compared
      ELSE (BitsPerLevel * compared - BitLength(different)) \div BitsPerLevel

\* reference_query over a face's sorted leaves.
ReferenceAnswer(id, leaves) ==
  LET level == Level(id)
      insertion == Cardinality({i \in DOMAIN leaves : leaves[i] < id})
      neighbours == {i \in {insertion, insertion + 1} : i \in DOMAIN leaves}
      shared == {SharedLevel(id, level, leaves[i]) : i \in neighbours}
  IN  Ancestor(id, Max(shared))

-----------------------------------------------------------------------------
(* The cells that identifiers stand for *)

\* The identifier of a path, by definition of the S2 numbering.
IdOf(path) ==
  LET position[k \in 0..Len(path)] ==
        IF k = 0 THEN 0 ELSE 4 * position[k - 1] + path[k]
  IN  (2 * position[Len(path)] + 1) * 2 ^ Sentinel(Len(path) - 1)

\* A face and a child position for every level below it.
PathsOf(level) ==
  UNION {{<<f>> \o steps : steps \in [1..level -> 0..3]} : f \in 0..(NumRootFaces - 1)}
Paths == UNION {PathsOf(level) : level \in 0..MaxS2Level}
CellIds == {IdOf(p) : p \in Paths}
PathOf == [id \in CellIds |-> CHOOSE p \in Paths : IdOf(p) = id]
=============================================================================
