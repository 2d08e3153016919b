------------------------ MODULE VerifyDatabase_proof ------------------------
(***************************************************************************)
(* Proofs about VerifyDatabase, for every depth, every number of faces and *)
(* children and every report: the reference, which looks at two leaves     *)
(* around a cell only, finds the deepest ancestor of the cell that holds a *)
(* leaf, and the walk over the cells asks all of them.                     *)
(*                                                                         *)
(* A cell and its descendants have the identifiers of an open interval     *)
(* (SubtreeInterval), so that of all sorted leaves below an ancestor one   *)
(* is next to the place where the cell belongs (NeighbourShares).          *)
(***************************************************************************)
EXTENDS VerifyDatabase, Foundations_proof

USE VerifyAssumption

-----------------------------------------------------------------------------
(* Cells and their identifiers *)

LEMMA PathCounts ==
  ASSUME NEW n \in Nat
  PROVE  /\ PathCount(n) \in Nat \ {0}
         /\ n = 0 => PathCount(n) = 1
         /\ \A m \in Nat : PathCount(n + m) = PathCount(n) * PathCount(m)
         /\ n > 0 => \E h \in Nat \ {0} : PathCount(n) = 2 * h
<1>1. BitsPerLevel * n \in Nat
  OBVIOUS
<1>2. PathCount(n) \in Nat \ {0}
  BY <1>1, PowerPositive DEF PathCount
<1>3. n = 0 => PathCount(n) = 1
  BY <1>1, PowerZero DEF PathCount
<1>4. ASSUME NEW m \in Nat PROVE PathCount(n + m) = PathCount(n) * PathCount(m)
  <2>1. BitsPerLevel * m \in Nat /\ BitsPerLevel * (n + m) = BitsPerLevel * n + BitsPerLevel * m
    OBVIOUS
  <2> QED
    BY <1>1, <2>1, PowerSum DEF PathCount
<1>5. ASSUME n > 0 PROVE \E h \in Nat \ {0} : PathCount(n) = 2 * h
  <2> DEFINE k == BitsPerLevel * n - 1
  <2>1. k \in Nat /\ BitsPerLevel * n = k + 1
    <3>1. BitsPerLevel * n >= 1
      BY <1>5, ProductStrict
    <3> QED
      BY <1>1, <3>1
  <2> HIDE DEF k
  <2>2. 2 ^ k \in Nat \ {0} /\ 2 ^ (k + 1) = 2 * 2 ^ k
    BY <2>1, PowerPositive, PowerNext
  <2> QED
    BY <2>1, <2>2 DEF PathCount
<1> QED
  BY <1>2, <1>3, <1>4, <1>5

LEMMA PathCountNat ==
  ASSUME NEW n \in Nat
  PROVE  PathCount(n) \in Nat \ {0}
BY PathCounts

LEMMA CellFacts ==
  ASSUME NEW c \in AllCells
  PROVE  /\ c.face \in Faces /\ c.face \in Nat
         /\ c.level \in 0..MaxLevel /\ c.level \in Nat
         /\ c.path \in Nat /\ c.path < PathCount(c.level)
         /\ c = Cell(c.face, c.level, c.path)
<1>1. PICK l \in 0..MaxLevel : c \in CellsOf(l)
  BY DEF AllCells
<1>2. PICK f \in Faces, p \in 0..(PathCount(l) - 1) : c = Cell(f, l, p)
  BY <1>1 DEF CellsOf
<1>3. PathCount(l) \in Nat
  BY PathCounts
<1> QED
  BY <1>2, <1>3 DEF Cell, Faces

LEMMA MadeCell ==
  ASSUME NEW f \in Faces, NEW l \in 0..MaxLevel, NEW p \in Nat, p < PathCount(l)
  PROVE  Cell(f, l, p) \in AllCells
<1>1. PathCount(l) \in Nat
  BY PathCounts
<1> QED
  BY <1>1 DEF AllCells, CellsOf

\* The number of a cell among all those of its level.
Node(c) == c.face * PathCount(c.level) + c.path

LEMMA NodeFacts ==
  ASSUME NEW c \in AllCells
  PROVE  /\ Node(c) \in Nat
         /\ Node(c) \div PathCount(c.level) = c.face
<1>1. c.face \in Nat /\ c.path \in Nat /\ PathCount(c.level) \in Nat \ {0}
      /\ c.path < PathCount(c.level)
  BY CellFacts, PathCounts
<1> DEFINE w == PathCount(c.level)
           f == c.face
           p == c.path
<1>2. w \in Nat \ {0} /\ f \in Nat /\ p \in Nat /\ p < w /\ Node(c) = f * w + p
  BY <1>1 DEF Node
<1> HIDE DEF w, f, p
<1>3. f * w \in Nat /\ f * w <= f * w + p /\ f * w + p < (f + 1) * w
  <2>1. f * w \in Nat /\ (f + 1) * w = f * w + w
    BY <1>2
  <2> QED
    BY <1>2, <2>1
<1>4. Node(c) \in Nat /\ f * w <= Node(c) /\ Node(c) < (f + 1) * w
  BY <1>2, <1>3
<1>5. Node(c) \div w = f
  BY <1>2, <1>4, QuotientUnique
<1> QED
  BY <1>4, <1>5 DEF w, f

LEMMA AncestorFacts ==
  ASSUME NEW c \in AllCells, NEW k \in 0..c.level
  PROVE  /\ AncestorAt(c, k) \in AllCells
         /\ AncestorAt(c, k).face = c.face
         /\ AncestorAt(c, k).level = k
         /\ AncestorAt(c, k).path = c.path \div PathCount(c.level - k)
         /\ Node(AncestorAt(c, k)) = Node(c) \div PathCount(c.level - k)
<1>1. /\ c.face \in Nat /\ c.path \in Nat /\ c.level \in Nat /\ c.level <= MaxLevel
      /\ c.face \in Faces /\ c.path < PathCount(c.level)
  BY CellFacts
<1>2. /\ k \in Nat /\ c.level - k \in Nat /\ c.level = k + (c.level - k)
      /\ k \in 0..MaxLevel
  BY <1>1
<1> DEFINE e == PathCount(c.level - k)
           w == PathCount(k)
           q == c.path \div e
<1>3. e \in Nat \ {0} /\ w \in Nat \ {0} /\ PathCount(c.level) = w * e
  BY <1>2, PathCounts
<1> HIDE DEF e, w
<1>4. q \in Nat /\ q * e <= c.path /\ c.path < (q + 1) * e
  BY <1>1, <1>3, Quotient
<1> HIDE DEF q
<1>5. q < w
  <2>1. q * e < w * e
    BY <1>1, <1>3, <1>4
  <2> QED
    BY <1>3, <1>4, <2>1, ProductStrict
<1>6. AncestorAt(c, k) = Cell(c.face, k, q)
  BY DEF AncestorAt, e, q
<1>7. AncestorAt(c, k) \in AllCells
  BY <1>1, <1>2, <1>4, <1>5, <1>6, MadeCell DEF w
<1>8. Node(AncestorAt(c, k)) = c.face * w + q
  BY <1>6 DEF Node, Cell, w
<1>9. Node(c) = (c.face * w) * e + c.path
  <2>1. c.face * (w * e) = (c.face * w) * e
    BY <1>1, <1>3
  <2> QED
    BY <1>3, <2>1 DEF Node
<1>10. Node(c) \div e = c.face * w + q
  <2> DEFINE g == c.face * w
  <2>1. g \in Nat
    BY <1>1, <1>3
  <2>2. Node(c) = g * e + c.path
    BY <1>9
  <2> HIDE DEF g
  <2>3. /\ g * e \in Nat /\ q * e \in Nat /\ (q + 1) * e \in Nat
        /\ (g + q) * e = g * e + q * e /\ (g + q + 1) * e = g * e + (q + 1) * e
    BY <1>3, <1>4, <2>1
  <2>4. Node(c) \in Nat /\ (g + q) * e <= Node(c) /\ Node(c) < (g + q + 1) * e
    BY <1>1, <1>4, <2>2, <2>3
  <2>5. g + q \in Nat
    BY <1>4, <2>1
  <2>6. Node(c) \div e = g + q
    BY <1>3, <2>4, <2>5, QuotientUnique
  <2> QED
    BY <2>6 DEF g
<1> QED
  BY <1>6, <1>7, <1>8, <1>10 DEF Cell, e, q

\* On one level the number names the cell.
LEMMA NodeInjective ==
  ASSUME NEW a \in AllCells, NEW c \in AllCells, a.level = c.level, Node(a) = Node(c)
  PROVE  a = c
<1>1. a.face = c.face
  BY NodeFacts
<1>2. a.path = c.path
  <2> DEFINE x == a.face * PathCount(a.level)
  <2>1. a.face \in Nat /\ a.path \in Nat /\ c.path \in Nat /\ a.level \in Nat
    BY CellFacts
  <2>2. x \in Nat
    BY <2>1, PathCountNat
  <2>3. Node(a) = x + a.path /\ Node(c) = x + c.path
    <3>1. Node(c) = c.face * PathCount(c.level) + c.path
      BY DEF Node
    <3>2. Node(a) = x + a.path
      BY DEF Node
    <3>3. c.face * PathCount(c.level) = x
      BY <1>1
    <3> QED
      BY <3>1, <3>2, <3>3
  <2> HIDE DEF x
  <2>4. \A p, q \in Nat : x + p = x + q => p = q
    BY <2>2
  <2>5. x + a.path = x + c.path
    BY <2>3
  <2> QED
    BY <2>1, <2>4, <2>5
<1> QED
  BY <1>1, <1>2, CellFacts

LEMMA IdFacts ==
  ASSUME NEW c \in AllCells
  PROVE  /\ CellId(c) = (2 * Node(c) + 1) * PathCount(MaxLevel - c.level)
         /\ CellId(c) \in Nat
<1>1. Node(c) \in Nat /\ MaxLevel - c.level \in Nat
  BY NodeFacts, CellFacts
<1>2. PathCount(MaxLevel - c.level) \in Nat
  BY <1>1, PathCounts
<1>3. CellId(c) = (2 * Node(c) + 1) * PathCount(MaxLevel - c.level)
  BY DEF CellId, Node
<1> QED
  BY <1>1, <1>2, <1>3

-----------------------------------------------------------------------------
(* The identifiers below a cell *)

\* y lies in the subtree of the ancestor that c has at level k.
Shares(c, y, k) == k <= y.level /\ AncestorAt(y, k) = AncestorAt(c, k)

Radius(k) == PathCount(MaxLevel - k)
Near(c, y, k) ==
  LET n == Node(AncestorAt(c, k))
  IN  /\ 2 * n * Radius(k) < CellId(y)
      /\ CellId(y) < (2 * n + 2) * Radius(k)

\* The identifiers in a subtree are an interval.
LEMMA SubtreeInterval ==
  ASSUME NEW c \in AllCells, NEW y \in AllCells, NEW k \in 0..c.level
  PROVE  Shares(c, y, k) <=> Near(c, y, k)
<1> DEFINE a == AncestorAt(c, k)
           n == Node(a)
           m == Node(y)
           r == Radius(k)
<1>1. /\ k \in Nat /\ k <= MaxLevel /\ y.level \in Nat /\ y.level <= MaxLevel
      /\ c.level \in Nat /\ c.level <= MaxLevel
  BY CellFacts
<1>2. a \in AllCells /\ a.level = k
  BY AncestorFacts
<1>3. n \in Nat /\ m \in Nat
  BY <1>2, NodeFacts
<1>4. r \in Nat \ {0}
  <2>1. MaxLevel - k \in Nat
    BY <1>1
  <2> QED
    BY <2>1, PathCountNat DEF Radius
<1>5. CASE k <= y.level
  <2> DEFINE e == PathCount(y.level - k)
             u == PathCount(MaxLevel - y.level)
             b == AncestorAt(y, k)
  <2>0. MaxLevel - y.level \in Nat /\ y.level - k \in Nat
    BY <1>1, <1>5
  <2>1. e \in Nat \ {0} /\ u \in Nat \ {0}
    BY <2>0, PathCountNat
  <2>2. r = u * e
    <3>1. MaxLevel - k = (MaxLevel - y.level) + (y.level - k)
          /\ MaxLevel - y.level \in Nat /\ y.level - k \in Nat
      BY <1>1, <1>5
    <3> QED
      BY <3>1, PathCounts DEF Radius
  <2>3. b \in AllCells /\ b.level = k /\ Node(b) = m \div e
    BY <1>1, <1>5, AncestorFacts
  <2>4. CellId(y) = (2 * m + 1) * u
    BY IdFacts
  <2> HIDE DEF a, b, n, m, r, e, u
  <2>5. Shares(c, y, k) <=> m \div e = n
    <3>1. Shares(c, y, k) <=> b = a
      BY <1>5 DEF Shares, a, b
    <3>2. b = a <=> Node(b) = n
      BY <1>2, <2>3, NodeInjective DEF n
    <3> QED
      BY <2>3, <3>1, <3>2
  <2>6. m \div e = n <=> n * e <= m /\ m < (n + 1) * e
    BY <1>3, <2>1, QuotientUnique
  <2>7. n * e <= m /\ m < (n + 1) * e <=> 2 * n * e < 2 * m + 1 /\ 2 * m + 1 < (2 * n + 2) * e
    <3>1. n * e \in Nat /\ (n + 1) * e \in Nat
      BY <1>3, <2>1
    <3>2. 2 * n * e = 2 * (n * e) /\ (2 * n + 2) * e = 2 * ((n + 1) * e)
      BY <1>3, <2>1
    <3> QED
      BY <1>3, <3>1, <3>2
  <2>8. /\ 2 * n * e < 2 * m + 1 <=> (2 * n * e) * u < (2 * m + 1) * u
        /\ 2 * m + 1 < (2 * n + 2) * e <=> (2 * m + 1) * u < ((2 * n + 2) * e) * u
    <3>1. 2 * n * e \in Nat /\ (2 * n + 2) * e \in Nat /\ 2 * m + 1 \in Nat
      BY <1>3, <2>1
    <3> QED
      BY <2>1, <3>1, ProductStrict
  <2>9. (2 * n * e) * u = 2 * n * r /\ ((2 * n + 2) * e) * u = (2 * n + 2) * r
    BY <1>3, <2>1, <2>2
  <2> QED
    BY <2>4, <2>5, <2>6, <2>7, <2>8, <2>9 DEF Near, a, n, r
<1>6. CASE y.level < k
  <2> DEFINE d == k - y.level
  <2>1. d \in Nat /\ d > 0 /\ MaxLevel - y.level = d + (MaxLevel - k) /\ MaxLevel - k \in Nat
    BY <1>1, <1>6
  <2> HIDE DEF d
  <2>2. PICK h \in Nat \ {0} : PathCount(d) = 2 * h
    BY <2>1, PathCounts
  <2>3. PathCount(MaxLevel - y.level) = (2 * h) * r
    BY <2>1, <2>2, PathCounts DEF Radius
  <2>4. CellId(y) = (2 * m + 1) * ((2 * h) * r)
    BY <2>3, IdFacts
  <2> DEFINE t == (2 * m + 1) * h
  <2>5. t \in Nat
    BY <1>3
  <2>6. CellId(y) = (2 * t) * r
    <3> HIDE DEF m, r
    <3> QED
      BY <1>3, <1>4, <2>4
  <2> HIDE DEF t, n, r
  <2>7. ASSUME 2 * n * r < (2 * t) * r, (2 * t) * r < (2 * n + 2) * r PROVE FALSE
    <3>1. 2 * n \in Nat /\ 2 * t \in Nat /\ 2 * n + 2 \in Nat
      BY <1>3, <2>5
    <3>2. 2 * n < 2 * t /\ 2 * t < 2 * n + 2
      BY <1>4, <2>7, <3>1, ProductStrict
    <3> QED
      BY <1>3, <2>5, <3>2
  <2> QED
    BY <1>1, <1>6, <2>6, <2>7 DEF Near, Shares, n, r
<1> QED
  BY <1>1, <1>5, <1>6

-----------------------------------------------------------------------------
(* What the reference finds in one leaf *)

\* Numbers that agree without their n low bits agree without any more.
LEMMA AgreementGrows ==
  ASSUME NEW p \in Nat, NEW q \in Nat, NEW n \in Nat, NEW m \in Nat, n <= m,
         p \div 2 ^ n = q \div 2 ^ n
  PROVE  p \div 2 ^ m = q \div 2 ^ m
<1> DEFINE Power(k) == 2 ^ k
<1>1. m - n \in Nat /\ n + (m - n) = m
  OBVIOUS
<1>2. Power(m) = Power(n) * Power(m - n)
  BY <1>1, PowerSum
<1>3. Power(n) \in Nat \ {0} /\ Power(m - n) \in Nat \ {0}
  BY <1>1, PowerPositive
<1>4. p \div Power(n) = q \div Power(n)
  OBVIOUS
<1> HIDE DEF Power
<1>5. /\ (p \div Power(n)) \div Power(m - n) = p \div Power(m)
      /\ (q \div Power(n)) \div Power(m - n) = q \div Power(m)
  BY <1>2, <1>3, QuotientTwice
<1>6. p \div Power(m) = q \div Power(m)
  BY <1>4, <1>5
<1> QED
  BY <1>6 DEF Power

LEMMA DifferentBitsFound ==
  ASSUME NEW p \in Nat, NEW q \in Nat, NEW most \in 0..(BitsPerLevel * MaxLevel),
         p \div 2 ^ most = q \div 2 ^ most
  PROVE  /\ DifferentBits(p, q) \in 0..most
         /\ \A n \in Nat : p \div 2 ^ n = q \div 2 ^ n <=> DifferentBits(p, q) <= n
<1> DEFINE Agree == {n \in Nat : p \div 2 ^ n = q \div 2 ^ n}
           Found(n) == /\ p \div 2 ^ n = q \div 2 ^ n
                       /\ n > 0 => p \div 2 ^ (n - 1) # q \div 2 ^ (n - 1)
           limit == BitsPerLevel * MaxLevel
<1>1. limit \in Nat /\ most \in Nat
  OBVIOUS
<1>2. PICK least \in Agree : \A n \in Agree : least <= n
  <2>1. Agree \subseteq Nat /\ most \in Agree
    BY <1>1
  <2> HIDE DEF Agree
  <2> QED
    BY <2>1, LeastNatural
<1>3. least \in 0..limit /\ least <= most
  BY <1>1, <1>2
<1>4. Found(least)
  BY <1>2
<1>5. DifferentBits(p, q) = CHOOSE n \in 0..limit : Found(n)
  BY DEF DifferentBits
<1> DEFINE b == DifferentBits(p, q)
<1>6. b \in 0..limit /\ Found(b)
  <2> HIDE DEF Found
  <2> QED
    BY <1>3, <1>4, <1>5
<1> HIDE DEF b
<1>7. least <= b
  BY <1>2, <1>6
<1>8. b <= least
  <2>1. CASE least < b
    <3>1. b - 1 \in Nat /\ least <= b - 1 /\ least \in Nat
      BY <1>6, <1>3, <2>1
    <3>2. p \div 2 ^ (b - 1) = q \div 2 ^ (b - 1)
      BY <1>2, <3>1, AgreementGrows
    <3> QED
      BY <1>6, <2>1, <1>3, <3>2
  <2> QED
    BY <1>3, <1>6, <2>1
<1>9. b = least
  BY <1>3, <1>6, <1>7, <1>8
<1>10. ASSUME NEW n \in Nat PROVE p \div 2 ^ n = q \div 2 ^ n <=> b <= n
  <2>1. b \in Nat /\ p \div 2 ^ b = q \div 2 ^ b
    BY <1>6
  <2>2. b <= n => p \div 2 ^ n = q \div 2 ^ n
    BY <2>1, AgreementGrows
  <2>3. p \div 2 ^ n = q \div 2 ^ n => b <= n
    BY <1>2, <1>9
  <2> QED
    BY <2>2, <2>3
<1> QED
  BY <1>1, <1>3, <1>9, <1>10 DEF b

\* The path of an ancestor is what is left without the low bits.
LEMMA AncestorPath ==
  ASSUME NEW c \in AllCells, NEW m \in 0..c.level, NEW k \in 0..m
  PROVE  /\ AncestorAt(c, m).path \in Nat
         /\ BitsPerLevel * (m - k) \in Nat
         /\ AncestorAt(c, k).path = AncestorAt(c, m).path \div 2 ^ (BitsPerLevel * (m - k))
<1>1. /\ c.level \in Nat /\ m \in Nat /\ k \in Nat /\ k \in 0..c.level
      /\ c.level - m \in Nat /\ m - k \in Nat /\ c.level - k = (c.level - m) + (m - k)
  BY CellFacts
<1>2. /\ AncestorAt(c, m).path = c.path \div PathCount(c.level - m)
      /\ AncestorAt(c, k).path = c.path \div PathCount(c.level - k)
      /\ AncestorAt(c, m).path \in Nat
  BY <1>1, AncestorFacts, CellFacts
<1>3. /\ PathCount(c.level - m) \in Nat \ {0} /\ PathCount(m - k) \in Nat \ {0}
      /\ PathCount(c.level - k) = PathCount(c.level - m) * PathCount(m - k)
  <2>1. PathCount(c.level - m) \in Nat \ {0} /\ PathCount(m - k) \in Nat \ {0}
    BY <1>1, PathCountNat
  <2>2. PathCount((c.level - m) + (m - k)) = PathCount(c.level - m) * PathCount(m - k)
    BY <1>1, PathCounts
  <2> QED
    BY <1>1, <2>1, <2>2
<1>4. (c.path \div PathCount(c.level - m)) \div PathCount(m - k)
        = c.path \div PathCount(c.level - k)
  BY <1>3, CellFacts, QuotientTwice
<1>5. BitsPerLevel * (m - k) \in Nat
  BY <1>1
<1> QED
  BY <1>2, <1>4, <1>5 DEF PathCount

LEMMA AncestorEqual ==
  ASSUME NEW c \in AllCells, NEW y \in AllCells, c.face = y.face,
         NEW k \in 0..c.level, k <= y.level
  PROVE  AncestorAt(y, k) = AncestorAt(c, k)
           <=> AncestorAt(y, k).path = AncestorAt(c, k).path
<1>1. k \in 0..y.level
  BY CellFacts
<1>2. /\ AncestorAt(c, k) = Cell(c.face, k, AncestorAt(c, k).path)
      /\ AncestorAt(y, k) = Cell(y.face, k, AncestorAt(y, k).path)
  BY <1>1, AncestorFacts, CellFacts
<1> QED
  BY <1>2

\* SharedLevel is the deepest level at which the two cells share an ancestor.
LEMMA SharedLevelExact ==
  ASSUME NEW c \in AllCells, NEW y \in AllCells, c.face = y.face
  PROVE  /\ SharedLevel(c, y) \in 0..c.level
         /\ \A k \in 0..c.level : Shares(c, y, k) <=> k <= SharedLevel(c, y)
<1> DEFINE m == IF c.level < y.level THEN c.level ELSE y.level
           p == AncestorAt(c, m).path
           q == AncestorAt(y, m).path
           b == DifferentBits(p, q)
           s == (BitsPerLevel * m - b) \div BitsPerLevel
<1>1. /\ m \in 0..c.level /\ m \in 0..y.level /\ m \in Nat /\ m <= MaxLevel
      /\ \A k \in 0..c.level : k <= y.level => k \in 0..m
      /\ c.level \in Nat /\ y.level \in Nat
  BY CellFacts
<1>2. s = SharedLevel(c, y)
  BY DEF SharedLevel
<1> HIDE DEF m
<1>3. p \in Nat /\ q \in Nat
  BY <1>1, AncestorFacts, CellFacts
<1>4. \A k \in 0..m :
        /\ BitsPerLevel * (m - k) \in Nat
        /\ AncestorAt(c, k).path = p \div 2 ^ (BitsPerLevel * (m - k))
        /\ AncestorAt(y, k).path = q \div 2 ^ (BitsPerLevel * (m - k))
  BY <1>1, AncestorPath
<1> DEFINE most == BitsPerLevel * m
<1>5. most \in 0..(BitsPerLevel * MaxLevel) /\ BitsPerLevel * (m - 0) = most
  <2>1. m * BitsPerLevel <= MaxLevel * BitsPerLevel
    BY <1>1, ProductGrows
  <2> QED
    BY <1>1, <2>1
<1>6. p \div 2 ^ most = q \div 2 ^ most
  <2>1. 0 \in 0..m /\ 0 \in 0..c.level /\ 0 \in 0..y.level
    BY <1>1
  <2>2. AncestorAt(c, 0) \in AllCells /\ AncestorAt(y, 0) \in AllCells
        /\ AncestorAt(c, 0).level = 0 /\ AncestorAt(y, 0).level = 0
    BY <2>1, AncestorFacts
  <2>3. PathCount(0) = 1
    BY PathCounts
  <2>4. AncestorAt(c, 0).path = 0 /\ AncestorAt(y, 0).path = 0
    BY <2>2, <2>3, CellFacts
  <2> QED
    BY <1>4, <1>5, <2>1, <2>4
<1> HIDE DEF p, q, most
<1>7. /\ b \in 0..most
      /\ \A n \in Nat : p \div 2 ^ n = q \div 2 ^ n <=> b <= n
  BY <1>3, <1>5, <1>6, DifferentBitsFound
<1> HIDE DEF b
<1>8. /\ most \in Nat /\ most - b \in Nat /\ b \in Nat
      /\ most = m * BitsPerLevel
  BY <1>1, <1>5, <1>7 DEF most
<1>9. s = (most - b) \div BitsPerLevel
  BY DEF most
<1> HIDE DEF s
<1>10. s \in Nat /\ s * BitsPerLevel <= most - b /\ most - b < (s + 1) * BitsPerLevel
  BY <1>8, <1>9, Quotient
<1>11. s <= m
  <2>1. s * BitsPerLevel <= m * BitsPerLevel
    <3>1. s * BitsPerLevel \in Nat
      BY <1>10
    <3> QED
      BY <1>8, <1>10, <3>1
  <2>2. ~(m * BitsPerLevel < s * BitsPerLevel)
    BY <1>1, <1>8, <1>10, <2>1
  <2>3. ~(m < s)
    BY <1>1, <1>10, <2>2, ProductStrict
  <2> QED
    BY <1>1, <1>10, <2>3
<1>12. ASSUME NEW k \in 0..m PROVE b <= BitsPerLevel * (m - k) <=> k <= s
  <2>1. k \in Nat /\ k * BitsPerLevel \in Nat
        /\ BitsPerLevel * (m - k) = most - k * BitsPerLevel
    BY <1>1, <1>8
  <2>2. b <= BitsPerLevel * (m - k) <=> k * BitsPerLevel <= most - b
    BY <1>8, <2>1
  <2>3. CASE k <= s
    <3>1. k * BitsPerLevel <= s * BitsPerLevel /\ s * BitsPerLevel \in Nat
      BY <1>10, <2>1, <2>3, ProductGrows
    <3> QED
      BY <1>8, <1>10, <2>1, <2>2, <2>3, <3>1
  <2>4. CASE s + 1 <= k
    <3>1. (s + 1) * BitsPerLevel <= k * BitsPerLevel /\ (s + 1) * BitsPerLevel \in Nat
      BY <1>10, <2>1, <2>4, ProductGrows
    <3> QED
      BY <1>8, <1>10, <2>1, <2>2, <2>4, <3>1
  <2> QED
    BY <1>10, <2>1, <2>3, <2>4
<1>13. ASSUME NEW k \in 0..c.level PROVE Shares(c, y, k) <=> k <= s
  <2>1. CASE k <= y.level
    <3>1. k \in 0..m
      BY <1>1, <2>1
    <3>2. Shares(c, y, k) <=> AncestorAt(y, k).path = AncestorAt(c, k).path
      BY <2>1, AncestorEqual DEF Shares
    <3>3. AncestorAt(y, k).path = AncestorAt(c, k).path <=> b <= BitsPerLevel * (m - k)
      BY <1>4, <1>7, <3>1
    <3> QED
      BY <1>12, <3>1, <3>2, <3>3
  <2>2. CASE y.level < k
    BY <1>1, <1>10, <1>11, <2>2 DEF Shares
  <2> QED
    BY <1>1, <2>1, <2>2
<1> QED
  BY <1>1, <1>2, <1>10, <1>11, <1>13

-----------------------------------------------------------------------------
(* The two neighbours of a cell *)

\* The leaves of a face in order, cut where a cell belongs.
Cut(L, c, i) ==
  /\ i \in 0..Len(L)
  /\ \A j \in 1..i : CellId(L[j]) < CellId(c)
  /\ \A j \in (i + 1)..Len(L) : CellId(c) <= CellId(L[j])

Ascending(L) == \A i, j \in 1..Len(L) : i < j => CellId(L[i]) < CellId(L[j])

LEMMA NearItself ==
  ASSUME NEW c \in AllCells, NEW k \in 0..c.level
  PROVE  Near(c, c, k)
BY SubtreeInterval, CellFacts DEF Shares

\* A leaf that shares an ancestor does so no closer than a neighbour.
LEMMA NeighbourShares ==
  ASSUME NEW L \in Seq(AllCells), Ascending(L),
         NEW c \in AllCells, NEW i, Cut(L, c, i),
         NEW k \in 0..c.level, NEW x \in 1..Len(L), Shares(c, L[x], k)
  PROVE  \/ i > 0 /\ Shares(c, L[i], k)
         \/ i < Len(L) /\ Shares(c, L[i + 1], k)
<1>1. \A j \in 1..Len(L) : L[j] \in AllCells /\ CellId(L[j]) \in Nat
  BY IdFacts
<1>2. Near(c, L[x], k) /\ Near(c, c, k)
  BY <1>1, SubtreeInterval, NearItself
<1>3. Len(L) \in Nat /\ i \in 0..Len(L) /\ CellId(c) \in Nat
  BY IdFacts DEF Cut
<1> DEFINE n == Node(AncestorAt(c, k))
           low == 2 * n * Radius(k)
           high == (2 * n + 2) * Radius(k)
<1>4. low \in Int /\ high \in Int
  <2>1. n \in Nat
    BY AncestorFacts, NodeFacts
  <2>2. MaxLevel - k \in Nat
    BY CellFacts
  <2>3. Radius(k) \in Nat
    BY <2>2, PathCountNat DEF Radius
  <2> QED
    BY <2>1, <2>3
<1>5. \A y : Near(c, y, k) <=> low < CellId(y) /\ CellId(y) < high
  BY DEF Near
<1> HIDE DEF low, high
<1>6. CASE x <= i
  <2>1. i \in 1..Len(L) /\ CellId(L[x]) <= CellId(L[i]) /\ CellId(L[i]) < CellId(c)
    BY <1>1, <1>3, <1>6 DEF Ascending, Cut
  <2>2. Near(c, L[i], k)
    BY <1>1, <1>2, <1>3, <1>4, <1>5, <2>1
  <2> QED
    BY <1>1, <2>1, <2>2, SubtreeInterval
<1>7. CASE i < x
  <2>1. i + 1 \in 1..Len(L) /\ CellId(L[i + 1]) <= CellId(L[x]) /\ CellId(c) <= CellId(L[i + 1])
    BY <1>1, <1>3, <1>7 DEF Ascending, Cut
  <2>2. Near(c, L[i + 1], k)
    BY <1>1, <1>2, <1>3, <1>4, <1>5, <2>1
  <2> QED
    BY <1>1, <1>3, <2>1, <2>2, SubtreeInterval
<1> QED
  BY <1>3, <1>6, <1>7

\* The reference answers with the deepest ancestor that any leaf of the face shares.
LEMMA ReferenceDeepest ==
  ASSUME NEW L \in Seq(AllCells), L # <<>>, Ascending(L),
         NEW c \in AllCells, \A j \in 1..Len(L) : L[j].face = c.face,
         NEW i, Cut(L, c, i)
  PROVE  \E d \in 0..c.level :
           /\ ReferenceQuery(c, L, i) = AncestorAt(c, d)
           /\ \E x \in 1..Len(L) : Shares(c, L[x], d)
           /\ \A k \in 0..c.level :
                (\E x \in 1..Len(L) : Shares(c, L[x], k)) => k <= d
<1> DEFINE b == IF i > 0 THEN SharedLevel(c, L[i]) ELSE -1
           a == IF i < Len(L) THEN SharedLevel(c, L[i + 1]) ELSE -1
           d == IF a > b THEN a ELSE b
<1>1. Len(L) \in Nat /\ Len(L) > 0 /\ i \in 0..Len(L)
  BY DEF Cut
<1>2. \A j \in 1..Len(L) :
        /\ L[j] \in AllCells
        /\ SharedLevel(c, L[j]) \in 0..c.level
        /\ \A k \in 0..c.level : Shares(c, L[j], k) <=> k <= SharedLevel(c, L[j])
  BY SharedLevelExact
<1>3. /\ i > 0 => i \in 1..Len(L)
      /\ i < Len(L) => i + 1 \in 1..Len(L)
      /\ c.level \in Nat
  BY <1>1, CellFacts
<1>4. ReferenceQuery(c, L, i) = AncestorAt(c, d)
  BY DEF ReferenceQuery
<1>5. d \in 0..c.level /\ a \in Int /\ b \in Int /\ a <= d /\ b <= d
  BY <1>1, <1>2, <1>3
<1>6. \E x \in 1..Len(L) : Shares(c, L[x], d)
  <2>1. CASE d = b /\ i > 0
    BY <1>2, <1>3, <1>5, <2>1
  <2>2. CASE d = a /\ i < Len(L)
    BY <1>2, <1>3, <1>5, <2>2
  <2> QED
    BY <1>1, <1>5, <2>1, <2>2
<1>7. ASSUME NEW k \in 0..c.level, NEW x \in 1..Len(L), Shares(c, L[x], k)
      PROVE  k <= d
  <2>1. \/ i > 0 /\ Shares(c, L[i], k)
        \/ i < Len(L) /\ Shares(c, L[i + 1], k)
    BY <1>7, NeighbourShares
  <2>2. CASE i > 0 /\ Shares(c, L[i], k)
    <3>1. k <= b
      BY <1>2, <1>3, <2>2
    <3> QED
      BY <1>5, <3>1
  <2>3. CASE i < Len(L) /\ Shares(c, L[i + 1], k)
    <3>1. k <= a
      BY <1>2, <1>3, <2>3
    <3> QED
      BY <1>5, <3>1
  <2> QED
    BY <2>1, <2>2, <2>3
<1> QED
  BY <1>4, <1>5, <1>6, <1>7

-----------------------------------------------------------------------------
(* Cells and their paths *)

Digit(c, i) == AncestorAt(c, i).path % 2 ^ BitsPerLevel

LEMMA PathFacts ==
  ASSUME NEW c \in AllCells
  PROVE  /\ Len(PathOf(c)) = c.level + 1
         /\ PathOf(c) = [i \in 1..(c.level + 1) |->
                           IF i = 1 THEN c.face ELSE Digit(c, i - 1)]
<1>1. c.level \in Nat
  BY CellFacts
<1> DEFINE s == <<c.face>>
           t == [i \in 1..c.level |-> Digit(c, i)]
<1>2. s \o t = [i \in 1..(Len(s) + Len(t)) |-> IF i <= Len(s) THEN s[i] ELSE t[i - Len(s)]]
  BY <1>1
<1>3. Len(s) = 1 /\ Len(t) = c.level /\ s[1] = c.face
  BY <1>1
<1>4. PathOf(c) = s \o t
  BY DEF PathOf, Digit
<1>5. PathOf(c) = [i \in 1..(c.level + 1) |->
                     IF i = 1 THEN c.face ELSE Digit(c, i - 1)]
  <2>1. Len(s) + Len(t) = c.level + 1
    BY <1>1, <1>3
  <2>2. ASSUME NEW i \in 1..(c.level + 1)
        PROVE  (IF i <= Len(s) THEN s[i] ELSE t[i - Len(s)])
                 = IF i = 1 THEN c.face ELSE Digit(c, i - 1)
    <3>1. i # 1 => i - 1 \in 1..c.level
      BY <1>1
    <3> QED
      BY <1>1, <1>3, <3>1
  <2> HIDE DEF s, t
  <2>3. s \o t = [i \in 1..(c.level + 1) |->
                     IF i <= Len(s) THEN s[i] ELSE t[i - Len(s)]]
    BY <1>2, <2>1
  <2> QED
    BY <1>4, <2>2, <2>3
<1>6. Len(PathOf(c)) = c.level + 1
  BY <1>1, <1>5
<1> QED
  BY <1>5, <1>6

LEMMA AncestorTwice ==
  ASSUME NEW c \in AllCells, NEW k \in 0..c.level, NEW i \in 0..k
  PROVE  AncestorAt(AncestorAt(c, k), i) = AncestorAt(c, i)
<1> DEFINE a == AncestorAt(c, k)
<1>1. c.level \in Nat /\ k \in Nat /\ i \in 0..c.level /\ k \in 0..k
  BY CellFacts
<1>2. a \in AllCells /\ a.level = k /\ a.face = c.face
  BY AncestorFacts
<1>3. i \in 0..a.level
  BY <1>2
<1>4. AncestorAt(a, i).path = a.path \div 2 ^ (BitsPerLevel * (k - i))
  <2>1. AncestorAt(a, i).path = a.path \div PathCount(a.level - i)
    BY <1>2, <1>3, AncestorFacts
  <2> QED
    BY <1>2, <2>1 DEF PathCount
<1>5. AncestorAt(c, i).path = a.path \div 2 ^ (BitsPerLevel * (k - i))
  BY AncestorPath
<1>6. /\ AncestorAt(a, i) = Cell(a.face, i, AncestorAt(a, i).path)
      /\ AncestorAt(c, i) = Cell(c.face, i, AncestorAt(c, i).path)
  <2>1. AncestorAt(a, i) \in AllCells /\ AncestorAt(a, i).face = a.face /\ AncestorAt(a, i).level = i
    BY <1>2, <1>3, AncestorFacts
  <2>2. AncestorAt(c, i) \in AllCells /\ AncestorAt(c, i).face = c.face /\ AncestorAt(c, i).level = i
    BY <1>1, AncestorFacts
  <2> QED
    BY <2>1, <2>2, CellFacts
<1> QED
  BY <1>2, <1>4, <1>5, <1>6

LEMMA PathPrefix ==
  ASSUME NEW c \in AllCells, NEW k \in 0..c.level
  PROVE  SubSeq(PathOf(c), 1, k + 1) = PathOf(AncestorAt(c, k))
<1> DEFINE a == AncestorAt(c, k)
<1>1. c.level \in Nat /\ k \in Nat
  BY CellFacts
<1>2. a \in AllCells /\ a.level = k /\ a.face = c.face
  BY AncestorFacts
<1>3. PathOf(a) = [i \in 1..(k + 1) |-> IF i = 1 THEN a.face ELSE Digit(a, i - 1)]
  BY <1>2, PathFacts
<1>4. \A i \in 1..(k + 1) : i # 1 => Digit(a, i - 1) = Digit(c, i - 1)
  BY <1>1, AncestorTwice DEF Digit
<1>5. SubSeq(PathOf(c), 1, k + 1) = [i \in 1..(k + 1) |-> PathOf(c)[i]]
  BY <1>1, PathFacts
<1>6. \A i \in 1..(k + 1) : PathOf(c)[i] = IF i = 1 THEN c.face ELSE Digit(c, i - 1)
  BY <1>1, PathFacts
<1> HIDE DEF a
<1>7. [i \in 1..(k + 1) |-> IF i = 1 THEN a.face ELSE Digit(a, i - 1)]
        = [i \in 1..(k + 1) |-> PathOf(c)[i]]
  BY <1>2, <1>4, <1>6
<1> QED
  BY <1>3, <1>5, <1>7 DEF a

\* Digits are what a path holds, so that cells with the same path are the same.
LEMMA PathInjective ==
  ASSUME NEW a \in AllCells, NEW b \in AllCells, PathOf(a) = PathOf(b)
  PROVE  a = b
<1> DEFINE Wrong == {k \in Nat : k <= a.level /\ AncestorAt(a, k).path # AncestorAt(b, k).path}
<1>1. a.level \in Nat /\ b.level \in Nat /\ a.level = b.level
  BY PathFacts, CellFacts
<1>2. a.face = b.face
  <2>1. PathOf(a)[1] = a.face /\ PathOf(b)[1] = b.face
    BY <1>1, PathFacts
  <2> QED
    BY <2>1
<1>3. \A k \in 1..a.level : Digit(a, k) = Digit(b, k)
  <2> TAKE k \in 1..a.level
  <2>1. k + 1 \in 1..(a.level + 1) /\ k + 1 # 1 /\ (k + 1) - 1 = k
    BY <1>1
  <2>2. PathOf(a)[k + 1] = Digit(a, k) /\ PathOf(b)[k + 1] = Digit(b, k)
    BY <1>1, <2>1, PathFacts
  <2> QED
    BY <2>2
<1>4. AncestorAt(a, a.level).path = a.path /\ AncestorAt(b, b.level).path = b.path
  <2>1. ASSUME NEW c \in AllCells PROVE AncestorAt(c, c.level).path = c.path
    <3>1. c.level \in 0..c.level /\ c.level - c.level = 0 /\ c.path \in Nat
      BY CellFacts
    <3>2. AncestorAt(c, c.level).path = c.path \div PathCount(0)
      BY <3>1, AncestorFacts
    <3>3. PathCount(0) = 1
      BY PathCounts
    <3> QED
      BY <3>1, <3>2, <3>3
  <2> QED
    BY <2>1
<1>5. ASSUME Wrong # {} PROVE FALSE
  <2>1. PICK k \in Wrong : \A y \in Wrong : k <= y
    <3> HIDE DEF Wrong
    <3>1. Wrong \subseteq Nat
      BY DEF Wrong
    <3> QED
      BY <1>5, <3>1, LeastNatural
  <2>2. k \in Nat /\ k <= a.level /\ k \in 0..a.level /\ k \in 0..b.level
    BY <1>1, <2>1
  <2>3. k # 0
    <3>1. ASSUME NEW c \in AllCells PROVE AncestorAt(c, 0).path = 0
      <4>1. 0 \in 0..c.level
        BY CellFacts
      <4>2. AncestorAt(c, 0) \in AllCells /\ AncestorAt(c, 0).level = 0
        BY <4>1, AncestorFacts
      <4>3. AncestorAt(c, 0).path \in Nat /\ AncestorAt(c, 0).path < PathCount(0)
        BY <4>2, CellFacts
      <4>4. PathCount(0) = 1
        BY PathCounts
      <4> QED
        BY <4>3, <4>4
    <3> QED
      BY <2>1, <3>1
  <2>4. AncestorAt(a, k - 1).path = AncestorAt(b, k - 1).path /\ k \in 1..a.level
    <3>1. k - 1 \in Nat /\ k - 1 <= a.level /\ ~(k <= k - 1) /\ k \in 1..a.level
      BY <1>1, <2>2, <2>3
    <3> QED
      BY <2>1, <3>1
  <2>5. ASSUME NEW c \in AllCells, k \in 0..c.level
        PROVE  AncestorAt(c, k).path
                 = AncestorAt(c, k - 1).path * 2 ^ BitsPerLevel + Digit(c, k)
    <3>1. k - 1 \in 0..k /\ BitsPerLevel * (k - (k - 1)) = BitsPerLevel
      BY <2>2, <2>3
    <3>2. AncestorAt(c, k - 1).path = AncestorAt(c, k).path \div 2 ^ BitsPerLevel
          /\ AncestorAt(c, k).path \in Nat
      BY <2>5, <3>1, AncestorPath
    <3> DEFINE p == AncestorAt(c, k).path
               w == 2 ^ BitsPerLevel
    <3>3. w \in Nat \ {0}
      BY PowerPositive
    <3> HIDE DEF p, w
    <3>4. p = (p \div w) * w + (p % w)
      BY <3>2, <3>3, Remainder DEF p
    <3> QED
      BY <3>2, <3>4 DEF p, w, Digit
  <2> QED
    BY <1>1, <1>3, <2>1, <2>2, <2>4, <2>5
<1>6. AncestorAt(a, a.level).path = AncestorAt(b, a.level).path
  BY <1>1, <1>5
<1> QED
  BY <1>1, <1>2, <1>4, <1>6, CellFacts

\* Ancestors of paths are ancestors of cells.
LEMMA SharesPath ==
  ASSUME NEW c \in AllCells, NEW y \in AllCells, NEW k \in 0..c.level
  PROVE  IsAncestor(SubSeq(PathOf(c), 1, k + 1), PathOf(y)) <=> Shares(c, y, k)
<1>1. c.level \in Nat /\ k \in Nat /\ y.level \in Nat
  BY CellFacts
<1>2. AncestorAt(c, k) \in AllCells /\ AncestorAt(c, k).level = k
  BY AncestorFacts
<1>3. Len(PathOf(AncestorAt(c, k))) = k + 1 /\ Len(PathOf(y)) = y.level + 1
  BY <1>2, PathFacts
<1>4. IsAncestor(PathOf(AncestorAt(c, k)), PathOf(y))
        <=> k <= y.level /\ SubSeq(PathOf(y), 1, k + 1) = PathOf(AncestorAt(c, k))
  BY <1>1, <1>3 DEF IsAncestor
<1>5. ASSUME k <= y.level
      PROVE  SubSeq(PathOf(y), 1, k + 1) = PathOf(AncestorAt(c, k))
               <=> AncestorAt(y, k) = AncestorAt(c, k)
  <2>1. k \in 0..y.level
    BY <1>1, <1>5
  <2>2. AncestorAt(y, k) \in AllCells
    BY <2>1, AncestorFacts
  <2> QED
    BY <1>2, <2>1, <2>2, PathPrefix, PathInjective
<1> QED
  BY <1>4, <1>5, PathPrefix DEF Shares

-----------------------------------------------------------------------------
(* The answer of the reference is the right one *)

LEMMA RightIsDeepest ==
  ASSUME NEW L \in Seq(AllCells), NEW c \in AllCells, NEW d \in 0..c.level,
         \E x \in 1..Len(L) : Shares(c, L[x], d),
         \A k \in 0..c.level : (\E x \in 1..Len(L) : Shares(c, L[x], k)) => k <= d
  PROVE  RightAnswer(L, c) = PathOf(AncestorAt(c, d))
<1> DEFINE p == PathOf(c)
           T == {PathOf(L[i]) : i \in DOMAIN L}
           S == {SubSeq(p, 1, k) : k \in 1..Len(p)}
           Good(a) == /\ InTree(T, a)
                      /\ \A k \in 1..Len(p) : InTree(T, SubSeq(p, 1, k)) => k <= Len(a)
<1>1. c.level \in Nat /\ d \in Nat /\ Len(p) = c.level + 1
  BY PathFacts, CellFacts
<1>2. DOMAIN L = 1..Len(L) /\ \A x \in 1..Len(L) : L[x] \in AllCells
  OBVIOUS
<1>3. ASSUME NEW k \in 1..Len(p)
      PROVE  /\ k - 1 \in 0..c.level /\ k = (k - 1) + 1
             /\ Len(SubSeq(p, 1, k)) = k
             /\ InTree(T, SubSeq(p, 1, k)) <=> \E x \in 1..Len(L) : Shares(c, L[x], k - 1)
  <2>1. k - 1 \in 0..c.level /\ k = (k - 1) + 1
    BY <1>1
  <2>2. \A x \in 1..Len(L) :
          IsAncestor(SubSeq(p, 1, k), PathOf(L[x])) <=> Shares(c, L[x], k - 1)
    BY <1>2, <2>1, SharesPath
  <2>3. InTree(T, SubSeq(p, 1, k))
          <=> \E x \in 1..Len(L) : IsAncestor(SubSeq(p, 1, k), PathOf(L[x]))
    BY <1>2 DEF InTree
  <2>4. Len(SubSeq(p, 1, k)) = k
    <3>1. /\ AncestorAt(c, k - 1) \in AllCells /\ AncestorAt(c, k - 1).level = k - 1
          /\ SubSeq(p, 1, k) = PathOf(AncestorAt(c, k - 1))
      BY <2>1, AncestorFacts, PathPrefix
    <3> QED
      BY <2>1, <3>1, PathFacts
  <2> QED
    BY <2>1, <2>2, <2>3, <2>4
<1> DEFINE best == SubSeq(p, 1, d + 1)
<1>4. d + 1 \in 1..Len(p) /\ (d + 1) - 1 = d
  BY <1>1
<1>5. best \in S /\ Good(best)
  <2>1. InTree(T, best) /\ Len(best) = d + 1
    BY <1>3, <1>4
  <2>2. ASSUME NEW k \in 1..Len(p), InTree(T, SubSeq(p, 1, k)) PROVE k <= d + 1
    BY <1>1, <1>3, <2>2
  <2> QED
    BY <1>4, <2>1, <2>2
<1>6. ASSUME NEW a \in S, Good(a) PROVE a = best
  <2>1. PICK k \in 1..Len(p) : a = SubSeq(p, 1, k)
    OBVIOUS
  <2>2. Len(a) = k /\ k \in Nat /\ k - 1 \in 0..c.level
    BY <1>1, <1>3, <2>1
  <2>3. k - 1 <= d
    BY <1>3, <1>6, <2>1, <2>2
  <2>4. d + 1 <= k
    BY <1>4, <1>5, <1>6, <2>2
  <2>5. k = d + 1
    BY <1>1, <2>2, <2>3, <2>4
  <2> QED
    BY <2>1, <2>5
<1>7. DeepestAncestor(T, p) = CHOOSE a \in S : Good(a)
  BY DEF DeepestAncestor
<1> HIDE DEF Good, S, best
<1>8. DeepestAncestor(T, p) = best
  BY <1>5, <1>6, <1>7
<1> QED
  BY <1>8, PathPrefix DEF RightAnswer, best

-----------------------------------------------------------------------------
(* The sorted leaves of a face *)

\* Neighbours in order are all in order.
LEMMA AcceptedAscend ==
  ASSUME NEW L \in Seq(AllCells), OracleAccepts(L)
  PROVE  Ascending(L)
<1> DEFINE n == Len(L)
           id(j) == CellId(L[j])
<1>1. n \in Nat /\ \A j \in 1..n : id(j) \in Nat
  BY IdFacts
<1>2. \A j \in 2..n : id(j - 1) < id(j)
  BY DEF OracleAccepts
<1> HIDE DEF n, id
<1>3. ASSUME NEW i \in 1..n, NEW j \in 1..n, i < j, ~(id(i) < id(j))
      PROVE  FALSE
  <2> DEFINE Wrong == {k \in Nat : k \in 1..n /\ i < k /\ ~(id(i) < id(k))}
  <2>1. PICK k \in Wrong : \A y \in Wrong : k <= y
    <3>1. Wrong \subseteq Nat /\ j \in Wrong
      BY <1>3
    <3> HIDE DEF Wrong
    <3> QED
      BY <3>1, LeastNatural
  <2>2. k \in 2..n /\ k - 1 \in 1..n /\ id(k - 1) < id(k)
    BY <1>1, <1>2, <2>1
  <2>3. i # k - 1
    BY <2>1, <2>2
  <2>4. i < k - 1 /\ ~(k <= k - 1)
    BY <1>1, <2>1, <2>2, <2>3
  <2>5. id(i) < id(k - 1)
    BY <2>1, <2>2, <2>4
  <2>6. id(i) < id(k)
    <3>1. id(i) \in Nat /\ id(k - 1) \in Nat /\ id(k) \in Nat
      BY <1>1, <2>1, <2>2
    <3> QED
      BY <2>2, <2>5, <3>1
  <2> QED
    BY <2>1, <2>6
<1> QED
  BY <1>3 DEF Ascending, n, id

\* Sorted by identifier is sorted by face.
LEMMA FaceOrder ==
  ASSUME NEW a \in AllCells, NEW b \in AllCells, CellId(a) < CellId(b)
  PROVE  a.face <= b.face
<1> DEFINE r == Radius(0)
<1>1. r \in Nat
  BY PathCountNat DEF Radius
<1>2. ASSUME NEW c \in AllCells
      PROVE  /\ CellId(c) \in Nat /\ c.face \in Nat
             /\ 2 * c.face * r < CellId(c) /\ CellId(c) < (2 * c.face + 2) * r
  <2>1. 0 \in 0..c.level /\ c.face \in Nat
    BY CellFacts
  <2> DEFINE t == AncestorAt(c, 0)
  <2>2. t \in AllCells /\ t.level = 0 /\ t.face = c.face
    BY <2>1, AncestorFacts
  <2>3. PathCount(0) = 1
    BY PathCounts
  <2>4. t.path = 0
    BY <2>2, <2>3, CellFacts
  <2>5. Node(t) = c.face
    BY <2>1, <2>2, <2>3, <2>4 DEF Node
  <2> QED
    BY <2>1, <2>5, NearItself, IdFacts DEF Near
<1> HIDE DEF r
<1>3. ASSUME b.face + 1 <= a.face PROVE FALSE
  <2>1. /\ CellId(a) \in Nat /\ a.face \in Nat /\ 2 * a.face * r < CellId(a)
        /\ CellId(b) \in Nat /\ b.face \in Nat /\ CellId(b) < (2 * b.face + 2) * r
    BY <1>2
  <2>2. (2 * b.face + 2) * r <= (2 * a.face) * r
    BY <1>1, <1>3, <2>1, ProductGrows
  <2>3. (2 * b.face + 2) * r \in Nat /\ (2 * a.face) * r \in Nat
    BY <1>1, <2>1
  <2> QED
    BY <2>1, <2>2, <2>3
<1> QED
  BY <1>2, <1>3

\* The leaves of earlier faces lead, and FaceOffset counts them.
LEMMA OffsetCuts ==
  ASSUME NEW L \in Seq(AllCells), OracleAccepts(L), NEW f \in Nat
  PROVE  /\ FaceOffset(L, f) \in 0..Len(L)
         /\ \A i \in 1..Len(L) : L[i].face < f <=> i <= FaceOffset(L, f)
<1> DEFINE n == Len(L)
           T == {i \in DOMAIN L : L[i].face < f}
           Out == {k \in Nat : k <= n /\ k + 1 \notin T}
<1>1. n \in Nat /\ DOMAIN L = 1..n /\ T \subseteq 1..n
  OBVIOUS
<1>2. ASSUME NEW i \in T, NEW j \in 1..n, j < i PROVE j \in T
  <2>1. i \in 1..n /\ L[i] \in AllCells /\ L[j] \in AllCells /\ L[i].face < f
    BY <1>1
  <2>2. CellId(L[j]) < CellId(L[i])
    BY <1>2, <2>1, AcceptedAscend DEF Ascending
  <2>3. L[j].face <= L[i].face
    BY <2>1, <2>2, FaceOrder
  <2> QED
    BY <1>1, <2>1, <2>3, CellFacts
<1>3. PICK m \in Out : \A y \in Out : m <= y
  <2>1. Out \subseteq Nat /\ n \in Out
    BY <1>1
  <2> HIDE DEF Out
  <2> QED
    BY <2>1, LeastNatural
<1>4. m \in Nat /\ m <= n /\ m + 1 \notin T
  BY <1>3
<1>5. \A i \in 1..m : i \in T
  <2> SUFFICES ASSUME NEW i \in 1..m, i \notin T PROVE FALSE
    OBVIOUS
  <2>1. i - 1 \in Nat /\ i - 1 <= n /\ (i - 1) + 1 = i /\ ~(m <= i - 1)
    BY <1>1, <1>4
  <2>2. i - 1 \in Out
    BY <2>1
  <2> QED
    BY <1>3, <2>1, <2>2
<1>6. \A i \in T : i \in 1..m
  <2> SUFFICES ASSUME NEW i \in T, m < i PROVE FALSE
    BY <1>1, <1>4
  <2>1. i \in 1..n /\ (m + 1 < i \/ m + 1 = i) /\ m + 1 \in 1..n
    BY <1>1, <1>4
  <2> HIDE DEF T
  <2> QED
    BY <1>2, <1>4, <2>1
<1>7. T = 1..m
  BY <1>5, <1>6
<1>8. FaceOffset(L, f) = m
  <2>1. Cardinality(1..m) = m
    BY <1>4, FS_Interval
  <2> QED
    BY <1>7, <2>1 DEF FaceOffset
<1>9. \A i \in 1..n : L[i].face < f <=> i \in T
  BY <1>1
<1> HIDE DEF T
<1>10. \A i \in 1..n : i \in T <=> i <= m
  BY <1>4, <1>7
<1> QED
  BY <1>1, <1>4, <1>8, <1>9, <1>10

\* A face has leaves, in order, and they are those of the database in the face.
LEMMA FaceLeavesFacts ==
  ASSUME NEW L \in Seq(AllCells), OracleAccepts(L), NEW f \in Faces
  PROVE  LET F == FaceLeaves(L)[f]
         IN  /\ F \in Seq(AllCells) /\ F # <<>> /\ Ascending(F)
             /\ \A j \in 1..Len(F) : F[j].face = f /\ \E i \in 1..Len(L) : F[j] = L[i]
             /\ \A i \in 1..Len(L) : L[i].face = f => \E j \in 1..Len(F) : F[j] = L[i]
<1> DEFINE a == FaceOffset(L, f)
           b == FaceOffset(L, f + 1)
           F == SubSeq(L, a + 1, b)
           n == Len(L)
<1>1. f \in Nat /\ n \in Nat /\ DOMAIN L = 1..n
      /\ \A i \in 1..n : L[i] \in AllCells /\ L[i].face \in Nat
  BY CellFacts DEF Faces
<1>2. /\ a \in 0..n /\ \A i \in 1..n : L[i].face < f <=> i <= a
      /\ b \in 0..n /\ \A i \in 1..n : L[i].face < f + 1 <=> i <= b
  <2>1. /\ a \in 0..n
        /\ \A i \in 1..n : L[i].face < f <=> i <= a
    BY <1>1, OffsetCuts
  <2>2. f + 1 \in Nat
    BY <1>1
  <2>3. /\ b \in 0..n
        /\ \A i \in 1..n : L[i].face < f + 1 <=> i <= b
    BY <2>2, OffsetCuts
  <2> QED
    BY <2>1, <2>3
<1>3. FaceLeaves(L)[f] = F
  BY DEF FaceLeaves
<1> HIDE DEF a, b
<1>4. PICK x \in 1..n : L[x].face = f
  <2>1. f \in {L[i].face : i \in DOMAIN L}
    BY DEF OracleAccepts
  <2> QED
    BY <1>1, <2>1
<1>5. a < x /\ x <= b
  BY <1>1, <1>2, <1>4
<1>6. /\ a \in Nat /\ b \in Nat /\ a < b /\ b <= n
      /\ F \in Seq(AllCells) /\ Len(F) = b - a
      /\ \A j \in 1..(b - a) : F[j] = L[a + j]
  <2>1. a \in Nat /\ b \in Nat /\ a < b /\ b <= n
    BY <1>1, <1>2, <1>4, <1>5
  <2>2. Len(F) = b - a /\ F = [j \in 1..(b - a) |-> L[a + j]]
    <3>1. F = [j \in 1..(b - (a + 1) + 1) |-> L[(a + 1) + j - 1]]
      BY <1>1, <2>1
    <3>2. b - (a + 1) + 1 = b - a /\ \A j \in 1..(b - a) : (a + 1) + j - 1 = a + j
      BY <2>1
    <3>3. F = [j \in 1..(b - a) |-> L[a + j]]
      BY <3>1, <3>2
    <3> HIDE DEF F
    <3> QED
      BY <2>1, <3>3
  <2>3. \A j \in 1..(b - a) : a + j \in 1..n
    BY <1>1, <2>1
  <2> HIDE DEF F
  <2>4. F \in Seq(AllCells)
    <3>1. F \in [1..(b - a) -> AllCells]
      BY <1>1, <2>2, <2>3
    <3> QED
      BY <2>1, <3>1
  <2> QED
    BY <2>1, <2>2, <2>4
<1> HIDE DEF F
<1>7. F # <<>>
  <2>1. Len(F) # 0
    BY <1>6
  <2> QED
    BY <2>1
<1>8. ASSUME NEW j \in 1..Len(F)
      PROVE  a + j \in 1..n /\ F[j] = L[a + j] /\ F[j].face = f
  <2>1. a + j \in 1..n /\ F[j] = L[a + j] /\ a + j <= b /\ ~(a + j <= a)
    BY <1>1, <1>6
  <2>2. L[a + j].face < f + 1 /\ ~(L[a + j].face < f)
    BY <1>2, <2>1
  <2> QED
    BY <1>1, <2>1, <2>2
<1>9. Ascending(F)
  <2>1. Ascending(L)
    BY AcceptedAscend
  <2> SUFFICES ASSUME NEW i \in 1..Len(F), NEW j \in 1..Len(F), i < j
               PROVE  CellId(F[i]) < CellId(F[j])
    BY DEF Ascending
  <2>2. a + i \in 1..n /\ a + j \in 1..n /\ a + i < a + j
    BY <1>6, <1>8
  <2> QED
    BY <1>8, <2>1, <2>2 DEF Ascending
<1>10. ASSUME NEW i \in 1..n, L[i].face = f PROVE \E j \in 1..Len(F) : F[j] = L[i]
  <2>1. ~(L[i].face < f) /\ L[i].face < f + 1
    BY <1>1, <1>10
  <2>2. a < i /\ i <= b
    BY <1>2, <1>6, <2>1
  <2>3. i - a \in 1..Len(F) /\ a + (i - a) = i
    BY <1>6, <2>2
  <2> QED
    BY <1>8, <2>3
<1> QED
  BY <1>3, <1>6, <1>7, <1>8, <1>9, <1>10

\* What the two neighbours of a cell among the leaves of its face say is right.
LEMMA ReferenceRight ==
  ASSUME NEW L \in Seq(AllCells), OracleAccepts(L), NEW c \in AllCells,
         NEW i, Cut(FaceLeaves(L)[c.face], c, i)
  PROVE  PathOf(ReferenceQuery(c, FaceLeaves(L)[c.face], i)) = RightAnswer(L, c)
<1> DEFINE F == FaceLeaves(L)[c.face]
<1>1. c.face \in Faces
  BY CellFacts
<1>2. /\ F \in Seq(AllCells) /\ F # <<>> /\ Ascending(F)
      /\ \A j \in 1..Len(F) : F[j].face = c.face /\ \E x \in 1..Len(L) : F[j] = L[x]
      /\ \A x \in 1..Len(L) : L[x].face = c.face => \E j \in 1..Len(F) : F[j] = L[x]
  BY <1>1, FaceLeavesFacts
<1> HIDE DEF F
<1>3. PICK d \in 0..c.level :
        /\ ReferenceQuery(c, F, i) = AncestorAt(c, d)
        /\ \E x \in 1..Len(F) : Shares(c, F[x], d)
        /\ \A k \in 0..c.level :
             (\E x \in 1..Len(F) : Shares(c, F[x], k)) => k <= d
  BY <1>2, ReferenceDeepest DEF F
<1>4. ASSUME NEW k \in 0..c.level, NEW x \in 1..Len(L), Shares(c, L[x], k)
      PROVE  L[x].face = c.face
  <2>1. L[x] \in AllCells /\ k <= L[x].level /\ AncestorAt(L[x], k) = AncestorAt(c, k)
    BY <1>4 DEF Shares
  <2>2. k \in 0..L[x].level
    BY <2>1, CellFacts
  <2> QED
    BY <2>1, <2>2, AncestorFacts
<1>5. \E x \in 1..Len(L) : Shares(c, L[x], d)
  BY <1>2, <1>3
<1>6. \A k \in 0..c.level : (\E x \in 1..Len(L) : Shares(c, L[x], k)) => k <= d
  BY <1>2, <1>3, <1>4
<1>7. RightAnswer(L, c) = PathOf(AncestorAt(c, d))
  BY <1>5, <1>6, RightIsDeepest
<1> QED
  BY <1>3, <1>7 DEF F

-----------------------------------------------------------------------------
(* The cells that are asked *)

\* SampledPath and CheckedPaths of given arguments.
Sample(l, n, i) == (i * PathCount(l)) \div n

LEMMA SampleFacts ==
  ASSUME NEW l \in 0..MaxLevel, NEW n \in Nat \ {0}, NEW i \in Nat
  PROVE  /\ Sample(l, n, i) \in Nat
         /\ i < n => Sample(l, n, i) < PathCount(l)
         /\ Sample(l, n, i) <= Sample(l, n, i + 1)
         /\ n = PathCount(l) => Sample(l, n, i) = i
<1> DEFINE w == PathCount(l)
           q == Sample(l, n, i)
<1>1. w \in Nat \ {0} /\ l \in Nat
  BY PathCountNat
<1> HIDE DEF w
<1>2. i * w \in Nat /\ (i + 1) * w \in Nat /\ i * w <= (i + 1) * w
  BY <1>1, ProductGrows
<1>3. q = (i * w) \div n /\ Sample(l, n, i + 1) = ((i + 1) * w) \div n
  BY DEF Sample, w
<1> HIDE DEF q
<1>4. q \in Nat /\ q * n <= i * w
  BY <1>2, <1>3, Quotient
<1>5. q <= Sample(l, n, i + 1)
  BY <1>2, <1>3, QuotientGrows
<1>6. ASSUME i < n PROVE q < w
  <2>1. i * w < n * w /\ n * w = w * n
    BY <1>1, <1>6, ProductStrict
  <2>2. q * n < w * n
    <3>1. q * n \in Nat /\ n * w \in Nat
      BY <1>1, <1>4
    <3> QED
      BY <1>2, <1>4, <2>1, <3>1
  <2> QED
    BY <1>1, <1>4, <2>2, ProductStrict
<1>7. ASSUME n = w PROVE q = i
  <2>1. i * w <= i * w /\ i * w < (i + 1) * w
    BY <1>1, ProductStrict
  <2> QED
    BY <1>1, <1>2, <1>3, <1>7, <2>1, QuotientUnique
<1> QED
  BY <1>4, <1>5, <1>6, <1>7 DEF q, w

\* In a face and a level, identifiers grow with the path.
LEMMA PathOrder ==
  ASSUME NEW f \in Faces, NEW l \in 0..MaxLevel, NEW p \in Nat, NEW q \in Nat,
         p <= q, q < PathCount(l)
  PROVE  /\ Cell(f, l, p) \in AllCells /\ Cell(f, l, q) \in AllCells
         /\ CellId(Cell(f, l, p)) <= CellId(Cell(f, l, q))
<1>1. l \in Nat /\ PathCount(l) \in Nat \ {0} /\ f \in Nat
      /\ MaxLevel - l \in Nat /\ PathCount(MaxLevel - l) \in Nat
  BY PathCountNat DEF Faces
<1>2. Cell(f, l, p) \in AllCells /\ Cell(f, l, q) \in AllCells
  BY <1>1, MadeCell
<1> DEFINE w == f * PathCount(l)
           r == PathCount(MaxLevel - l)
<1>3. w \in Nat /\ r \in Nat
  BY <1>1
<1>4. /\ CellId(Cell(f, l, p)) = (2 * (w + p) + 1) * r
      /\ CellId(Cell(f, l, q)) = (2 * (w + q) + 1) * r
  BY DEF CellId, Cell
<1> HIDE DEF w, r
<1>5. (2 * (w + p) + 1) * r <= (2 * (w + q) + 1) * r
  BY <1>3, ProductGrows
<1> QED
  BY <1>2, <1>4, <1>5

-----------------------------------------------------------------------------
(* The invariant *)

Right(r, c) == r.answer[c] = RightAnswer(r.strict, c)

\* All cells of the levels before l, and of level l the first a[f] of face f.
Answered(r, l, a) ==
  /\ \A k \in 0..(l - 1) : \A c \in CellsOf(k) : Right(r, c)
  /\ \A f \in Faces : \A p \in 0..(a[f] - 1) : Right(r, Cell(f, l, p))

\* The leaves an insertion index has passed come before the next cell asked.
Behind ==
  \A f \in Faces :
    /\ insertion[f] \in 0..Len(oracle[f])
    /\ asked[f] < CheckedPaths(level) =>
         \A j \in 1..insertion[f] :
           CellId(oracle[f][j]) < CellId(Cell(f, level, SampledPath(asked[f])))

Untouched ==
  level = 0 /\ asked = [f \in Faces |-> 0] /\ insertion = [f \in Faces |-> 0]

Walking ==
  /\ oracle = FaceLeaves(report.strict)
  /\ \A f \in Faces : asked[f] <= CheckedPaths(level)
  /\ Behind
  /\ ~quick => Answered(report, level, asked)

IInv ==
  /\ report \in Reports /\ level \in 0..MaxLevel
  /\ asked \in [Faces -> Nat] /\ insertion \in [Faces -> Nat]
  /\ pc \in {"reconstruct", "encode", "oracle"} => Untouched
  /\ pc \in {"encode", "oracle", "queries"} => report.strict = report.verified
  /\ pc \in {"oracle", "queries"} => report.canonical
  /\ pc = "queries" => Walking
  /\ CorrectEnginesPass /\ FaultsFound

LEMMA CheckedFacts ==
  ASSUME level \in 0..MaxLevel
  PROVE  /\ CheckedPaths(level) \in Nat \ {0}
         /\ ~quick => CheckedPaths(level) = PathCount(level)
         /\ \A i : SampledPath(i) = Sample(level, CheckedPaths(level), i)
<1>1. PathCount(level) \in Nat \ {0}
  BY PathCountNat
<1> QED
  BY <1>1 DEF CheckedPaths, SampledPath, Sample

LEMMA Starts == Init => IInv
BY DEF Init, IInv, Untouched, CorrectEnginesPass, FaultsFound

\* A cell that is asked is compared with the right answer.
LEMMA AskedCell ==
  ASSUME IInv, NEW f \in Faces, pc = "queries", asked[f] < CheckedPaths(level),
         NEW index \in insertion[f]..Len(oracle[f]),
         Advances(oracle[f], insertion[f], Cell(f, level, SampledPath(asked[f])), index)
  PROVE  LET c == Cell(f, level, SampledPath(asked[f]))
         IN  /\ c \in AllCells
             /\ \A j \in 1..index : CellId(oracle[f][j]) < CellId(c)
             /\ PathOf(ReferenceQuery(c, oracle[f], index)) = RightAnswer(report.strict, c)
<1> DEFINE L == report.strict
           F == FaceLeaves(L)[f]
           p == SampledPath(asked[f])
           c == Cell(f, level, p)
           i == insertion[f]
<1>1. /\ report \in Reports /\ report.canonical /\ level \in 0..MaxLevel
      /\ asked[f] \in Nat /\ oracle[f] = F
  BY DEF IInv, Walking
<1>2. L \in Seq(AllCells) /\ OracleAccepts(L)
  BY <1>1, ReportsAssumption
<1>3. p \in Nat /\ p < PathCount(level)
  <2> DEFINE n == CheckedPaths(level)
  <2>1. n \in Nat \ {0} /\ asked[f] < n /\ p = Sample(level, n, asked[f])
    BY <1>1, CheckedFacts
  <2> HIDE DEF n, p
  <2> QED
    BY <1>1, <2>1, SampleFacts
<1>4. c \in AllCells /\ c.face = f
  BY <1>1, <1>3, MadeCell DEF Cell
<1>5. F \in Seq(AllCells) /\ Ascending(F)
  BY <1>2, FaceLeavesFacts
<1>6. i \in 0..Len(F) /\ \A j \in 1..i : CellId(F[j]) < CellId(c)
  BY <1>1 DEF IInv, Walking, Behind
<1>7. /\ index \in i..Len(F)
      /\ \A j \in (i + 1)..index : CellId(F[j]) < CellId(c)
      /\ index < Len(F) => CellId(F[index + 1]) >= CellId(c)
  BY <1>1 DEF Advances
<1> HIDE DEF F, c, i, L
<1>8. /\ index \in Nat /\ Len(F) \in Nat /\ i \in Nat /\ index <= Len(F)
      /\ CellId(c) \in Nat /\ \A j \in 1..Len(F) : CellId(F[j]) \in Nat
  BY <1>4, <1>5, <1>6, <1>7, IdFacts
<1>9. \A j \in 1..index : CellId(F[j]) < CellId(c)
  BY <1>6, <1>7, <1>8
<1>10. ASSUME NEW j \in (index + 1)..Len(F) PROVE CellId(c) <= CellId(F[j])
  <2>1. index + 1 \in 1..Len(F) /\ j \in 1..Len(F) /\ (j = index + 1 \/ index + 1 < j)
    BY <1>8
  <2>2. CellId(F[index + 1]) <= CellId(F[j])
    <3>1. CellId(F[index + 1]) \in Nat /\ CellId(F[j]) \in Nat
      BY <1>8, <2>1
    <3>2. index + 1 < j => CellId(F[index + 1]) < CellId(F[j])
      BY <1>5, <2>1 DEF Ascending
    <3>3. j = index + 1 => CellId(F[index + 1]) <= CellId(F[j])
      BY <3>1
    <3> QED
      BY <2>1, <3>1, <3>2, <3>3
  <2>3. CellId(F[index + 1]) >= CellId(c)
    BY <1>7, <1>8, <2>1
  <2> QED
    BY <1>8, <2>1, <2>2, <2>3
<1>11. Cut(F, c, index)
  BY <1>8, <1>9, <1>10 DEF Cut
<1>12. PathOf(ReferenceQuery(c, F, index)) = RightAnswer(L, c)
  BY <1>2, <1>4, <1>11, ReferenceRight DEF F
<1> QED
  BY <1>1, <1>4, <1>9, <1>12 DEF c, L

-----------------------------------------------------------------------------

LEMMA ReconstructStep ==
  ASSUME IInv, CompareLeaves \/ VerifyCanonicalEncoding \/ BuildOracle
  PROVE  IInv'
<1>1. CASE CompareLeaves
  BY <1>1 DEF IInv, CompareLeaves, Proceed, Untouched, CorrectEnginesPass,
              FaultsFound, Correct
<1>2. CASE VerifyCanonicalEncoding
  BY <1>2 DEF IInv, VerifyCanonicalEncoding, Proceed, Untouched,
              CorrectEnginesPass, FaultsFound, Correct
<1>3. CASE BuildOracle
  <2>1. /\ report \in Reports /\ report.canonical /\ report.strict = report.verified
        /\ Untouched
    BY <1>3 DEF IInv, BuildOracle
  <2>2. OracleAccepts(report.strict)
    BY <2>1, ReportsAssumption
  <2>3. /\ pc' = "queries" /\ oracle' = FaceLeaves(report.strict)
        /\ UNCHANGED <<report, quick, level, asked, insertion>>
    BY <1>3, <2>2 DEF BuildOracle, Proceed
  <2>4. level = 0 /\ \A f \in Faces : asked[f] = 0 /\ insertion[f] = 0
    BY <2>1 DEF Untouched
  <2>5. /\ level' = 0 /\ report' = report /\ quick' = quick
        /\ \A f \in Faces : asked'[f] = 0 /\ insertion'[f] = 0
    BY <2>3, <2>4
  <2>6. \A f \in Faces : asked'[f] <= CheckedPaths(level)'
    <3>1. level \in 0..MaxLevel
      BY <2>4
    <3>2. CheckedPaths(level)' = CheckedPaths(level)
      BY <2>3 DEF CheckedPaths
    <3> QED
      BY <2>5, <3>1, <3>2, CheckedFacts
  <2>7. Behind'
    <3>1. ASSUME NEW f \in Faces PROVE Len(oracle'[f]) \in Nat
      <4>1. report.strict \in Seq(AllCells)
        BY <2>1, ReportsAssumption
      <4>2. oracle'[f] \in Seq(AllCells)
        BY <2>2, <2>3, <4>1, FaceLeavesFacts
      <4> QED
        BY <4>2
    <3> QED
      BY <2>5, <3>1 DEF Behind
  <2>8. Answered(report', level', asked')
    BY <2>5 DEF Answered
  <2>9. Walking'
    BY <2>3, <2>6, <2>7, <2>8 DEF Walking
  <2> QED
    BY <2>1, <2>3, <2>9 DEF IInv, CorrectEnginesPass, FaultsFound
<1> QED
  BY <1>1, <1>2, <1>3

LEMMA AskStep ==
  ASSUME IInv, NEW f \in Faces, Ask(f)
  PROVE  IInv'
<1> DEFINE a == asked[f]
           n == CheckedPaths(level)
           p == SampledPath(asked[f])
           c == Cell(f, level, p)
<1>1. /\ pc = "queries" /\ a < n
      /\ asked' = [asked EXCEPT ![f] = a + 1]
      /\ UNCHANGED <<report, quick, oracle, level>>
  BY DEF Ask
<1>2. PICK index \in insertion[f]..Len(oracle[f]) :
        /\ Advances(oracle[f], insertion[f], c, index)
        /\ insertion' = [insertion EXCEPT ![f] = index]
        /\ Proceed(report.answer[c] = PathOf(ReferenceQuery(c, oracle[f], index)),
                   "queries")
  BY DEF Ask
<1>3. /\ c \in AllCells
      /\ \A j \in 1..index : CellId(oracle[f][j]) < CellId(c)
      /\ PathOf(ReferenceQuery(c, oracle[f], index)) = RightAnswer(report.strict, c)
  BY <1>1, <1>2, AskedCell
<1>4. /\ report \in Reports /\ report.canonical /\ report.strict = report.verified
      /\ level \in 0..MaxLevel /\ asked \in [Faces -> Nat] /\ insertion \in [Faces -> Nat]
      /\ Walking
  BY <1>1 DEF IInv
<1>5. /\ index \in Nat
      /\ asked' \in [Faces -> Nat] /\ insertion' \in [Faces -> Nat]
      /\ asked'[f] = a + 1 /\ insertion'[f] = index
      /\ \A g \in Faces : g # f => asked'[g] = asked[g] /\ insertion'[g] = insertion[g]
  <2>1. index \in Nat
    BY <1>2, <1>4
  <2> QED
    BY <1>1, <1>2, <1>4, <2>1
<1>6. CASE report.answer[c] # RightAnswer(report.strict, c)
  <2>1. pc' = "failed"
    BY <1>2, <1>3, <1>6 DEF Proceed
  <2>2. ~Correct(report')
    BY <1>1, <1>3, <1>6 DEF Correct
  <2> QED
    BY <1>1, <1>4, <1>5, <2>1, <2>2 DEF IInv, CorrectEnginesPass, FaultsFound
<1>7. CASE report.answer[c] = RightAnswer(report.strict, c)
  <2>1. pc' = "queries"
    BY <1>2, <1>3, <1>7 DEF Proceed
  <2>2. /\ n \in Nat \ {0} /\ a \in Nat /\ n' = n
        /\ p = Sample(level, n, a)
        /\ \A g \in Faces : SampledPath(asked[g]) = Sample(level, n, asked[g])
    <3>1. n' = n
      BY <1>1 DEF CheckedPaths
    <3>2. n \in Nat \ {0} /\ a \in Nat
      BY <1>4, CheckedFacts
    <3>3. \A g \in Faces : SampledPath(asked[g]) = Sample(level, n, asked[g])
      BY <1>4, CheckedFacts
    <3> QED
      BY <3>1, <3>2, <3>3
  <2>2a. ASSUME NEW g \in Faces PROVE SampledPath(asked[g])' = Sample(level, n, asked'[g])
    BY <1>1 DEF SampledPath, Sample, CheckedPaths
  <2>3. \A g \in Faces : asked'[g] <= n
    BY <1>1, <1>4, <1>5, <2>2 DEF Walking
  <2>4. ASSUME NEW g \in Faces
        PROVE  /\ insertion'[g] \in 0..Len(oracle'[g])
               /\ asked'[g] < n' =>
                    \A j \in 1..insertion'[g] :
                      CellId(oracle'[g][j])
                        < CellId(Cell(g, level', SampledPath(asked[g])'))
    <3>1. CASE g # f
      <4>1. asked'[g] = asked[g] /\ insertion'[g] = insertion[g]
        BY <1>5, <3>1
      <4>2. SampledPath(asked[g])' = SampledPath(asked[g])
        BY <2>2, <2>2a, <4>1
      <4> QED
        BY <1>1, <1>4, <2>2, <4>1, <4>2 DEF Walking, Behind
    <3>2. CASE g = f
      <4>1. insertion'[g] \in 0..Len(oracle'[g])
        BY <1>1, <1>2, <1>4, <1>5, <3>2
      <4>2. ASSUME a + 1 < n
            PROVE  \A j \in 1..index : CellId(oracle[f][j])
                     < CellId(Cell(f, level, Sample(level, n, a + 1)))
        <5> DEFINE next == Cell(f, level, Sample(level, n, a + 1))
        <5>1. /\ p \in Nat /\ Sample(level, n, a + 1) \in Nat
              /\ p <= Sample(level, n, a + 1)
              /\ Sample(level, n, a + 1) < PathCount(level)
          <6>1. p \in Nat /\ p <= Sample(level, n, a + 1)
            <7>1. level \in 0..MaxLevel /\ n \in Nat \ {0} /\ a \in Nat
              BY <1>4, <2>2
            <7>2. Sample(level, n, a) \in Nat /\ Sample(level, n, a) <= Sample(level, n, a + 1)
              BY <7>1, SampleFacts
            <7> QED
              BY <2>2, <7>2
          <6>2. a + 1 \in Nat
            BY <2>2
          <6>3. /\ Sample(level, n, a + 1) \in Nat
                /\ Sample(level, n, a + 1) < PathCount(level)
            BY <1>4, <2>2, <4>2, <6>2, SampleFacts
          <6> QED
            BY <6>1, <6>3
        <5>2. /\ next \in AllCells
              /\ CellId(c) <= CellId(next)
          BY <1>4, <5>1, PathOrder
        <5>3. ASSUME NEW j \in 1..index PROVE CellId(oracle[f][j]) \in Nat
          <6>1. oracle[f] = FaceLeaves(report.strict)[f]
            BY <1>4 DEF Walking
          <6>2. report.strict \in Seq(AllCells) /\ OracleAccepts(report.strict)
            BY <1>4, ReportsAssumption
          <6>3. oracle[f] \in Seq(AllCells)
            BY <6>1, <6>2, FaceLeavesFacts
          <6>4. j \in 1..Len(oracle[f])
            BY <1>2, <1>5, <6>3
          <6>5. oracle[f][j] \in AllCells
            BY <6>3, <6>4
          <6> QED
            BY <6>5, IdFacts
        <5>4. CellId(c) \in Nat /\ CellId(next) \in Nat
          BY <1>3, <5>2, IdFacts
        <5> HIDE DEF c, next
        <5>5. ASSUME NEW j \in 1..index PROVE CellId(oracle[f][j]) < CellId(next)
          BY <1>3, <5>2, <5>3, <5>4
        <5> QED
          BY <5>5 DEF next
      <4>3. SampledPath(asked[g])' = Sample(level, n, a + 1)
        BY <1>5, <2>2a, <3>2
      <4>4. asked'[g] = a + 1 /\ insertion'[g] = index /\ oracle' = oracle /\ level' = level
        BY <1>1, <1>5, <3>2
      <4> HIDE DEF a, n
      <4> QED
        BY <2>2, <3>2, <4>1, <4>2, <4>3, <4>4
    <3> QED
      BY <3>1, <3>2
  <2>5. Behind'
    <3>1. \A g \in Faces :
            /\ insertion'[g] \in 0..Len(oracle'[g])
            /\ asked'[g] < CheckedPaths(level)' =>
                 \A j \in 1..insertion'[g] :
                   CellId(oracle'[g][j])
                     < CellId(Cell(g, level', SampledPath(asked[g])'))
      BY <2>4
    <3> QED
      BY <3>1 DEF Behind
  <2>6. ASSUME ~quick PROVE Answered(report', level', asked')
    <3>1. Answered(report, level, asked)
      BY <1>4, <2>6 DEF Walking
    <3>2. p = a
      BY <1>4, <2>2, <2>6, CheckedFacts, SampleFacts
    <3>3. Right(report, Cell(f, level, a))
      BY <1>7, <3>2 DEF Right
    <3>4. ASSUME NEW g \in Faces, NEW q \in 0..(asked'[g] - 1)
          PROVE  Right(report, Cell(g, level, q))
      <4>1. CASE g = f /\ q = a
        BY <3>3, <4>1
      <4>2. CASE ~(g = f /\ q = a)
        <5>1. asked[g] \in Nat /\ q \in Nat
          BY <1>4, <1>5
        <5>2. q \in 0..(asked[g] - 1)
          <6>1. CASE g # f
            BY <1>5, <5>1, <6>1
          <6>2. CASE g = f /\ q # a
            BY <1>5, <2>2, <5>1, <6>2
          <6> QED
            BY <4>2, <6>1, <6>2
        <5> QED
          BY <3>1, <5>2 DEF Answered
      <4> QED
        BY <4>1, <4>2
    <3> QED
      BY <1>1, <3>1, <3>4 DEF Answered
  <2>7. Walking'
    <3>1. \A g \in Faces : asked'[g] <= n'
      BY <2>2, <2>3
    <3> QED
      BY <1>1, <1>4, <2>5, <2>6, <3>1 DEF Walking
  <2> QED
    BY <1>1, <1>4, <1>5, <2>1, <2>7 DEF IInv, CorrectEnginesPass, FaultsFound
<1> QED
  BY <1>6, <1>7

LEMMA FinishStep ==
  ASSUME IInv, FinishLevel
  PROVE  IInv'
<1>1. /\ pc = "queries" /\ \A f \in Faces : asked[f] = CheckedPaths(level)
      /\ asked' = [f \in Faces |-> 0] /\ insertion' = [f \in Faces |-> 0]
      /\ UNCHANGED <<report, quick, oracle>>
      /\ asked' \in [Faces -> Nat] /\ insertion' \in [Faces -> Nat]
  BY DEF FinishLevel
<1>2. /\ report \in Reports /\ report.canonical /\ report.strict = report.verified
      /\ level \in 0..MaxLevel /\ Walking
  BY <1>1 DEF IInv
<1>3. PICK l \in 0..MaxLevel : level = l
  BY <1>2
<1>4. ASSUME ~quick PROVE \A k \in 0..l : \A c \in CellsOf(k) : Right(report, c)
  <2>1. Answered(report, l, asked)
    BY <1>2, <1>3, <1>4 DEF Walking
  <2>2. \A f \in Faces : asked[f] = PathCount(l)
    BY <1>1, <1>2, <1>3, <1>4, CheckedFacts
  <2> SUFFICES ASSUME NEW k \in 0..l, NEW c \in CellsOf(k) PROVE Right(report, c)
    OBVIOUS
  <2>3. CASE k = l
    <3>1. PICK f \in Faces, p \in 0..(PathCount(l) - 1) : c = Cell(f, l, p)
      BY <2>3 DEF CellsOf
    <3>2. p \in 0..(asked[f] - 1)
      BY <2>2, <3>1
    <3> QED
      BY <2>1, <3>1, <3>2 DEF Answered
  <2>4. CASE k # l
    <3>1. k \in 0..(l - 1)
      BY <2>4
    <3> QED
      BY <2>1, <3>1 DEF Answered
  <2> QED
    BY <2>3, <2>4
<1>5. CASE l < MaxLevel
  <2>1. level' = l + 1 /\ pc' = "queries" /\ l + 1 \in 0..MaxLevel
    BY <1>1, <1>3, <1>5 DEF FinishLevel
  <2>2. \A f \in Faces : asked'[f] = 0 /\ insertion'[f] = 0
    BY <1>1
  <2>3. \A f \in Faces : asked'[f] <= CheckedPaths(level)'
    <3>1. PathCount(l + 1) \in Nat
      BY <2>1, PathCountNat
    <3>2. CheckedPaths(level)' = IF quick /\ QuickPaths < PathCount(l + 1)
                                   THEN QuickPaths ELSE PathCount(l + 1)
      BY <1>1, <2>1 DEF CheckedPaths
    <3> QED
      BY <2>2, <3>1, <3>2
  <2>4. Behind'
    <3>1. ASSUME NEW f \in Faces PROVE Len(oracle'[f]) \in Nat
      <4>1. Len(oracle[f]) \in Nat
        <5>1. report.strict \in Seq(AllCells) /\ OracleAccepts(report.strict)
          BY <1>2, ReportsAssumption
        <5>2. oracle[f] \in Seq(AllCells)
          BY <1>2, <5>1, FaceLeavesFacts DEF Walking
        <5> QED
          BY <5>2
      <4> QED
        BY <1>1, <4>1
    <3> QED
      BY <2>2, <3>1 DEF Behind
  <2>5. ASSUME ~quick PROVE Answered(report', level', asked')
    <3>1. \A k \in 0..(level' - 1) : \A c \in CellsOf(k) : Right(report', c)
      BY <1>1, <1>4, <2>1, <2>5
    <3> QED
      BY <2>2, <3>1 DEF Answered
  <2>6. Walking'
    BY <1>1, <1>2, <2>3, <2>4, <2>5 DEF Walking
  <2> QED
    BY <1>1, <1>2, <2>1, <2>6 DEF IInv, CorrectEnginesPass, FaultsFound
<1>6. CASE ~(l < MaxLevel)
  <2>1. level' = l /\ pc' = "passed" /\ l = MaxLevel
    BY <1>3, <1>6 DEF FinishLevel
  <2>2. ASSUME ~quick PROVE Correct(report)
    BY <1>2, <1>4, <2>1, <2>2 DEF Correct, Right, AllCells
  <2> QED
    BY <1>1, <1>2, <2>1, <2>2 DEF IInv, CorrectEnginesPass, FaultsFound
<1> QED
  BY <1>5, <1>6

\* The invariant holds in every state the tool reaches.
THEOREM InvariantHolds == Spec => []IInv
<1>1. ASSUME IInv, [Next]_vars PROVE IInv'
  <2>1. CASE CompareLeaves \/ VerifyCanonicalEncoding \/ BuildOracle
    BY <1>1, <2>1, ReconstructStep
  <2>2. CASE \E f \in Faces : Ask(f)
    BY <1>1, <2>2, AskStep
  <2>3. CASE FinishLevel
    BY <1>1, <2>3, FinishStep
  <2>4. CASE UNCHANGED vars
    <3>1. Behind => Behind'
      BY <2>4 DEF vars, Behind, CheckedPaths, SampledPath
    <3>2. Walking => Walking'
      BY <2>4, <3>1 DEF vars, Walking, CheckedPaths
    <3> QED
      BY <1>1, <2>4, <3>2 DEF IInv, vars, Untouched, CorrectEnginesPass, FaultsFound
  <2> QED
    BY <1>1, <2>1, <2>2, <2>3, <2>4 DEF Next
<1> QED
  BY <1>1, Starts, PTL DEF Spec

\* The reference never contradicts engines that answer with the deepest ancestor
\* that holds a leaf: a database whose engines are correct always passes.
THEOREM CorrectEnginesAlwaysPass == Spec => []CorrectEnginesPass
<1>1. IInv => CorrectEnginesPass
  BY DEF IInv
<1> QED
  BY <1>1, InvariantHolds, PTL

\* A database that passes exhaustive verification has no wrong answer anywhere.
THEOREM FaultsAlwaysFound == Spec => []FaultsFound
<1>1. IInv => FaultsFound
  BY DEF IInv
<1> QED
  BY <1>1, InvariantHolds, PTL
=============================================================================
