------------------------ MODULE Encodings_proof ------------------------
(***************************************************************************)
(* Theorems about the encodings of the format that need no walk over a     *)
(* tree: the identifiers of CompactLeaves and the bit fields of            *)
(* PackedFields. They hold for every size of the format and all inputs.    *)
(*                                                                         *)
(* Identifiers. The code works on numbers (shifts, lowest bit, ranges of   *)
(* leaves); what it means is said about paths from a face. PathIdentifier  *)
(* gives the identifier of a path as an interval of leaf identifiers, so   *)
(* that prefixes are nested intervals. ListInv says what the loop that     *)
(* validates a list has established about the part it has walked, QueryInv *)
(* what the descent knows of the levels above the current one. The oracle  *)
(* of the verifier is exact because the bits two identifiers have in       *)
(* common are the levels their paths have in common (CommonBits), and      *)
(* because no leaf shares more with a query than one of its two neighbours *)
(* in the sorted list (NeighbourShares).                                   *)
(*                                                                         *)
(* Packed fields. Bits are numbers of the file's bits; Number and BitsOf   *)
(* are inverse to each other. FieldsInv says which bits each written value *)
(* occupies: its field starts where the one before it ends and lies within *)
(* the section (FieldsFollow, WindowHolds), so that what is read there is  *)
(* the value (ReadIs) and a bit of the section belongs to one field or to  *)
(* the padding (ContentExact). Ranks count ones: RankIsOnes joins the      *)
(* chunks, the whole bytes and the half byte the engine counts separately  *)
(* into one interval of bits.                                              *)
(***************************************************************************)
EXTENDS CompactLeaves, PackedFields, Foundations_proof

-----------------------------------------------------------------------------
(* Powers of four *)

\* How many cells of a level lie below a cell that many levels higher.
W(j) == 2 ^ (2 * j)

LEMMA WZero == W(0) = 1
BY PowerZero DEF W

LEMMA WNat ==
  ASSUME NEW j \in Nat
  PROVE  W(j) \in Nat \ {0} /\ W(j) \in Nat /\ W(j) >= 1
<1>1. W(j) \in Nat \ {0}
  BY PowerPositive DEF W
<1> DEFINE w == W(j)
<1> HIDE DEF w
<1>2. w \in Nat /\ w >= 1
  BY <1>1 DEF w
<1> QED
  BY <1>1, <1>2 DEF w

LEMMA WNext ==
  ASSUME NEW j \in Nat
  PROVE  W(j + 1) = 4 * W(j) /\ W(j) \in Nat
<1>1. 2 * j \in Nat /\ 2 * j + 1 \in Nat /\ 2 * (j + 1) = (2 * j + 1) + 1
  OBVIOUS
<1>2. 2 ^ (2 * j + 1) = 2 * 2 ^ (2 * j) /\ 2 ^ ((2 * j + 1) + 1) = 2 * 2 ^ (2 * j + 1)
  BY <1>1, PowerNext
<1>3. 2 ^ (2 * j) \in Nat
  BY <1>1, PowerNat
<1>4. 2 ^ (2 * (j + 1)) = 2 * (2 * 2 ^ (2 * j))
  BY <1>1, <1>2
<1> DEFINE p == 2 ^ (2 * j)
<1> HIDE DEF p
<1>5. 2 * (2 * p) = 4 * p
  BY <1>3 DEF p
<1> QED
  BY <1>3, <1>4, <1>5 DEF W, p

LEMMA WSum ==
  ASSUME NEW i \in Nat, NEW j \in Nat
  PROVE  W(i + j) = W(i) * W(j)
<1>1. 2 * i \in Nat /\ 2 * j \in Nat /\ 2 * (i + j) = 2 * i + 2 * j
  OBVIOUS
<1> QED
  BY <1>1, PowerSum DEF W

-----------------------------------------------------------------------------
(* Quotients *)

\* d groups and a part of another.
LEMMA QuotientOfSum ==
  ASSUME NEW q \in Nat, NEW d \in Nat \ {0}, NEW r \in Nat, r < d
  PROVE  (q * d + r) \div d = q /\ q * d + r \in Nat
<1>1. q * d \in Nat /\ (q + 1) * d = q * d + d
  OBVIOUS
<1>2. q * d + r \in Nat /\ q * d <= q * d + r /\ q * d + r < (q + 1) * d
  BY <1>1
<1> QED
  BY <1>2, QuotientUnique

LEMMA QuotientOfProduct ==
  ASSUME NEW q \in Nat, NEW d \in Nat \ {0}
  PROVE  (q * d) \div d = q /\ q * d \in Nat
<1>1. (q * d + 0) \div d = q
  BY QuotientOfSum
<1>2. q * d + 0 = q * d /\ q * d \in Nat
  OBVIOUS
<1> QED
  BY <1>1, <1>2

\* A common factor of both numbers cancels.
LEMMA QuotientCancels ==
  ASSUME NEW a \in Nat, NEW d \in Nat \ {0}, NEW e \in Nat \ {0}
  PROVE  (a * d) \div (d * e) = a \div e /\ a * d \in Nat /\ d * e \in Nat \ {0}
<1>1. a * d \in Nat /\ (a * d) \div d = a
  BY QuotientOfProduct
<1>2. ((a * d) \div d) \div e = (a * d) \div (d * e) /\ d * e \in Nat \ {0}
  BY <1>1, QuotientTwice
<1> QED
  BY <1>1, <1>2

LEMMA HalfOfOdd ==
  ASSUME NEW n \in Nat
  PROVE  (2 * n + 1) \div 2 = n /\ 2 * n + 1 \in Nat
OBVIOUS

\* One step more of a division by powers of four: a digit.
LEMMA DigitStep ==
  ASSUME NEW n \in Nat, NEW j \in Nat
  PROVE  /\ n \div W(j + 1) = (n \div W(j)) \div 4
         /\ n \div W(j) = 4 * (n \div W(j + 1)) + ((n \div W(j)) % 4)
         /\ (n \div W(j)) % 4 \in 0..3
         /\ n \div W(j) \in Nat /\ n \div W(j + 1) \in Nat
<1>1. W(j) \in Nat \ {0} /\ W(j + 1) = W(j) * 4 /\ W(j + 1) \in Nat \ {0}
  <2>1. W(j) \in Nat \ {0} /\ W(j + 1) = 4 * W(j) /\ j + 1 \in Nat
    BY WNat, WNext
  <2>2. W(j + 1) \in Nat \ {0}
    BY <2>1, WNat
  <2> DEFINE w == W(j)
  <2> HIDE DEF w
  <2>3. 4 * w = w * 4
    BY <2>1 DEF w
  <2> QED
    BY <2>1, <2>2, <2>3 DEF w
<1>2. (n \div W(j)) \div 4 = n \div (W(j) * 4)
  BY <1>1, QuotientTwice
<1>3. n \div W(j) \in Nat /\ n \div W(j + 1) \in Nat
  BY <1>1, Quotient
<1> DEFINE q == n \div W(j)
<1> HIDE DEF q
<1>4. q = 4 * (q \div 4) + (q % 4) /\ q % 4 \in 0..3
  BY <1>3 DEF q
<1>5. n \div W(j + 1) = q \div 4
  BY <1>1, <1>2 DEF q
<1> QED
  BY <1>3, <1>4, <1>5 DEF q

LEMMA QuotientByFours ==
  ASSUME NEW n \in Nat, NEW i \in Nat, NEW j \in Nat
  PROVE  (n \div W(i)) \div W(j) = n \div W(i + j) /\ n \div W(i) \in Nat
<1>1. W(i) \in Nat \ {0} /\ W(j) \in Nat \ {0} /\ W(i + j) = W(i) * W(j)
  BY WNat, WSum, Zenon
<1>2. (n \div W(i)) \div W(j) = n \div (W(i) * W(j))
  BY <1>1, QuotientTwice
<1>3. n \div W(i) \in Nat
  BY <1>1, Quotient
<1> QED
  BY <1>1, <1>2, <1>3, Zenon

LEMMA QuotientByOne ==
  ASSUME NEW n \in Nat
  PROVE  n \div W(0) = n
BY WZero

LEMMA QuotientBelow ==
  ASSUME NEW a \in Nat, NEW d \in Nat \ {0}, NEW b \in Nat
  PROVE  a \div d < b <=> a < b * d
<1>1. /\ a \div d \in Nat /\ (a \div d) * d <= a /\ a < (a \div d + 1) * d
  BY Quotient
<1> DEFINE q == a \div d
<1> HIDE DEF q
<1>2. q \in Nat /\ q * d <= a /\ a < (q + 1) * d /\ q * d \in Nat /\ (q + 1) * d \in Nat
  BY <1>1 DEF q
<1>3. b * d \in Nat
  OBVIOUS
<1>4. CASE q < b
  <2>1. q + 1 <= b /\ q + 1 \in Nat
    BY <1>2, <1>4
  <2>2. (q + 1) * d <= b * d
    BY <2>1, ProductGrows
  <2> QED
    BY <1>2, <1>3, <1>4, <2>2 DEF q
<1>5. CASE b <= q
  <2>1. b * d <= q * d
    BY <1>2, <1>5, ProductGrows
  <2> QED
    BY <1>2, <1>3, <1>5, <2>1 DEF q
<1> QED
  BY <1>2, <1>4, <1>5

-----------------------------------------------------------------------------
(* Cells by level and number: the n-th cell of a level in S2 order *)

CellLevels == 0..MaxS2Level
Numbers(l) == 0..(NumRootFaces * W(l) - 1)
Id(l, n) == (2 * n + 1) * W(MaxS2Level - l)

LEMMA Sizes ==
  /\ MaxS2Level \in Nat \ {0} /\ MaxDatabaseLevel \in 1..MaxS2Level
  /\ MaxDatabaseLevel \in Nat
  /\ NumRootFaces \in Nat \ {0} /\ FaceBits \in Nat \ {0}
  /\ 2 ^ FaceBits \in Nat \ {0} /\ NumRootFaces <= 2 ^ FaceBits
  /\ MaxS2Bits = 2 * MaxS2Level /\ MaxS2Bits \in Nat
  /\ FaceShift = MaxS2Bits + 1 /\ FaceShift \in Nat
  /\ IdBits = FaceShift + FaceBits /\ IdBits \in Nat \ {0}
  /\ BitsPerLevel = 2
  /\ ShiftCompact = 2 * (MaxS2Level - MaxDatabaseLevel)
<1>1. /\ MaxS2Level \in Nat \ {0} /\ MaxDatabaseLevel \in 1..MaxS2Level
      /\ FaceBits \in Nat \ {0} /\ NumRootFaces \in 1..(2 ^ FaceBits)
  BY CellAssumption
<1>2. 2 ^ FaceBits \in Nat \ {0}
  BY <1>1, PowerPositive
<1> DEFINE p == 2 ^ FaceBits
<1>3. p \in Nat \ {0} /\ NumRootFaces \in 1..p
  BY <1>1, <1>2
<1> HIDE DEF p
<1>4. NumRootFaces \in Nat \ {0} /\ NumRootFaces <= p
  BY <1>3
<1> QED
  BY <1>1, <1>2, <1>4
     DEF p, MaxS2Bits, FaceShift, IdBits, ShiftCompact, BitsPerLevel

LEMMA SentinelFacts ==
  ASSUME NEW l \in CellLevels
  PROVE  /\ l \in Nat /\ MaxS2Level - l \in Nat /\ l <= MaxS2Level
         /\ Sentinel(l) = 2 * (MaxS2Level - l) /\ Sentinel(l) \in Nat
         /\ 2 ^ Sentinel(l) = W(MaxS2Level - l)
         /\ 2 ^ (Sentinel(l) + 1) = 2 * W(MaxS2Level - l)
<1>1. l \in Nat /\ MaxS2Level - l \in Nat /\ l <= MaxS2Level
  BY Sizes DEF CellLevels
<1>2. Sentinel(l) = 2 * (MaxS2Level - l) /\ Sentinel(l) \in Nat
  BY <1>1, Sizes DEF Sentinel
<1>3. 2 ^ Sentinel(l) = W(MaxS2Level - l)
  BY <1>2 DEF W
<1>4. 2 ^ (Sentinel(l) + 1) = 2 * 2 ^ Sentinel(l)
  BY <1>2, PowerNext
<1> QED
  BY <1>1, <1>2, <1>3, <1>4

LEMMA FacePower ==
  /\ 2 ^ FaceShift = 2 * W(MaxS2Level) /\ 2 ^ FaceShift \in Nat \ {0}
  /\ 2 ^ IdBits = 2 ^ FaceBits * (2 * W(MaxS2Level)) /\ 2 ^ IdBits \in Nat \ {0}
<1>1. 0 \in CellLevels /\ MaxS2Level - 0 = MaxS2Level
  BY Sizes DEF CellLevels
<1>2. Sentinel(0) = MaxS2Bits
  BY <1>1, Sizes, SentinelFacts
<1>3. 2 ^ FaceShift = 2 * W(MaxS2Level)
  BY <1>1, <1>2, Sizes, SentinelFacts
<1>4. 2 ^ (FaceShift + FaceBits) = 2 ^ FaceShift * 2 ^ FaceBits
  BY Sizes, PowerSum
<1>5. 2 ^ FaceShift \in Nat \ {0} /\ 2 ^ IdBits \in Nat \ {0}
  BY Sizes, PowerPositive
<1>6. 2 ^ IdBits = 2 ^ FaceBits * 2 ^ FaceShift
  <2> DEFINE a == 2 ^ FaceShift
             b == 2 ^ FaceBits
  <2>1. a \in Nat /\ b \in Nat /\ 2 ^ IdBits = a * b
    BY <1>4, <1>5, Sizes
  <2> HIDE DEF a, b
  <2>2. a * b = b * a
    BY <2>1
  <2> QED
    BY <2>1, <2>2 DEF a, b
<1> QED
  BY <1>3, <1>5, <1>6

LEMMA NumberFacts ==
  ASSUME NEW l \in CellLevels, NEW n \in Numbers(l)
  PROVE  /\ n \in Nat /\ n < NumRootFaces * W(l)
         /\ W(l) \in Nat \ {0} /\ NumRootFaces * W(l) \in Nat \ {0}
         /\ n \div W(l) \in 0..(NumRootFaces - 1)
         /\ W(MaxS2Level - l) \in Nat \ {0} /\ 2 * n + 1 \in Nat
         /\ Id(l, n) \in Nat
<1>1. l \in Nat /\ MaxS2Level - l \in Nat
  BY SentinelFacts
<1>2. W(l) \in Nat \ {0} /\ W(MaxS2Level - l) \in Nat \ {0}
  BY <1>1, WNat
<1> DEFINE w == W(l)
           v == W(MaxS2Level - l)
<1>3. w \in Nat \ {0} /\ v \in Nat \ {0} /\ n \in 0..(NumRootFaces * w - 1)
  BY <1>2 DEF Numbers
<1>4. NumRootFaces * w \in Nat
  BY <1>3, Sizes
<1> DEFINE b == NumRootFaces * w
<1>5. b \in Nat /\ n \in 0..(b - 1)
  BY <1>3, <1>4
<1> HIDE DEF b
<1>6. n \in Nat /\ n < b /\ b \in Nat \ {0} /\ 2 * n + 1 \in Nat
  BY <1>5
<1>7. n \div w < NumRootFaces /\ n \div w \in Nat
  <2>1. n < NumRootFaces * w
    BY <1>6 DEF b
  <2> HIDE DEF w
  <2> QED
    BY <1>3, <1>6, <2>1, Sizes, QuotientBelow, Quotient
<1>8. (2 * n + 1) * v \in Nat
  <2> HIDE DEF v
  <2> QED
    BY <1>3, <1>6
<1>9. n \div w \in 0..(NumRootFaces - 1)
  <2> HIDE DEF w
  <2> QED
    BY <1>7, Sizes
<1> QED
  BY <1>2, <1>6, <1>8, <1>9 DEF b, Id

\* Cutting an identifier at the sentinel of a level leaves the number there.
LEMMA Cut ==
  ASSUME NEW l \in CellLevels, NEW n \in Numbers(l), NEW k \in 0..l
  PROVE  /\ k \in CellLevels
         /\ Id(l, n) \div (2 * W(MaxS2Level - k)) = n \div W(l - k)
         /\ n \div W(l - k) \in Numbers(k)
         /\ 2 * W(MaxS2Level - k) \in Nat \ {0} /\ l - k \in Nat
         /\ W(l - k) \in Nat \ {0}
<1>1. /\ l \in Nat /\ MaxS2Level - l \in Nat /\ k \in CellLevels /\ l - k \in Nat
      /\ MaxS2Level - k \in Nat /\ MaxS2Level - k = (MaxS2Level - l) + (l - k)
      /\ k \in Nat /\ l = k + (l - k)
  BY Sizes DEF CellLevels
<1> DEFINE v == W(MaxS2Level - l)
           w == W(l - k)
           o == 2 * n + 1
<1>2. /\ v \in Nat \ {0} /\ w \in Nat \ {0} /\ W(MaxS2Level - k) = v * w
      /\ W(k) \in Nat \ {0} /\ W(l) = W(k) * w
  BY <1>1, WNat, WSum, Zenon
<1>3. n \in Nat /\ o \in Nat /\ n < NumRootFaces * W(l)
  BY NumberFacts
<1>4. Id(l, n) = o * v
  BY DEF Id
<1>5. o \div 2 = n
  BY <1>3, HalfOfOdd
<1> HIDE DEF v, w, o
<1>6. 2 * w \in Nat \ {0} /\ 2 * (v * w) = v * (2 * w)
  BY <1>2
<1>7. (o * v) \div (v * (2 * w)) = o \div (2 * w)
  BY <1>2, <1>3, <1>6, QuotientCancels
<1>8. (o \div 2) \div w = o \div (2 * w)
  <2>1. ASSUME NEW t \in Nat \ {0} PROVE (o \div t) \div w = o \div (t * w)
    BY <1>2, <1>3, QuotientTwice
  <2>2. 2 \in Nat \ {0}
    OBVIOUS
  <2> QED
    BY <2>1, <2>2
<1>9. Id(l, n) \div (2 * W(MaxS2Level - k)) = n \div w
  BY <1>2, <1>4, <1>5, <1>6, <1>7, <1>8
<1>10. 2 * W(MaxS2Level - k) \in Nat \ {0}
  <2>1. W(MaxS2Level - k) \in Nat \ {0}
    BY <1>1, WNat
  <2> DEFINE x == W(MaxS2Level - k)
  <2> HIDE DEF x
  <2>2. 2 * x \in Nat \ {0}
    BY <2>1 DEF x
  <2> QED
    BY <2>2 DEF x
<1>11. n \div w \in Numbers(k)
  <2> DEFINE x == W(k)
             b == NumRootFaces * x
  <2>1. x \in Nat \ {0} /\ n < NumRootFaces * (x * w)
    BY <1>2, <1>3
  <2> HIDE DEF x
  <2>2. b \in Nat /\ NumRootFaces * (x * w) = b * w
    BY <1>2, <2>1, Sizes
  <2>3. n < b * w
    BY <2>1, <2>2
  <2> HIDE DEF b
  <2>4. n \div w < b /\ n \div w \in Nat
    BY <1>2, <1>3, <2>2, <2>3, QuotientBelow, Quotient
  <2>5. n \div w \in 0..(b - 1)
    BY <2>2, <2>4
  <2> QED
    BY <2>5 DEF Numbers, b, x
<1> QED
  BY <1>1, <1>2, <1>9, <1>10, <1>11 DEF w

-----------------------------------------------------------------------------
(* Lowest bits *)

LEMMA PowerStrict ==
  ASSUME NEW i \in Nat, NEW j \in Nat, i < j
  PROVE  2 ^ i < 2 ^ j /\ 2 ^ i \in Nat \ {0} /\ 2 ^ j \in Nat \ {0}
<1>1. j - i - 1 \in Nat /\ j = (i + 1) + (j - i - 1) /\ i + 1 \in Nat
  OBVIOUS
<1> DEFINE a == 2 ^ i
           b == 2 ^ (j - i - 1)
<1>2. 2 ^ j = 2 ^ (i + 1) * b /\ 2 ^ (i + 1) = 2 * a
  BY <1>1, PowerSum, PowerNext
<1>3. a \in Nat \ {0} /\ b \in Nat \ {0} /\ 2 ^ j \in Nat \ {0}
  BY <1>1, PowerPositive
<1> HIDE DEF a, b
<1>4. 1 * (2 * a) <= b * (2 * a)
  <2>1. 1 \in Nat /\ 1 <= b /\ 2 * a \in Nat
    BY <1>3
  <2> QED
    BY <1>3, <2>1, ProductGrows
<1>5. (2 * a) * b = b * (2 * a) /\ 1 * (2 * a) = 2 * a /\ a < 2 * a
  BY <1>3
<1>6. a < (2 * a) * b
  <2>1. b * (2 * a) \in Nat
    BY <1>3
  <2> QED
    BY <1>3, <1>4, <1>5, <2>1
<1> QED
  BY <1>2, <1>3, <1>6 DEF a

LEMMA PowerInjective ==
  ASSUME NEW i \in Nat, NEW j \in Nat, 2 ^ i = 2 ^ j
  PROVE  i = j
<1>1. CASE i < j
  <2>1. 2 ^ i < 2 ^ j /\ 2 ^ i \in Nat /\ 2 ^ j \in Nat
    BY <1>1, PowerStrict
  <2> DEFINE a == 2 ^ i
             b == 2 ^ j
  <2>2. a < b /\ a \in Nat /\ b \in Nat /\ a = b
    BY <2>1
  <2> HIDE DEF a, b
  <2> QED
    BY <2>2
<1>2. CASE j < i
  <2>1. 2 ^ j < 2 ^ i /\ 2 ^ i \in Nat /\ 2 ^ j \in Nat
    BY <1>2, PowerStrict
  <2> DEFINE a == 2 ^ i
             b == 2 ^ j
  <2>2. b < a /\ a \in Nat /\ b \in Nat /\ a = b
    BY <2>1
  <2> HIDE DEF a, b
  <2> QED
    BY <2>2
<1> QED
  BY <1>1, <1>2

LEMMA Divides ==
  ASSUME NEW a \in Nat, NEW d \in Nat \ {0}
  PROVE  /\ a % d = 0 <=> a = (a \div d) * d
         /\ \A x \in Nat : a = x * d => a % d = 0 /\ a \div d = x
         /\ a \div d \in Nat
<1>1. a = (a \div d) * d + (a % d) /\ a % d \in 0..(d - 1)
  BY Remainder
<1>2. a \div d \in Nat
  BY Quotient
<1> DEFINE q == a \div d
           r == a % d
<1>3. a = q * d + r /\ r \in Nat /\ q \in Nat
  BY <1>1, <1>2
<1> HIDE DEF q, r
<1>4. r = 0 <=> a = q * d
  BY <1>3
<1>5. ASSUME NEW x \in Nat, a = x * d PROVE q = x
  BY <1>5, QuotientOfProduct DEF q
<1> QED
  BY <1>3, <1>4, <1>5 DEF q, r

\* Every number but zero is an odd multiple of a power of two.
LEMMA OddPart ==
  ASSUME NEW a \in Nat \ {0}
  PROVE  \E t, q \in Nat : a = (2 * q + 1) * 2 ^ t
<1> DEFINE T == {k \in Nat : a % 2 ^ (k + 1) # 0}
<1>1. T \subseteq Nat
  OBVIOUS
<1>2. T # {}
  <2> DEFINE S == {k \in Nat : 2 ^ k <= a}
  <2>1. SUFFICES ASSUME T = {} PROVE FALSE
    OBVIOUS
  <2>2. \A k \in Nat : k < 2 ^ k /\ 2 ^ k \in Nat
    <3> DEFINE Wrong == {k \in Nat : ~ (k < 2 ^ k)}
    <3>1. ASSUME Wrong # {} PROVE FALSE
      <4>1. Wrong \subseteq Nat
        OBVIOUS
      <4>2. PICK k \in Wrong : \A y \in Wrong : k <= y
        <5> HIDE DEF Wrong
        <5> QED
          BY <3>1, <4>1, LeastNatural
      <4>3. k \in Nat /\ ~ (k < 2 ^ k)
        OBVIOUS
      <4>4. k # 0
        <5>1. ASSUME k = 0 PROVE FALSE
          <6>1. 2 ^ k = 1
            BY <4>3, <5>1, PowerZero
          <6> QED
            BY <4>3, <5>1, <6>1
        <5> QED
          BY <5>1
      <4>5. k - 1 \in Nat /\ k = (k - 1) + 1 /\ ~ (k <= k - 1)
        BY <4>3, <4>4
      <4>6. k - 1 < 2 ^ (k - 1)
        BY <4>2, <4>5
      <4>7. 2 ^ k = 2 * 2 ^ (k - 1) /\ 2 ^ (k - 1) \in Nat
        BY <4>5, PowerNext, PowerNat
      <4> DEFINE p == 2 ^ (k - 1)
      <4>8. k - 1 < p /\ p \in Nat /\ 2 ^ k = 2 * p
        BY <4>6, <4>7
      <4> HIDE DEF p
      <4>9. k < 2 * p
        BY <4>5, <4>8
      <4> QED
        BY <4>3, <4>8, <4>9
    <3>2. \A k \in Nat : 2 ^ k \in Nat
      BY PowerNat
    <3> QED
      BY <3>1, <3>2
  <2>3. a < 2 ^ a /\ 2 ^ (a + 1) = 2 * 2 ^ a /\ 2 ^ a \in Nat
    BY <2>2, PowerNext
  <2> DEFINE d == 2 ^ (a + 1)
  <2>4. d \in Nat \ {0} /\ a < d
    <3> DEFINE p == 2 ^ a
    <3>1. a < p /\ p \in Nat /\ d = 2 * p
      BY <2>3
    <3> HIDE DEF p, d
    <3> QED
      BY <3>1
  <2>5. a % d = 0
    BY <2>1
  <2> HIDE DEF d
  <2>6. a = (a \div d) * d
    BY <2>4, <2>5, Divides
  <2>7. (0 * d + a) \div d = 0
    BY <2>4, QuotientOfSum
  <2>8. 0 * d + a = a /\ 0 * d = 0
    BY <2>4
  <2> QED
    BY <2>6, <2>7, <2>8
<1>3. PICK t \in T : \A y \in T : t <= y
  <2> HIDE DEF T
  <2> QED
    BY <1>1, <1>2, LeastNatural
<1>4. t \in Nat /\ a % 2 ^ (t + 1) # 0
  OBVIOUS
<1> DEFINE p == 2 ^ t
           x == a \div p
<1>5. p \in Nat \ {0} /\ 2 ^ (t + 1) = 2 * p
  BY <1>4, PowerPositive, PowerNext
<1>6. a % p = 0
  <2>1. CASE t = 0
    <3>1. p = 1
      BY <2>1, PowerZero
    <3> QED
      BY <3>1
  <2>2. CASE t # 0
    <3>1. t - 1 \in Nat /\ ~ (t <= t - 1) /\ (t - 1) + 1 = t
      BY <1>4, <2>2
    <3>2. t - 1 \notin T
      <4> HIDE DEF T
      <4> QED
        BY <1>3, <3>1
    <3> QED
      BY <3>1, <3>2
  <2> QED
    BY <2>1, <2>2
<1> HIDE DEF p
<1>7. a = x * p /\ x \in Nat
  BY <1>5, <1>6, Divides
<1> HIDE DEF x
<1>8. x % 2 # 0
  <2>1. ASSUME x % 2 = 0 PROVE FALSE
    <3>1. x = 2 * (x \div 2) /\ x \div 2 \in Nat
      BY <1>7, <2>1
    <3> DEFINE y == x \div 2
    <3> HIDE DEF y
    <3>2. a = (2 * y) * p /\ y \in Nat
      BY <1>7, <3>1 DEF y
    <3>3. a = y * (2 * p) /\ 2 * p \in Nat \ {0}
      BY <1>5, <3>2
    <3>4. a % (2 * p) = 0
      BY <3>2, <3>3, Divides
    <3> QED
      BY <1>4, <1>5, <3>4
  <2> QED
    BY <2>1
<1>9. x = 2 * (x \div 2) + 1 /\ x \div 2 \in Nat
  BY <1>7, <1>8
<1> QED
  BY <1>4, <1>7, <1>9 DEF p

LEMMA OddPartUnique ==
  ASSUME NEW t \in Nat, NEW q \in Nat, NEW k \in Nat
  PROVE  /\ (2 * q + 1) * 2 ^ t \in Nat \ {0}
         /\ ((2 * q + 1) * 2 ^ t) % 2 ^ k = 0 <=> k <= t
<1> DEFINE p == 2 ^ t
           o == 2 * q + 1
           a == o * p
<1>1. p \in Nat \ {0} /\ o \in Nat \ {0}
  BY PowerPositive
<1> HIDE DEF p
<1>2. a \in Nat \ {0}
  <2>1. o >= 1 /\ 1 * p <= o * p
    <3> HIDE DEF o
    <3>1. 1 <= o /\ 1 \in Nat
      BY <1>1
    <3> QED
      BY <1>1, <3>1, ProductGrows
  <2> QED
    BY <1>1, <2>1
<1>3. ASSUME k <= t PROVE a % 2 ^ k = 0
  <2>1. t - k \in Nat /\ t = k + (t - k)
    BY <1>3
  <2> DEFINE b == 2 ^ k
             c == 2 ^ (t - k)
  <2>2. p = b * c /\ b \in Nat \ {0} /\ c \in Nat
    BY <2>1, PowerSum, PowerPositive, PowerNat DEF p
  <2> HIDE DEF b, c, o
  <2>3. a = (o * c) * b /\ o * c \in Nat
    BY <1>1, <2>2
  <2> HIDE DEF a
  <2>4. a % b = 0
    BY <1>2, <2>2, <2>3, Divides
  <2> QED
    BY <2>4 DEF b
<1>4. ASSUME k > t, a % 2 ^ k = 0 PROVE FALSE
  <2>1. k - t - 1 \in Nat /\ k = (t + 1) + (k - t - 1) /\ t + 1 \in Nat
    BY <1>4
  <2> DEFINE b == 2 ^ k
             c == 2 ^ (k - t - 1)
             x == a \div b
  <2>2. b = (2 * p) * c /\ b \in Nat \ {0} /\ c \in Nat
    <3>1. 2 ^ k = 2 ^ (t + 1) * 2 ^ (k - t - 1)
      BY <2>1, PowerSum
    <3>2. 2 ^ (t + 1) = 2 * p
      BY PowerNext DEF p
    <3>3. b \in Nat \ {0} /\ c \in Nat
      BY <2>1, PowerPositive, PowerNat
    <3> QED
      BY <3>1, <3>2, <3>3
  <2>3. a = x * b /\ x \in Nat
    <3>1. a % b = 0
      BY <1>4
    <3> HIDE DEF a, b
    <3> QED
      BY <1>2, <2>2, <3>1, Divides
  <2> DEFINE y == x * c
  <2>4. o * p = (2 * y) * p /\ y \in Nat
    <3> HIDE DEF x, b, c, o
    <3> QED
      BY <1>1, <2>2, <2>3
  <2> HIDE DEF y
  <2>5. (o * p) \div p = o /\ ((2 * y) * p) \div p = 2 * y
    <3> HIDE DEF o
    <3>1. 2 * y \in Nat
      BY <2>4
    <3> QED
      BY <1>1, <3>1, QuotientOfProduct
  <2>6. 2 * q + 1 = 2 * y
    BY <2>4, <2>5
  <2> QED
    BY <2>4, <2>6
<1> QED
  BY <1>2, <1>3, <1>4 DEF p

LEMMA MaxIs ==
  ASSUME NEW S, S \subseteq Int, NEW x \in S, \A y \in S : x >= y
  PROVE  Max(S) = x
<1>1. Max(S) \in S /\ \A y \in S : Max(S) >= y
  BY DEF Max
<1> DEFINE m == Max(S)
<1>2. m \in S /\ m >= x /\ x >= m
  BY <1>1
<1> HIDE DEF m
<1>3. m \in Int /\ x \in Int
  BY <1>2
<1>4. m = x
  BY <1>2, <1>3
<1> QED
  BY <1>4 DEF m

\* id & id.wrapping_neg(), and how many zeros are below it.
LEMMA LowestBitIs ==
  ASSUME NEW t \in Nat, NEW q \in Nat, NEW id \in Ids, id = (2 * q + 1) * 2 ^ t
  PROVE  /\ id # 0 /\ t \in 0..(IdBits - 1)
         /\ LowestBit(id) = 2 ^ t /\ TrailingZeros(2 ^ t) = t
<1>1. id \in Nat \ {0} /\ \A k \in Nat : id % 2 ^ k = 0 <=> k <= t
  BY OddPartUnique
<1>2. id < 2 ^ IdBits /\ IdBits \in Nat \ {0} /\ 2 ^ IdBits \in Nat \ {0}
  <2>1. IdBits \in Nat \ {0} /\ 2 ^ IdBits \in Nat \ {0}
    BY Sizes, FacePower
  <2> DEFINE b == 2 ^ IdBits
  <2>2. b \in Nat \ {0} /\ id \in 0..(b - 1)
    BY <2>1 DEF Ids
  <2> HIDE DEF b
  <2>3. id < b
    BY <2>2
  <2> QED
    BY <2>1, <2>3 DEF b
<1>3. t < IdBits
  <2>1. ASSUME IdBits <= t PROVE FALSE
    <3>1. id % 2 ^ IdBits = 0
      BY <1>1, <1>2, <2>1
    <3> DEFINE b == 2 ^ IdBits
    <3> HIDE DEF b
    <3>2. id = (id \div b) * b
      BY <1>1, <1>2, <3>1, Divides DEF b
    <3>3. (0 * b + id) \div b = 0 /\ 0 * b + id = id /\ 0 * b = 0
      BY <1>1, <1>2, QuotientOfSum DEF b
    <3> QED
      BY <1>1, <3>2, <3>3
  <2> QED
    BY <1>2, <2>1
<1> DEFINE S == {k \in 0..(IdBits - 1) : id % 2 ^ k = 0}
<1>4. t \in S /\ \A k \in S : t >= k
  BY <1>1, <1>2, <1>3
<1>5. Max(S) = t
  <2>1. S \subseteq Int
    BY <1>2
  <2> HIDE DEF S
  <2> QED
    BY <1>4, <2>1, MaxIs
<1>6. LowestBit(id) = 2 ^ t
  BY <1>1, <1>5 DEF LowestBit
<1>7. TrailingZeros(2 ^ t) = t
  <2>1. 2 ^ t \in Nat \ {0}
    BY PowerPositive
  <2>2. \A k \in 0..IdBits : 2 ^ t = 2 ^ k => k = t
    BY <1>2, PowerInjective
  <2>3. t \in 0..IdBits
    BY <1>2, <1>3
  <2> QED
    BY <2>1, <2>2, <2>3 DEF TrailingZeros
<1> QED
  BY <1>1, <1>2, <1>3, <1>6, <1>7

-----------------------------------------------------------------------------
(* The operations on identifiers of cells *)

LEMMA FaceAt ==
  ASSUME NEW l \in CellLevels, NEW n \in Numbers(l)
  PROVE  /\ Id(l, n) \in Ids
         /\ Face(Id(l, n)) = n \div W(l)
         /\ Face(Id(l, n)) \in 0..(NumRootFaces - 1)
<1>1. 0 \in 0..l /\ l - 0 = l /\ MaxS2Level - 0 = MaxS2Level
  BY SentinelFacts, Sizes
<1>2. Id(l, n) \div (2 * W(MaxS2Level - 0)) = n \div W(l - 0)
  BY <1>1, Cut
<1>3. Face(Id(l, n)) = n \div W(l)
  BY <1>1, <1>2, FacePower DEF Face
<1>4. n \div W(l) \in 0..(NumRootFaces - 1) /\ Id(l, n) \in Nat
  BY NumberFacts
<1> DEFINE b == 2 * W(MaxS2Level)
           a == 2 ^ FaceBits
           id == Id(l, n)
<1>5. /\ b \in Nat \ {0} /\ a \in Nat \ {0} /\ 2 ^ IdBits = a * b /\ NumRootFaces <= a
      /\ id \in Nat /\ id \div b = n \div W(l)
  BY <1>1, <1>2, <1>4, FacePower, Sizes
<1>6. id \div b < a
  <2> DEFINE q == n \div W(l)
  <2>1. q \in 0..(NumRootFaces - 1)
    BY <1>4
  <2> HIDE DEF q, a, b, id
  <2> QED
    BY <1>5, <2>1, Sizes DEF q
<1>7. id \in 0..(2 ^ IdBits - 1)
  <2> HIDE DEF a, b, id
  <2>1. id < a * b /\ a * b \in Nat
    BY <1>5, <1>6, QuotientBelow
  <2>2. id \in 0..(a * b - 1)
    BY <1>5, <2>1
  <2> QED
    BY <1>5, <2>2
<1> QED
  BY <1>3, <1>4, <1>7 DEF Ids

LEMMA IdFacts ==
  ASSUME NEW l \in CellLevels, NEW n \in Numbers(l)
  PROVE  /\ Id(l, n) # 0 /\ Id(l, n) \in Ids /\ Id(l, n) \in Nat
         /\ LowestBit(Id(l, n)) = W(MaxS2Level - l)
         /\ ValidId(Id(l, n))
         /\ Level(Id(l, n)) = l
<1> DEFINE t == 2 * (MaxS2Level - l)
           id == Id(l, n)
<1>1. l \in Nat /\ MaxS2Level - l \in Nat /\ t \in Nat
  BY SentinelFacts
<1>2. id = (2 * n + 1) * 2 ^ t /\ n \in Nat /\ id \in Ids
  BY FaceAt, NumberFacts DEF Id, W
<1>3. id # 0 /\ LowestBit(id) = 2 ^ t /\ TrailingZeros(2 ^ t) = t
  BY <1>1, <1>2, LowestBitIs
<1>4. TrailingZeros(LowestBit(id)) = t
  BY <1>3
<1>5. t <= MaxS2Bits /\ t % 2 = 0 /\ MaxS2Bits - t = 2 * l
  BY <1>1, Sizes
<1>6. Face(id) < NumRootFaces
  BY FaceAt, Sizes
<1>7. ValidId(id)
  BY <1>3, <1>4, <1>5, <1>6 DEF ValidId
<1>8. (2 * l) \div 2 = l
  BY <1>1
<1>9. Level(id) = l
  BY <1>4, <1>5, <1>8, Sizes DEF Level
<1> QED
  BY <1>2, <1>3, <1>7, <1>9, NumberFacts DEF W

\* try_get_level succeeds exactly on the cells.
LEMMA ValidIsCell ==
  ASSUME NEW id \in Ids
  PROVE  ValidId(id) <=> \E l \in CellLevels : \E n \in Numbers(l) : id = Id(l, n)
<1>1. ASSUME ValidId(id)
      PROVE  \E l \in CellLevels : \E n \in Numbers(l) : id = Id(l, n)
  <2>1. id \in Nat \ {0}
    <3> DEFINE b == 2 ^ IdBits
    <3>1. b \in Nat \ {0} /\ id \in 0..(b - 1)
      BY FacePower DEF Ids
    <3> HIDE DEF b
    <3>2. id \in Nat
      BY <3>1
    <3> QED
      BY <1>1, <3>2 DEF ValidId
  <2>2. PICK t \in Nat, q \in Nat : id = (2 * q + 1) * 2 ^ t
    BY <2>1, OddPart
  <2>3. TrailingZeros(LowestBit(id)) = t
    BY <2>2, LowestBitIs
  <2>4. t <= MaxS2Bits /\ t % 2 = 0 /\ Face(id) < NumRootFaces
    BY <1>1, <2>3 DEF ValidId
  <2> DEFINE j == t \div 2
             l == MaxS2Level - j
  <2>5. j \in Nat /\ t = 2 * j /\ l \in CellLevels /\ MaxS2Level - l = j /\ l \in Nat
        /\ MaxS2Level = j + l
    <3>1. j \in Nat /\ t = 2 * j
      BY <2>4
    <3> HIDE DEF j
    <3> QED
      BY <2>4, <3>1, Sizes DEF CellLevels
  <2> HIDE DEF j, l
  <2>6. id = Id(l, q)
    BY <2>2, <2>5 DEF Id, W
  <2>7. q \in Numbers(l)
    <3> DEFINE v == W(j)
               w == W(l)
    <3>1. v \in Nat \ {0} /\ w \in Nat \ {0} /\ W(MaxS2Level) = v * w
      BY <2>5, WNat, WSum, Zenon
    <3>2. id = (2 * q + 1) * v /\ 2 ^ FaceShift = 2 * (v * w)
      BY <2>5, <2>6, <3>1, FacePower DEF Id
    <3> HIDE DEF v, w
    <3>3. 2 * (v * w) = v * (2 * w) /\ 2 * w \in Nat \ {0} /\ 2 * q + 1 \in Nat
      BY <3>1
    <3>4. id \div (v * (2 * w)) = (2 * q + 1) \div (2 * w)
      BY <3>1, <3>2, <3>3, QuotientCancels
    <3>5. (2 * q + 1) \div (2 * w) < NumRootFaces
      BY <2>4, <3>2, <3>3, <3>4 DEF Face
    <3>6. 2 * q + 1 < NumRootFaces * (2 * w)
      BY <3>3, <3>5, Sizes, QuotientBelow
    <3> DEFINE b == NumRootFaces * w
    <3>7. b \in Nat /\ NumRootFaces * (2 * w) = 2 * b
      BY <3>1, Sizes
    <3> HIDE DEF b
    <3>8. q \in 0..(b - 1)
      BY <3>6, <3>7
    <3> QED
      BY <3>8 DEF Numbers, b, w
  <2> QED
    BY <2>5, <2>6, <2>7
<1>2. ASSUME NEW l \in CellLevels, NEW n \in Numbers(l), id = Id(l, n) PROVE ValidId(id)
  BY <1>2, IdFacts
<1> QED
  BY <1>1, <1>2

LEMMA IdUnique ==
  ASSUME NEW l \in CellLevels, NEW n \in Numbers(l),
         NEW k \in CellLevels, NEW m \in Numbers(k), Id(l, n) = Id(k, m)
  PROVE  l = k /\ n = m
<1>1. l = k
  BY IdFacts
<1>2. l \in 0..l /\ l - l = 0 /\ n \in Nat /\ m \in Nat
  BY NumberFacts, SentinelFacts
<1>3. Id(l, n) \div (2 * W(MaxS2Level - l)) = n \div W(l - l)
  BY <1>2, Cut
<1>4. Id(l, m) \div (2 * W(MaxS2Level - l)) = m \div W(l - l)
  BY <1>1, <1>2, Cut
<1>5. n \div W(0) = n /\ m \div W(0) = m
  BY <1>2, QuotientByOne
<1> QED
  BY <1>1, <1>2, <1>3, <1>4, <1>5

\* get_ancestor drops low digits.
LEMMA AncestorIs ==
  ASSUME NEW l \in CellLevels, NEW n \in Numbers(l), NEW k \in 0..l
  PROVE  /\ Ancestor(Id(l, n), k) = Id(k, n \div W(l - k))
         /\ k \in CellLevels /\ n \div W(l - k) \in Numbers(k)
<1>1. /\ k \in CellLevels /\ n \div W(l - k) \in Numbers(k)
      /\ Id(l, n) \div (2 * W(MaxS2Level - k)) = n \div W(l - k)
  BY Cut
<1> DEFINE q == n \div W(l - k)
           w == W(MaxS2Level - k)
<1>2. Ancestor(Id(l, n), k) = q * (2 * w) + w
  BY <1>1, SentinelFacts DEF Ancestor
<1>3. q \in Nat /\ w \in Nat
  BY <1>1, NumberFacts
<1>4. q * (2 * w) + w = (2 * q + 1) * w
  <2> HIDE DEF q, w
  <2> QED
    BY <1>3
<1> QED
  BY <1>1, <1>2, <1>4 DEF Id

\* child_index and child_position: the digit below a level.
LEMMA ChildIndexIs ==
  ASSUME NEW l \in CellLevels, NEW n \in Numbers(l), NEW k \in 0..(l - 1)
  PROVE  /\ ChildIndex(Id(l, n), k) = (n \div W(l - (k + 1))) % 4
         /\ k + 1 \in 0..l /\ k \in 0..l /\ k \in Nat
<1>1. /\ k \in CellLevels /\ k + 1 \in 0..l /\ k \in 0..l /\ k \in Nat
      /\ k + 1 \in CellLevels
  BY SentinelFacts, Sizes DEF CellLevels
<1>2. Id(l, n) \div (2 * W(MaxS2Level - (k + 1))) = n \div W(l - (k + 1))
  BY <1>1, Cut
<1>3. /\ Sentinel(k) - 1 = Sentinel(k + 1) + 1
      /\ 2 ^ (Sentinel(k + 1) + 1) = 2 * W(MaxS2Level - (k + 1))
  <2>1. /\ Sentinel(k + 1) = 2 * (MaxS2Level - (k + 1))
        /\ 2 ^ (Sentinel(k + 1) + 1) = 2 * W(MaxS2Level - (k + 1))
    BY <1>1, SentinelFacts
  <2>2. Sentinel(k) = 2 * (MaxS2Level - k) /\ MaxS2Level \in Nat
    BY <1>1, SentinelFacts, Sizes
  <2> QED
    BY <1>1, <2>1, <2>2
<1> QED
  BY <1>1, <1>2, <1>3 DEF ChildIndex

LEMMA ChildIdIs ==
  ASSUME NEW l \in CellLevels, NEW n \in Nat, l < MaxS2Level, NEW c \in 0..3
  PROVE  ChildId(Id(l, n), l, c) = Id(l + 1, 4 * n + c)
<1>1. l + 1 \in CellLevels /\ MaxS2Level - l = (MaxS2Level - (l + 1)) + 1
      /\ MaxS2Level - (l + 1) \in Nat
  BY Sizes DEF CellLevels
<1> DEFINE v == W(MaxS2Level - (l + 1))
<1>2. W(MaxS2Level - l) = 4 * v /\ v \in Nat
  BY <1>1, WNext
<1>3. /\ 2 ^ Sentinel(l) = 4 * v
      /\ Sentinel(l) - 1 = Sentinel(l + 1) + 1 /\ Sentinel(l) - 2 = Sentinel(l + 1)
      /\ 2 ^ Sentinel(l + 1) = v /\ 2 ^ (Sentinel(l + 1) + 1) = 2 * v
  BY <1>1, <1>2, SentinelFacts
<1>4. Id(l, n) = (2 * n + 1) * (4 * v)
  BY <1>2 DEF Id
<1>5. ChildId(Id(l, n), l, c) = ((2 * n + 1) * (4 * v) - 4 * v) + c * (2 * v) + v
  BY <1>3, <1>4 DEF ChildId
<1>6. ((2 * n + 1) * (4 * v) - 4 * v) + c * (2 * v) + v = (2 * (4 * n + c) + 1) * v
  <2> HIDE DEF v
  <2>1. c \in Nat
    OBVIOUS
  <2> DEFINE x == n * v
             y == c * v
  <2>2. /\ (2 * n + 1) * (4 * v) = 8 * x + 4 * v /\ c * (2 * v) = 2 * y
        /\ (2 * (4 * n + c) + 1) * v = 8 * x + 2 * y + v
        /\ x \in Nat /\ y \in Nat
    BY <1>2, <2>1
  <2> HIDE DEF x, y
  <2> QED
    BY <1>2, <2>2
<1> QED
  BY <1>5, <1>6 DEF Id

\* A compact identifier keeps all of a cell of a database level.
LEMMA CompactIs ==
  ASSUME NEW l \in CellLevels, NEW n \in Nat, l <= MaxDatabaseLevel
  PROVE  Expanded(Compact(Id(l, n))) = Id(l, n)
<1>1. /\ MaxDatabaseLevel - l \in Nat /\ MaxS2Level - MaxDatabaseLevel \in Nat
      /\ MaxS2Level - l = (MaxDatabaseLevel - l) + (MaxS2Level - MaxDatabaseLevel)
  BY Sizes DEF CellLevels
<1> DEFINE v == W(MaxDatabaseLevel - l)
           w == W(MaxS2Level - MaxDatabaseLevel)
           o == 2 * n + 1
<1>2. v \in Nat \ {0} /\ w \in Nat \ {0} /\ W(MaxS2Level - l) = v * w /\ o \in Nat
  BY <1>1, WNat, WSum
<1>3. Id(l, n) = o * (v * w) /\ 2 ^ ShiftCompact = w
  BY <1>2, Sizes DEF Id, W
<1> HIDE DEF v, w, o
<1>4. o * (v * w) = (o * v) * w /\ o * v \in Nat
  BY <1>2
<1>5. ((o * v) * w) \div w = o * v
  BY <1>2, <1>4, QuotientOfProduct
<1> QED
  BY <1>3, <1>4, <1>5 DEF Compact, Expanded

\* Where the range of a cell begins and ends, in cells of the deepest level.
Lo(l, n) == n * W(MaxS2Level - l)
Hi(l, n) == (n + 1) * W(MaxS2Level - l)

LEMMA RangeIs ==
  ASSUME NEW l \in CellLevels, NEW n \in Numbers(l)
  PROVE  /\ Lo(l, n) \in Nat /\ Hi(l, n) \in Nat /\ Lo(l, n) < Hi(l, n)
         /\ Id(l, n) = Lo(l, n) + Hi(l, n)
         /\ RangeStart(Id(l, n)) = 2 * Lo(l, n) + 1
         /\ RangeEnd(Id(l, n)) = 2 * Hi(l, n) - 1
<1> DEFINE w == W(MaxS2Level - l)
           x == n * w
<1>1. w \in Nat \ {0} /\ n \in Nat /\ LowestBit(Id(l, n)) = w
  BY NumberFacts, IdFacts
<1>2. /\ x \in Nat /\ Lo(l, n) = x /\ Hi(l, n) = x + w /\ Id(l, n) = 2 * x + w
  <2>1. Lo(l, n) = n * w /\ Hi(l, n) = (n + 1) * w /\ Id(l, n) = (2 * n + 1) * w
    BY DEF Lo, Hi, Id
  <2> HIDE DEF w
  <2>2. n * w \in Nat /\ (n + 1) * w = n * w + w /\ (2 * n + 1) * w = 2 * (n * w) + w
    BY <1>1
  <2> QED
    BY <2>1, <2>2
<1>3. /\ RangeStart(Id(l, n)) = Id(l, n) - (w - 1)
      /\ RangeEnd(Id(l, n)) = Id(l, n) + (w - 1)
  BY <1>1 DEF RangeStart, RangeEnd, RangeRadius
<1> HIDE DEF w, x
<1> QED
  BY <1>1, <1>2, <1>3

\* create_level_30_descendant: a cell of the deepest level below the leaf.
LEMMA DescendantIs ==
  ASSUME NEW l \in CellLevels, NEW n \in Numbers(l), NEW r \in Nat
  PROVE  \E m \in Numbers(MaxS2Level) :
           /\ DeepestDescendant(Id(l, n), r) = Id(MaxS2Level, m)
           /\ m \div W(MaxS2Level - l) = n
<1> DEFINE w == W(MaxS2Level - l)
           s == r % w
           m == n * w + s
<1>1. /\ w \in Nat \ {0} /\ n \in Nat /\ LowestBit(Id(l, n)) = w
      /\ Id(l, n) = (2 * n + 1) * w
      /\ MaxS2Level \in CellLevels /\ MaxS2Level - MaxS2Level = 0
  BY NumberFacts, IdFacts, Sizes DEF Id, CellLevels
<1>2. s \in 0..(w - 1)
  <2> HIDE DEF w
  <2> QED
    BY <1>1, Remainder
<1>3. DeepestDescendant(Id(l, n), r) = ((2 * n + 1) * w - w + 1) + s * 2
  BY <1>1 DEF DeepestDescendant
<1>4. ((2 * n + 1) * w - w + 1) + s * 2 = (2 * m + 1) * 1 /\ m \in Nat /\ s \in Nat /\ s < w
  <2> HIDE DEF w, s
  <2>1. (2 * n + 1) * w = 2 * (n * w) + w /\ n * w \in Nat
    BY <1>1
  <2> DEFINE x == n * w
  <2>2. x \in Nat /\ (2 * n + 1) * w = 2 * x + w /\ m = x + s
    BY <2>1
  <2> HIDE DEF x, m
  <2> QED
    BY <1>1, <1>2, <2>2
<1>5. DeepestDescendant(Id(l, n), r) = Id(MaxS2Level, m)
  BY <1>1, <1>3, <1>4, WZero DEF Id
<1>6. m \div w = n
  <2> HIDE DEF w, s
  <2> QED
    BY <1>1, <1>4, QuotientOfSum
<1>7. m \in Numbers(MaxS2Level)
  <2>1. l \in Nat /\ MaxS2Level - l \in Nat /\ MaxS2Level = l + (MaxS2Level - l)
    BY SentinelFacts, Sizes
  <2>2. W(MaxS2Level) = W(l) * w
    BY <2>1, WSum
  <2> DEFINE b == NumRootFaces * W(l)
  <2>3. b \in Nat /\ n < b /\ W(l) \in Nat
    BY NumberFacts
  <2>4. m < b * w /\ b * w \in Nat
    <3> HIDE DEF w, s, m, b
    <3> QED
      BY <1>1, <1>4, <1>6, <2>3, QuotientBelow
  <2>5. NumRootFaces * (W(l) * w) = b * w
    <3> DEFINE u == W(l)
    <3> HIDE DEF w, u
    <3> QED
      BY <1>1, <2>3, Sizes DEF u
  <2> DEFINE c == b * w
  <2> HIDE DEF b
  <2>6. c \in Nat /\ m < c
    BY <2>4
  <2> HIDE DEF c, m
  <2>7. m \in 0..(c - 1)
    BY <1>4, <2>6
  <2> QED
    BY <2>2, <2>5, <2>7 DEF Numbers, b, c
<1> QED
  BY <1>5, <1>6, <1>7

-----------------------------------------------------------------------------
(* Cells by their paths *)

\* The path that leads to the n-th cell of a level: the digits of n.
PathAt(l, n) ==
  [k \in 1..(l + 1) |-> IF k = 1 THEN n \div W(l) ELSE (n \div W(l + 1 - k)) % 4]

LEMMA PathShape ==
  ASSUME NEW l \in CellLevels, NEW n \in Numbers(l)
  PROVE  /\ PathAt(l, n) \in Seq(Nat) /\ PathAt(l, n) \in Seq(Int)
         /\ Len(PathAt(l, n)) = l + 1 /\ DOMAIN PathAt(l, n) = 1..(l + 1)
         /\ PathAt(l, n)[1] = n \div W(l) /\ n \div W(l) \in 0..(NumRootFaces - 1)
         /\ \A k \in 2..(l + 1) : /\ PathAt(l, n)[k] = (n \div W(l + 1 - k)) % 4
                                  /\ PathAt(l, n)[k] \in 0..3
<1>1. l \in Nat /\ n \in Nat /\ n \div W(l) \in 0..(NumRootFaces - 1) /\ l + 1 \in Nat
  BY NumberFacts, SentinelFacts
<1>2. ASSUME NEW k \in 2..(l + 1) PROVE (n \div W(l + 1 - k)) % 4 \in 0..3
  <2>1. l + 1 - k \in Nat
    BY <1>1
  <2> QED
    BY <1>1, <2>1, DigitStep
<1>3. n \div W(l) \in Nat
  <2> DEFINE q == n \div W(l)
  <2>1. q \in 0..(NumRootFaces - 1)
    BY <1>1
  <2> HIDE DEF q
  <2>2. q \in Nat
    BY <2>1, Sizes
  <2> QED
    BY <2>2 DEF q
<1>4. \A k \in 1..(l + 1) : PathAt(l, n)[k] \in Nat
  <2>1. TAKE k \in 1..(l + 1)
  <2>2. CASE k = 1
    BY <1>3, <2>2 DEF PathAt
  <2>3. CASE k # 1
    <3>1. k \in 2..(l + 1)
      BY <1>1, <2>3
    <3>2. (n \div W(l + 1 - k)) % 4 \in Nat
      BY <1>2, <3>1
    <3> QED
      BY <2>3, <3>2 DEF PathAt
  <2> QED
    BY <2>2, <2>3
<1>5. PathAt(l, n) = [k \in 1..(l + 1) |-> PathAt(l, n)[k]]
  BY DEF PathAt
<1> DEFINE p == PathAt(l, n)
<1>6. p \in [1..(l + 1) -> Nat]
  BY <1>4, <1>5
<1>7. p \in Seq(Nat) /\ Len(p) = l + 1 /\ DOMAIN p = 1..(l + 1) /\ p \in Seq(Int)
  <2> HIDE DEF p
  <2> QED
    BY <1>1, <1>6
<1>8. PathAt(l, n)[1] = n \div W(l)
  BY <1>1 DEF PathAt
<1>9. \A k \in 2..(l + 1) : PathAt(l, n)[k] = (n \div W(l + 1 - k)) % 4
  BY <1>1 DEF PathAt
<1> QED
  BY <1>1, <1>2, <1>7, <1>8, <1>9

\* What the digits of a path up to each place make, most significant first.
Positions(path, s) ==
  s = [k \in 0..Len(path) |-> IF k = 0 THEN 0 ELSE 4 * s[k - 1] + path[k]]

LEMMA PositionsAgree ==
  ASSUME NEW path, Len(path) \in Nat, NEW s, NEW t, Positions(path, s), Positions(path, t),
         NEW k \in 0..Len(path)
  PROVE  s[k] = t[k]
<1> DEFINE Wrong == {i \in 0..Len(path) : s[i] # t[i]}
<1>1. SUFFICES ASSUME Wrong # {} PROVE FALSE
  OBVIOUS
<1>2. PICK i \in Wrong : \A y \in Wrong : i <= y
  <2>1. Wrong \subseteq Nat
    OBVIOUS
  <2> HIDE DEF Wrong
  <2> QED
    BY <1>1, <2>1, LeastNatural
<1>3. i \in 0..Len(path) /\ s[i] # t[i]
  OBVIOUS
<1>4. s[i] = (IF i = 0 THEN 0 ELSE 4 * s[i - 1] + path[i])
  BY <1>3 DEF Positions
<1>5. t[i] = (IF i = 0 THEN 0 ELSE 4 * t[i - 1] + path[i])
  BY <1>3 DEF Positions
<1>6. i # 0
  BY <1>3, <1>4, <1>5
<1>7. i - 1 \in 0..Len(path) /\ ~ (i <= i - 1)
  BY <1>3, <1>6
<1>8. s[i - 1] = t[i - 1]
  <2>1. i - 1 \notin Wrong
    <3> HIDE DEF Wrong
    <3> QED
      BY <1>2, <1>7
  <2> QED
    BY <1>7, <2>1
<1> QED
  BY <1>3, <1>4, <1>5, <1>6, <1>8

\* The S2 numbering of the path is the identifier of its number.
LEMMA PathIdentifier ==
  ASSUME NEW l \in CellLevels, NEW n \in Numbers(l)
  PROVE  IdOf(PathAt(l, n)) = Id(l, n)
<1> DEFINE p == PathAt(l, n)
           h == [k \in 0..(l + 1) |-> IF k = 0 THEN 0 ELSE n \div W(l + 1 - k)]
           s == CHOOSE t : Positions(p, t)
<1>1. l \in Nat /\ n \in Nat /\ l + 1 \in Nat /\ Len(p) = l + 1
  BY PathShape, NumberFacts, SentinelFacts
<1>2. \A k \in 0..(l + 1) : h[k] = IF k = 0 THEN 0 ELSE 4 * h[k - 1] + p[k]
  <2>1. TAKE k \in 0..(l + 1)
  <2>2. CASE k = 0
    BY <2>2
  <2>3. CASE k = 1
    <3>1. h[1] = n \div W(l) /\ h[0] = 0 /\ p[1] = n \div W(l)
      <4>1. l + 1 - 1 = l /\ 1 \in 0..(l + 1) /\ 0 \in 0..(l + 1) /\ 1 # 0
        BY <1>1
      <4> QED
        BY <4>1, PathShape
    <3>2. n \div W(l) \in Nat
      <4>1. W(l) \in Nat \ {0}
        BY <1>1, WNat
      <4> QED
        BY <1>1, <4>1, Quotient
    <3> DEFINE q == n \div W(l)
    <3>3. q = 4 * 0 + q
      <4> HIDE DEF q
      <4>1. q \in Nat
        BY <3>2 DEF q
      <4> QED
        BY <4>1
    <3> HIDE DEF h, p, q
    <3> QED
      BY <2>3, <3>1, <3>3 DEF q
  <2>4. CASE k > 1
    <3>1. /\ k \in 2..(l + 1) /\ k - 1 \in 0..(l + 1) /\ k # 0 /\ k - 1 # 0
          /\ l + 1 - k \in Nat /\ l + 1 - (k - 1) = (l + 1 - k) + 1
      BY <1>1, <2>4
    <3>2. h[k] = n \div W(l + 1 - k) /\ h[k - 1] = n \div W((l + 1 - k) + 1)
      BY <3>1
    <3>3. p[k] = (n \div W(l + 1 - k)) % 4
      BY <3>1, PathShape
    <3>4. n \div W(l + 1 - k)
            = 4 * (n \div W((l + 1 - k) + 1)) + ((n \div W(l + 1 - k)) % 4)
      BY <1>1, <3>1, DigitStep
    <3> HIDE DEF h, p
    <3> QED
      BY <3>1, <3>2, <3>3, <3>4
  <2> QED
    BY <2>2, <2>3, <2>4
<1>3. Positions(p, h)
  <2>1. h = [k \in 0..(l + 1) |-> h[k]]
    OBVIOUS
  <2> HIDE DEF h, p
  <2> QED
    BY <1>1, <1>2, <2>1 DEF Positions
<1>4. Positions(p, s)
  BY <1>3
<1>5. s[l + 1] = n
  <2>1. l + 1 \in 0..Len(p)
    BY <1>1
  <2>2. s[l + 1] = h[l + 1]
    <3> HIDE DEF s, h, p
    <3> QED
      BY <1>1, <1>3, <1>4, <2>1, PositionsAgree
  <2>3. h[l + 1] = n \div W(l + 1 - (l + 1)) /\ l + 1 - (l + 1) = 0
    BY <1>1
  <2> HIDE DEF h
  <2> QED
    BY <1>1, <2>2, <2>3, QuotientByOne
<1>6. IdOf(p) = (2 * s[Len(p)] + 1) * 2 ^ Sentinel(Len(p) - 1)
  BY DEF IdOf, Positions
<1>7. Len(p) - 1 = l
  BY <1>1
<1> HIDE DEF s, p
<1>8. IdOf(p) = (2 * n + 1) * 2 ^ Sentinel(l)
  BY <1>1, <1>5, <1>6, <1>7
<1> QED
  BY <1>8, SentinelFacts DEF Id, p

LEMMA PathInjective ==
  ASSUME NEW l \in CellLevels, NEW n \in Numbers(l),
         NEW k \in CellLevels, NEW m \in Numbers(k), PathAt(l, n) = PathAt(k, m)
  PROVE  l = k /\ n = m
<1>1. Id(l, n) = Id(k, m)
  BY PathIdentifier
<1> QED
  BY <1>1, IdUnique

\* The first digits are those of the number without its last.
LEMMA PrefixAt ==
  ASSUME NEW l \in CellLevels, NEW n \in Numbers(l), NEW k \in 0..l
  PROVE  SubSeq(PathAt(l, n), 1, k + 1) = PathAt(k, n \div W(l - k))
<1>1. /\ k \in CellLevels /\ n \div W(l - k) \in Numbers(k) /\ k \in Nat /\ l \in Nat
      /\ n \in Nat /\ l - k \in Nat /\ k + 1 <= l + 1
  BY Cut, SentinelFacts, NumberFacts
<1> DEFINE p == PathAt(l, n)
           m == n \div W(l - k)
           q == PathAt(k, m)
<1>2. /\ p \in Seq(Nat) /\ Len(p) = l + 1 /\ p[1] = n \div W(l)
      /\ \A i \in 2..(l + 1) : p[i] = (n \div W(l + 1 - i)) % 4
  BY PathShape
<1>3. /\ q \in Seq(Nat) /\ Len(q) = k + 1 /\ q[1] = m \div W(k)
      /\ \A i \in 2..(k + 1) : q[i] = (m \div W(k + 1 - i)) % 4
  BY <1>1, PathShape
<1>4. \A i \in 1..(k + 1) : q[i] = p[i]
  <2>1. TAKE i \in 1..(k + 1)
  <2>2. CASE i = 1
    <3>1. m \div W(k) = n \div W((l - k) + k) /\ (l - k) + k = l
      BY <1>1, QuotientByFours
    <3> QED
      BY <1>2, <1>3, <2>2, <3>1
  <2>3. CASE i # 1
    <3>1. i \in 2..(k + 1) /\ i \in 2..(l + 1) /\ k + 1 - i \in Nat
          /\ (l - k) + (k + 1 - i) = l + 1 - i
      BY <1>1, <2>3
    <3>2. m \div W(k + 1 - i) = n \div W((l - k) + (k + 1 - i))
      BY <1>1, <3>1, QuotientByFours
    <3> HIDE DEF m
    <3> QED
      BY <1>2, <1>3, <3>1, <3>2
  <2> QED
    BY <2>2, <2>3
<1> HIDE DEF p, q, m
<1>5. SubSeq(p, 1, k + 1) = [i \in 1..(k + 1) |-> p[i]]
  BY <1>1, <1>2
<1>6. q = [i \in 1..(k + 1) |-> q[i]]
  BY <1>1, <1>3
<1>7. SubSeq(p, 1, k + 1) = q
  BY <1>4, <1>5, <1>6
<1> QED
  BY <1>7 DEF p, q, m

LEMMA ChildNumber ==
  ASSUME NEW l \in CellLevels, NEW n \in Numbers(l), l < MaxS2Level, NEW c \in 0..3
  PROVE  /\ l + 1 \in CellLevels /\ 4 * n + c \in Numbers(l + 1)
         /\ (4 * n + c) \div W(1) = n /\ (4 * n + c) % 4 = c
<1>1. l \in Nat /\ l + 1 \in CellLevels
  BY Sizes DEF CellLevels
<1>2. n \in Nat /\ n < NumRootFaces * W(l) /\ NumRootFaces * W(l) \in Nat /\ W(l) \in Nat
  BY NumberFacts
<1>3. W(l + 1) = 4 * W(l)
  BY <1>1, WNext
<1>4. W(1) = 4
  <2>1. W(0 + 1) = 4 * W(0)
    BY WNext
  <2> QED
    BY <2>1, WZero
<1> DEFINE w == W(l)
           b == NumRootFaces * w
<1>5. NumRootFaces * (4 * w) = 4 * b /\ b \in Nat /\ n < b
  BY <1>2, Sizes
<1> HIDE DEF w, b
<1>6. 4 * n + c \in 0..(4 * b - 1)
  BY <1>2, <1>5
<1>7. 4 * n + c \in Numbers(l + 1)
  BY <1>3, <1>5, <1>6 DEF Numbers, w, b
<1>8. (4 * n + c) \div 4 = n /\ (4 * n + c) % 4 = c
  BY <1>2
<1> QED
  BY <1>1, <1>4, <1>7, <1>8

LEMMA JoinedPath ==
  ASSUME NEW l \in Nat, NEW f \in Nat, NEW steps \in [1..l -> 0..3]
  PROVE  /\ <<f>> \o steps \in Seq(Nat) /\ Len(<<f>> \o steps) = l + 1
         /\ (<<f>> \o steps)[1] = f
         /\ \A k \in 2..(l + 1) : (<<f>> \o steps)[k] = steps[k - 1]
<1>1. steps \in Seq(0..3) /\ Len(steps) = l
  OBVIOUS
<1>2. <<f>> \in Seq(Nat) /\ Len(<<f>>) = 1 /\ <<f>>[1] = f /\ steps \in Seq(Nat)
  <2>1. \A i \in 1..l : steps[i] \in Nat
    OBVIOUS
  <2> QED
    BY <2>1
<1> DEFINE a == <<f>>
<1> HIDE DEF a
<1>3. /\ a \o steps \in Seq(Nat) /\ Len(a \o steps) = l + 1
      /\ (a \o steps)[1] = a[1]
      /\ \A k \in 2..(l + 1) : (a \o steps)[k] = steps[k - 1]
  BY <1>1, <1>2 DEF a
<1> QED
  BY <1>2, <1>3 DEF a

LEMMA PathsOfIs ==
  ASSUME NEW l
  PROVE  /\ \A p \in PathsOf(l) : \E f \in 0..(NumRootFaces - 1), steps \in [1..l -> 0..3] :
              p = <<f>> \o steps
         /\ \A f \in 0..(NumRootFaces - 1), steps \in [1..l -> 0..3] :
              <<f>> \o steps \in PathsOf(l)
<1>1. ASSUME NEW p \in PathsOf(l)
      PROVE  \E f \in 0..(NumRootFaces - 1), steps \in [1..l -> 0..3] : p = <<f>> \o steps
  BY DEF PathsOf
<1>2. ASSUME NEW f \in 0..(NumRootFaces - 1), NEW steps \in [1..l -> 0..3]
      PROVE  <<f>> \o steps \in PathsOf(l)
  <2>1. <<f>> \o steps \in {<<f>> \o s : s \in [1..l -> 0..3]}
    OBVIOUS
  <2> QED
    BY <2>1, ZenonT(60) DEF PathsOf
<1> QED
  BY <1>1, <1>2

LEMMA NumberedPath ==
  ASSUME NEW l \in CellLevels, NEW p \in PathsOf(l)
  PROVE  \E n \in Numbers(l) : p = PathAt(l, n)
<1> DEFINE Missing == {k \in CellLevels : \E q \in PathsOf(k) : \A n \in Numbers(k) : q # PathAt(k, n)}
<1>1. SUFFICES ASSUME Missing # {} PROVE FALSE
  OBVIOUS
<1>2. PICK k \in Missing : \A y \in Missing : k <= y
  <2>1. Missing \subseteq Nat
    BY SentinelFacts
  <2> HIDE DEF Missing
  <2> QED
    BY <1>1, <2>1, LeastNatural
<1>3. k \in CellLevels /\ k \in Nat
  BY SentinelFacts
<1>4. PICK q \in PathsOf(k) : \A n \in Numbers(k) : q # PathAt(k, n)
  OBVIOUS
<1>5. PICK f \in 0..(NumRootFaces - 1), steps \in [1..k -> 0..3] : q = <<f>> \o steps
  BY PathsOfIs
<1>6. f \in Nat /\ f < NumRootFaces
  BY Sizes
<1>7. /\ q \in Seq(Nat) /\ Len(q) = k + 1 /\ q[1] = f
      /\ \A i \in 2..(k + 1) : q[i] = steps[i - 1]
  BY <1>3, <1>5, <1>6, JoinedPath
<1>8. CASE k = 0
  <2>1. f \in Numbers(0) /\ 0 \in CellLevels
    BY <1>6, Sizes, WZero DEF Numbers, CellLevels
  <2> DEFINE p0 == PathAt(0, f)
  <2>2. p0 \in Seq(Nat) /\ Len(p0) = 1 /\ p0[1] = f
    <3>1. /\ PathAt(0, f) \in Seq(Nat) /\ Len(PathAt(0, f)) = 0 + 1
          /\ PathAt(0, f)[1] = f \div W(0)
      BY <2>1, PathShape
    <3> QED
      BY <1>6, <3>1, QuotientByOne
  <2> HIDE DEF p0
  <2>3. q = p0
    BY <1>7, <1>8, <2>2
  <2> QED
    BY <1>4, <1>8, <2>1, <2>3 DEF p0
<1>9. CASE k # 0
  <2>1. /\ k - 1 \in CellLevels /\ k - 1 \in Nat /\ ~ (k <= k - 1) /\ (k - 1) + 1 = k
        /\ k - 1 < MaxS2Level
    BY <1>3, <1>9, Sizes DEF CellLevels
  <2> DEFINE t == [i \in 1..(k - 1) |-> steps[i]]
             r == <<f>> \o t
             c == steps[k]
  <2>2. t \in [1..(k - 1) -> 0..3] /\ c \in 0..3
    BY <2>1
  <2>3. r \in PathsOf(k - 1)
    <3> HIDE DEF t
    <3> QED
      BY <2>2, PathsOfIs
  <2>4. /\ r \in Seq(Nat) /\ Len(r) = (k - 1) + 1 /\ r[1] = f
        /\ \A i \in 2..((k - 1) + 1) : r[i] = t[i - 1]
    <3> DEFINE j == k - 1
    <3>1. j \in Nat /\ t \in [1..j -> 0..3]
      BY <2>1, <2>2
    <3> HIDE DEF j, t
    <3>2. /\ r \in Seq(Nat) /\ Len(r) = j + 1 /\ r[1] = f
          /\ \A i \in 2..(j + 1) : r[i] = t[i - 1]
      BY <1>6, <3>1, JoinedPath
    <3> QED
      BY <3>2 DEF j
  <2>5. PICK m \in Numbers(k - 1) : r = PathAt(k - 1, m)
    <3>1. k - 1 \notin Missing
      <4> HIDE DEF Missing
      <4> QED
        BY <1>2, <2>1
    <3> QED
      BY <2>1, <2>3, <3>1
  <2> DEFINE n == 4 * m + c
             p1 == PathAt(k, n)
  <2>6. n \in Numbers(k) /\ n \div W(1) = m /\ n % 4 = c
    BY <2>1, <2>2, ChildNumber
  <2>7. /\ p1 \in Seq(Nat) /\ Len(p1) = k + 1
        /\ p1[k + 1] = n % 4
    <3>1. k + 1 \in 2..(k + 1) /\ k + 1 - (k + 1) = 0
      BY <1>3, <1>9
    <3>2. p1[k + 1] = (n \div W(0)) % 4
      BY <1>3, <2>6, <3>1, PathShape
    <3>3. n \in Nat
      BY <1>3, <2>6, NumberFacts
    <3> QED
      BY <1>3, <2>6, <3>2, <3>3, PathShape, QuotientByOne
  <2>8. SubSeq(p1, 1, k) = r
    <3>1. k - 1 \in 0..k /\ (k - 1) + 1 = k /\ k - (k - 1) = 1
      BY <1>3, <2>1
    <3>2. SubSeq(PathAt(k, n), 1, (k - 1) + 1) = PathAt(k - 1, n \div W(k - (k - 1)))
      BY <1>3, <2>6, <3>1, PrefixAt
    <3> QED
      BY <2>5, <2>6, <3>1, <3>2
  <2>9. \A i \in 1..k : p1[i] = r[i]
    <3> HIDE DEF p1, r, n
    <3>1. SubSeq(p1, 1, k) = [i \in 1..k |-> p1[i]]
      BY <1>3, <2>7
    <3> QED
      BY <2>8, <3>1
  <2>10. \A i \in 1..(k + 1) : q[i] = p1[i]
    <3>1. TAKE i \in 1..(k + 1)
    <3>2. CASE i = 1
      <4>1. i \in 1..k
        BY <1>3, <1>9, <3>2
      <4> HIDE DEF p1, r
      <4> QED
        BY <1>7, <2>4, <2>9, <3>2, <4>1
    <3>3. CASE i \in 2..k
      <4>1. i \in 2..(k + 1) /\ i \in 1..k /\ i \in 2..((k - 1) + 1) /\ i - 1 \in 1..(k - 1)
        BY <1>3, <3>3
      <4>2. q[i] = steps[i - 1] /\ t[i - 1] = steps[i - 1]
        BY <1>7, <4>1
      <4> HIDE DEF p1, r, t
      <4> QED
        BY <2>4, <2>9, <4>1, <4>2
    <3>4. CASE i = k + 1
      <4>1. i \in 2..(k + 1) /\ i - 1 = k
        BY <1>3, <1>9, <3>4
      <4> HIDE DEF p1, n
      <4> QED
        BY <1>7, <2>6, <2>7, <3>4, <4>1
    <3> QED
      BY <1>3, <3>2, <3>3, <3>4
  <2>11. q = p1
    <3> HIDE DEF p1
    <3> QED
      BY <1>7, <2>7, <2>10
  <2> QED
    BY <1>4, <2>6, <2>11
<1> QED
  BY <1>8, <1>9

\* The paths are those of the numbers, and nothing else.
LEMMA PathsAre ==
  /\ \A l \in CellLevels : \A n \in Numbers(l) : PathAt(l, n) \in Paths
  /\ \A p \in Paths : \E l \in CellLevels : \E n \in Numbers(l) : p = PathAt(l, n)
<1>1. ASSUME NEW l \in CellLevels, NEW n \in Numbers(l) PROVE PathAt(l, n) \in Paths
  <2> DEFINE p == PathAt(l, n)
             f == n \div W(l)
             steps == [i \in 1..l |-> p[i + 1]]
             q == <<f>> \o steps
  <2>1. /\ p \in Seq(Nat) /\ Len(p) = l + 1 /\ p[1] = f /\ f \in 0..(NumRootFaces - 1)
        /\ \A k \in 2..(l + 1) : p[k] \in 0..3
        /\ l \in Nat
    BY PathShape, SentinelFacts
  <2>2. steps \in [1..l -> 0..3] /\ f \in Nat
    <3>1. f \in Nat
      <4> HIDE DEF f
      <4> QED
        BY <2>1, Sizes
    <3>2. \A i \in 1..l : i + 1 \in 2..(l + 1)
      BY <2>1
    <3> HIDE DEF p
    <3> QED
      BY <2>1, <3>1, <3>2
  <2>3. /\ q \in Seq(Nat) /\ Len(q) = l + 1 /\ q[1] = f
        /\ \A k \in 2..(l + 1) : q[k] = steps[k - 1]
    <3> HIDE DEF steps, f
    <3> QED
      BY <2>1, <2>2, JoinedPath
  <2>4. \A k \in 2..(l + 1) : q[k] = p[k]
    <3>1. TAKE k \in 2..(l + 1)
    <3>2. k - 1 \in 1..l /\ (k - 1) + 1 = k
      BY <2>1
    <3>3. steps[k - 1] = p[k]
      BY <3>2
    <3> HIDE DEF q, steps, p
    <3> QED
      BY <2>3, <3>3
  <2>5. \A k \in 1..(l + 1) : q[k] = p[k]
    <3> HIDE DEF q, p, f
    <3>1. \A k \in 1..(l + 1) : k = 1 \/ k \in 2..(l + 1)
      BY <2>1
    <3> QED
      BY <2>1, <2>3, <2>4, <3>1
  <2>6. p = q
    <3> HIDE DEF q, p
    <3> QED
      BY <2>1, <2>3, <2>5
  <2>7. q \in PathsOf(l)
    <3> HIDE DEF steps, f
    <3> QED
      BY <2>1, <2>2, PathsOfIs
  <2> HIDE DEF q, p
  <2> QED
    BY <2>6, <2>7 DEF Paths, CellLevels, p
<1>2. ASSUME NEW p \in Paths PROVE \E l \in CellLevels : \E n \in Numbers(l) : p = PathAt(l, n)
  <2>1. PICK l \in 0..MaxS2Level : p \in PathsOf(l)
    BY DEF Paths
  <2> QED
    BY <2>1, NumberedPath DEF CellLevels
<1> QED
  BY <1>1, <1>2

LEMMA CellIdsAre ==
  /\ \A l \in CellLevels : \A n \in Numbers(l) :
       Id(l, n) \in CellIds /\ PathOf[Id(l, n)] = PathAt(l, n)
  /\ \A id \in CellIds : \E l \in CellLevels : \E n \in Numbers(l) : id = Id(l, n)
<1>1. ASSUME NEW l \in CellLevels, NEW n \in Numbers(l)
      PROVE  Id(l, n) \in CellIds /\ PathOf[Id(l, n)] = PathAt(l, n)
  <2>1. PathAt(l, n) \in Paths /\ IdOf(PathAt(l, n)) = Id(l, n)
    BY PathsAre, PathIdentifier
  <2>2. Id(l, n) \in CellIds
    BY <2>1 DEF CellIds
  <2>3. PathOf[Id(l, n)] = CHOOSE p \in Paths : IdOf(p) = Id(l, n)
    BY <2>2 DEF PathOf
  <2> DEFINE p == CHOOSE p \in Paths : IdOf(p) = Id(l, n)
  <2>4. p \in Paths /\ IdOf(p) = Id(l, n)
    BY <2>1
  <2> HIDE DEF p
  <2>5. PICK k \in CellLevels : \E m \in Numbers(k) : p = PathAt(k, m)
    BY <2>4, PathsAre
  <2>6. PICK m \in Numbers(k) : p = PathAt(k, m)
    BY <2>5
  <2>7. Id(k, m) = Id(l, n)
    BY <2>4, <2>6, PathIdentifier
  <2>8. k = l /\ m = n
    BY <2>7, IdUnique
  <2> QED
    BY <2>2, <2>3, <2>6, <2>8 DEF p
<1>2. ASSUME NEW id \in CellIds
      PROVE  \E l \in CellLevels : \E n \in Numbers(l) : id = Id(l, n)
  <2>1. PICK p \in Paths : id = IdOf(p)
    BY DEF CellIds
  <2>2. PICK l \in CellLevels : \E n \in Numbers(l) : p = PathAt(l, n)
    BY PathsAre
  <2> QED
    BY <2>1, <2>2, PathIdentifier
<1> QED
  BY <1>1, <1>2

\* try_get_level accepts the identifiers of cells only, and all of them.
THEOREM ValidIdsAreCells ==
  ASSUME NEW id \in Ids
  PROVE  ValidId(id) <=> id \in CellIds
BY ValidIsCell, CellIdsAre

-----------------------------------------------------------------------------
(* Ancestors and order by numbers *)

LEMMA AncestorNumbers ==
  ASSUME NEW l \in CellLevels, NEW n \in Numbers(l), NEW k \in CellLevels, NEW m \in Numbers(k)
  PROVE  IsAncestor(PathAt(k, m), PathAt(l, n)) <=> k <= l /\ m = n \div W(l - k)
<1>1. /\ Len(PathAt(k, m)) = k + 1 /\ Len(PathAt(l, n)) = l + 1 /\ k \in Nat /\ l \in Nat
  BY PathShape, SentinelFacts
<1>2. ASSUME k <= l
      PROVE  SubSeq(PathAt(l, n), 1, k + 1) = PathAt(k, m) <=> m = n \div W(l - k)
  <2>1. k \in 0..l
    BY <1>1, <1>2
  <2>2. /\ SubSeq(PathAt(l, n), 1, k + 1) = PathAt(k, n \div W(l - k))
        /\ n \div W(l - k) \in Numbers(k)
    BY <2>1, PrefixAt, Cut
  <2>3. PathAt(k, n \div W(l - k)) = PathAt(k, m) => n \div W(l - k) = m
    BY <2>2, PathInjective
  <2> QED
    BY <2>2, <2>3
<1>3. k + 1 <= l + 1 <=> k <= l
  BY <1>1
<1> QED
  BY <1>1, <1>2, <1>3 DEF IsAncestor

\* The range of a cell lies in that of any cell above it.
LEMMA RangeAbove ==
  ASSUME NEW l \in CellLevels, NEW n \in Numbers(l), NEW k \in 0..l
  PROVE  /\ Lo(k, n \div W(l - k)) <= Lo(l, n) /\ Hi(l, n) <= Hi(k, n \div W(l - k))
         /\ Lo(k, n \div W(l - k)) \in Nat /\ Hi(k, n \div W(l - k)) \in Nat
<1>1. /\ k \in CellLevels /\ l - k \in Nat /\ l \in Nat /\ k \in Nat
      /\ MaxS2Level - l \in Nat /\ MaxS2Level - k = (MaxS2Level - l) + (l - k)
      /\ W(l - k) \in Nat \ {0} /\ n \div W(l - k) \in Numbers(k) /\ n \in Nat
  BY Cut, SentinelFacts, NumberFacts, Sizes
<1> DEFINE v == W(MaxS2Level - l)
           w == W(l - k)
           q == n \div w
<1>2. v \in Nat \ {0} /\ w \in Nat \ {0} /\ W(MaxS2Level - k) = v * w
  BY <1>1, WNat, WSum
<1>3. Lo(l, n) = n * v /\ Hi(l, n) = (n + 1) * v
      /\ Lo(k, q) = q * (v * w) /\ Hi(k, q) = (q + 1) * (v * w)
  BY <1>2 DEF Lo, Hi
<1>4. q \in Nat /\ q * w <= n /\ n < (q + 1) * w
  BY <1>1, <1>2, Quotient
<1> HIDE DEF v, w, q
<1>5. /\ q * w \in Nat /\ (q + 1) * w \in Nat /\ n + 1 <= (q + 1) * w
  BY <1>1, <1>2, <1>4
<1>6. (q * w) * v <= n * v
  BY <1>1, <1>2, <1>4, <1>5, ProductGrows
<1>7. (n + 1) * v <= ((q + 1) * w) * v
  BY <1>1, <1>2, <1>5, ProductGrows
<1>8. q * (v * w) = (q * w) * v /\ (q + 1) * (v * w) = ((q + 1) * w) * v
  BY <1>2, <1>4
<1>9. Lo(k, q) \in Nat /\ Hi(k, q) \in Nat
  BY <1>1, RangeIs DEF w, q
<1> QED
  BY <1>3, <1>6, <1>7, <1>8, <1>9 DEF w, q

LEMMA OrderAtLevel ==
  ASSUME NEW k \in CellLevels, NEW a \in Nat, NEW b \in Nat
  PROVE  a < b => Hi(k, a) <= Lo(k, b)
<1>1. W(MaxS2Level - k) \in Nat
  BY SentinelFacts, WNat
<1> DEFINE w == W(MaxS2Level - k)
<1> HIDE DEF w
<1>2. ASSUME a < b PROVE (a + 1) * w <= b * w
  <2>1. a + 1 <= b /\ a + 1 \in Nat
    BY <1>2
  <2> QED
    BY <1>1, <2>1, ProductGrows DEF w
<1> QED
  BY <1>2 DEF Hi, Lo, w

LEMMA DigitsUnique ==
  ASSUME NEW a \in Nat, NEW b \in Nat, NEW x \in 0..3, NEW y \in 0..3, 4 * a + x = 4 * b + y
  PROVE  a = b /\ x = y
OBVIOUS

\* One cell comes before another exactly if its range ends before the other's begins.
LEMMA PrecedesNumbers ==
  ASSUME NEW l \in CellLevels, NEW n \in Numbers(l), NEW k \in CellLevels, NEW m \in Numbers(k)
  PROVE  Precedes(PathAt(l, n), PathAt(k, m)) <=> Hi(l, n) <= Lo(k, m)
<1> DEFINE p == PathAt(l, n)
           q == PathAt(k, m)
<1>1. /\ p \in Seq(Int) /\ Len(p) = l + 1 /\ q \in Seq(Int) /\ Len(q) = k + 1
      /\ l \in Nat /\ k \in Nat /\ n \in Nat /\ m \in Nat
      /\ \A i \in 1..(l + 1) : p[i] \in Int
      /\ \A i \in 1..(k + 1) : q[i] \in Int
  <2>1. /\ p \in Seq(Int) /\ Len(p) = l + 1 /\ q \in Seq(Int) /\ Len(q) = k + 1
        /\ l \in Nat /\ k \in Nat /\ n \in Nat /\ m \in Nat
    BY PathShape, SentinelFacts, NumberFacts
  <2> HIDE DEF p, q
  <2> QED
    BY <2>1
<1>2. /\ Lo(l, n) \in Nat /\ Hi(l, n) \in Nat /\ Lo(l, n) < Hi(l, n)
      /\ Lo(k, m) \in Nat /\ Hi(k, m) \in Nat /\ Lo(k, m) < Hi(k, m)
  BY RangeIs
\* What the first digits of each path make.
<1> DEFINE P(i) == n \div W(l - i)
           Q(i) == m \div W(k - i)
<1>3. ASSUME NEW i \in Nat, i <= l, i <= k
      PROVE  /\ i \in CellLevels /\ P(i) \in Nat /\ Q(i) \in Nat
             /\ Lo(i, P(i)) <= Lo(l, n) /\ Hi(l, n) <= Hi(i, P(i))
             /\ Lo(i, Q(i)) <= Lo(k, m) /\ Hi(k, m) <= Hi(i, Q(i))
             /\ Lo(i, P(i)) \in Nat /\ Hi(i, P(i)) \in Nat
             /\ Lo(i, Q(i)) \in Nat /\ Hi(i, Q(i)) \in Nat
  <2>1. i \in 0..l /\ i \in 0..k
    BY <1>1, <1>3
  <2>2. /\ i \in CellLevels /\ P(i) \in Numbers(i) /\ Q(i) \in Numbers(i)
    BY <2>1, Cut
  <2>3. P(i) \in Nat /\ Q(i) \in Nat
    BY <2>2, NumberFacts
  <2>4. /\ Lo(i, P(i)) <= Lo(l, n) /\ Hi(l, n) <= Hi(i, P(i))
        /\ Lo(i, P(i)) \in Nat /\ Hi(i, P(i)) \in Nat
    BY <2>1, RangeAbove
  <2>5. /\ Lo(i, Q(i)) <= Lo(k, m) /\ Hi(k, m) <= Hi(i, Q(i))
        /\ Lo(i, Q(i)) \in Nat /\ Hi(i, Q(i)) \in Nat
    BY <2>1, RangeAbove
  <2> QED
    BY <2>2, <2>3, <2>4, <2>5
\* A digit is what a step adds.
<1>4. ASSUME NEW i \in Nat, i >= 1, i <= l, i <= k
      PROVE  P(i) = 4 * P(i - 1) + p[i + 1] /\ Q(i) = 4 * Q(i - 1) + q[i + 1]
  <2>1. /\ i + 1 \in 2..(l + 1) /\ i + 1 \in 2..(k + 1) /\ l - i \in Nat /\ k - i \in Nat
        /\ l + 1 - (i + 1) = l - i /\ k + 1 - (i + 1) = k - i
        /\ l - (i - 1) = (l - i) + 1 /\ k - (i - 1) = (k - i) + 1
    BY <1>1, <1>4
  <2>2. p[i + 1] = (n \div W(l - i)) % 4
    <3>1. p[i + 1] = (n \div W(l + 1 - (i + 1))) % 4
      BY <2>1, PathShape
    <3> QED
      BY <2>1, <3>1
  <2>3. q[i + 1] = (m \div W(k - i)) % 4
    <3>1. q[i + 1] = (m \div W(k + 1 - (i + 1))) % 4
      BY <2>1, PathShape
    <3> QED
      BY <2>1, <3>1
  <2>4. n \div W(l - i) = 4 * (n \div W((l - i) + 1)) + ((n \div W(l - i)) % 4)
    BY <1>1, <2>1, DigitStep
  <2>5. m \div W(k - i) = 4 * (m \div W((k - i) + 1)) + ((m \div W(k - i)) % 4)
    BY <1>1, <2>1, DigitStep
  <2>6. P(i) = 4 * P(i - 1) + p[i + 1]
    BY <2>1, <2>2, <2>4
  <2>7. Q(i) = 4 * Q(i - 1) + q[i + 1]
    BY <2>1, <2>3, <2>5
  <2> QED
    BY <2>6, <2>7
<1>5. P(0) = p[1] /\ Q(0) = q[1]
  <2>1. l - 0 = l /\ k - 0 = k
    BY <1>1
  <2> QED
    BY <2>1, PathShape
<1> HIDE DEF p, q, P, Q
\* The paths agree up to a place exactly if their numbers there do.
<1>6. ASSUME NEW i \in Nat, i <= l, i <= k, P(i) = Q(i), i >= 1
      PROVE  P(i - 1) = Q(i - 1) /\ p[i + 1] = q[i + 1]
  <2>1. P(i) = 4 * P(i - 1) + p[i + 1] /\ Q(i) = 4 * Q(i - 1) + q[i + 1]
    BY <1>4, <1>6
  <2>2. i - 1 \in Nat /\ i - 1 <= l /\ i - 1 <= k /\ i + 1 \in 2..(l + 1) /\ i + 1 \in 2..(k + 1)
    BY <1>1, <1>6
  <2>3. P(i - 1) \in Nat /\ Q(i - 1) \in Nat
    BY <1>3, <2>2
  <2>4. p[i + 1] \in 0..3 /\ q[i + 1] \in 0..3
    BY <2>2, PathShape DEF p, q
  <2> DEFINE a == P(i - 1)
             b == Q(i - 1)
             x == p[i + 1]
             y == q[i + 1]
  <2>5. a \in Nat /\ b \in Nat /\ x \in 0..3 /\ y \in 0..3 /\ 4 * a + x = 4 * b + y
    BY <1>6, <2>1, <2>3, <2>4
  <2> HIDE DEF a, b, x, y
  <2>6. a = b /\ x = y
    BY <2>5, DigitsUnique
  <2> QED
    BY <2>6 DEF a, b, x, y
<1>7. ASSUME NEW j \in Nat, j <= l, j <= k, P(j) = Q(j), NEW i \in 1..(j + 1)
      PROVE  p[i] = q[i]
  <2> DEFINE Wrong == {d \in Nat : d <= j /\ P(j - d) # Q(j - d)}
  <2>1. ASSUME Wrong # {} PROVE FALSE
    <3>1. Wrong \subseteq Nat
      OBVIOUS
    <3>2. PICK d \in Wrong : \A y \in Wrong : d <= y
      <4> HIDE DEF Wrong
      <4> QED
        BY <2>1, <3>1, LeastNatural
    <3>3. d \in Nat /\ d <= j /\ P(j - d) # Q(j - d)
      OBVIOUS
    <3>4. d # 0
      <4>1. j - 0 = j
        OBVIOUS
      <4> QED
        BY <1>7, <3>3, <4>1
    <3>5. d - 1 \in Nat /\ d - 1 <= j /\ ~ (d <= d - 1)
      BY <3>3, <3>4
    <3>6. P(j - (d - 1)) = Q(j - (d - 1))
      <4>1. d - 1 \notin Wrong
        <5> HIDE DEF Wrong
        <5> QED
          BY <3>2, <3>5
      <4> QED
        BY <3>5, <4>1
    <3> DEFINE e == j - (d - 1)
    <3>7. e \in Nat /\ e <= l /\ e <= k /\ e >= 1 /\ e - 1 = j - d
      BY <1>1, <1>7, <3>3, <3>5
    <3> HIDE DEF e
    <3>8. P(e - 1) = Q(e - 1)
      BY <1>6, <3>6, <3>7 DEF e
    <3> QED
      BY <3>3, <3>7, <3>8
  <2>2. CASE i = 1
    <3>1. j \in Nat /\ j <= j /\ j - j = 0
      OBVIOUS
    <3>2. P(0) = Q(0)
      BY <2>1, <3>1
    <3> QED
      BY <1>5, <2>2, <3>2
  <2>3. CASE i # 1
    <3> DEFINE e == i - 1
               d == j - e
    <3>1. e \in Nat /\ e >= 1 /\ e <= l /\ e <= k /\ e + 1 = i /\ d \in Nat /\ d <= j /\ j - d = e
      BY <1>1, <1>7, <2>3
    <3> HIDE DEF e, d
    <3>2. P(e) = Q(e)
      BY <2>1, <3>1
    <3> QED
      BY <1>6, <3>1, <3>2
  <2> QED
    BY <2>2, <2>3
<1>8. ASSUME NEW i \in Nat, i >= 1, i <= l + 1, i <= k + 1,
             \A j \in 1..(i - 1) : p[j] = q[j]
      PROVE  i > 1 => P(i - 2) = Q(i - 2)
  <2> DEFINE Wrong == {d \in Nat : d + 2 <= i /\ P(d) # Q(d)}
  <2>1. ASSUME Wrong # {} PROVE FALSE
    <3>1. Wrong \subseteq Nat
      OBVIOUS
    <3>2. PICK d \in Wrong : \A y \in Wrong : d <= y
      <4> HIDE DEF Wrong
      <4> QED
        BY <2>1, <3>1, LeastNatural
    <3>3. d \in Nat /\ d + 2 <= i /\ P(d) # Q(d)
      OBVIOUS
    <3>4. d # 0
      <4>1. ASSUME d = 0 PROVE FALSE
        <5>1. 1 \in 1..(i - 1)
          BY <3>3, <4>1
        <5> QED
          BY <1>5, <1>8, <3>3, <4>1, <5>1
      <4> QED
        BY <4>1
    <3>5. d - 1 \in Nat /\ (d - 1) + 2 <= i /\ ~ (d <= d - 1) /\ d >= 1 /\ d <= l /\ d <= k
      BY <1>1, <1>8, <3>3, <3>4
    <3>6. P(d - 1) = Q(d - 1)
      <4>1. d - 1 \notin Wrong
        <5> HIDE DEF Wrong
        <5> QED
          BY <3>2, <3>5
      <4> QED
        BY <3>5, <4>1
    <3>7. p[d + 1] = q[d + 1]
      <4>1. d + 1 \in 1..(i - 1)
        BY <3>3
      <4> QED
        BY <1>8, <4>1
    <3> QED
      BY <1>4, <3>3, <3>5, <3>6, <3>7
  <2>2. ASSUME i > 1 PROVE P(i - 2) = Q(i - 2)
    <3>1. i - 2 \in Nat /\ (i - 2) + 2 <= i
      BY <1>8, <2>2
    <3> QED
      BY <2>1, <3>1
  <2> QED
    BY <2>2
<1>9. ASSUME Precedes(p, q) PROVE Hi(l, n) <= Lo(k, m)
  <2>1. PICK i \in 1..Len(p) : /\ i <= Len(q) /\ p[i] < q[i]
                               /\ \A j \in 1..(i - 1) : p[j] = q[j]
    BY <1>1, <1>9, PrecedesPointwise
  <2>2. /\ i \in Nat /\ i >= 1 /\ i <= l + 1 /\ i <= k + 1
        /\ i - 1 \in Nat /\ i - 1 <= l /\ i - 1 <= k
        /\ i \in 1..(l + 1) /\ i \in 1..(k + 1)
    BY <1>1, <2>1
  <2> DEFINE e == i - 1
  <2>3. P(e) < Q(e)
    <3>1. CASE i = 1
      BY <1>5, <2>1, <3>1
    <3>2. CASE i > 1
      <4>1. P(i - 2) = Q(i - 2)
        BY <1>8, <2>1, <2>2, <3>2
      <4>2. e \in Nat /\ e >= 1 /\ e <= l /\ e <= k /\ e - 1 = i - 2 /\ e + 1 = i
        BY <2>2, <3>2
      <4> HIDE DEF e
      <4>3. P(e) = 4 * P(e - 1) + p[e + 1] /\ Q(e) = 4 * Q(e - 1) + q[e + 1]
        BY <1>4, <4>2
      <4>4. P(e - 1) = Q(e - 1) /\ p[e + 1] < q[e + 1]
        BY <2>1, <4>1, <4>2
      <4>5. e - 1 \in Nat /\ e - 1 <= l /\ e - 1 <= k
        BY <1>1, <4>2
      <4>6. P(e - 1) \in Nat
        BY <1>3, <4>5
      <4>7. p[e + 1] \in Int /\ q[e + 1] \in Int
        BY <1>1, <2>2, <4>2
      <4> QED
        BY <4>3, <4>4, <4>6, <4>7
    <3> QED
      BY <2>2, <3>1, <3>2
  <2>4. e \in Nat /\ e <= l /\ e <= k
    BY <2>2
  <2> HIDE DEF e
  <2>5. /\ e \in CellLevels /\ P(e) \in Nat /\ Q(e) \in Nat
        /\ Hi(l, n) <= Hi(e, P(e)) /\ Lo(e, Q(e)) <= Lo(k, m)
        /\ Hi(e, P(e)) \in Nat /\ Lo(e, Q(e)) \in Nat
    BY <1>3, <2>4
  <2>6. Hi(e, P(e)) <= Lo(e, Q(e))
    BY <2>3, <2>5, OrderAtLevel
  <2> QED
    BY <1>2, <2>5, <2>6
<1>10. ASSUME Hi(l, n) <= Lo(k, m) PROVE Precedes(p, q)
  <2> DEFINE T == {i \in Nat : i <= l /\ i <= k /\ P(i) # Q(i)}
  <2>1. T # {}
    <3>1. SUFFICES ASSUME T = {} PROVE FALSE
      OBVIOUS
    <3>2. CASE l <= k
      <4>1. P(l) = Q(l) /\ P(l) = n
        <5>1. l <= l /\ l - l = 0
          BY <1>1
        <5>2. P(l) = Q(l)
          BY <1>1, <3>1, <3>2, <5>1
        <5> QED
          BY <1>1, <5>1, <5>2, QuotientByOne DEF P
      <4>2. Hi(k, m) <= Hi(l, Q(l)) /\ Hi(l, Q(l)) \in Nat
        <5>1. l <= l
          BY <1>1
        <5> QED
          BY <1>1, <1>3, <3>2, <5>1
      <4> QED
        BY <1>2, <1>10, <4>1, <4>2
    <3>3. CASE k <= l
      <4>1. P(k) = Q(k) /\ Q(k) = m
        <5>1. k <= k /\ k - k = 0
          BY <1>1
        <5>2. P(k) = Q(k)
          BY <1>1, <3>1, <3>3, <5>1
        <5> QED
          BY <1>1, <5>1, <5>2, QuotientByOne DEF Q
      <4>2. Lo(k, P(k)) <= Lo(l, n) /\ Lo(k, P(k)) \in Nat
        <5>1. k <= k
          BY <1>1
        <5> QED
          BY <1>1, <1>3, <3>3, <5>1
      <4> QED
        BY <1>2, <1>10, <4>1, <4>2
    <3> QED
      BY <1>1, <3>2, <3>3
  <2>2. PICK i \in T : \A y \in T : i <= y
    <3>1. T \subseteq Nat
      OBVIOUS
    <3> HIDE DEF T
    <3> QED
      BY <2>1, <3>1, LeastNatural
  <2>3. i \in Nat /\ i <= l /\ i <= k /\ P(i) # Q(i)
    OBVIOUS
  <2>4. \A j \in 1..i : p[j] = q[j]
    <3>1. CASE i = 0
      BY <3>1
    <3>2. CASE i # 0
      <4> DEFINE e == i - 1
      <4>1. e \in Nat /\ e <= l /\ e <= k /\ ~ (i <= e) /\ e + 1 = i
        BY <1>1, <2>3, <3>2
      <4> HIDE DEF e
      <4>2. e \notin T
        <5> HIDE DEF T
        <5> QED
          BY <2>2, <4>1
      <4>3. P(e) = Q(e)
        BY <4>1, <4>2
      <4>4. \A j \in 1..(e + 1) : p[j] = q[j]
        BY <1>7, <4>1, <4>3
      <4> QED
        BY <4>1, <4>4
    <3> QED
      BY <3>1, <3>2
  <2> HIDE DEF T
  <2>5. /\ i \in CellLevels /\ P(i) \in Nat /\ Q(i) \in Nat
        /\ Lo(i, P(i)) <= Lo(l, n) /\ Hi(k, m) <= Hi(i, Q(i))
        /\ Lo(i, P(i)) \in Nat /\ Hi(i, Q(i)) \in Nat
    BY <1>3, <2>3
  <2>6. P(i) < Q(i)
    <3>1. ASSUME Q(i) < P(i) PROVE FALSE
      <4>1. Hi(i, Q(i)) <= Lo(i, P(i))
        BY <2>5, <3>1, OrderAtLevel
      <4> QED
        BY <1>2, <1>10, <2>5, <4>1
    <3> QED
      BY <2>3, <2>5, <3>1
  <2>7. p[i + 1] < q[i + 1]
    <3>1. CASE i = 0
      BY <1>5, <2>6, <3>1
    <3>2. CASE i # 0
      <4>1. i >= 1
        BY <2>3, <3>2
      <4>2. P(i) = 4 * P(i - 1) + p[i + 1] /\ Q(i) = 4 * Q(i - 1) + q[i + 1]
        BY <1>4, <2>3, <4>1
      <4>3. P(i - 1) = Q(i - 1)
        <5> DEFINE e == i - 1
        <5>1. e \in Nat /\ e <= l /\ e <= k /\ ~ (i <= e)
          BY <1>1, <2>3, <4>1
        <5> HIDE DEF e
        <5>2. e \notin T
          BY <2>2, <5>1
        <5>3. P(e) = Q(e)
          BY <5>1, <5>2 DEF T
        <5> QED
          BY <5>3 DEF e
      <4>4. i - 1 \in Nat /\ i - 1 <= l /\ i - 1 <= k
        BY <1>1, <2>3, <4>1
      <4>5. P(i - 1) \in Nat
        BY <1>3, <4>4
      <4>6. i + 1 \in 1..(l + 1) /\ i + 1 \in 1..(k + 1)
        BY <1>1, <2>3
      <4>7. p[i + 1] \in Int /\ q[i + 1] \in Int
        BY <1>1, <4>6
      <4> QED
        BY <2>6, <4>2, <4>3, <4>5, <4>7
    <3> QED
      BY <3>1, <3>2
  <2> DEFINE e == i + 1
  <2>8. /\ e \in 1..Len(p) /\ e <= Len(q) /\ p[e] < q[e] /\ e - 1 = i
    BY <1>1, <2>3, <2>7
  <2> HIDE DEF e
  <2>9. \A j \in 1..(e - 1) : p[j] = q[j]
    BY <2>4, <2>8
  <2> QED
    BY <1>1, <2>8, <2>9, PrecedesPointwise
<1> QED
  BY <1>9, <1>10 DEF p, q

-----------------------------------------------------------------------------
(* Cells by their identifiers *)

NumberOf(id) == id \div (2 * W(MaxS2Level - Level(id)))

LEMMA CellFacts ==
  ASSUME NEW id \in CellIds
  PROVE  /\ Level(id) \in CellLevels /\ NumberOf(id) \in Numbers(Level(id))
         /\ id = Id(Level(id), NumberOf(id)) /\ PathOf[id] = PathAt(Level(id), NumberOf(id))
         /\ id \in Ids /\ id \in Nat /\ id # 0 /\ ValidId(id)
         /\ Level(id) \in Nat /\ Level(id) <= MaxS2Level
<1>1. PICK l \in CellLevels : \E n \in Numbers(l) : id = Id(l, n)
  BY CellIdsAre
<1>2. PICK n \in Numbers(l) : id = Id(l, n)
  BY <1>1
<1>3. Level(id) = l /\ id \in Ids /\ id \in Nat /\ id # 0 /\ ValidId(id)
  BY <1>2, IdFacts
<1>4. NumberOf(id) = n
  <2>1. l \in 0..l /\ l - l = 0 /\ n \in Nat
    BY SentinelFacts, NumberFacts
  <2>2. Id(l, n) \div (2 * W(MaxS2Level - l)) = n \div W(l - l)
    BY <2>1, Cut
  <2> QED
    BY <1>2, <1>3, <2>1, <2>2, QuotientByOne DEF NumberOf
<1>5. PathOf[id] = PathAt(l, n)
  BY <1>2, CellIdsAre
<1> QED
  BY <1>2, <1>3, <1>4, <1>5, SentinelFacts

LEMMA CellPath ==
  ASSUME NEW id \in CellIds
  PROVE  /\ PathOf[id] \in Seq(Nat) /\ PathOf[id] \in Seq(Int)
         /\ Len(PathOf[id]) = Level(id) + 1
         /\ PathOf[id][1] = Face(id) /\ Face(id) \in 0..(NumRootFaces - 1)
         /\ IdOf(PathOf[id]) = id
<1> DEFINE l == Level(id)
           n == NumberOf(id)
<1>1. l \in CellLevels /\ n \in Numbers(l) /\ id = Id(l, n) /\ PathOf[id] = PathAt(l, n)
  BY CellFacts
<1> HIDE DEF l, n
<1>2. /\ PathAt(l, n) \in Seq(Nat) /\ PathAt(l, n) \in Seq(Int)
      /\ Len(PathAt(l, n)) = l + 1 /\ PathAt(l, n)[1] = n \div W(l)
  BY <1>1, PathShape
<1>3. Face(Id(l, n)) = n \div W(l) /\ Face(Id(l, n)) \in 0..(NumRootFaces - 1)
  BY <1>1, FaceAt
<1>4. IdOf(PathAt(l, n)) = Id(l, n)
  BY <1>1, PathIdentifier
<1> QED
  BY <1>1, <1>2, <1>3, <1>4 DEF l

LEMMA CellRange ==
  ASSUME NEW id \in CellIds
  PROVE  /\ RangeStart(id) \in Nat /\ RangeEnd(id) \in Nat
         /\ RangeStart(id) <= id /\ id <= RangeEnd(id)
<1> DEFINE l == Level(id)
           n == NumberOf(id)
<1>1. l \in CellLevels /\ n \in Numbers(l) /\ id = Id(l, n)
  BY CellFacts
<1> HIDE DEF l, n
<1>2. /\ Lo(l, n) \in Nat /\ Hi(l, n) \in Nat /\ Lo(l, n) < Hi(l, n)
      /\ id = Lo(l, n) + Hi(l, n)
      /\ RangeStart(id) = 2 * Lo(l, n) + 1 /\ RangeEnd(id) = 2 * Hi(l, n) - 1
  BY <1>1, RangeIs
<1> DEFINE lo == Lo(l, n)
           hi == Hi(l, n)
           start == RangeStart(id)
           end == RangeEnd(id)
<1>3. /\ lo \in Nat /\ hi \in Nat /\ lo < hi /\ id = lo + hi
      /\ start = 2 * lo + 1 /\ end = 2 * hi - 1
  BY <1>2
<1> HIDE DEF lo, hi, start, end
<1>4. start \in Nat /\ end \in Nat /\ start <= id /\ id <= end
  BY <1>3
<1> QED
  BY <1>4 DEF start, end

\* A cell comes before another exactly if the range of leaf identifiers does.
THEOREM RangesDecideOrder ==
  ASSUME NEW a \in CellIds, NEW b \in CellIds
  PROVE  Precedes(PathOf[a], PathOf[b]) <=> RangeStart(b) > RangeEnd(a)
<1> DEFINE l == Level(a)
           n == NumberOf(a)
           k == Level(b)
           m == NumberOf(b)
<1>1. /\ l \in CellLevels /\ n \in Numbers(l) /\ a = Id(l, n) /\ PathOf[a] = PathAt(l, n)
      /\ k \in CellLevels /\ m \in Numbers(k) /\ b = Id(k, m) /\ PathOf[b] = PathAt(k, m)
  BY CellFacts
<1> HIDE DEF l, n, k, m
<1>2. Precedes(PathAt(l, n), PathAt(k, m)) <=> Hi(l, n) <= Lo(k, m)
  BY <1>1, PrecedesNumbers
<1>3. /\ RangeStart(b) = 2 * Lo(k, m) + 1 /\ Lo(k, m) \in Nat
      /\ RangeEnd(a) = 2 * Hi(l, n) - 1 /\ Hi(l, n) \in Nat
  BY <1>1, RangeIs
<1> QED
  BY <1>1, <1>2, <1>3

-----------------------------------------------------------------------------
(* Validation of a list of leaves *)

LEMMA ExpandedIds ==
  ASSUME NEW c \in 0..(MaxCompactCellId + 1)
  PROVE  /\ Expanded(c) \in Ids <=> c <= MaxCompactCellId
         /\ c \in Nat /\ Expanded(c) \in Nat /\ MaxCompactCellId \in Nat
<1> DEFINE s == 2 ^ ShiftCompact
           t == 2 ^ (IdBits - ShiftCompact)
<1>1. ShiftCompact \in Nat /\ IdBits - ShiftCompact \in Nat /\ IdBits = (IdBits - ShiftCompact) + ShiftCompact
  BY Sizes
<1>2. s \in Nat \ {0} /\ t \in Nat \ {0} /\ 2 ^ IdBits = t * s
  <2>1. s \in Nat \ {0} /\ t \in Nat \ {0}
    BY <1>1, PowerPositive
  <2>2. 2 ^ ((IdBits - ShiftCompact) + ShiftCompact) = t * s
    BY <1>1, PowerSum
  <2> QED
    BY <1>1, <2>1, <2>2
<1>3. MaxCompactCellId = t - 1 /\ Expanded(c) = c * s /\ Ids = 0..(t * s - 1)
  BY <1>2 DEF MaxCompactCellId, Expanded, Ids
<1> HIDE DEF s, t
<1>4. c \in Nat /\ MaxCompactCellId \in Nat /\ c * s \in Nat /\ t * s \in Nat
  BY <1>2, <1>3
<1>5. c < t <=> c * s < t * s
  BY <1>2, <1>4, ProductStrict
<1>6. c * s \in 0..(t * s - 1) <=> c * s < t * s
  <2> DEFINE x == c * s
             y == t * s
  <2>1. x \in Nat /\ y \in Nat
    BY <1>4
  <2> HIDE DEF x, y
  <2>2. x \in 0..(y - 1) <=> x < y
    BY <2>1
  <2> QED
    BY <2>2 DEF x, y
<1>7. c <= MaxCompactCellId <=> c < t
  BY <1>2, <1>3, <1>4
<1> QED
  BY <1>3, <1>4, <1>5, <1>6, <1>7

LEMMA CellIdsAreIds == CellIds \subseteq Ids
BY CellFacts

LEMMA ExpandedOrder ==
  ASSUME NEW a \in Nat, NEW b \in Nat
  PROVE  Expanded(a) < Expanded(b) <=> a < b
<1>1. 2 ^ ShiftCompact \in Nat \ {0}
  <2>1. ShiftCompact \in Nat
    BY Sizes
  <2> QED
    BY <2>1, PowerPositive
<1> DEFINE s == 2 ^ ShiftCompact
<1> HIDE DEF s
<1>2. a < b <=> a * s < b * s
  BY <1>1, ProductStrict DEF s
<1> QED
  BY <1>2 DEF Expanded, s

\* What a list of leaves is, by identifiers.
Cells(list) ==
  /\ \A i \in DOMAIN list : Expanded(list[i]) \in CellIds /\ Level(Expanded(list[i])) <= MaxDatabaseLevel
  /\ \A i, j \in DOMAIN list : i < j => RangeStart(Expanded(list[j])) > RangeEnd(Expanded(list[i]))

LEMMA DisjointIs ==
  ASSUME NEW list
  PROVE  Disjoint(list) <=> Cells(list)
<1>1. CellsOf(list) = [i \in DOMAIN list |-> PathOf[Expanded(list[i])]]
  BY DEF CellsOf
<1>2. ASSUME \A i \in DOMAIN list : Expanded(list[i]) \in CellIds
      PROVE  /\ \A i \in DOMAIN list : Len(CellsOf(list)[i]) <= MaxDatabaseLevel + 1
                                         <=> Level(Expanded(list[i])) <= MaxDatabaseLevel
             /\ \A i, j \in DOMAIN list :
                  Precedes(CellsOf(list)[i], CellsOf(list)[j])
                    <=> RangeStart(Expanded(list[j])) > RangeEnd(Expanded(list[i]))
  <2>1. ASSUME NEW i \in DOMAIN list
        PROVE  Len(CellsOf(list)[i]) <= MaxDatabaseLevel + 1
                 <=> Level(Expanded(list[i])) <= MaxDatabaseLevel
    <3>1. Expanded(list[i]) \in CellIds /\ CellsOf(list)[i] = PathOf[Expanded(list[i])]
      BY <1>1, <1>2
    <3>2. /\ Len(PathOf[Expanded(list[i])]) = Level(Expanded(list[i])) + 1
          /\ Level(Expanded(list[i])) \in Nat /\ MaxDatabaseLevel \in Nat
      BY <3>1, CellPath, CellFacts, Sizes
    <3> DEFINE d == Level(Expanded(list[i]))
    <3>3. d + 1 <= MaxDatabaseLevel + 1 <=> d <= MaxDatabaseLevel
      <4> HIDE DEF d
      <4> QED
        BY <3>2 DEF d
    <3> QED
      BY <3>1, <3>2, <3>3
  <2>2. ASSUME NEW i \in DOMAIN list, NEW j \in DOMAIN list
        PROVE  Precedes(CellsOf(list)[i], CellsOf(list)[j])
                 <=> RangeStart(Expanded(list[j])) > RangeEnd(Expanded(list[i]))
    <3>1. /\ Expanded(list[i]) \in CellIds /\ CellsOf(list)[i] = PathOf[Expanded(list[i])]
          /\ Expanded(list[j]) \in CellIds /\ CellsOf(list)[j] = PathOf[Expanded(list[j])]
      BY <1>1, <1>2
    <3> QED
      BY <3>1, RangesDecideOrder
  <2> QED
    BY <2>1, <2>2
<1> QED
  BY <1>2 DEF Disjoint, Cells

\* A neighbour in order is in order with all before it.
LEMMA AcceptsExactly ==
  ASSUME leaves \in Seq(0..(MaxCompactCellId + 1)), Cells(leaves),
         NEW c \in 0..(MaxCompactCellId + 1)
  PROVE  LeafAccepted(c) <=> Cells(Append(leaves, c))
<1> DEFINE n == Len(leaves)
           list == Append(leaves, c)
           id == Expanded(c)
           last == Expanded(leaves[n])
<1>1. /\ n \in Nat /\ DOMAIN leaves = 1..n /\ DOMAIN list = 1..(n + 1) /\ list[n + 1] = c
      /\ \A i \in 1..n : list[i] = leaves[i]
      /\ \A i \in 1..n : leaves[i] \in 0..(MaxCompactCellId + 1)
      /\ leaves # <<>> <=> n # 0
  <2> DEFINE T == 0..(MaxCompactCellId + 1)
  <2>1. leaves \in Seq(T) /\ c \in T
    OBVIOUS
  <2> HIDE DEF T
  <2>2. /\ n \in Nat /\ DOMAIN leaves = 1..n
        /\ leaves # <<>> <=> n # 0
        /\ \A i \in 1..n : leaves[i] \in T
    BY <2>1
  <2>3. /\ DOMAIN list = 1..(n + 1) /\ list[n + 1] = c
        /\ \A i \in 1..n : list[i] = leaves[i]
    BY <2>1
  <2> QED
    BY <2>2, <2>3 DEF T
<1> HIDE DEF n
<1>2. /\ \A i \in 1..n : Expanded(leaves[i]) \in CellIds /\ Level(Expanded(leaves[i])) <= MaxDatabaseLevel
      /\ \A i, j \in 1..n : i < j => RangeStart(Expanded(leaves[j])) > RangeEnd(Expanded(leaves[i]))
  BY <1>1 DEF Cells
<1>3. /\ id \in Ids <=> c <= MaxCompactCellId
      /\ c \in Nat /\ id \in Nat
  BY ExpandedIds
<1>4. ASSUME n # 0
      PROVE  n \in 1..n /\ last \in CellIds /\ leaves[n] \in Nat
  <2>1. n \in 1..n
    BY <1>1, <1>4
  <2> QED
    BY <1>1, <1>2, <2>1, ExpandedIds
<1> HIDE DEF id, last, list
<1>5. ASSUME LeafAccepted(c) PROVE Cells(list)
  <2>1. /\ c <= MaxCompactCellId /\ ValidId(id) /\ Level(id) <= MaxDatabaseLevel
        /\ n # 0 => RangeStart(id) > RangeEnd(last)
    BY <1>1, <1>5 DEF LeafAccepted, id, last, n
  <2>2. id \in CellIds
    BY <1>3, <2>1, ValidIdsAreCells
  <2>3. ASSUME NEW i \in 1..n PROVE RangeStart(id) > RangeEnd(Expanded(leaves[i]))
    <3>1. n # 0
      BY <1>1
    <3>2. RangeStart(id) > RangeEnd(last) /\ last \in CellIds /\ n \in 1..n
      BY <1>4, <2>1, <3>1
    <3>3. CASE i = n
      BY <3>2, <3>3 DEF last
    <3>4. CASE i # n
      <4>1. i < n
        BY <1>1, <3>4
      <4>2. RangeStart(last) > RangeEnd(Expanded(leaves[i])) /\ Expanded(leaves[i]) \in CellIds
        BY <1>2, <3>2, <4>1 DEF last
      <4>3. /\ RangeStart(last) \in Nat /\ RangeEnd(last) \in Nat /\ last \in Nat
            /\ RangeStart(last) <= last /\ last <= RangeEnd(last)
        BY <3>2, CellRange, CellFacts
      <4>4. RangeEnd(Expanded(leaves[i])) \in Nat /\ RangeStart(id) \in Nat
        BY <2>2, <4>2, CellRange
      <4> QED
        BY <3>2, <4>2, <4>3, <4>4
    <3> QED
      BY <3>3, <3>4
  <2>4. ASSUME NEW i \in 1..(n + 1)
        PROVE  Expanded(list[i]) \in CellIds /\ Level(Expanded(list[i])) <= MaxDatabaseLevel
    <3>1. CASE i = n + 1
      BY <1>1, <2>1, <2>2, <3>1 DEF list, id
    <3>2. CASE i # n + 1
      <4>1. i \in 1..n
        BY <1>1, <3>2
      <4> QED
        BY <1>1, <1>2, <4>1 DEF list
    <3> QED
      BY <3>1, <3>2
  <2>5. ASSUME NEW i \in 1..(n + 1), NEW j \in 1..(n + 1), i < j
        PROVE  RangeStart(Expanded(list[j])) > RangeEnd(Expanded(list[i]))
    <3>1. i \in 1..n /\ list[i] = leaves[i]
      BY <1>1, <2>5 DEF list
    <3>2. CASE j = n + 1
      BY <1>1, <2>3, <3>1, <3>2 DEF list, id
    <3>3. CASE j # n + 1
      <4>1. j \in 1..n /\ list[j] = leaves[j]
        BY <1>1, <3>3 DEF list
      <4> QED
        BY <1>2, <2>5, <3>1, <4>1
    <3> QED
      BY <3>2, <3>3
  <2>6. DOMAIN list = 1..(n + 1)
    BY <1>1 DEF list
  <2> QED
    BY <2>4, <2>5, <2>6 DEF Cells
<1>6. ASSUME Cells(list) PROVE LeafAccepted(c)
  <2>1. /\ DOMAIN list = 1..(n + 1) /\ n + 1 \in 1..(n + 1) /\ list[n + 1] = c
        /\ \A i \in 1..n : list[i] = leaves[i] /\ i \in 1..(n + 1)
    BY <1>1 DEF list
  <2>2. id \in CellIds /\ Level(id) <= MaxDatabaseLevel
    BY <1>6, <2>1 DEF Cells, id
  <2>3. c <= MaxCompactCellId /\ ValidId(id)
    BY <1>3, <2>2, CellFacts
  <2>4. ASSUME n # 0 PROVE RangeStart(id) > RangeEnd(last) /\ c > leaves[n]
    <3>1. n \in 1..n /\ last \in CellIds /\ leaves[n] \in Nat
      BY <1>4, <2>4
    <3>2. n < n + 1 /\ n \in 1..(n + 1) /\ list[n] = leaves[n]
      BY <1>1, <2>1, <3>1
    <3>3. RangeStart(id) > RangeEnd(last)
      BY <1>6, <2>1, <3>2 DEF Cells, id, last
    <3>4. /\ RangeStart(id) \in Nat /\ RangeEnd(last) \in Nat /\ last \in Nat /\ id \in Nat
          /\ RangeStart(id) <= id /\ last <= RangeEnd(last)
      BY <2>2, <3>1, CellRange, CellFacts
    <3>5. last < id
      BY <3>3, <3>4
    <3>6. leaves[n] < c
      BY <1>3, <3>1, <3>5, ExpandedOrder DEF id, last
    <3> QED
      BY <1>3, <3>1, <3>3, <3>6
  <2> QED
    BY <1>1, <2>2, <2>3, <2>4 DEF LeafAccepted, id, last, n
<1> QED
  BY <1>5, <1>6 DEF list

-----------------------------------------------------------------------------
(* The inductive invariant *)

Fetched == {"ready", "level refused", "query refused", "descending", "answered"}

FaceSet == {Face(Expanded(leaves[i])) : i \in DOMAIN leaves}

ListInv ==
  /\ leaves \in Seq(0..(MaxCompactCellId + 1))
  /\ status \in {"reading", "leaf refused", "faces refused"} \cup Fetched
  /\ status = "leaf refused" => ~Cells(leaves)
  /\ status # "leaf refused" => Cells(leaves)
  /\ status = "faces refused" => FaceSet # 0..(NumRootFaces - 1)
  /\ status \in Fetched => FaceSet = 0..(NumRootFaces - 1)

LEMMA ListStarts == Init => ListInv
<1> SUFFICES ASSUME Init PROVE ListInv
  OBVIOUS
<1>1. leaves = <<>> /\ status = "reading"
  BY DEF Init
<1>2. <<>> \in Seq(0..(MaxCompactCellId + 1)) /\ DOMAIN <<>> = {}
  OBVIOUS
<1>3. Cells(<<>>)
  BY <1>2 DEF Cells
<1> QED
  BY <1>1, <1>2, <1>3 DEF ListInv, Fetched

\* Queries leave the list alone.
LEMMA BeginKeepsList ==
  ASSUME NEW id, NEW leaf, Begin(id, leaf)
  PROVE  /\ leaves' = leaves /\ status = "ready" /\ status' \in {"query refused", "answered", "descending"}
BY DEF Begin

LEMMA StepKeepsList ==
  ASSUME Ask \/ AskDescendant \/ AskGlobal \/ Miss \/ Arrive \/ Descend
  PROVE  leaves' = leaves /\ status \in Fetched /\ status' \in Fetched
<1>1. CASE Ask
  BY <1>1, BeginKeepsList DEF Ask, Fetched
<1>2. CASE AskDescendant
  BY <1>2, BeginKeepsList DEF AskDescendant, Fetched
<1>3. CASE AskGlobal
  BY <1>3, BeginKeepsList DEF AskGlobal, Fetched
<1>4. CASE Miss
  BY <1>4 DEF Miss, Descending, Answer, Fetched
<1>5. CASE Arrive
  BY <1>5 DEF Arrive, Descending, Answer, Fetched
<1>6. CASE Descend
  BY <1>6 DEF Descend, Descending, Fetched
<1> QED
  BY <1>1, <1>2, <1>3, <1>4, <1>5, <1>6

LEMMA AppendedList ==
  ASSUME NEW T, NEW s \in Seq(T), NEW e \in T
  PROVE  Append(s, e) \in Seq(T)
OBVIOUS

LEMMA ListKept == ListInv /\ [Next]_vars => ListInv'
<1> SUFFICES ASSUME ListInv, [Next]_vars PROVE ListInv'
  OBVIOUS
<1> USE DEF ListInv
<1>1. CASE ReadLeaf
  <2>1. PICK c \in 0..(MaxCompactCellId + 1) :
          /\ leaves' = Append(leaves, c)
          /\ status' = IF LeafAccepted(c) THEN "reading" ELSE "leaf refused"
    BY <1>1 DEF ReadLeaf
  <2>2. Cells(leaves) /\ leaves \in Seq(0..(MaxCompactCellId + 1))
    BY <1>1 DEF ReadLeaf
  <2>3. LeafAccepted(c) <=> Cells(Append(leaves, c))
    BY <2>2, AcceptsExactly
  <2>4. Append(leaves, c) \in Seq(0..(MaxCompactCellId + 1))
    <3> DEFINE T == 0..(MaxCompactCellId + 1)
    <3>1. c \in T /\ leaves \in Seq(T)
      BY <2>2
    <3> HIDE DEF T
    <3>2. Append(leaves, c) \in Seq(T)
      BY <3>1, AppendedList
    <3> QED
      BY <3>2 DEF T
  <2>5. Cells(Append(leaves, c)) <=> Cells(leaves')
    BY <2>1
  <2>6. leaves' \in Seq(0..(MaxCompactCellId + 1))
    BY <2>1, <2>4
  <2>7. Cells(leaves')  <=> Cells(leaves)'
    BY DEF Cells
  <2> QED
    BY <2>1, <2>3, <2>5, <2>6, <2>7 DEF Fetched
<1>2. CASE EndLeaves
  <2>1. /\ leaves' = leaves /\ status = "reading"
        /\ status' = IF FaceSet # 0..(NumRootFaces - 1) THEN "faces refused"
                     ELSE IF \A i \in DOMAIN leaves : Level(Expanded(leaves[i])) < MaxDatabaseLevel
                     THEN "level refused" ELSE "ready"
    BY <1>2 DEF EndLeaves, FaceSet
  <2>2. (Cells(leaves)' <=> Cells(leaves)) /\ FaceSet' = FaceSet
    BY <2>1 DEF Cells, FaceSet
  <2> QED
    BY <2>1, <2>2 DEF Fetched
<1>3. CASE Ask \/ AskDescendant \/ AskGlobal \/ Miss \/ Arrive \/ Descend
  <2>1. leaves' = leaves /\ status \in Fetched /\ status' \in Fetched
    BY <1>3, StepKeepsList
  <2>2. (Cells(leaves)' <=> Cells(leaves)) /\ FaceSet' = FaceSet
    BY <2>1 DEF Cells, FaceSet
  <2> QED
    BY <2>1, <2>2 DEF Fetched
<1>4. CASE UNCHANGED vars
  <2>1. leaves' = leaves /\ status' = status
    BY <1>4 DEF vars
  <2>2. (Cells(leaves)' <=> Cells(leaves)) /\ FaceSet' = FaceSet
    BY <2>1 DEF Cells, FaceSet
  <2> QED
    BY <2>1, <2>2
<1> QED
  BY <1>1, <1>2, <1>3, <1>4 DEF Next

LEMMA ListAlways == Spec => []ListInv
BY ListStarts, ListKept, PTL DEF Spec

LEMMA FacesAre ==
  ASSUME Cells(leaves)
  PROVE  {CellsOf(leaves)[i][1] : i \in DOMAIN leaves} = FaceSet
<1>1. ASSUME NEW i \in DOMAIN leaves PROVE CellsOf(leaves)[i][1] = Face(Expanded(leaves[i]))
  <2>1. Expanded(leaves[i]) \in CellIds /\ CellsOf(leaves)[i] = PathOf[Expanded(leaves[i])]
    BY DEF Cells, CellsOf
  <2> QED
    BY <2>1, CellPath
<1> QED
  BY <1>1 DEF FaceSet

\* The validation of leaf lists, which looks at neighbours and ranges only, is
\* exact for every number of levels and faces (LeavesValidatedExactly).
THEOREM ValidationAlwaysExact == Spec => []LeavesValidatedExactly
<1>1. ListInv => LeavesValidatedExactly
  <2> SUFFICES ASSUME ListInv PROVE LeavesValidatedExactly
    OBVIOUS
  <2>1. Disjoint(leaves) <=> Cells(leaves)
    BY DisjointIs
  <2>2. ASSUME status \in {"reading", "faces refused", "ready", "level refused"}
        PROVE  Disjoint(leaves) /\ {CellsOf(leaves)[i][1] : i \in DOMAIN leaves} = FaceSet
    <3>1. Cells(leaves)
      BY <2>2 DEF ListInv
    <3> QED
      BY <2>1, <3>1, FacesAre
  <2> QED
    BY <2>1, <2>2 DEF ListInv, LeavesValidatedExactly, Fetched
<1> QED
  BY <1>1, ListAlways, PTL

-----------------------------------------------------------------------------
(* Ancestors by identifiers *)

LEMMA AncestorOf ==
  ASSUME NEW id \in CellIds, NEW k \in 0..Level(id)
  PROVE  /\ Ancestor(id, k) \in CellIds /\ Level(Ancestor(id, k)) = k
         /\ PathOf[Ancestor(id, k)] = SubSeq(PathOf[id], 1, k + 1)
         /\ k = Level(id) => Ancestor(id, k) = id
         /\ k \in Nat
<1> DEFINE l == Level(id)
           n == NumberOf(id)
<1>1. l \in CellLevels /\ n \in Numbers(l) /\ id = Id(l, n) /\ PathOf[id] = PathAt(l, n) /\ l \in Nat
  BY CellFacts
<1>2. k \in 0..l
  OBVIOUS
<1> HIDE DEF l, n
<1> DEFINE m == n \div W(l - k)
<1>3. Ancestor(id, k) = Id(k, m) /\ k \in CellLevels /\ m \in Numbers(k)
  BY <1>1, <1>2, AncestorIs
<1>4. Id(k, m) \in CellIds /\ PathOf[Id(k, m)] = PathAt(k, m) /\ Level(Id(k, m)) = k
  BY <1>3, CellIdsAre, IdFacts
<1>5. SubSeq(PathAt(l, n), 1, k + 1) = PathAt(k, m)
  BY <1>1, <1>2, PrefixAt
<1>6. ASSUME k = l PROVE m = n
  <2>1. l - k = 0 /\ n \in Nat
    BY <1>1, <1>6, NumberFacts
  <2> QED
    BY <2>1, QuotientByOne
<1>7. k \in Nat
  BY <1>1, <1>2
<1> HIDE DEF m
<1> QED
  BY <1>1, <1>3, <1>4, <1>5, <1>6, <1>7 DEF l

LEMMA AncestorChain ==
  ASSUME NEW id \in CellIds, NEW k \in 0..Level(id), NEW j \in 0..k
  PROVE  Ancestor(Ancestor(id, k), j) = Ancestor(id, j) /\ j \in 0..Level(id)
<1> DEFINE l == Level(id)
           n == NumberOf(id)
<1>1. l \in CellLevels /\ n \in Numbers(l) /\ id = Id(l, n) /\ l \in Nat
  BY CellFacts
<1>2. k \in 0..l /\ j \in 0..l /\ l - k \in Nat /\ k - j \in Nat /\ (l - k) + (k - j) = l - j
  BY <1>1
<1> HIDE DEF l, n
<1> DEFINE m == n \div W(l - k)
<1>3. Ancestor(id, k) = Id(k, m) /\ k \in CellLevels /\ m \in Numbers(k)
  BY <1>1, <1>2, AncestorIs
<1>4. Ancestor(Id(k, m), j) = Id(j, m \div W(k - j))
  <2> HIDE DEF m
  <2> QED
    BY <1>3, AncestorIs
<1>5. Ancestor(id, j) = Id(j, n \div W(l - j))
  BY <1>1, <1>2, AncestorIs
<1>6. m \div W(k - j) = n \div W((l - k) + (k - j))
  <2>1. n \in Nat
    BY <1>1, NumberFacts
  <2> QED
    BY <1>2, <2>1, QuotientByFours
<1> QED
  BY <1>2, <1>3, <1>4, <1>5, <1>6 DEF l

LEMMA AboveIds ==
  ASSUME NEW a \in CellIds, NEW b \in CellIds
  PROVE  IsAncestor(PathOf[a], PathOf[b]) <=> Level(a) <= Level(b) /\ Ancestor(b, Level(a)) = a
<1> DEFINE l == Level(a)
           n == NumberOf(a)
           k == Level(b)
           m == NumberOf(b)
<1>1. /\ l \in CellLevels /\ n \in Numbers(l) /\ a = Id(l, n) /\ PathOf[a] = PathAt(l, n)
      /\ k \in CellLevels /\ m \in Numbers(k) /\ b = Id(k, m) /\ PathOf[b] = PathAt(k, m)
      /\ l \in Nat /\ k \in Nat
  BY CellFacts
<1> HIDE DEF l, n, k, m
<1>2. IsAncestor(PathAt(l, n), PathAt(k, m)) <=> l <= k /\ n = m \div W(k - l)
  BY <1>1, AncestorNumbers
<1>3. ASSUME l <= k
      PROVE  Ancestor(b, l) = a <=> n = m \div W(k - l)
  <2>1. l \in 0..k
    BY <1>1, <1>3
  <2>2. Ancestor(b, l) = Id(l, m \div W(k - l)) /\ m \div W(k - l) \in Numbers(l)
    BY <1>1, <2>1, AncestorIs
  <2> QED
    BY <1>1, <2>2, IdUnique
<1> QED
  BY <1>1, <1>2, <1>3 DEF l, k

\* The digit below a level decides the next ancestor.
LEMMA DigitDecides ==
  ASSUME NEW a \in CellIds, NEW k \in 0..(Level(a) - 1),
         NEW b \in CellIds, k \in 0..(Level(b) - 1)
  PROVE  /\ Ancestor(a, k) = Ancestor(b, k) /\ ChildIndex(a, k) = ChildIndex(b, k)
              <=> Ancestor(a, k + 1) = Ancestor(b, k + 1)
         /\ ChildIndex(a, k) \in 0..3
         /\ ChildIndex(Ancestor(a, k + 1), k) = ChildIndex(a, k)
         /\ k < MaxS2Level /\ ChildId(Ancestor(a, k), k, ChildIndex(a, k)) = Ancestor(a, k + 1)
<1> DEFINE l == Level(a)
           n == NumberOf(a)
           i == Level(b)
           m == NumberOf(b)
<1>1. /\ l \in CellLevels /\ n \in Numbers(l) /\ a = Id(l, n)
      /\ i \in CellLevels /\ m \in Numbers(i) /\ b = Id(i, m)
      /\ l \in Nat /\ i \in Nat /\ l <= MaxS2Level
  BY CellFacts
<1>2. k \in 0..(l - 1) /\ k \in 0..(i - 1)
  OBVIOUS
<1> HIDE DEF l, n, i, m
<1>3. /\ k \in Nat /\ k + 1 \in 0..l /\ k \in 0..l /\ k + 1 \in 0..i /\ k \in 0..i
      /\ l - (k + 1) \in Nat /\ i - (k + 1) \in Nat
      /\ l - k = (l - (k + 1)) + 1 /\ i - k = (i - (k + 1)) + 1
      /\ k + 1 \in 1..(k + 1) /\ k < MaxS2Level
  BY <1>1, <1>2, Sizes
<1> DEFINE x == n \div W(l - (k + 1))
           y == m \div W(i - (k + 1))
           u == n \div W(l - k)
           v == m \div W(i - k)
<1>4. /\ Ancestor(a, k + 1) = Id(k + 1, x) /\ Ancestor(b, k + 1) = Id(k + 1, y)
      /\ k + 1 \in CellLevels /\ x \in Numbers(k + 1) /\ y \in Numbers(k + 1)
  BY <1>1, <1>3, AncestorIs
<1>5. /\ Ancestor(a, k) = Id(k, u) /\ Ancestor(b, k) = Id(k, v)
      /\ k \in CellLevels /\ u \in Numbers(k) /\ v \in Numbers(k)
  BY <1>1, <1>3, AncestorIs
<1>6. /\ ChildIndex(a, k) = x % 4 /\ ChildIndex(b, k) = y % 4
  BY <1>1, <1>2, ChildIndexIs
<1>7. /\ x = 4 * u + (x % 4) /\ x % 4 \in 0..3
      /\ y = 4 * v + (y % 4) /\ y % 4 \in 0..3
  <2>1. n \in Nat /\ m \in Nat
    BY <1>1, NumberFacts
  <2>2. /\ n \div W(l - (k + 1)) = 4 * (n \div W((l - (k + 1)) + 1)) + ((n \div W(l - (k + 1))) % 4)
        /\ (n \div W(l - (k + 1))) % 4 \in 0..3
    BY <1>3, <2>1, DigitStep
  <2>3. /\ m \div W(i - (k + 1)) = 4 * (m \div W((i - (k + 1)) + 1)) + ((m \div W(i - (k + 1))) % 4)
        /\ (m \div W(i - (k + 1))) % 4 \in 0..3
    BY <1>3, <2>1, DigitStep
  <2> QED
    BY <1>3, <2>2, <2>3
<1>8. ChildIndex(Id(k + 1, x), k) = x % 4
  <2>1. k \in 0..((k + 1) - 1) /\ (k + 1) - (k + 1) = 0
    BY <1>3
  <2>2. x \in Nat
    BY <1>4, NumberFacts
  <2> HIDE DEF x
  <2>3. ChildIndex(Id(k + 1, x), k) = (x \div W((k + 1) - (k + 1))) % 4
    BY <1>4, <2>1, ChildIndexIs
  <2> QED
    BY <2>1, <2>2, <2>3, QuotientByOne
<1>9. ChildId(Id(k, u), k, x % 4) = Id(k + 1, x)
  <2>1. u \in Nat
    BY <1>5, NumberFacts
  <2> HIDE DEF x, u
  <2>2. ChildId(Id(k, u), k, x % 4) = Id(k + 1, 4 * u + (x % 4))
    BY <1>3, <1>5, <1>7, <2>1, ChildIdIs
  <2> QED
    BY <1>7, <2>2
<1>10. u = v /\ x % 4 = y % 4 <=> x = y
  <2>1. u \in Nat /\ v \in Nat /\ x \in Nat /\ y \in Nat
    BY <1>4, <1>5, NumberFacts
  <2> HIDE DEF x, y, u, v
  <2>2. x = y => u = v
    BY <1>7, <2>1, DigitsUnique
  <2> QED
    BY <1>7, <2>1, <2>2
<1> HIDE DEF x, y, u, v
<1>11. (Id(k, u) = Id(k, v) <=> u = v) /\ (Id(k + 1, x) = Id(k + 1, y) <=> x = y)
  BY <1>4, <1>5, IdUnique
<1> QED
  BY <1>3, <1>4, <1>5, <1>6, <1>7, <1>8, <1>9, <1>10, <1>11

LEMMA CompactOf ==
  ASSUME NEW a \in CellIds, Level(a) <= MaxDatabaseLevel
  PROVE  /\ Expanded(Compact(a)) = a
         /\ \A b \in CellIds : Level(b) <= MaxDatabaseLevel /\ Compact(a) = Compact(b) => a = b
<1>1. ASSUME NEW b \in CellIds, Level(b) <= MaxDatabaseLevel PROVE Expanded(Compact(b)) = b
  <2>1. /\ Level(b) \in CellLevels /\ NumberOf(b) \in Numbers(Level(b))
        /\ b = Id(Level(b), NumberOf(b))
    BY CellFacts
  <2>2. NumberOf(b) \in Nat
    BY <2>1, NumberFacts
  <2> QED
    BY <1>1, <2>1, <2>2, CompactIs
<1> QED
  BY <1>1

-----------------------------------------------------------------------------
(* Answers *)

\* A leaf lies at or below the cell's ancestor of this level.
Has(id, k) ==
  \E i \in DOMAIN leaves :
    /\ k <= Level(Expanded(leaves[i]))
    /\ Ancestor(Expanded(leaves[i]), k) = Ancestor(id, k)

LEMMA TreeHas ==
  ASSUME Cells(leaves), NEW id \in CellIds, NEW k \in 0..Level(id)
  PROVE  InTree(LeafCells, SubSeq(PathOf[id], 1, k + 1)) <=> Has(id, k)
<1> DEFINE a == Ancestor(id, k)
<1>1. a \in CellIds /\ Level(a) = k /\ PathOf[a] = SubSeq(PathOf[id], 1, k + 1)
  BY AncestorOf
<1> HIDE DEF a
<1>2. ASSUME NEW i \in DOMAIN leaves
      PROVE  /\ CellsOf(leaves)[i] = PathOf[Expanded(leaves[i])]
             /\ IsAncestor(PathOf[a], CellsOf(leaves)[i])
                  <=> k <= Level(Expanded(leaves[i])) /\ Ancestor(Expanded(leaves[i]), k) = a
  <2>1. Expanded(leaves[i]) \in CellIds /\ CellsOf(leaves)[i] = PathOf[Expanded(leaves[i])]
    BY DEF Cells, CellsOf
  <2> QED
    BY <1>1, <2>1, AboveIds
<1>3. InTree(LeafCells, PathOf[a]) <=> \E i \in DOMAIN leaves : IsAncestor(PathOf[a], CellsOf(leaves)[i])
  BY DEF InTree, LeafCells
<1> QED
  BY <1>1, <1>2, <1>3 DEF Has, a

\* The child positions of a node are those of the leaves below it.
LEMMA MaskHolds ==
  ASSUME Cells(leaves), NEW id \in CellIds, NEW k \in 0..(Level(id) - 1), k < MaxDatabaseLevel
  PROVE  ChildIndex(id, k) \in MaskOf(Compact(Ancestor(id, k)), k) <=> Has(id, k + 1)
<1>1. /\ Level(id) \in Nat /\ k \in Nat /\ k \in 0..Level(id) /\ k + 1 \in 0..Level(id)
      /\ k <= MaxDatabaseLevel /\ k + 1 <= MaxDatabaseLevel
  BY CellFacts, Sizes
<1>2. Ancestor(id, k) \in CellIds /\ Level(Ancestor(id, k)) = k
  BY <1>1, AncestorOf
<1>3. ASSUME NEW i \in DOMAIN leaves, Level(Expanded(leaves[i])) > k
      PROVE  /\ CompactAncestor(leaves[i], k) = Compact(Ancestor(id, k))
                  /\ ChildIndex(Expanded(CompactAncestor(leaves[i], k + 1)), k) = ChildIndex(id, k)
             <=> Ancestor(Expanded(leaves[i]), k + 1) = Ancestor(id, k + 1)
  <2> DEFINE a == Expanded(leaves[i])
  <2>1. a \in CellIds /\ Level(a) \in Nat
    BY CellFacts DEF Cells
  <2>2. Level(a) > k
    BY <1>3
  <2>3. /\ CompactAncestor(leaves[i], k) = Compact(Ancestor(a, k))
        /\ CompactAncestor(leaves[i], k + 1) = Compact(Ancestor(a, k + 1))
    BY DEF CompactAncestor
  <2> HIDE DEF a
  <2>4. k \in 0..(Level(a) - 1) /\ k \in 0..Level(a) /\ k + 1 \in 0..Level(a)
    BY <1>1, <2>1, <2>2
  <2>5. /\ Ancestor(a, k) \in CellIds /\ Level(Ancestor(a, k)) = k
        /\ Ancestor(a, k + 1) \in CellIds /\ Level(Ancestor(a, k + 1)) = k + 1
    BY <2>1, <2>4, AncestorOf
  <2>6. Compact(Ancestor(a, k)) = Compact(Ancestor(id, k)) <=> Ancestor(a, k) = Ancestor(id, k)
    BY <1>1, <1>2, <2>5, CompactOf
  <2>7. Expanded(Compact(Ancestor(a, k + 1))) = Ancestor(a, k + 1)
    BY <1>1, <2>5, CompactOf
  <2>8. /\ Ancestor(a, k) = Ancestor(id, k) /\ ChildIndex(a, k) = ChildIndex(id, k)
              <=> Ancestor(a, k + 1) = Ancestor(id, k + 1)
        /\ ChildIndex(Ancestor(a, k + 1), k) = ChildIndex(a, k)
    BY <2>1, <2>4, DigitDecides
  <2> QED
    BY <2>3, <2>6, <2>7, <2>8 DEF a
<1>4. ASSUME NEW i \in DOMAIN leaves
      PROVE  Level(Expanded(leaves[i])) > k <=> k + 1 <= Level(Expanded(leaves[i]))
  <2>1. Level(Expanded(leaves[i])) \in Nat
    BY CellFacts DEF Cells
  <2> QED
    BY <1>1, <2>1
<1>5. ChildIndex(id, k) \in MaskOf(Compact(Ancestor(id, k)), k)
        <=> \E i \in DOMAIN leaves :
              /\ Level(Expanded(leaves[i])) > k
              /\ CompactAncestor(leaves[i], k) = Compact(Ancestor(id, k))
              /\ ChildIndex(Expanded(CompactAncestor(leaves[i], k + 1)), k) = ChildIndex(id, k)
  BY DEF MaskOf
<1> QED
  BY <1>3, <1>4, <1>5 DEF Has

\* Where the descent stands.
QueryInv ==
  /\ status \in {"descending", "answered"} =>
       /\ query \in CellIds
       /\ origin # 0 => \E i \in DOMAIN leaves :
                          /\ origin = leaves[i] /\ Level(query) = MaxS2Level
                          /\ Ancestor(query, Level(Expanded(origin))) = Expanded(origin)
  /\ status = "query refused" => query \notin CellIds /\ origin = 0
  /\ status = "descending" =>
       /\ depth \in Nat /\ depth < TargetLevel(query)
       /\ node = Compact(Ancestor(query, depth)) /\ Has(query, depth)
  /\ status = "answered" =>
       \E k \in 0..TargetLevel(query) :
         /\ answer = Ancestor(query, k) /\ Has(query, k)
         /\ k # TargetLevel(query) => ~Has(query, k + 1)

LEMMA TargetIs ==
  ASSUME NEW id \in CellIds
  PROVE  /\ TargetLevel(id) \in Nat /\ TargetLevel(id) <= Level(id)
         /\ TargetLevel(id) <= MaxDatabaseLevel /\ Level(id) \in Nat
         /\ TargetLevel(id) = Level(id) \/ TargetLevel(id) = MaxDatabaseLevel
BY CellFacts, Sizes DEF TargetLevel, Smaller

\* Every face has a leaf, so that its root is found.
LEMMA RootFound ==
  ASSUME Cells(leaves), FaceSet = 0..(NumRootFaces - 1), NEW id \in CellIds
  PROVE  Has(id, 0)
<1>1. /\ Face(id) \in 0..(NumRootFaces - 1) /\ PathOf[id] \in Seq(Nat)
      /\ PathOf[id][1] = Face(id) /\ Len(PathOf[id]) = Level(id) + 1 /\ Level(id) \in Nat
  BY CellPath, CellFacts
<1>2. PICK i \in DOMAIN leaves : Face(Expanded(leaves[i])) = Face(id)
  BY <1>1 DEF FaceSet
<1> DEFINE a == Expanded(leaves[i])
<1>3. a \in CellIds
  BY DEF Cells
<1>4. Face(a) = Face(id)
  BY <1>2
<1> HIDE DEF a
<1>5. /\ PathOf[a] \in Seq(Nat) /\ PathOf[a][1] = Face(a) /\ Len(PathOf[a]) = Level(a) + 1
      /\ Level(a) \in Nat
  BY <1>3, CellPath, CellFacts
<1>6. 0 \in 0..Level(a) /\ 0 \in 0..Level(id) /\ 0 <= Level(a)
  BY <1>1, <1>5
<1>7. /\ Ancestor(a, 0) \in CellIds /\ PathOf[Ancestor(a, 0)] = SubSeq(PathOf[a], 1, 0 + 1)
      /\ Ancestor(id, 0) \in CellIds /\ PathOf[Ancestor(id, 0)] = SubSeq(PathOf[id], 1, 0 + 1)
  BY <1>3, <1>6, AncestorOf
<1>8. SubSeq(PathOf[a], 1, 0 + 1) = SubSeq(PathOf[id], 1, 0 + 1)
  <2>1. 0 + 1 \in 0..Len(PathOf[a]) /\ 0 + 1 \in 0..Len(PathOf[id])
    BY <1>1, <1>5
  <2> DEFINE p == SubSeq(PathOf[a], 1, 0 + 1)
             q == SubSeq(PathOf[id], 1, 0 + 1)
  <2>2. /\ p \in Seq(Int) /\ Len(p) = 0 + 1 /\ \A i_1 \in 1..(0 + 1) : p[i_1] = PathOf[a][i_1]
        /\ q \in Seq(Int) /\ Len(q) = 0 + 1 /\ \A i_1 \in 1..(0 + 1) : q[i_1] = PathOf[id][i_1]
    BY <1>1, <1>5, <2>1, SubPath
  <2> HIDE DEF p, q
  <2>3. p[1] = q[1] /\ 1..(0 + 1) = {1}
    BY <1>1, <1>4, <1>5, <2>2
  <2>4. p = q
    BY <2>2, <2>3, PathsEqual
  <2> QED
    BY <2>4 DEF p, q
<1>9. Ancestor(a, 0) = Ancestor(id, 0)
  BY <1>7, <1>8, CellPath
<1> QED
  BY <1>6, <1>9 DEF Has, a

\* What a query asks for: an identifier, perhaps below a leaf.
Asked(id, leaf) ==
  /\ id \in Ids
  /\ leaf # 0 => /\ id \in CellIds /\ Level(id) = MaxS2Level
                 /\ \E i \in DOMAIN leaves : leaf = leaves[i]
                 /\ Ancestor(id, Level(Expanded(leaf))) = Expanded(leaf)

LEMMA BeginKeepsQuery ==
  ASSUME Cells(leaves), FaceSet = 0..(NumRootFaces - 1), NEW id, NEW leaf, Asked(id, leaf),
         Begin(id, leaf)
  PROVE  QueryInv'
<1>1. /\ leaves' = leaves /\ query' = id /\ origin' = leaf /\ depth' = 0
      /\ ~ValidId(id) => status' = "query refused"
      /\ ValidId(id) => /\ node' = Compact(Ancestor(id, 0))
                        /\ IF TargetLevel(id) = 0
                           THEN status' = "answered" /\ answer' = Ancestor(id, 0)
                           ELSE status' = "descending"
  BY DEF Begin
<1>2. id \in Ids /\ (ValidId(id) <=> id \in CellIds)
  BY ValidIdsAreCells DEF Asked
<1>3. CASE ~ValidId(id)
  BY <1>1, <1>2, <1>3 DEF QueryInv, Asked
<1>4. CASE ValidId(id)
  <2>1. id \in CellIds /\ Has(id, 0)
    BY <1>2, <1>4, RootFound
  <2>2. TargetLevel(id) \in Nat
    BY <2>1, TargetIs
  <2>3. Has(query, 0)'
    BY <1>1, <2>1 DEF Has
  <2>4. /\ query' \in CellIds
        /\ origin' # 0 => \E i \in DOMAIN leaves' :
                            /\ origin' = leaves'[i] /\ Level(query') = MaxS2Level
                            /\ Ancestor(query', Level(Expanded(origin'))) = Expanded(origin')
    BY <1>1, <2>1 DEF Asked
  <2>5. CASE TargetLevel(id) = 0
    <3>1. 0 \in 0..TargetLevel(query') /\ answer' = Ancestor(query', 0) /\ TargetLevel(query') = 0
          /\ status' = "answered"
      BY <1>1, <1>4, <2>5
    <3> QED
      BY <2>3, <2>4, <3>1 DEF QueryInv
  <2>6. CASE TargetLevel(id) # 0
    <3>1. /\ depth' = 0 /\ 0 \in Nat /\ 0 < TargetLevel(query') /\ status' = "descending"
          /\ node' = Compact(Ancestor(query', 0))
      BY <1>1, <1>4, <2>2, <2>6
    <3>2. Has(query, depth)'
      BY <2>3, <3>1 DEF Has
    <3> QED
      BY <2>4, <3>1, <3>2 DEF QueryInv
  <2> QED
    BY <2>5, <2>6
<1> QED
  BY <1>3, <1>4

LEMMA DescendantAsked ==
  ASSUME Cells(leaves), NEW i \in DOMAIN leaves, NEW random \in Nat
  PROVE  Asked(DeepestDescendant(Expanded(leaves[i]), random), leaves[i])
<1> DEFINE a == Expanded(leaves[i])
           l == Level(a)
           n == NumberOf(a)
           id == DeepestDescendant(a, random)
<1>1. a \in CellIds
  BY DEF Cells
<1> HIDE DEF a
<1>2. /\ l \in CellLevels /\ n \in Numbers(l) /\ a = Id(l, n) /\ l \in 0..MaxS2Level
      /\ MaxS2Level \in CellLevels
  BY <1>1, CellFacts, Sizes DEF CellLevels
<1> HIDE DEF l, n
<1>3. PICK m \in Numbers(MaxS2Level) : id = Id(MaxS2Level, m) /\ m \div W(MaxS2Level - l) = n
  BY <1>2, DescendantIs
<1> HIDE DEF id
<1>4. /\ id \in CellIds /\ id \in Ids /\ Level(id) = MaxS2Level
      /\ Ancestor(id, l) = a
  BY <1>2, <1>3, CellIdsAre, IdFacts, AncestorIs
<1> QED
  BY <1>4 DEF Asked, id, l, a

LEMMA GlobalIsCell ==
  ASSUME NEW index \in Nat, NEW random \in Nat
  PROVE  GlobalQuery(index, random) \in Ids
<1> DEFINE f == index % NumRootFaces
           w == W(MaxS2Level)
           r == random % w
           n == f * w + r
<1>1. /\ w \in Nat \ {0} /\ NumRootFaces \in Nat \ {0} /\ 2 ^ FaceShift = 2 * w
      /\ MaxS2Level \in CellLevels /\ MaxS2Level - MaxS2Level = 0
      /\ 2 ^ MaxS2Bits = w
  BY Sizes, FacePower, WNat DEF CellLevels, W
<1>2. f \in 0..(NumRootFaces - 1)
  <2> HIDE DEF w
  <2> QED
    BY <1>1, Remainder
<1>3. r \in 0..(w - 1)
  <2> HIDE DEF w
  <2> QED
    BY <1>1, Remainder
<1>4. GlobalQuery(index, random) = f * (2 * w) + r * 2 + 1
  BY <1>1 DEF GlobalQuery
<1> HIDE DEF f, r, w
<1>5. n \in Nat /\ f * (2 * w) = 2 * (f * w) /\ f * w \in Nat
  BY <1>1, <1>2, <1>3
<1>6. n < NumRootFaces * w
  <2>1. (f + 1) * w <= NumRootFaces * w /\ (f + 1) * w = f * w + w
    <3>1. f + 1 \in Nat /\ f + 1 <= NumRootFaces /\ f \in Nat /\ w \in Nat /\ NumRootFaces \in Nat
      BY <1>1, <1>2
    <3>2. (f + 1) * w <= NumRootFaces * w
      BY <3>1, ProductGrows
    <3> QED
      BY <3>1, <3>2
  <2> DEFINE p == f * w
             q == (f + 1) * w
             s == NumRootFaces * w
  <2>2. p \in Nat /\ q \in Nat /\ s \in Nat /\ q <= s /\ q = p + w
    BY <1>1, <1>5, <2>1
  <2> HIDE DEF p, q, s
  <2>3. p + r < s
    BY <1>1, <1>3, <2>2
  <2> QED
    BY <2>3 DEF p, s
<1>7. n \in Numbers(MaxS2Level)
  <2> DEFINE s == NumRootFaces * w
  <2>1. s \in Nat
    BY <1>1
  <2> HIDE DEF n, s
  <2>2. n \in 0..(s - 1)
    BY <1>5, <1>6, <2>1 DEF s
  <2> QED
    BY <2>2 DEF Numbers, s, w
<1>8. GlobalQuery(index, random) = Id(MaxS2Level, n)
  <2>1. Id(MaxS2Level, n) = (2 * n + 1) * 1
    BY <1>1, WZero DEF Id
  <2> DEFINE p == f * w
  <2> HIDE DEF p
  <2>2. 2 * p + r * 2 + 1 = (2 * (p + r) + 1) * 1
    BY <1>3, <1>5, <1>1 DEF p
  <2> QED
    BY <1>4, <1>5, <2>1, <2>2 DEF p
<1> QED
  BY <1>1, <1>7, <1>8, IdFacts

LEMMA QueryStarts == Init => QueryInv
BY DEF Init, QueryInv

\* What a step of the descent finds below the visited node.
LEMMA Visited ==
  ASSUME Cells(leaves), QueryInv, status = "descending"
  PROVE  /\ depth \in Nat /\ depth + 1 \in 0..TargetLevel(query) /\ depth \in 0..TargetLevel(query)
         /\ depth # TargetLevel(query) /\ Has(query, depth)
         /\ ChildIndex(query, depth) \in MaskOf(node, depth) <=> Has(query, depth + 1)
         /\ Compact(ChildId(Expanded(node), depth, ChildIndex(query, depth)))
              = Compact(Ancestor(query, depth + 1))
<1>1. /\ query \in CellIds /\ depth \in Nat /\ depth < TargetLevel(query)
      /\ node = Compact(Ancestor(query, depth)) /\ Has(query, depth)
  BY DEF QueryInv
<1>2. /\ TargetLevel(query) \in Nat /\ TargetLevel(query) <= Level(query)
      /\ TargetLevel(query) <= MaxDatabaseLevel /\ Level(query) \in Nat
  BY <1>1, TargetIs
<1>3. /\ depth \in 0..(Level(query) - 1) /\ depth \in 0..Level(query)
      /\ depth < MaxDatabaseLevel /\ depth <= MaxDatabaseLevel
      /\ depth + 1 \in 0..TargetLevel(query) /\ depth \in 0..TargetLevel(query)
  BY <1>1, <1>2, Sizes
<1>4. ChildIndex(query, depth) \in MaskOf(node, depth) <=> Has(query, depth + 1)
  BY <1>1, <1>3, MaskHolds
<1>5. Ancestor(query, depth) \in CellIds /\ Level(Ancestor(query, depth)) = depth
  BY <1>1, <1>3, AncestorOf
<1>6. Expanded(node) = Ancestor(query, depth)
  BY <1>1, <1>3, <1>5, CompactOf
<1>7. ChildId(Ancestor(query, depth), depth, ChildIndex(query, depth)) = Ancestor(query, depth + 1)
  BY <1>1, <1>3, DigitDecides
<1> QED
  BY <1>1, <1>2, <1>3, <1>4, <1>6, <1>7

LEMMA QueryKept == ListInv /\ QueryInv /\ [Next]_vars => QueryInv'
<1> SUFFICES ASSUME ListInv, QueryInv, [Next]_vars PROVE QueryInv'
  OBVIOUS
<1>1. CASE ReadLeaf \/ EndLeaves
  <2>1. status' \notin {"descending", "answered", "query refused"}
    BY <1>1 DEF ReadLeaf, EndLeaves
  <2> QED
    BY <2>1 DEF QueryInv
<1>2. status = "ready" => Cells(leaves) /\ FaceSet = 0..(NumRootFaces - 1)
  BY DEF ListInv, Fetched
<1>3. CASE Ask
  <2>1. PICK id \in Queries : Begin(id, 0)
    BY <1>3 DEF Ask
  <2>2. Asked(id, 0) /\ status = "ready"
    BY <2>1, QueryAssumption DEF Asked, Begin
  <2> QED
    BY <1>2, <2>1, <2>2, BeginKeepsQuery
<1>4. CASE AskDescendant
  <2>1. PICK i \in DOMAIN leaves, random \in RandomValues :
          Begin(DeepestDescendant(Expanded(leaves[i]), random), leaves[i])
    BY <1>4 DEF AskDescendant
  <2>2. status = "ready" /\ random \in Nat
    BY <2>1, QueryAssumption DEF Begin
  <2>3. PICK id : id = DeepestDescendant(Expanded(leaves[i]), random)
    OBVIOUS
  <2>4. PICK leaf : leaf = leaves[i]
    OBVIOUS
  <2>5. Asked(id, leaf)
    BY <1>2, <2>2, <2>3, <2>4, DescendantAsked
  <2>6. Begin(id, leaf)
    BY <2>1, <2>3, <2>4
  <2> QED
    BY <1>2, <2>2, <2>5, <2>6, BeginKeepsQuery
<1>5. CASE AskGlobal
  <2>1. PICK index \in 0..(NumRootFaces - 1), random \in RandomValues :
          Begin(GlobalQuery(index, random), 0)
    BY <1>5 DEF AskGlobal
  <2>2. status = "ready" /\ random \in Nat /\ index \in Nat
    <3>1. status = "ready"
      BY <2>1 DEF Begin
    <3>2. random \in Nat
      BY QueryAssumption
    <3>3. index \in Nat
      BY Sizes
    <3> QED
      BY <3>1, <3>2, <3>3
  <2>3. Asked(GlobalQuery(index, random), 0)
    BY <2>2, GlobalIsCell DEF Asked
  <2> QED
    BY <1>2, <2>1, <2>2, <2>3, BeginKeepsQuery
<1>6. CASE Miss \/ Arrive \/ Descend
  <2>1. /\ status = "descending" /\ leaves' = leaves /\ query' = query /\ origin' = origin
        /\ \/ /\ status' = "answered" /\ answer' = Ancestor(query, depth)
              /\ ChildIndex(query, depth) \notin MaskOf(node, depth)
           \/ /\ status' = "answered" /\ answer' = Ancestor(query, depth + 1)
              /\ ChildIndex(query, depth) \in MaskOf(node, depth)
              /\ depth + 1 = TargetLevel(query)
           \/ /\ status' = "descending" /\ depth' = depth + 1
              /\ ChildIndex(query, depth) \in MaskOf(node, depth)
              /\ depth + 1 < TargetLevel(query)
              /\ node' = Compact(ChildId(Expanded(node), depth, ChildIndex(query, depth)))
    BY <1>6 DEF Miss, Arrive, Descend, Descending, Answer
  <2>2. Cells(leaves)
    BY <2>1 DEF ListInv, Fetched
  <2>3. /\ depth \in Nat /\ depth + 1 \in 0..TargetLevel(query) /\ depth \in 0..TargetLevel(query)
        /\ depth # TargetLevel(query) /\ Has(query, depth)
        /\ ChildIndex(query, depth) \in MaskOf(node, depth) <=> Has(query, depth + 1)
        /\ Compact(ChildId(Expanded(node), depth, ChildIndex(query, depth)))
              = Compact(Ancestor(query, depth + 1))
    BY <2>1, <2>2, Visited
  <2>4. /\ query' \in CellIds
        /\ origin' # 0 => \E i \in DOMAIN leaves' :
                            /\ origin' = leaves'[i] /\ Level(query') = MaxS2Level
                            /\ Ancestor(query', Level(Expanded(origin'))) = Expanded(origin')
    BY <2>1 DEF QueryInv
  <2>6. CASE status' = "answered"
    <3>1. \E k \in 0..TargetLevel(query) :
            /\ answer' = Ancestor(query, k) /\ Has(query, k)
            /\ k # TargetLevel(query) => ~Has(query, k + 1)
      BY <2>1, <2>3, <2>6
    <3>2. (\E k \in 0..TargetLevel(query) :
            /\ answer = Ancestor(query, k) /\ Has(query, k)
            /\ k # TargetLevel(query) => ~Has(query, k + 1))'
      BY <2>1, <3>1 DEF Has
    <3> QED
      BY <2>4, <2>6, <3>2 DEF QueryInv
  <2>7. CASE status' = "descending"
    <3>1. /\ depth' = depth + 1 /\ depth' \in Nat /\ depth' < TargetLevel(query')
          /\ node' = Compact(Ancestor(query', depth')) /\ Has(query, depth + 1)
      BY <2>1, <2>3, <2>7
    <3>2. Has(query, depth)'
      BY <2>1, <3>1 DEF Has
    <3> QED
      BY <2>4, <2>7, <3>1, <3>2 DEF QueryInv
  <2> QED
    BY <2>1, <2>6, <2>7
<1>7. CASE UNCHANGED vars
  BY <1>7 DEF vars, QueryInv, Has
<1> QED
  BY <1>1, <1>3, <1>4, <1>5, <1>6, <1>7 DEF Next

LEMMA QueryAlways == Spec => []QueryInv
BY ListAlways, QueryStarts, QueryKept, PTL DEF Spec

LEMMA PrefixOfPrefix ==
  ASSUME NEW c \in Seq(Nat), NEW n \in 0..Len(c), NEW k \in 0..n
  PROVE  SubSeq(SubSeq(c, 1, n), 1, k) = SubSeq(c, 1, k)
<1> DEFINE p == SubSeq(c, 1, n)
           q == SubSeq(p, 1, k)
           r == SubSeq(c, 1, k)
<1>1. p \in Seq(Nat) /\ Len(p) = n /\ \A i \in 1..n : p[i] = c[i]
  BY SubPath
<1>2. Len(c) \in Nat /\ n \in Nat /\ k \in 0..Len(c) /\ k \in Nat /\ k <= n
  OBVIOUS
<1>3. r \in Seq(Int) /\ Len(r) = k /\ \A i \in 1..k : r[i] = c[i]
  BY <1>2, SubPath
<1> HIDE DEF p, r
<1>4. q \in Seq(Int) /\ Len(q) = k /\ \A i \in 1..k : q[i] = p[i]
  <2>1. k \in 0..Len(p)
    BY <1>1
  <2> QED
    BY <1>1, <2>1, SubPath
<1> HIDE DEF q
<1>5. ASSUME NEW i \in 1..k PROVE q[i] = r[i]
  <2>1. i \in 1..n
    BY <1>2
  <2> QED
    BY <1>1, <1>3, <1>4, <2>1
<1>6. q = r
  BY <1>3, <1>4, <1>5, PathsEqual
<1> QED
  BY <1>6 DEF p, q, r

\* The answer of the definition, by the level the descent found.
LEMMA ExactIs ==
  ASSUME Cells(leaves), query \in CellIds, NEW k \in 0..TargetLevel(query), Has(query, k),
         k # TargetLevel(query) => ~Has(query, k + 1)
  PROVE  ExactAnswer = Ancestor(query, k)
<1> DEFINE t == TargetLevel(query)
           path == PathOf[query]
           target == SubSeq(path, 1, t + 1)
<1>1. /\ t \in Nat /\ t <= Level(query) /\ Level(query) \in Nat /\ k \in Nat /\ k <= t
      /\ path \in Seq(Nat) /\ Len(path) = Level(query) + 1
  BY TargetIs, CellPath
<1>2. Smaller(Len(path), MaxDatabaseLevel + 1) = t + 1
  BY <1>1, Sizes DEF Smaller, TargetLevel
<1> HIDE DEF t, path
<1>3. /\ t + 1 \in 0..Len(path) /\ k + 1 \in 0..(t + 1) /\ k \in 0..Level(query)
      /\ k + 1 \in 0..Len(path)
  BY <1>1
<1>4. target \in Seq(Nat) /\ Len(target) = t + 1
  BY <1>1, <1>3, SubPath
<1>5. SubSeq(target, 1, k + 1) = SubSeq(path, 1, k + 1)
  BY <1>1, <1>3, PrefixOfPrefix
<1>6. k # t => SubSeq(target, 1, (k + 1) + 1) = SubSeq(path, 1, (k + 1) + 1)
               /\ k + 1 \in 0..Level(query)
  <2> SUFFICES ASSUME k # t
               PROVE  SubSeq(target, 1, (k + 1) + 1) = SubSeq(path, 1, (k + 1) + 1)
                      /\ k + 1 \in 0..Level(query)
    OBVIOUS
  <2>1. (k + 1) + 1 \in 0..(t + 1) /\ k + 1 \in 0..Level(query)
    BY <1>1
  <2> QED
    BY <1>1, <1>3, <2>1, PrefixOfPrefix
<1>7. \A leaf \in LeafCells : leaf \in Seq(Int)
  <2>1. ASSUME NEW i \in DOMAIN leaves PROVE CellsOf(leaves)[i] \in Seq(Int)
    BY CellPath DEF Cells, CellsOf
  <2> QED
    BY <2>1 DEF LeafCells
<1>8. InTree(LeafCells, SubSeq(target, 1, k + 1))
  BY <1>3, <1>5, TreeHas DEF path
<1>9. k + 1 # Len(target) => ~InTree(LeafCells, SubSeq(target, 1, (k + 1) + 1))
  <2> SUFFICES ASSUME k + 1 # Len(target)
               PROVE  ~InTree(LeafCells, SubSeq(target, 1, (k + 1) + 1))
    OBVIOUS
  <2>1. k # t
    BY <1>1, <1>4
  <2>2. k + 1 \in 0..Level(query) /\ ~Has(query, k + 1)
    BY <1>6, <2>1 DEF t
  <2>3. ~InTree(LeafCells, SubSeq(path, 1, (k + 1) + 1))
    BY <2>2, TreeHas DEF path
  <2> QED
    BY <1>6, <2>1, <2>3
<1>10. DeepestAncestor(LeafCells, target) = SubSeq(target, 1, k + 1)
  <2>1. k + 1 \in 1..Len(target)
    BY <1>1, <1>3, <1>4
  <2> HIDE DEF target
  <2> QED
    BY <1>4, <1>7, <1>8, <1>9, <2>1, DeepestFound
<1>11. Ancestor(query, k) \in CellIds /\ PathOf[Ancestor(query, k)] = SubSeq(path, 1, k + 1)
  BY <1>3, AncestorOf DEF path
<1>12. IdOf(SubSeq(path, 1, k + 1)) = Ancestor(query, k)
  BY <1>11, CellPath
<1>13. ExactAnswer = IdOf(DeepestAncestor(LeafCells, SubSeq(path, 1, Smaller(Len(path), MaxDatabaseLevel + 1))))
  BY DEF ExactAnswer, path
<1> QED
  BY <1>2, <1>5, <1>10, <1>12, <1>13

\* No leaf lies below another.
LEMMA LeavesApart ==
  ASSUME Cells(leaves), leaves \in Seq(0..(MaxCompactCellId + 1)),
         NEW i \in DOMAIN leaves, NEW j \in DOMAIN leaves,
         Level(Expanded(leaves[i])) <= Level(Expanded(leaves[j])),
         Ancestor(Expanded(leaves[j]), Level(Expanded(leaves[i]))) = Expanded(leaves[i])
  PROVE  i = j
<1> DEFINE a == Expanded(leaves[i])
           b == Expanded(leaves[j])
<1>1. a \in CellIds /\ b \in CellIds
  BY DEF Cells
<1>2. /\ i < j => RangeStart(b) > RangeEnd(a)
      /\ j < i => RangeStart(a) > RangeEnd(b)
  BY DEF Cells
<1>3. Level(a) <= Level(b) /\ Ancestor(b, Level(a)) = a
  OBVIOUS
<1>4. i \in Nat /\ j \in Nat
  OBVIOUS
<1> HIDE DEF a, b
<1>5. IsAncestor(PathOf[a], PathOf[b]) /\ PathOf[a] \in Seq(Int) /\ PathOf[b] \in Seq(Int)
  BY <1>1, <1>3, AboveIds, CellPath
<1>6. ~Precedes(PathOf[a], PathOf[b]) /\ ~Precedes(PathOf[b], PathOf[a])
  BY <1>5, PrecedesOrder
<1>7. ~(i < j) /\ ~(j < i)
  BY <1>1, <1>2, <1>6, RangesDecideOrder
<1> QED
  BY <1>4, <1>7

\* A query below a leaf ends at that leaf.
LEMMA OriginFound ==
  ASSUME Cells(leaves), leaves \in Seq(0..(MaxCompactCellId + 1)), query \in CellIds,
         NEW k \in 0..TargetLevel(query), Has(query, k),
         k # TargetLevel(query) => ~Has(query, k + 1),
         NEW i \in DOMAIN leaves, Level(query) = MaxS2Level,
         Ancestor(query, Level(Expanded(leaves[i]))) = Expanded(leaves[i])
  PROVE  Ancestor(query, k) = Expanded(leaves[i])
<1> DEFINE a == Expanded(leaves[i])
           m == Level(a)
<1>1. a \in CellIds /\ m <= MaxDatabaseLevel /\ Ancestor(query, m) = a
  BY DEF Cells
<1> HIDE DEF a
<1>2. m \in Nat /\ k \in Nat /\ k <= TargetLevel(query) /\ m <= TargetLevel(query)
      /\ TargetLevel(query) <= Level(query) /\ TargetLevel(query) \in Nat /\ Level(query) \in Nat
  <2>1. TargetLevel(query) = MaxDatabaseLevel
    BY Sizes DEF TargetLevel, Smaller
  <2>2. m \in Nat
    BY <1>1, CellFacts
  <2>3. TargetLevel(query) <= Level(query) /\ TargetLevel(query) \in Nat /\ Level(query) \in Nat
    BY TargetIs
  <2> HIDE DEF m
  <2> QED
    BY <1>1, <2>1, <2>2, <2>3
<1>3. ~(k < m)
  <2> SUFFICES ASSUME k < m PROVE FALSE
    OBVIOUS
  <2>1. k + 1 <= m /\ k # TargetLevel(query) /\ k + 1 \in 0..m /\ m \in 0..Level(query)
    BY <1>2
  <2>2. Ancestor(a, k + 1) = Ancestor(query, k + 1)
    BY <1>1, <2>1, AncestorChain
  <2>3. Has(query, k + 1)
    BY <2>1, <2>2 DEF Has, a
  <2> QED
    BY <2>1, <2>3
<1>4. ~(m < k)
  <2> SUFFICES ASSUME m < k PROVE FALSE
    OBVIOUS
  <2>1. PICK j \in DOMAIN leaves :
          /\ k <= Level(Expanded(leaves[j]))
          /\ Ancestor(Expanded(leaves[j]), k) = Ancestor(query, k)
    BY DEF Has
  <2> DEFINE b == Expanded(leaves[j])
  <2>2. b \in CellIds /\ k <= Level(b) /\ Ancestor(b, k) = Ancestor(query, k)
    BY <2>1 DEF Cells
  <2> HIDE DEF b
  <2>3. Level(b) \in Nat
    BY <2>2, CellFacts
  <2>4. k \in 0..Level(b) /\ k \in 0..Level(query) /\ m \in 0..k
    BY <1>2, <2>2, <2>3
  <2>5. Ancestor(Ancestor(b, k), m) = Ancestor(b, m) /\ Ancestor(Ancestor(query, k), m) = Ancestor(query, m)
    BY <2>2, <2>4, AncestorChain
  <2>6. Ancestor(b, m) = a
    BY <1>1, <2>2, <2>5
  <2>7. m <= Level(b) /\ Level(b) # m
    BY <1>2, <2>2, <2>3
  <2>8. i = j
    BY <2>6, <2>7, LeavesApart DEF a, b
  <2> QED
    BY <2>7, <2>8 DEF a, b
<1>5. k = m
  BY <1>2, <1>3, <1>4
<1> QED
  BY <1>1, <1>5 DEF a

\* Every query the loop answers gets the deepest ancestor in the tree of the
\* leaves, only identifiers of no cell are refused, and a query made from a
\* stored leaf gets that leaf, for every number of levels and faces and every
\* list (AnswersExact).
THEOREM AnswersAlwaysExact == Spec => []AnswersExact
<1>1. ListInv /\ QueryInv => AnswersExact
  <2> SUFFICES ASSUME ListInv, QueryInv PROVE AnswersExact
    OBVIOUS
  <2>1. CASE status = "answered"
    <3>1. Cells(leaves) /\ leaves \in Seq(0..(MaxCompactCellId + 1)) /\ query \in CellIds
      BY <2>1 DEF ListInv, QueryInv
    <3>2. PICK k \in 0..TargetLevel(query) :
            /\ answer = Ancestor(query, k) /\ Has(query, k)
            /\ k # TargetLevel(query) => ~Has(query, k + 1)
      BY <2>1 DEF QueryInv
    <3>3. answer = ExactAnswer
      BY <3>1, <3>2, ExactIs
    <3>4. ASSUME origin # 0 PROVE answer = Expanded(origin)
      <4>1. PICK i \in DOMAIN leaves :
              /\ origin = leaves[i] /\ Level(query) = MaxS2Level
              /\ Ancestor(query, Level(Expanded(origin))) = Expanded(origin)
        BY <2>1, <3>4 DEF QueryInv
      <4> QED
        BY <3>1, <3>2, <4>1, OriginFound
    <3> QED
      BY <2>1, <3>1, <3>3, <3>4 DEF AnswersExact
  <2>2. CASE status # "answered"
    BY <2>2 DEF AnswersExact, QueryInv
  <2> QED
    BY <2>1, <2>2
<1> QED
  BY <1>1, ListAlways, QueryAlways, PTL

-----------------------------------------------------------------------------
(* Bits *)

BitPlaces == 0..(IdBits - 1)
BitValues == [k \in BitPlaces |-> 2 ^ k]
Differing(a, b) == {k \in BitPlaces : (a \div 2 ^ k) % 2 # (b \div 2 ^ k) % 2}

LEMMA BitValueFacts ==
  /\ IdBits \in Nat /\ IsFiniteSet(BitPlaces)
  /\ \A k \in BitPlaces : k \in Nat /\ BitValues[k] = 2 ^ k /\ BitValues[k] \in Nat
<1>1. IdBits \in Nat /\ IsFiniteSet(BitPlaces)
  BY Sizes, FS_Interval DEF BitPlaces
<1>2. ASSUME NEW k \in BitPlaces PROVE k \in Nat /\ BitValues[k] = 2 ^ k /\ BitValues[k] \in Nat
  <2>1. k \in Nat
    BY <1>1 DEF BitPlaces
  <2> QED
    BY <2>1, PowerNat DEF BitValues
<1> QED
  BY <1>1, <1>2

\* The lower bits together are less than the next one.
LEMMA BitSums ==
  ASSUME NEW n \in Nat, n <= IdBits
  PROVE  SetSum(BitValues, 0..(n - 1)) < 2 ^ n
<1> DEFINE Wrong == {m \in 0..IdBits : ~(SetSum(BitValues, 0..(m - 1)) < 2 ^ m)}
<1>1. SUFFICES ASSUME Wrong # {} PROVE FALSE
  <2>1. n \in 0..IdBits
    BY Sizes
  <2> QED
    BY <2>1
<1>2. PICK m \in Wrong : \A y \in Wrong : m <= y
  <2>1. Wrong \subseteq Nat
    OBVIOUS
  <2> HIDE DEF Wrong
  <2> QED
    BY <1>1, <2>1, LeastNatural
<1>3. m \in Nat /\ m <= IdBits /\ IdBits \in Nat /\ ~(SetSum(BitValues, 0..(m - 1)) < 2 ^ m)
  BY Sizes
<1>4. CASE m = 0
  <2>1. 0..(m - 1) = {} /\ 2 ^ m = 1
    BY <1>4, <1>3, PowerZero
  <2>2. SetSum(BitValues, 0..(m - 1)) = 0
    BY <2>1, SetSumEmpty
  <2> QED
    BY <1>3, <2>1, <2>2
<1>5. CASE m # 0
  <2> DEFINE j == m - 1
  <2>1. j \in Nat /\ j + 1 = m /\ j \in 0..IdBits /\ j < m /\ j \in BitPlaces
    BY <1>3, <1>5 DEF BitPlaces
  <2>2. SetSum(BitValues, 0..(j - 1)) < 2 ^ j
    <3>1. j \notin Wrong
      <4> HIDE DEF Wrong
      <4> QED
        BY <1>2, <1>3, <2>1
    <3> QED
      BY <2>1, <3>1
  <2> HIDE DEF j
  <2>3. /\ IsFiniteSet(0..j) /\ \A a \in 0..j : BitValues[a] \in Nat
        /\ j \in 0..j /\ (0..j) \ {j} = 0..(j - 1) /\ 0..(m - 1) = 0..j
    <3>1. \A a \in 0..j : a \in BitPlaces
      BY <2>1, Sizes DEF BitPlaces
    <3>2. IsFiniteSet(0..j)
      BY <2>1, FS_Interval
    <3>3. j \in 0..j /\ (0..j) \ {j} = 0..(j - 1) /\ 0..(m - 1) = 0..j
      BY <2>1
    <3> QED
      BY <3>1, <3>2, <3>3, BitValueFacts
  <2>4. /\ SetSum(BitValues, 0..j) = BitValues[j] + SetSum(BitValues, 0..(j - 1))
        /\ SetSum(BitValues, 0..(j - 1)) \in Nat
    BY <2>3, SetSumRemove, SMTT(30)
  <2>5. BitValues[j] = 2 ^ j /\ 2 ^ j \in Nat /\ 2 ^ (j + 1) = 2 * 2 ^ j
    BY <2>1, PowerNext, PowerNat, BitValueFacts
  <2> DEFINE p == 2 ^ j
             s == SetSum(BitValues, 0..(j - 1))
  <2>6. SetSum(BitValues, 0..(m - 1)) = p + s /\ 2 ^ m = 2 * p /\ s < p /\ s \in Nat /\ p \in Nat
    BY <2>1, <2>2, <2>3, <2>4, <2>5
  <2> HIDE DEF p, s
  <2> QED
    BY <1>3, <2>6
<1> QED
  BY <1>4, <1>5

LEMMA XorIs ==
  ASSUME NEW a, NEW b
  PROVE  Xor(a, b) = SetSum(BitValues, Differing(a, b))
BY DEF Xor, BitValues, Differing, BitPlaces

\* What two identifiers differ in is below a bit exactly if they agree from it on.
LEMMA XorBelow ==
  ASSUME NEW a \in Ids, NEW b \in Ids, NEW k \in 0..IdBits
  PROVE  /\ Xor(a, b) < 2 ^ k <=> a \div 2 ^ k = b \div 2 ^ k
         /\ Xor(a, b) \in Nat
<1> DEFINE T == Differing(a, b)
<1>1. a \in Nat /\ b \in Nat /\ k \in Nat /\ IdBits \in Nat /\ k <= IdBits
      /\ a < 2 ^ IdBits /\ b < 2 ^ IdBits
  <2> DEFINE p == 2 ^ IdBits
  <2>1. p \in Nat \ {0} /\ a \in 0..(p - 1) /\ b \in 0..(p - 1)
    BY FacePower DEF Ids
  <2> HIDE DEF p
  <2>2. a \in Nat /\ b \in Nat /\ a < p /\ b < p
    BY <2>1
  <2> QED
    BY <2>2, Sizes DEF p
<1>2. T \subseteq BitPlaces /\ IsFiniteSet(T) /\ \A t \in T : BitValues[t] \in Nat
  <2>1. T \subseteq BitPlaces
    BY DEF Differing
  <2> QED
    BY <2>1, BitValueFacts, FS_Subset
<1>3. Xor(a, b) = SetSum(BitValues, T) /\ SetSum(BitValues, T) \in Nat
  BY <1>2, XorIs, SetSumNat
<1>4. ASSUME a \div 2 ^ k = b \div 2 ^ k
      PROVE  Xor(a, b) < 2 ^ k
  <2>1. ASSUME NEW t \in T PROVE t \in 0..(k - 1)
    <3>1. t \in Nat /\ (a \div 2 ^ t) % 2 # (b \div 2 ^ t) % 2
      BY <1>2, BitValueFacts DEF Differing
    <3>2. SUFFICES ASSUME k <= t PROVE FALSE
      BY <1>1, <3>1
    <3>3. t - k \in Nat /\ t = k + (t - k)
      BY <1>1, <3>1, <3>2
    <3>4. 2 ^ k \in Nat \ {0} /\ 2 ^ (t - k) \in Nat \ {0} /\ 2 ^ t = 2 ^ k * 2 ^ (t - k)
      <4>1. 2 ^ (k + (t - k)) = 2 ^ k * 2 ^ (t - k)
        BY <1>1, <3>3, PowerSum
      <4> QED
        BY <1>1, <3>3, <4>1, PowerPositive
    <3>5. /\ a \div (2 ^ k * 2 ^ (t - k)) = (a \div 2 ^ k) \div 2 ^ (t - k)
          /\ b \div (2 ^ k * 2 ^ (t - k)) = (b \div 2 ^ k) \div 2 ^ (t - k)
      BY <1>1, <3>4, QuotientTwice
    <3> QED
      BY <1>4, <3>1, <3>4, <3>5
  <2>2. T \subseteq 0..(k - 1)
    BY <2>1
  <2>3. IsFiniteSet(0..(k - 1)) /\ \A t \in 0..(k - 1) : BitValues[t] \in Nat
    <3>1. \A t \in 0..(k - 1) : t \in BitPlaces
      BY <1>1 DEF BitPlaces
    <3> QED
      <4>1. IsFiniteSet(0..(k - 1))
        BY <1>1, FS_Interval
      <4> QED
        BY <3>1, <4>1, BitValueFacts
  <2>4. /\ SetSum(BitValues, T) <= SetSum(BitValues, 0..(k - 1))
        /\ SetSum(BitValues, 0..(k - 1)) \in Nat
    <3> HIDE DEF T
    <3> QED
      BY <2>2, <2>3, SetSumGrows
  <2>5. SetSum(BitValues, 0..(k - 1)) < 2 ^ k /\ 2 ^ k \in Nat
    BY <1>1, BitSums, PowerNat
  <2> DEFINE x == SetSum(BitValues, T)
             y == SetSum(BitValues, 0..(k - 1))
             z == 2 ^ k
  <2>6. x <= y /\ y < z /\ x \in Nat /\ y \in Nat /\ z \in Nat
    BY <1>3, <2>4, <2>5
  <2> HIDE DEF x, y, z
  <2>7. x < z
    BY <2>6
  <2> QED
    BY <1>3, <2>7 DEF x, z
<1>5. ASSUME Xor(a, b) < 2 ^ k
      PROVE  a \div 2 ^ k = b \div 2 ^ k
  <2>1. ASSUME NEW t \in BitPlaces, k <= t PROVE (a \div 2 ^ t) % 2 = (b \div 2 ^ t) % 2
    <3> SUFFICES ASSUME t \in T PROVE FALSE
      BY DEF Differing
    <3>1. /\ SetSum(BitValues, T) = BitValues[t] + SetSum(BitValues, T \ {t})
          /\ SetSum(BitValues, T \ {t}) \in Nat
      <4> HIDE DEF T
      <4> QED
        BY <1>2, SetSumRemove
    <3>2. BitValues[t] = 2 ^ t /\ t \in Nat
      BY BitValueFacts
    <3>3. 2 ^ k <= 2 ^ t /\ 2 ^ k \in Nat /\ 2 ^ t \in Nat
      <4>1. CASE k = t
        BY <1>1, <3>2, <4>1, PowerNat
      <4>2. CASE k < t
        <5>1. 2 ^ k < 2 ^ t /\ 2 ^ k \in Nat /\ 2 ^ t \in Nat
          BY <1>1, <3>2, <4>2, PowerStrict
        <5> DEFINE u == 2 ^ k
                   v == 2 ^ t
        <5>2. u < v /\ u \in Nat /\ v \in Nat
          BY <5>1
        <5> HIDE DEF u, v
        <5>3. u <= v
          BY <5>2
        <5> QED
          BY <5>1, <5>3 DEF u, v
      <4> QED
        BY <1>1, <2>1, <3>2, <4>1, <4>2
    <3> DEFINE u == 2 ^ k
               v == 2 ^ t
               r == SetSum(BitValues, T \ {t})
    <3>4. u <= v /\ u \in Nat /\ v \in Nat /\ r \in Nat /\ v + r < u
      BY <1>3, <1>5, <3>1, <3>2, <3>3
    <3> HIDE DEF u, v, r
    <3> QED
      BY <3>4
  <2> DEFINE Wrong == {i \in Nat : i <= IdBits - k /\ a \div 2 ^ (IdBits - i) # b \div 2 ^ (IdBits - i)}
  <2>2. SUFFICES ASSUME Wrong # {} PROVE FALSE
    <3>1. IdBits - k \in Nat /\ IdBits - (IdBits - k) = k /\ IdBits - k <= IdBits - k
      BY <1>1
    <3>2. IdBits - k \notin Wrong
      BY <2>2
    <3> QED
      BY <3>1, <3>2
  <2>3. PICK i \in Wrong : \A y \in Wrong : i <= y
    <3>1. Wrong \subseteq Nat
      OBVIOUS
    <3> HIDE DEF Wrong
    <3> QED
      BY <2>2, <3>1, LeastNatural
  <2>4. i \in Nat /\ i <= IdBits - k /\ a \div 2 ^ (IdBits - i) # b \div 2 ^ (IdBits - i)
    OBVIOUS
  <2>5. CASE i = 0
    <3>1. IdBits - i = IdBits /\ 2 ^ IdBits \in Nat \ {0}
      BY <1>1, <2>5, FacePower
    <3>2. a \div 2 ^ IdBits = 0 /\ b \div 2 ^ IdBits = 0
      <4> DEFINE p == 2 ^ IdBits
      <4>1. p \in Nat \ {0} /\ a < p /\ b < p
        BY <1>1, <3>1
      <4> HIDE DEF p
      <4>2. 0 * p <= a /\ a < (0 + 1) * p /\ 0 * p <= b /\ b < (0 + 1) * p /\ 0 \in Nat
        BY <1>1, <4>1
      <4>3. a \div p = 0 /\ b \div p = 0
        BY <1>1, <4>1, <4>2, QuotientUnique
      <4> QED
        BY <4>3 DEF p
    <3> QED
      BY <2>4, <3>1, <3>2
  <2>6. CASE i # 0
    <3> DEFINE t == IdBits - i
    <3>1. /\ t \in Nat /\ t \in BitPlaces /\ k <= t /\ t + 1 = IdBits - (i - 1)
          /\ i - 1 \in Nat /\ i - 1 < i /\ i - 1 <= IdBits - k
      BY <1>1, <2>4, <2>6 DEF BitPlaces
    <3>2. a \div 2 ^ (IdBits - (i - 1)) = b \div 2 ^ (IdBits - (i - 1))
      <4>1. i - 1 \notin Wrong
        <5> HIDE DEF Wrong
        <5> QED
          BY <2>3, <2>4, <3>1
      <4> QED
        BY <3>1, <4>1
    <3> HIDE DEF t
    <3>3. (a \div 2 ^ t) % 2 = (b \div 2 ^ t) % 2 /\ a \div 2 ^ (t + 1) = b \div 2 ^ (t + 1)
      BY <2>1, <3>1, <3>2
    <3>4. /\ a \div 2 ^ t = 2 * (a \div 2 ^ (t + 1)) + ((a \div 2 ^ t) % 2)
          /\ b \div 2 ^ t = 2 * (b \div 2 ^ (t + 1)) + ((b \div 2 ^ t) % 2)
      BY <1>1, <3>1, BitStep
    <3>5. a \div 2 ^ t = b \div 2 ^ t
      BY <3>3, <3>4
    <3> QED
      BY <2>4, <3>5 DEF t
  <2> QED
    BY <2>5, <2>6
<1> QED
  BY <1>3, <1>4, <1>5

\* The bit length of a number bounds the powers above it.
LEMMA BitLengthIs ==
  ASSUME NEW n \in Nat, n < 2 ^ IdBits
  PROVE  /\ BitLength(n) \in Nat /\ BitLength(n) <= IdBits
         /\ \A j \in Nat : n < 2 ^ j <=> BitLength(n) <= j
<1> DEFINE Above == {k \in Nat : n < 2 ^ k}
           P(k) == n < 2 ^ k /\ (k = 0 \/ n >= 2 ^ (k - 1))
<1>1. IdBits \in Above /\ IdBits \in Nat /\ Above \subseteq Nat
  BY Sizes
<1>2. PICK m \in Above : \A y \in Above : m <= y
  <2> HIDE DEF Above
  <2> QED
    BY <1>1, LeastNatural
<1>3. m \in Nat /\ n < 2 ^ m /\ m <= IdBits
  <2>1. m <= IdBits
    <3> HIDE DEF Above
    <3> QED
      BY <1>1, <1>2
  <2> QED
    BY <2>1
<1>4. ASSUME NEW j \in Nat, n < 2 ^ j PROVE m <= j
  <2>1. j \in Above
    BY <1>4
  <2> HIDE DEF Above
  <2> QED
    BY <1>2, <2>1
<1>5. ASSUME NEW j \in Nat, m <= j PROVE n < 2 ^ j
  <2>1. CASE m = j
    BY <1>3, <2>1
  <2>2. CASE m # j
    <3>1. m < j
      BY <1>3, <1>5, <2>2
    <3>2. 2 ^ m < 2 ^ j /\ 2 ^ m \in Nat /\ 2 ^ j \in Nat
      BY <1>3, <3>1, PowerStrict
    <3> DEFINE u == 2 ^ m
               v == 2 ^ j
    <3>3. n < u /\ u < v /\ u \in Nat /\ v \in Nat
      BY <1>3, <3>2
    <3> HIDE DEF u, v
    <3>4. n < v
      BY <3>3
    <3> QED
      BY <3>4 DEF v
  <2> QED
    BY <2>1, <2>2
<1>6. P(m)
  <2>1. CASE m = 0
    BY <1>3, <2>1
  <2>2. CASE m # 0
    <3>1. m - 1 \in Nat /\ ~(m <= m - 1)
      BY <1>3, <2>2
    <3>2. ~(n < 2 ^ (m - 1)) /\ 2 ^ (m - 1) \in Nat
      BY <1>4, <3>1, PowerNat
    <3> DEFINE u == 2 ^ (m - 1)
    <3>3. ~(n < u) /\ u \in Nat
      BY <3>2
    <3> HIDE DEF u
    <3>4. n >= u
      BY <3>3
    <3> QED
      BY <1>3, <3>4 DEF u
  <2> QED
    BY <2>1, <2>2
<1>7. ASSUME NEW k \in 0..IdBits, P(k) PROVE k = m
  <2>1. k \in Nat /\ m <= k
    BY <1>4, <1>7
  <2>2. CASE k = 0
    BY <1>3, <2>1, <2>2
  <2>3. CASE k # 0
    <3>1. k - 1 \in Nat /\ n >= 2 ^ (k - 1) /\ 2 ^ (k - 1) \in Nat
      <4>1. k - 1 \in Nat
        BY <2>1, <2>3
      <4> QED
        BY <1>7, <2>3, <4>1, PowerNat
    <3>2. ~(n < 2 ^ (k - 1))
      <4> DEFINE u == 2 ^ (k - 1)
      <4>1. n >= u /\ u \in Nat
        BY <3>1
      <4> HIDE DEF u
      <4>2. ~(n < u)
        BY <4>1
      <4> QED
        BY <4>2 DEF u
    <3>3. ~(m <= k - 1)
      BY <1>5, <3>1, <3>2
    <3> QED
      BY <1>3, <2>1, <3>1, <3>3
  <2> QED
    BY <2>2, <2>3
<1>8. m \in 0..IdBits
  BY <1>1, <1>3
<1>9. BitLength(n) = CHOOSE k \in 0..IdBits : P(k)
  BY DEF BitLength
<1> HIDE DEF P, Above
<1>10. BitLength(n) = m
  BY <1>6, <1>7, <1>8, <1>9
<1> QED
  BY <1>3, <1>4, <1>5, <1>10

\* Two cells share an ancestor exactly if they agree in the bits above it.
LEMMA CommonBits ==
  ASSUME NEW a \in CellIds, NEW b \in CellIds, NEW k \in 0..Level(a), k <= Level(b)
  PROVE  Ancestor(a, k) = Ancestor(b, k)
           <=> a \div 2 ^ (Sentinel(k) + 1) = b \div 2 ^ (Sentinel(k) + 1)
<1> DEFINE l == Level(a)
           n == NumberOf(a)
           i == Level(b)
           m == NumberOf(b)
<1>1. /\ l \in CellLevels /\ n \in Numbers(l) /\ a = Id(l, n) /\ l \in Nat
      /\ i \in CellLevels /\ m \in Numbers(i) /\ b = Id(i, m) /\ i \in Nat
  BY CellFacts
<1>2. k \in 0..l /\ k \in 0..i
  <2>1. k \in 0..l /\ k <= i
    OBVIOUS
  <2> HIDE DEF l, i, n, m
  <2> QED
    BY <1>1, <2>1
<1> HIDE DEF l, n, i, m
<1>3. /\ Ancestor(a, k) = Id(k, n \div W(l - k)) /\ n \div W(l - k) \in Numbers(k)
      /\ Ancestor(b, k) = Id(k, m \div W(i - k)) /\ m \div W(i - k) \in Numbers(k)
      /\ k \in CellLevels
  BY <1>1, <1>2, AncestorIs
<1>4. /\ a \div (2 * W(MaxS2Level - k)) = n \div W(l - k)
      /\ b \div (2 * W(MaxS2Level - k)) = m \div W(i - k)
  BY <1>1, <1>2, Cut
<1>5. 2 ^ (Sentinel(k) + 1) = 2 * W(MaxS2Level - k)
  BY <1>3, SentinelFacts
<1>6. Id(k, n \div W(l - k)) = Id(k, m \div W(i - k)) <=> n \div W(l - k) = m \div W(i - k)
  BY <1>3, IdUnique
<1> QED
  BY <1>3, <1>4, <1>5, <1>6

\* shared_ancestor finds the deepest level at which both have the same ancestor.
LEMMA SharedLevelIs ==
  ASSUME NEW a \in CellIds, NEW b \in CellIds, Face(a) = Face(b)
  PROVE  LET s == SharedLevel(a, Level(a), b)
         IN  /\ s \in Nat /\ s <= Level(a) /\ s <= Level(b)
             /\ Ancestor(a, s) = Ancestor(b, s)
             /\ \A k \in 0..Level(a) :
                  k <= Level(b) /\ Ancestor(a, k) = Ancestor(b, k) => k <= s
<1> DEFINE c == Smaller(Level(a), Level(b))
           t == Sentinel(c) + 1
           x == Xor(a, b)
           d == x \div 2 ^ t
           s == SharedLevel(a, Level(a), b)
<1>1. /\ Level(a) \in CellLevels /\ Level(b) \in CellLevels /\ Level(a) \in Nat /\ Level(b) \in Nat
      /\ a \in Ids /\ b \in Ids
  BY CellFacts
<1>2. /\ c \in Nat /\ c <= Level(a) /\ c <= Level(b) /\ c \in CellLevels
      /\ \A k \in Nat : k <= Level(a) /\ k <= Level(b) => k <= c
  BY <1>1 DEF Smaller
<1> HIDE DEF c
<1>3. /\ Sentinel(c) = 2 * (MaxS2Level - c) /\ t \in Nat /\ MaxS2Level - c \in Nat
      /\ t = 2 * (MaxS2Level - c) + 1 /\ MaxS2Level \in Nat
  BY <1>2, SentinelFacts, Sizes
<1> HIDE DEF t
<1>4. x \in Nat /\ x < 2 ^ IdBits
  <2>1. IdBits \in 0..IdBits /\ IdBits \in Nat
    BY Sizes
  <2>2. x \in Nat /\ (x < 2 ^ IdBits <=> a \div 2 ^ IdBits = b \div 2 ^ IdBits)
    BY <1>1, <2>1, XorBelow
  <2>3. a \div 2 ^ IdBits = 0 /\ b \div 2 ^ IdBits = 0
    <3> DEFINE p == 2 ^ IdBits
    <3>1. p \in Nat \ {0} /\ a \in 0..(p - 1) /\ b \in 0..(p - 1)
      BY <1>1, FacePower DEF Ids
    <3> HIDE DEF p
    <3>2. 0 * p <= a /\ a < (0 + 1) * p /\ 0 * p <= b /\ b < (0 + 1) * p /\ a \in Nat /\ b \in Nat
      BY <3>1
    <3>3. a \div p = 0 /\ b \div p = 0
      BY <3>1, <3>2, QuotientUnique
    <3> QED
      BY <3>3 DEF p
  <2> QED
    BY <2>2, <2>3
<1>5. ASSUME NEW j \in Nat, j + t <= IdBits
      PROVE  d < 2 ^ j <=> a \div 2 ^ (j + t) = b \div 2 ^ (j + t)
  <2>1. 2 ^ t \in Nat \ {0} /\ 2 ^ j \in Nat /\ 2 ^ (j + t) = 2 ^ j * 2 ^ t
    BY <1>3, PowerPositive, PowerNat, PowerSum
  <2>2. d < 2 ^ j <=> x < 2 ^ j * 2 ^ t
    <3> HIDE DEF x
    <3> QED
      BY <1>4, <2>1, QuotientBelow
  <2>3. j + t \in 0..IdBits
    BY <1>3, <1>5, Sizes
  <2>4. x < 2 ^ (j + t) <=> a \div 2 ^ (j + t) = b \div 2 ^ (j + t)
    BY <1>1, <2>3, XorBelow
  <2> QED
    BY <2>1, <2>2, <2>4
<1>6. d \in Nat /\ d < 2 ^ IdBits
  <2>1. 2 ^ t \in Nat \ {0} /\ 2 ^ IdBits \in Nat
    BY <1>3, PowerPositive, FacePower
  <2> HIDE DEF x
  <2>2. d \in Nat /\ d <= x
    <3> DEFINE p == 2 ^ t
               q == x \div p
    <3>1. p \in Nat \ {0} /\ x \in Nat
      BY <1>4, <2>1
    <3> HIDE DEF p
    <3>2. q \in Nat /\ q * p <= x
      BY <3>1, Quotient
    <3> HIDE DEF q
    <3>3. q <= q * p
      BY <3>1, <3>2
    <3>4. q <= x
      <4> DEFINE r == q * p
      <4>1. r \in Nat /\ q <= r /\ r <= x
        BY <3>1, <3>2, <3>3
      <4> HIDE DEF r
      <4> QED
        BY <3>1, <3>2, <4>1
    <3> QED
      BY <3>2, <3>4 DEF q, p
  <2> DEFINE p == 2 ^ IdBits
  <2>3. p \in Nat /\ x < p
    BY <1>4, <2>1
  <2> HIDE DEF d, p
  <2>4. d < p
    BY <1>4, <2>2, <2>3
  <2> QED
    BY <2>2, <2>4 DEF p
<1> HIDE DEF d, x
<1>7. /\ BitLength(d) \in Nat
      /\ \A j \in Nat : d < 2 ^ j <=> BitLength(d) <= j
  BY <1>6, BitLengthIs
<1> DEFINE n == BitLength(d)
<1> HIDE DEF n
\* A level is shared exactly if the bits that differ are below it.
<1>8. ASSUME NEW k \in 0..c
      PROVE  Ancestor(a, k) = Ancestor(b, k) <=> n <= 2 * (c - k)
  <2>1. /\ k \in 0..Level(a) /\ k <= Level(b) /\ k \in Nat /\ k \in CellLevels /\ c - k \in Nat
        /\ 2 * (c - k) \in Nat
    BY <1>1, <1>2, <1>3 DEF CellLevels
  <2>2. /\ Sentinel(k) + 1 = 2 * (c - k) + t /\ 2 * (c - k) + t <= IdBits
    <3>1. Sentinel(k) = 2 * (MaxS2Level - k) /\ k <= MaxS2Level
      BY <2>1, SentinelFacts
    <3>2. IdBits = 2 * MaxS2Level + 1 + FaceBits /\ FaceBits \in Nat
      BY Sizes
    <3> QED
      BY <1>2, <1>3, <2>1, <3>1, <3>2
  <2>3. d < 2 ^ (2 * (c - k)) <=> a \div 2 ^ (2 * (c - k) + t) = b \div 2 ^ (2 * (c - k) + t)
    BY <1>5, <2>1, <2>2
  <2>4. d < 2 ^ (2 * (c - k)) <=> n <= 2 * (c - k)
    BY <1>7, <2>1 DEF n
  <2> QED
    BY <2>1, <2>2, <2>3, <2>4, CommonBits
<1>9. d = 0 <=> n = 0
  <2>1. d < 2 ^ 0 <=> n <= 0
    BY <1>7 DEF n
  <2>2. 2 ^ 0 = 1
    BY PowerZero
  <2> QED
    BY <1>6, <1>7, <2>1, <2>2 DEF n
<1>10. n <= 2 * (c - 0)
  <2>1. Ancestor(a, 0) = Ancestor(b, 0)
    <3>1. 0 \in 0..Level(a) /\ 0 <= Level(b) /\ 0 \in CellLevels
      BY <1>1, <1>3 DEF CellLevels
    <3>2. Sentinel(0) + 1 = FaceShift
      <4>1. Sentinel(0) = 2 * (MaxS2Level - 0)
        BY <3>1, SentinelFacts
      <4> QED
        BY <4>1, Sizes
    <3> QED
      BY <3>1, <3>2, CommonBits DEF Face
  <2>2. 0 \in 0..c
    BY <1>2
  <2> QED
    BY <1>8, <2>1, <2>2
<1>11. s = IF d = 0 THEN c ELSE (2 * c - n) \div 2
  BY Sizes DEF SharedLevel, c, d, x, t, n
<1> HIDE DEF s
<1>12. s \in 0..c /\ \A k \in 0..c : n <= 2 * (c - k) <=> k <= s
  <2>1. n \in Nat
    BY <1>7 DEF n
  <2>2. CASE d = 0
    <3>1. s = c /\ n = 0
      BY <1>9, <1>11, <2>2
    <3> QED
      BY <1>2, <3>1
  <2>3. CASE d # 0
    <3>1. s = (2 * c - n) \div 2
      BY <1>11, <2>3
    <3>2. 2 * c - n \in Nat
      BY <1>2, <1>10, <2>1
    <3> DEFINE y == 2 * c - n
    <3>3. y \in Nat /\ n = 2 * c - y
      BY <1>2, <2>1, <3>2
    <3> HIDE DEF y
    <3>4. s = y \div 2
      BY <3>1 DEF y
    <3>5. s \in Nat /\ 2 * s <= y /\ y <= 2 * s + 1
      BY <3>3, <3>4
    <3>6. s <= c
      BY <1>2, <2>1, <3>3, <3>5
    <3>7. ASSUME NEW k \in 0..c PROVE n <= 2 * (c - k) <=> k <= s
      BY <1>2, <3>3, <3>5
    <3> QED
      BY <1>2, <3>5, <3>6, <3>7
  <2> QED
    BY <2>2, <2>3
<1>13. /\ s \in Nat /\ s <= Level(a) /\ s <= Level(b)
       /\ Ancestor(a, s) = Ancestor(b, s)
  <2>1. s \in Nat /\ s <= c /\ s <= s
    BY <1>2, <1>12
  <2> QED
    BY <1>1, <1>2, <1>8, <1>12, <2>1
<1>14. ASSUME NEW k \in 0..Level(a), k <= Level(b), Ancestor(a, k) = Ancestor(b, k)
       PROVE  k <= s
  <2>1. k \in 0..c
    BY <1>1, <1>2, <1>14
  <2> QED
    BY <1>8, <1>12, <1>14, <2>1
<1> QED
  BY <1>13, <1>14 DEF s

-----------------------------------------------------------------------------
(* The leaf vector *)

\* Indices that hold a property which only the first ones hold.
LEMMA FirstIndices ==
  ASSUME NEW n \in Nat, NEW T, T \subseteq 1..n,
         \A i \in T : \A j \in 1..n : j < i => j \in T
  PROVE  /\ Cardinality(T) \in 0..n /\ Cardinality(T) \in Nat
         /\ \A i \in 1..n : i \in T <=> i <= Cardinality(T)
<1> DEFINE Out == {k \in Nat : k <= n /\ k + 1 \notin T}
<1>1. PICK m \in Out : \A y \in Out : m <= y
  <2>1. Out \subseteq Nat /\ n \in Out
    OBVIOUS
  <2> HIDE DEF Out
  <2> QED
    BY <2>1, LeastNatural
<1>2. m \in Nat /\ m <= n /\ m + 1 \notin T
  BY <1>1
<1>3. \A i \in 1..m : i \in T
  <2> SUFFICES ASSUME NEW i \in 1..m, i \notin T PROVE FALSE
    OBVIOUS
  <2>1. i - 1 \in Nat /\ i - 1 <= n /\ (i - 1) + 1 = i /\ ~(m <= i - 1)
    BY <1>2
  <2>2. i - 1 \in Out
    BY <2>1
  <2> QED
    BY <1>1, <2>1, <2>2
<1>4. \A i \in T : i \in 1..m
  <2> SUFFICES ASSUME NEW i \in T, m < i PROVE FALSE
    BY <1>2
  <2>1. i \in 1..n /\ (m + 1 < i \/ m + 1 = i) /\ m + 1 \in 1..n
    BY <1>2
  <2> QED
    BY <1>2, <2>1
<1>5. T = 1..m
  BY <1>3, <1>4
<1>6. Cardinality(T) = m
  BY <1>2, <1>5, FS_Interval
<1> QED
  BY <1>2, <1>5, <1>6

LEMMA LeavesAscend ==
  ASSUME Cells(leaves), NEW i \in DOMAIN leaves, NEW j \in DOMAIN leaves, i < j
  PROVE  Expanded(leaves[i]) < Expanded(leaves[j])
<1> DEFINE a == Expanded(leaves[i])
           b == Expanded(leaves[j])
<1>1. a \in CellIds /\ b \in CellIds /\ RangeStart(b) > RangeEnd(a)
  BY DEF Cells
<1> HIDE DEF a, b
<1>2. /\ RangeEnd(a) \in Nat /\ RangeStart(b) \in Nat /\ a <= RangeEnd(a) /\ RangeStart(b) <= b
      /\ a \in Nat /\ b \in Nat
  BY <1>1, CellRange, CellFacts
<1>3. a < b
  BY <1>1, <1>2
<1> QED
  BY <1>3 DEF a, b

\* The leaves of earlier faces lead, and FaceOffset counts them.
LEMMA OffsetCuts ==
  ASSUME Cells(leaves), leaves \in Seq(0..(MaxCompactCellId + 1)), NEW f \in Nat
  PROVE  /\ FaceOffset(f) \in 0..Len(leaves) /\ FaceOffset(f) \in Nat
         /\ \A i \in 1..Len(leaves) : Face(Expanded(leaves[i])) < f <=> i <= FaceOffset(f)
<1> DEFINE n == Len(leaves)
           T == {i \in DOMAIN leaves : Face(Expanded(leaves[i])) < f}
<1>1. n \in Nat /\ DOMAIN leaves = 1..n /\ T \subseteq 1..n
  OBVIOUS
<1>2. ASSUME NEW i \in T, NEW j \in 1..n, j < i PROVE j \in T
  <2> DEFINE a == Expanded(leaves[j])
             b == Expanded(leaves[i])
  <2>1. i \in 1..n /\ a \in CellIds /\ b \in CellIds /\ Face(b) < f /\ a < b
    <3>1. i \in DOMAIN leaves /\ j \in DOMAIN leaves /\ Face(b) < f
      BY <1>1
    <3> QED
      BY <1>1, <1>2, <3>1, LeavesAscend DEF Cells
  <2> HIDE DEF a, b
  <2>2. a \in Nat /\ b \in Nat /\ a <= b /\ 2 ^ FaceShift \in Nat \ {0}
    BY <2>1, CellFacts, FacePower
  <2>3. Face(a) <= Face(b)
    BY <2>2, QuotientGrows DEF Face
  <2>4. Face(a) \in Nat /\ Face(b) \in Nat
    BY <2>2, Quotient DEF Face
  <2>5. Face(a) < f
    BY <2>1, <2>3, <2>4
  <2> QED
    BY <1>1, <2>5 DEF a
<1>3. FaceOffset(f) = Cardinality(T)
  BY DEF FaceOffset
<1>4. \A i \in 1..n : Face(Expanded(leaves[i])) < f <=> i \in T
  BY <1>1
<1> HIDE DEF T, n
<1>5. /\ Cardinality(T) \in 0..n /\ Cardinality(T) \in Nat
      /\ \A i \in 1..n : i \in T <=> i <= Cardinality(T)
  BY <1>1, <1>2, FirstIndices
<1> QED
  BY <1>3, <1>4, <1>5 DEF n

\* The slice of a face holds the leaves of that face, in order.
LEMMA FaceSlice ==
  ASSUME Cells(leaves), leaves \in Seq(0..(MaxCompactCellId + 1)), NEW f \in Nat
  PROVE  LET F == FaceLeaves(f)
         IN  /\ Len(F) \in Nat /\ DOMAIN F = 1..Len(F)
             /\ \A j \in 1..Len(F) : \E i \in DOMAIN leaves : F[j] = Expanded(leaves[i])
             /\ \A j \in 1..Len(F) : F[j] \in CellIds /\ Face(F[j]) = f
             /\ \A j, k \in 1..Len(F) : j < k => F[j] < F[k]
             /\ \A i \in DOMAIN leaves : Face(Expanded(leaves[i])) = f =>
                  \E j \in 1..Len(F) : F[j] = Expanded(leaves[i])
             /\ \A j, k \in 1..Len(F) :
                  Level(F[j]) <= Level(F[k]) /\ Ancestor(F[k], Level(F[j])) = F[j] => j = k
<1> DEFINE n == Len(leaves)
           o == FaceOffset(f)
           p == FaceOffset(f + 1)
           ids == [i \in DOMAIN leaves |-> Expanded(leaves[i])]
           F == FaceLeaves(f)
<1>1. /\ n \in Nat /\ DOMAIN leaves = 1..n
      /\ \A i \in 1..n : ids[i] = Expanded(leaves[i]) /\ ids[i] \in CellIds
  BY DEF Cells
<1>2. /\ o \in 0..n /\ o \in Nat /\ \A i \in 1..n : Face(Expanded(leaves[i])) < f <=> i <= o
      /\ p \in 0..n /\ p \in Nat /\ \A i \in 1..n : Face(Expanded(leaves[i])) < f + 1 <=> i <= p
  <2>1. f + 1 \in Nat
    OBVIOUS
  <2> QED
    BY <2>1, OffsetCuts
<1> HIDE DEF o, p
<1>3. \A i \in 1..n : Face(Expanded(leaves[i])) \in Nat
  <2>1. ASSUME NEW i \in 1..n PROVE Face(Expanded(leaves[i])) \in Nat
    <3>1. Face(ids[i]) \in 0..(NumRootFaces - 1)
      BY <1>1, CellPath
    <3>2. Face(ids[i]) \in Nat
      BY <3>1
    <3> QED
      BY <1>1, <3>2
  <2> QED
    BY <2>1
<1>4. \A i \in 1..n : Face(Expanded(leaves[i])) = f <=> o < i /\ i <= p
  BY <1>1, <1>2, <1>3
<1>5. o <= p
  <2> SUFFICES ASSUME p < o PROVE FALSE
    BY <1>2
  <2>1. o \in 1..n
    BY <1>1, <1>2
  <2>2. Face(Expanded(leaves[o])) < f /\ ~(Face(Expanded(leaves[o])) < f + 1)
    BY <1>2, <2>1
  <2> QED
    BY <1>3, <2>1, <2>2
<1>6. ids \in Seq(CellIds) /\ Len(ids) = n
  <2>1. ids \in [1..n -> CellIds]
    BY <1>1
  <2> HIDE DEF ids
  <2>2. ids \in Seq(CellIds)
    BY <1>1, <2>1, FunctionIsSequence
  <2> QED
    BY <1>1, <2>1, <2>2
<1>7. F = SubSeq(ids, o + 1, p)
  BY DEF FaceLeaves, o, p
<1> HIDE DEF n, ids, F
<1>8. /\ Len(F) = p - o /\ Len(F) \in Nat /\ DOMAIN F = 1..Len(F)
      /\ \A j \in 1..Len(F) : F[j] = ids[o + j]
  <2> DEFINE C == CellIds
  <2>1. ids \in Seq(C)
    BY <1>6
  <2> HIDE DEF C
  <2>2. /\ o + 1 \in 1..(n + 1) /\ p \in 0..n /\ o \in Nat /\ p \in Nat /\ o <= p /\ Len(ids) = n
        /\ n \in Nat
    BY <1>1, <1>2, <1>5, <1>6
  <2> QED
    BY <1>7, <2>1, <2>2
<1>9. ASSUME NEW j \in 1..Len(F)
      PROVE  /\ o + j \in 1..n /\ F[j] = Expanded(leaves[o + j])
             /\ F[j] \in CellIds /\ Face(F[j]) = f /\ j \in Nat
  <2>1. o + j \in 1..n /\ o < o + j /\ o + j <= p /\ j \in Nat
    BY <1>1, <1>2, <1>5, <1>8
  <2>2. F[j] = Expanded(leaves[o + j]) /\ F[j] \in CellIds
    BY <1>1, <1>8, <2>1
  <2>3. Face(Expanded(leaves[o + j])) = f
    BY <1>4, <2>1
  <2> QED
    BY <2>1, <2>2, <2>3
<1>10. ASSUME NEW j \in 1..Len(F), NEW k \in 1..Len(F), j < k PROVE F[j] < F[k]
  <2>1. o + j < o + k /\ o + j \in DOMAIN leaves /\ o + k \in DOMAIN leaves
    BY <1>1, <1>2, <1>9, <1>10
  <2>2. Expanded(leaves[o + j]) < Expanded(leaves[o + k])
    BY <2>1, LeavesAscend
  <2> QED
    BY <1>9, <2>2
<1>11. ASSUME NEW i \in DOMAIN leaves, Face(Expanded(leaves[i])) = f
       PROVE  \E j \in 1..Len(F) : F[j] = Expanded(leaves[i])
  <2>1. i \in 1..n /\ o < i /\ i <= p
    BY <1>1, <1>4, <1>11
  <2>2. i - o \in 1..Len(F) /\ o + (i - o) = i
    BY <1>1, <1>2, <1>8, <2>1
  <2>3. F[i - o] = Expanded(leaves[o + (i - o)])
    BY <1>9, <2>2
  <2> QED
    BY <2>2, <2>3
<1>12. ASSUME NEW j \in 1..Len(F), NEW k \in 1..Len(F),
              Level(F[j]) <= Level(F[k]), Ancestor(F[k], Level(F[j])) = F[j]
       PROVE  j = k
  <2>1. o + j \in DOMAIN leaves /\ o + k \in DOMAIN leaves
        /\ F[j] = Expanded(leaves[o + j]) /\ F[k] = Expanded(leaves[o + k])
    BY <1>1, <1>9
  <2>2. o + j = o + k
    BY <1>12, <2>1, LeavesApart
  <2> QED
    BY <1>2, <1>9, <2>2
<1> QED
  BY <1>1, <1>8, <1>9, <1>10, <1>11, <1>12 DEF F

\* A cell between two that share an ancestor shares it, or is above the one.
LEMMA Between ==
  ASSUME NEW a \in CellIds, NEW b \in CellIds, NEW id \in CellIds,
         NEW k \in 0..Level(a), k <= Level(id), Ancestor(a, k) = Ancestor(id, k),
         (a <= b /\ b <= id) \/ (id <= b /\ b <= a)
  PROVE  \/ k <= Level(b) /\ Ancestor(b, k) = Ancestor(id, k)
         \/ Level(b) <= Level(a) /\ Ancestor(a, Level(b)) = b
<1>1. /\ Level(a) \in Nat /\ Level(b) \in Nat /\ Level(id) \in Nat /\ k \in Nat
      /\ k <= Level(a) /\ a \in Nat /\ b \in Nat /\ id \in Nat
      /\ Level(a) \in CellLevels /\ Level(b) \in CellLevels /\ Level(id) \in CellLevels
      /\ MaxS2Level \in Nat
  <2>1. k \in 0..Level(a)
    OBVIOUS
  <2> QED
    BY <2>1, CellFacts, Sizes
<1> DEFINE d == 2 ^ (Sentinel(k) + 1)
<1>2. k \in CellLevels /\ Sentinel(k) \in Nat /\ Sentinel(k) = 2 * (MaxS2Level - k)
  <2>1. k \in CellLevels
    BY <1>1 DEF CellLevels
  <2> QED
    BY <2>1, SentinelFacts
<1>3. d \in Nat \ {0}
  BY <1>2, PowerPositive
<1>4. a \div d = id \div d
  BY <1>1, CommonBits
<1>5. b \div d = a \div d
  <2> HIDE DEF d
  <2> DEFINE x == a \div d
             y == b \div d
             z == id \div d
  <2>1. x \in Nat /\ y \in Nat /\ z \in Nat /\ x = z
    BY <1>1, <1>3, <1>4, Quotient
  <2>2. (x <= y /\ y <= z) \/ (z <= y /\ y <= x)
    BY <1>1, <1>3, QuotientGrows
  <2> HIDE DEF x, y, z
  <2>3. y = x
    BY <2>1, <2>2
  <2> QED
    BY <2>3 DEF x, y
<1>6. CASE k <= Level(b)
  <2>1. k \in 0..Level(id) /\ k \in 0..Level(b)
    BY <1>1, <1>6
  <2> QED
    BY <1>4, <1>5, <1>6, <2>1, CommonBits
<1>7. CASE Level(b) < k
  <2> DEFINE l == Level(b)
             e == 2 ^ (2 * (k - l))
  <2>1. l \in Nat /\ l < k /\ l \in 0..Level(a) /\ l <= Level(a) /\ l \in CellLevels /\ l \in 0..l
    BY <1>1, <1>7
  <2>2. Sentinel(l) + 1 = (Sentinel(k) + 1) + 2 * (k - l) /\ 2 * (k - l) \in Nat /\ Sentinel(k) + 1 \in Nat
    <3>1. Sentinel(l) = 2 * (MaxS2Level - l)
      BY <2>1, SentinelFacts
    <3> HIDE DEF l
    <3> QED
      BY <1>1, <1>2, <2>1, <3>1
  <2>3. 2 ^ (Sentinel(l) + 1) = d * e /\ e \in Nat \ {0}
    BY <2>2, PowerSum, PowerPositive
  <2>4. a \div (d * e) = (a \div d) \div e /\ b \div (d * e) = (b \div d) \div e
    BY <1>1, <1>3, <2>3, QuotientTwice
  <2>5. a \div 2 ^ (Sentinel(l) + 1) = b \div 2 ^ (Sentinel(l) + 1)
    BY <1>5, <2>3, <2>4
  <2>6. Ancestor(a, l) = Ancestor(b, l)
    BY <2>1, <2>5, CommonBits
  <2>7. Ancestor(b, l) = b
    BY <2>1, AncestorOf
  <2> QED
    BY <2>1, <2>6, <2>7
<1> QED
  BY <1>1, <1>6, <1>7

\* A leaf of the face that shares an ancestor has a neighbour of the query
\* that shares it too.
LEMMA NeighbourShares ==
  ASSUME Cells(leaves), leaves \in Seq(0..(MaxCompactCellId + 1)), NEW id \in CellIds,
         NEW k \in 0..Level(id), Has(id, k)
  PROVE  LET F == FaceLeaves(Face(id))
             q == Cardinality({i \in DOMAIN F : F[i] < id})
         IN  \E v \in {i \in {q, q + 1} : i \in DOMAIN F} :
               k <= Level(F[v]) /\ Ancestor(F[v], k) = Ancestor(id, k)
<1> DEFINE F == FaceLeaves(Face(id))
           T == {i \in DOMAIN F : F[i] < id}
           q == Cardinality(T)
           n == Len(F)
<1>1. /\ n \in Nat /\ DOMAIN F = 1..n
      /\ \A j \in 1..n : F[j] \in CellIds
      /\ \A j, j_1 \in 1..n : j < j_1 => F[j] < F[j_1]
      /\ \A i \in DOMAIN leaves : Face(Expanded(leaves[i])) = Face(id) =>
           \E j \in 1..n : F[j] = Expanded(leaves[i])
      /\ \A j, j_1 \in 1..n :
           Level(F[j]) <= Level(F[j_1]) /\ Ancestor(F[j_1], Level(F[j])) = F[j] => j = j_1
  <2>1. Face(id) \in Nat
    <3>1. Face(id) \in 0..(NumRootFaces - 1)
      BY CellPath
    <3> QED
      BY <3>1
  <2> QED
    BY <2>1, FaceSlice
<1> HIDE DEF F, n
<1>2. /\ id \in Nat /\ Level(id) \in Nat /\ k \in Nat /\ k <= Level(id)
      /\ \A j \in 1..n : F[j] \in Nat
  <2>1. k \in 0..Level(id)
    OBVIOUS
  <2> QED
    BY <1>1, <2>1, CellFacts
<1>3. /\ q \in 0..n /\ q \in Nat /\ \A i \in 1..n : F[i] < id <=> i <= q
  <2>1. T \subseteq 1..n
    BY <1>1
  <2>2. ASSUME NEW i \in T, NEW j \in 1..n, j < i PROVE j \in T
    <3>1. F[j] < F[i] /\ F[i] < id /\ F[i] \in Nat /\ F[j] \in Nat
      BY <1>1, <1>2, <2>1, <2>2
    <3>2. F[j] < id
      BY <1>2, <3>1
    <3> QED
      BY <1>1, <3>2
  <2>3. \A i \in 1..n : F[i] < id <=> i \in T
    BY <1>1
  <2> HIDE DEF T
  <2>4. /\ Cardinality(T) \in 0..n /\ Cardinality(T) \in Nat
        /\ \A i \in 1..n : i \in T <=> i <= Cardinality(T)
    BY <1>1, <2>1, <2>2, FirstIndices
  <2> QED
    BY <2>3, <2>4
<1> HIDE DEF q, T
<1>4. PICK i \in DOMAIN leaves : /\ k <= Level(Expanded(leaves[i]))
                                 /\ Ancestor(Expanded(leaves[i]), k) = Ancestor(id, k)
  BY DEF Has
<1> DEFINE leaf == Expanded(leaves[i])
<1>5. leaf \in CellIds /\ k <= Level(leaf) /\ Ancestor(leaf, k) = Ancestor(id, k)
  BY <1>4 DEF Cells
<1>6. Face(leaf) = Face(id)
  <2> HIDE DEF leaf
  <2>1. Level(leaf) \in Nat
    BY <1>5, CellFacts
  <2>2. k \in 0..Level(leaf) /\ 0 \in 0..k /\ 0 + 1 \in 0..(k + 1)
    BY <1>2, <1>5, <2>1
  <2>3. /\ PathOf[Ancestor(leaf, k)] = SubSeq(PathOf[leaf], 1, k + 1)
        /\ PathOf[Ancestor(id, k)] = SubSeq(PathOf[id], 1, k + 1)
    BY <1>5, <2>2, AncestorOf
  <2>4. /\ PathOf[leaf] \in Seq(Nat) /\ Len(PathOf[leaf]) = Level(leaf) + 1
        /\ PathOf[leaf][1] = Face(leaf)
        /\ PathOf[id] \in Seq(Nat) /\ Len(PathOf[id]) = Level(id) + 1
        /\ PathOf[id][1] = Face(id)
    BY <1>5, CellPath
  <2>5. k + 1 \in 0..Len(PathOf[leaf]) /\ k + 1 \in 0..Len(PathOf[id]) /\ 1 \in 1..(k + 1)
    BY <1>2, <1>5, <2>1, <2>4, SMTT(30)
  <2>6. /\ SubSeq(PathOf[leaf], 1, k + 1)[1] = PathOf[leaf][1]
        /\ SubSeq(PathOf[id], 1, k + 1)[1] = PathOf[id][1]
    BY <2>4, <2>5, SubPath
  <2> QED
    BY <1>5, <2>3, <2>4, <2>6
<1>7. PICK j \in 1..n : F[j] = leaf
  BY <1>1, <1>6
<1> HIDE DEF leaf
<1>8. j \in Nat /\ j <= n /\ j >= 1
  BY <1>1
<1> DEFINE v == IF j <= q THEN q ELSE q + 1
<1>9. /\ v \in {q, q + 1} /\ v \in 1..n /\ v \in DOMAIN F
      /\ \/ F[j] <= F[v] /\ F[v] <= id
         \/ id <= F[v] /\ F[v] <= F[j]
  <2>1. CASE j <= q
    <3>1. v = q /\ v \in 1..n /\ F[v] < id
      BY <1>1, <1>3, <1>8, <2>1
    <3>2. j = v \/ F[j] < F[v]
      BY <1>1, <1>3, <1>8, <2>1, <3>1
    <3>3. F[j] <= F[v] /\ F[v] <= id
      BY <1>2, <3>1, <3>2
    <3> QED
      BY <1>1, <3>1, <3>3
  <2>2. CASE ~(j <= q)
    <3>1. v = q + 1 /\ v \in 1..n /\ ~(v <= q)
      BY <1>1, <1>3, <1>8, <2>2
    <3>2. ~(F[v] < id)
      BY <1>3, <3>1
    <3>3. j = v \/ F[v] < F[j]
      BY <1>1, <1>3, <1>8, <2>2, <3>1
    <3>4. id <= F[v] /\ F[v] <= F[j]
      BY <1>2, <3>1, <3>2, <3>3
    <3> QED
      BY <1>1, <3>1, <3>4
  <2> QED
    BY <2>1, <2>2
<1> HIDE DEF v
<1>10. F[v] \in CellIds /\ F[j] \in CellIds /\ k \in 0..Level(F[j])
  <2>1. F[v] \in CellIds /\ F[j] \in CellIds /\ Level(F[j]) \in Nat
    BY <1>1, <1>9, CellFacts
  <2> QED
    BY <1>2, <1>5, <1>7, <2>1
<1>11. \/ k <= Level(F[v]) /\ Ancestor(F[v], k) = Ancestor(id, k)
       \/ Level(F[v]) <= Level(F[j]) /\ Ancestor(F[j], Level(F[v])) = F[v]
  BY <1>2, <1>5, <1>7, <1>9, <1>10, Between
<1>12. k <= Level(F[v]) /\ Ancestor(F[v], k) = Ancestor(id, k)
  <2>1. CASE Level(F[v]) <= Level(F[j]) /\ Ancestor(F[j], Level(F[v])) = F[v]
    <3>1. v = j
      BY <1>1, <1>9, <2>1
    <3> QED
      BY <1>5, <1>7, <3>1
  <2> QED
    BY <1>11, <2>1
<1>13. v \in {i_1 \in {q, q + 1} : i_1 \in DOMAIN F}
  BY <1>9
<1> QED
  BY <1>12, <1>13 DEF F, q, T

\* The oracle's answer, by the level at which the tree of the leaves ends.
LEMMA ReferenceIs ==
  ASSUME Cells(leaves), leaves \in Seq(0..(MaxCompactCellId + 1)), NEW id \in CellIds,
         NEW k \in 0..Level(id), Has(id, k), k # Level(id) => ~Has(id, k + 1)
  PROVE  ReferenceAnswer(id, FaceLeaves(Face(id))) = Ancestor(id, k)
<1> DEFINE F == FaceLeaves(Face(id))
           q == Cardinality({i \in DOMAIN F : F[i] < id})
           near == {i \in {q, q + 1} : i \in DOMAIN F}
           shared == {SharedLevel(id, Level(id), F[i]) : i \in near}
<1>1. /\ DOMAIN F = 1..Len(F)
      /\ \A j \in 1..Len(F) : \E i \in DOMAIN leaves : F[j] = Expanded(leaves[i])
      /\ \A j \in 1..Len(F) : F[j] \in CellIds /\ Face(F[j]) = Face(id)
  <2>1. Face(id) \in Nat
    <3>1. Face(id) \in 0..(NumRootFaces - 1)
      BY CellPath
    <3> QED
      BY <3>1
  <2> QED
    BY <2>1, FaceSlice
<1>2. PICK v \in near : k <= Level(F[v]) /\ Ancestor(F[v], k) = Ancestor(id, k)
  BY NeighbourShares
<1>3. ReferenceAnswer(id, F) = Ancestor(id, Max(shared))
  BY DEF ReferenceAnswer
<1>4. Level(id) \in Nat /\ k \in Nat /\ k <= Level(id)
  <2>1. k \in 0..Level(id)
    OBVIOUS
  <2> QED
    BY <2>1, CellFacts
<1> HIDE DEF F
<1>5. near \subseteq 1..Len(F)
  BY <1>1
<1> HIDE DEF near
<1>6. ASSUME NEW i \in near
      PROVE  /\ SharedLevel(id, Level(id), F[i]) \in Nat
             /\ SharedLevel(id, Level(id), F[i]) <= k
             /\ k <= Level(F[i]) /\ Ancestor(F[i], k) = Ancestor(id, k)
                  => k <= SharedLevel(id, Level(id), F[i])
  <2> DEFINE b == F[i]
             s == SharedLevel(id, Level(id), b)
  <2>1. b \in CellIds /\ Face(id) = Face(b)
    BY <1>1, <1>5
  <2> HIDE DEF b
  <2>2. /\ s \in Nat /\ s <= Level(id) /\ s <= Level(b)
        /\ Ancestor(id, s) = Ancestor(b, s)
        /\ \A x \in 0..Level(id) :
             x <= Level(b) /\ Ancestor(id, x) = Ancestor(b, x) => x <= s
    BY <2>1, SharedLevelIs
  <2> HIDE DEF s
  <2>3. s <= k
    <3> SUFFICES ASSUME k < s PROVE FALSE
      BY <1>4, <2>2
    <3>1. Level(b) \in Nat
      BY <2>1, CellFacts
    <3>2. s \in 0..Level(id) /\ s \in 0..Level(b) /\ k + 1 \in 0..s /\ k + 1 <= Level(b)
          /\ k # Level(id)
      BY <1>4, <2>2, <3>1
    <3>3. /\ Ancestor(Ancestor(id, s), k + 1) = Ancestor(id, k + 1)
          /\ Ancestor(Ancestor(b, s), k + 1) = Ancestor(b, k + 1)
      BY <2>1, <3>2, AncestorChain
    <3>4. Ancestor(b, k + 1) = Ancestor(id, k + 1)
      BY <2>2, <3>3
    <3>5. \E j \in DOMAIN leaves : b = Expanded(leaves[j])
      BY <1>1, <1>5 DEF b
    <3>6. Has(id, k + 1)
      BY <3>2, <3>4, <3>5 DEF Has
    <3> QED
      BY <3>2, <3>6
  <2>4. k <= Level(b) /\ Ancestor(b, k) = Ancestor(id, k) => k <= s
    BY <2>2
  <2> QED
    BY <2>2, <2>3, <2>4 DEF s, b
<1>7. SharedLevel(id, Level(id), F[v]) = k
  BY <1>2, <1>4, <1>6
<1>8. Max(shared) = k
  <2>1. k \in shared
    BY <1>2, <1>7
  <2>2. shared \subseteq Int
    BY <1>6
  <2>3. \A y \in shared : k >= y
    BY <1>4, <1>6
  <2> HIDE DEF shared
  <2> QED
    BY <2>1, <2>2, <2>3, MaxIs
<1> QED
  BY <1>3, <1>8 DEF F

\* The verifier's oracle, which looks at the two leaves around a query and at
\* the highest bit in which they differ from it, answers as the descent does at
\* database levels, for every number of levels and faces (OracleAnswersExact).
THEOREM OracleAlwaysExact == Spec => []OracleAnswersExact
<1>1. ListInv /\ QueryInv => OracleAnswersExact
  <2> SUFFICES ASSUME ListInv, QueryInv, status = "answered", Level(query) <= MaxDatabaseLevel
               PROVE  ReferenceAnswer(query, FaceLeaves(Face(query))) = ExactAnswer
    BY DEF OracleAnswersExact
  <2>1. Cells(leaves) /\ leaves \in Seq(0..(MaxCompactCellId + 1)) /\ query \in CellIds
    BY DEF ListInv, QueryInv
  <2>2. PICK k \in 0..TargetLevel(query) :
          /\ Has(query, k)
          /\ k # TargetLevel(query) => ~Has(query, k + 1)
    BY DEF QueryInv
  <2>3. TargetLevel(query) = Level(query)
    BY DEF TargetLevel, Smaller
  <2>4. Has(query, k) /\ (k # TargetLevel(query) => ~Has(query, k + 1))
    BY <2>2
  <2>5. ExactAnswer = Ancestor(query, k)
    BY <2>1, <2>4, ExactIs
  <2>6. k \in 0..Level(query)
    BY <2>3
  <2>7. ReferenceAnswer(query, FaceLeaves(Face(query))) = Ancestor(query, k)
    BY <2>1, <2>3, <2>4, <2>6, ReferenceIs
  <2> QED
    BY <2>5, <2>7
<1> QED
  BY <1>1, ListAlways, QueryAlways, PTL

-----------------------------------------------------------------------------
(* Numbers and their bits *)

LEMMA PowersFacts ==
  ASSUME NEW k \in Nat
  PROVE  Powers[k] = 2 ^ k /\ Powers[k] \in Nat
BY PowerNat DEF Powers

LEMMA BitSetFinite ==
  ASSUME NEW m \in Nat, NEW S \in SUBSET (0..(m - 1))
  PROVE  IsFiniteSet(S) /\ S \subseteq Nat /\ \A k \in S : Powers[k] \in Nat
<1>1. IsFiniteSet(0..(m - 1))
  BY FS_Interval
<1>2. S \subseteq Nat
  OBVIOUS
<1>3. \A k \in S : Powers[k] \in Nat
  BY <1>2, PowersFacts
<1>4. IsFiniteSet(S)
  BY <1>1, FS_Subset
<1> QED
  BY <1>2, <1>3, <1>4

LEMMA NumberRemove ==
  ASSUME NEW S, IsFiniteSet(S), \A k \in S : Powers[k] \in Nat, NEW x \in S
  PROVE  Number(S) = Powers[x] + Number(S \ {x})
BY SetSumRemove DEF Number

\* The highest bit of a set contributes its own power.
LEMMA NumberTop ==
  ASSUME NEW m \in Nat, NEW S \in SUBSET (0..m)
  PROVE  /\ S \ {m} \in SUBSET (0..(m - 1))
         /\ Number(S) \in Nat /\ Number(S \ {m}) \in Nat
         /\ m \in S => Number(S) = 2 ^ m + Number(S \ {m})
         /\ m \notin S => Number(S) = Number(S \ {m})
<1>1. S \ {m} \in SUBSET (0..(m - 1))
  OBVIOUS
<1>2. IsFiniteSet(S) /\ \A k \in S : Powers[k] \in Nat
  <2>1. m + 1 \in Nat /\ S \in SUBSET (0..((m + 1) - 1))
    OBVIOUS
  <2> QED
    BY <2>1, BitSetFinite
<1>3. Number(S) \in Nat
  BY <1>2, SetSumNat DEF Number
<1>4. Number(S \ {m}) \in Nat
  <2>1. IsFiniteSet(S \ {m}) /\ \A k \in S \ {m} : Powers[k] \in Nat
    BY <1>1, BitSetFinite
  <2> QED
    BY <2>1, SetSumNat DEF Number
<1>5. ASSUME m \in S PROVE Number(S) = 2 ^ m + Number(S \ {m})
  <2>1. Number(S) = Powers[m] + Number(S \ {m})
    BY <1>2, <1>5, NumberRemove
  <2> QED
    BY <2>1, PowersFacts
<1>6. ASSUME m \notin S PROVE S \ {m} = S
  BY <1>6
<1> QED
  BY <1>1, <1>3, <1>4, <1>5, <1>6

\* A number of m bits is below 2 ^ m.
LEMMA NumberBelow ==
  ASSUME NEW m \in Nat, NEW S \in SUBSET (0..(m - 1))
  PROVE  Number(S) \in Nat /\ Number(S) < 2 ^ m
<1> DEFINE Wrong == {n \in Nat : \E T \in SUBSET (0..(n - 1)) : ~(Number(T) \in Nat /\ Number(T) < 2 ^ n)}
<1>1. SUFFICES ASSUME Wrong # {} PROVE FALSE
  <2>1. m \notin Wrong
    BY <1>1
  <2> QED
    BY <2>1
<1>2. PICK n \in Wrong : \A y \in Wrong : n <= y
  <2>1. Wrong \subseteq Nat
    OBVIOUS
  <2> HIDE DEF Wrong
  <2> QED
    BY <1>1, <2>1, LeastNatural
<1>3. PICK T \in SUBSET (0..(n - 1)) : ~(Number(T) \in Nat /\ Number(T) < 2 ^ n)
  OBVIOUS
<1>4. n \in Nat
  OBVIOUS
<1>5. CASE n = 0
  <2>1. T = {} /\ 2 ^ n = 1
    BY <1>5, PowerZero
  <2>2. Number(T) = 0
    BY <2>1, SetSumEmpty DEF Number
  <2> QED
    BY <1>3, <2>1, <2>2
<1>6. CASE n # 0
  <2> DEFINE j == n - 1
  <2>1. j \in Nat /\ j + 1 = n /\ j < n /\ T \in SUBSET (0..j)
    BY <1>4, <1>6
  <2>2. \A U \in SUBSET (0..(j - 1)) : Number(U) \in Nat /\ Number(U) < 2 ^ j
    <3>1. j \notin Wrong
      <4> HIDE DEF Wrong
      <4> QED
        BY <1>2, <1>4, <2>1
    <3> QED
      BY <2>1, <3>1
  <2> HIDE DEF j
  <2>3. /\ T \ {j} \in SUBSET (0..(j - 1)) /\ Number(T) \in Nat /\ Number(T \ {j}) \in Nat
        /\ (Number(T) = 2 ^ j + Number(T \ {j}) \/ Number(T) = Number(T \ {j}))
    BY <2>1, NumberTop
  <2>4. Number(T \ {j}) < 2 ^ j
    BY <2>2, <2>3
  <2>5. 2 ^ n = 2 * 2 ^ j /\ 2 ^ j \in Nat
    BY <2>1, PowerNext, PowerNat
  <2> DEFINE p == 2 ^ j
             u == Number(T \ {j})
             t == Number(T)
  <2>6. 2 ^ n = 2 * p /\ p \in Nat /\ u < p /\ u \in Nat /\ (t = p + u \/ t = u) /\ t \in Nat
    BY <2>3, <2>4, <2>5
  <2> HIDE DEF p, u
  <2>7. t < 2 * p
    <3> HIDE DEF t
    <3> QED
      BY <2>6
  <2> QED
    BY <1>3, <2>6, <2>7
<1> QED
  BY <1>5, <1>6

\* A number has one set of bits.
LEMMA NumberUnique ==
  ASSUME NEW m \in Nat, NEW S \in SUBSET (0..(m - 1)), NEW T \in SUBSET (0..(m - 1)),
         Number(S) = Number(T)
  PROVE  S = T
<1> DEFINE Wrong == {n \in Nat : \E A, B \in SUBSET (0..(n - 1)) : Number(A) = Number(B) /\ A # B}
<1>1. SUFFICES ASSUME Wrong # {} PROVE FALSE
  <2>1. m \notin Wrong
    BY <1>1
  <2> QED
    BY <2>1
<1>2. PICK n \in Wrong : \A y \in Wrong : n <= y
  <2>1. Wrong \subseteq Nat
    OBVIOUS
  <2> HIDE DEF Wrong
  <2> QED
    BY <1>1, <2>1, LeastNatural
<1>3. PICK A \in SUBSET (0..(n - 1)), B \in SUBSET (0..(n - 1)) : Number(A) = Number(B) /\ A # B
  OBVIOUS
<1>4. n \in Nat
  OBVIOUS
<1>5. n # 0
  <2>1. n = 0 => A = {} /\ B = {}
    OBVIOUS
  <2> QED
    BY <1>3, <2>1
<1> DEFINE j == n - 1
<1>6. j \in Nat /\ j + 1 = n /\ j < n /\ A \in SUBSET (0..j) /\ B \in SUBSET (0..j)
  BY <1>4, <1>5
<1>7. \A U, V \in SUBSET (0..(j - 1)) : Number(U) = Number(V) => U = V
  <2>1. j \notin Wrong
    <3> HIDE DEF Wrong
    <3> QED
      BY <1>2, <1>4, <1>6
  <2> QED
    BY <1>6, <2>1
<1> HIDE DEF j
<1> DEFINE a == A \ {j}
           b == B \ {j}
<1>8. /\ a \in SUBSET (0..(j - 1)) /\ Number(A) \in Nat /\ Number(a) \in Nat
      /\ (j \in A => Number(A) = 2 ^ j + Number(a))
      /\ (j \notin A => Number(A) = Number(a))
  BY <1>6, NumberTop
<1>9. /\ b \in SUBSET (0..(j - 1)) /\ Number(B) \in Nat /\ Number(b) \in Nat
      /\ (j \in B => Number(B) = 2 ^ j + Number(b))
      /\ (j \notin B => Number(B) = Number(b))
  BY <1>6, NumberTop
<1>10. Number(a) < 2 ^ j /\ Number(b) < 2 ^ j /\ 2 ^ j \in Nat
  <2> HIDE DEF a, b
  <2> QED
    BY <1>6, <1>8, <1>9, NumberBelow, PowerNat
<1>11. (j \in A <=> j \in B) /\ Number(a) = Number(b)
  <2> DEFINE p == 2 ^ j
             x == Number(a)
             y == Number(b)
             X == Number(A)
  <2>1. /\ p \in Nat /\ x \in Nat /\ y \in Nat /\ x < p /\ y < p
        /\ (j \in A => X = p + x) /\ (j \notin A => X = x)
        /\ (j \in B => X = p + y) /\ (j \notin B => X = y)
    BY <1>3, <1>8, <1>9, <1>10
  <2> HIDE DEF p, x, y, X
  <2>2. (j \in A <=> j \in B) /\ x = y
    BY <2>1
  <2> QED
    BY <2>2 DEF x, y
<1>12. a = b
  <2> HIDE DEF a, b
  <2> QED
    BY <1>7, <1>8, <1>9, <1>11
<1>13. A = B
  BY <1>11, <1>12
<1> QED
  BY <1>3, <1>13

LEMMA BitsOfType ==
  ASSUME NEW v, NEW m \in Nat
  PROVE  BitsOf(v, m) \in SUBSET (0..(m - 1))
BY DEF BitsOf

\* A number is its lower bits and what is left above them.
LEMMA NumberSplit ==
  ASSUME NEW v \in Nat, NEW m \in Nat
  PROVE  v = (v \div 2 ^ m) * 2 ^ m + Number(BitsOf(v, m))
<1> DEFINE Wrong == {n \in Nat : v # (v \div 2 ^ n) * 2 ^ n + Number(BitsOf(v, n))}
<1>1. SUFFICES ASSUME Wrong # {} PROVE FALSE
  OBVIOUS
<1>2. PICK n \in Wrong : \A y \in Wrong : n <= y
  <2>1. Wrong \subseteq Nat
    OBVIOUS
  <2> HIDE DEF Wrong
  <2> QED
    BY <1>1, <2>1, LeastNatural
<1>3. n \in Nat /\ v # (v \div 2 ^ n) * 2 ^ n + Number(BitsOf(v, n))
  OBVIOUS
<1>4. CASE n = 0
  <2>1. 2 ^ n = 1
    BY <1>4, PowerZero
  <2>2. BitsOf(v, n) = {}
    BY <1>4 DEF BitsOf
  <2>3. Number(BitsOf(v, n)) = 0
    BY <2>2, SetSumEmpty DEF Number
  <2>4. v \div 1 = v
    OBVIOUS
  <2> QED
    BY <1>3, <2>1, <2>3, <2>4
<1>5. CASE n # 0
  <2> DEFINE j == n - 1
  <2>1. j \in Nat /\ j + 1 = n /\ j < n
    BY <1>3, <1>5
  <2>2. v = (v \div 2 ^ j) * 2 ^ j + Number(BitsOf(v, j))
    <3>1. j \notin Wrong
      <4> HIDE DEF Wrong
      <4> QED
        BY <1>2, <1>3, <2>1
    <3> QED
      BY <2>1, <3>1
  <2> HIDE DEF j
  <2>3. /\ v \div 2 ^ j = 2 * (v \div 2 ^ n) + ((v \div 2 ^ j) % 2)
        /\ (v \div 2 ^ j) % 2 \in 0..1 /\ v \div 2 ^ j \in Nat /\ v \div 2 ^ n \in Nat
    BY <2>1, BitStep
  <2>4. 2 ^ n = 2 * 2 ^ j /\ 2 ^ j \in Nat
    BY <2>1, PowerNext, PowerNat
  <2>5. /\ BitsOf(v, n) \in SUBSET (0..j) /\ BitsOf(v, n) \ {j} = BitsOf(v, j)
        /\ (j \in BitsOf(v, n) <=> (v \div 2 ^ j) % 2 = 1)
    BY <2>1 DEF BitsOf
  <2>6. /\ Number(BitsOf(v, n)) \in Nat /\ Number(BitsOf(v, j)) \in Nat
        /\ (j \in BitsOf(v, n) => Number(BitsOf(v, n)) = 2 ^ j + Number(BitsOf(v, j)))
        /\ (j \notin BitsOf(v, n) => Number(BitsOf(v, n)) = Number(BitsOf(v, j)))
    <3> DEFINE S == BitsOf(v, n)
    <3>1. S \in SUBSET (0..j) /\ S \ {j} = BitsOf(v, j)
      BY <2>5
    <3> HIDE DEF S
    <3>2. /\ Number(S) \in Nat /\ Number(S \ {j}) \in Nat
          /\ (j \in S => Number(S) = 2 ^ j + Number(S \ {j}))
          /\ (j \notin S => Number(S) = Number(S \ {j}))
      BY <2>1, <3>1, NumberTop
    <3> QED
      BY <3>1, <3>2 DEF S
  <2> DEFINE p == 2 ^ j
             a == v \div 2 ^ j
             b == v \div 2 ^ n
             s == Number(BitsOf(v, n))
             t == Number(BitsOf(v, j))
             c == (v \div 2 ^ j) % 2
  <2>7. /\ p \in Nat /\ 2 ^ n = 2 * p /\ a \in Nat /\ b \in Nat /\ s \in Nat /\ t \in Nat
        /\ a = 2 * b + c /\ c \in 0..1 /\ v = a * p + t
        /\ (c = 1 => s = p + t) /\ (c # 1 => s = t)
        /\ v # b * (2 ^ n) + s
    BY <1>3, <2>2, <2>3, <2>4, <2>5, <2>6
  <2> HIDE DEF p, a, b, s, t, c
  <2>8. a * p = b * (2 * p) + c * p
    BY <2>7
  <2>9. c * p + t = s
    <3>1. CASE c = 1
      BY <2>7, <3>1
    <3>2. CASE c = 0
      BY <2>7, <3>2
    <3> QED
      BY <2>7, <3>1, <3>2
  <2>10. b * (2 * p) \in Nat /\ c * p \in Nat
    BY <2>7
  <2> QED
    BY <2>7, <2>8, <2>9, <2>10
<1> QED
  BY <1>4, <1>5

LEMMA NumberOfBits ==
  ASSUME NEW m \in Nat, NEW v \in Nat, v < 2 ^ m
  PROVE  Number(BitsOf(v, m)) = v
<1> DEFINE p == 2 ^ m
           s == Number(BitsOf(v, m))
<1>1. v = (v \div p) * p + s
  BY NumberSplit
<1>2. p \in Nat \ {0} /\ v < p
  BY PowerPositive
<1>3. s \in Nat
  <2>1. BitsOf(v, m) \in SUBSET (0..(m - 1))
    BY BitsOfType
  <2> QED
    BY <2>1, NumberBelow
<1> HIDE DEF p, s
<1>4. v \div p = 0
  <2>1. 0 * p <= v /\ v < (0 + 1) * p
    BY <1>2
  <2> QED
    BY <1>2, <2>1, QuotientUnique
<1>5. v = 0 * p + s
  BY <1>1, <1>4
<1>6. v = s
  BY <1>2, <1>3, <1>5
<1> QED
  BY <1>6 DEF s

LEMMA BitsOfNumber ==
  ASSUME NEW m \in Nat, NEW S \in SUBSET (0..(m - 1))
  PROVE  BitsOf(Number(S), m) = S
<1>1. Number(S) \in Nat /\ Number(S) < 2 ^ m
  BY NumberBelow
<1> DEFINE n == Number(S)
<1>2. Number(BitsOf(n, m)) = n
  <2> HIDE DEF n
  <2>1. n \in Nat /\ n < 2 ^ m
    BY <1>1 DEF n
  <2> QED
    BY <2>1, NumberOfBits
<1> DEFINE T == BitsOf(n, m)
<1>3. T \in SUBSET (0..(m - 1))
  BY BitsOfType
<1>4. Number(S) = Number(T)
  BY <1>2
<1> HIDE DEF T
<1>5. S = T
  BY <1>3, <1>4, NumberUnique
<1> QED
  BY <1>5 DEF T

-----------------------------------------------------------------------------
(* Widths *)

LEMMA PowerAbove ==
  ASSUME NEW n \in Nat
  PROVE  n < 2 ^ n
<1> DEFINE Wrong == {m \in Nat : ~(m < 2 ^ m)}
<1>1. SUFFICES ASSUME Wrong # {} PROVE FALSE
  OBVIOUS
<1>2. PICK m \in Wrong : \A y \in Wrong : m <= y
  <2>1. Wrong \subseteq Nat
    OBVIOUS
  <2> HIDE DEF Wrong
  <2> QED
    BY <1>1, <2>1, LeastNatural
<1>3. m \in Nat /\ ~(m < 2 ^ m)
  OBVIOUS
<1>4. CASE m = 0
  <2>1. 2 ^ m = 1
    BY <1>4, PowerZero
  <2> QED
    BY <1>3, <1>4, <2>1
<1>5. CASE m # 0
  <2> DEFINE j == m - 1
  <2>1. j \in Nat /\ j + 1 = m /\ j < m
    BY <1>3, <1>5
  <2>2. j < 2 ^ j
    <3>1. j \notin Wrong
      <4> HIDE DEF Wrong
      <4> QED
        BY <1>2, <1>3, <2>1
    <3> QED
      BY <2>1, <3>1
  <2> HIDE DEF j
  <2>3. 2 ^ m = 2 * 2 ^ j /\ 2 ^ j \in Nat
    BY <2>1, PowerNext, PowerNat
  <2> DEFINE p == 2 ^ j
  <2>4. j < p /\ p \in Nat /\ 2 ^ m = 2 * p
    BY <2>2, <2>3
  <2> HIDE DEF p
  <2>5. m < 2 * p
    BY <2>1, <2>4
  <2> QED
    BY <1>3, <2>4, <2>5
<1> QED
  BY <1>4, <1>5

\* required_width is a width that stores the value, and none below does.
LEMMA RequiredWidthIs ==
  ASSUME NEW v \in Nat
  PROVE  /\ RequiredWidth(v) \in Nat \ {0} /\ v < 2 ^ RequiredWidth(v)
         /\ RequiredWidth(v) = 1 \/ 2 ^ (RequiredWidth(v) - 1) <= v
<1> DEFINE P(w) == v < 2 ^ w /\ (w = 1 \/ 2 ^ (w - 1) <= v)
           Fits == {w \in Nat : w >= 1 /\ v < 2 ^ w}
<1>1. v + 1 \in Fits
  <2>1. v + 1 \in Nat /\ v + 1 < 2 ^ (v + 1) /\ 2 ^ (v + 1) \in Nat
    BY PowerAbove, PowerNat
  <2> DEFINE p == 2 ^ (v + 1)
  <2>2. v + 1 < p /\ p \in Nat
    BY <2>1
  <2> HIDE DEF p
  <2>3. v < p /\ v + 1 >= 1
    BY <2>2
  <2> QED
    BY <2>1, <2>3 DEF p
<1>2. PICK m \in Fits : \A y \in Fits : m <= y
  <2>1. Fits \subseteq Nat
    OBVIOUS
  <2> HIDE DEF Fits
  <2> QED
    BY <1>1, <2>1, LeastNatural
<1>3. m \in Nat /\ m >= 1 /\ v < 2 ^ m
  OBVIOUS
<1>4. m \in 1..(v + 1)
  <2>1. m <= v + 1
    <3> HIDE DEF Fits
    <3> QED
      BY <1>1, <1>2
  <2> QED
    BY <1>3, <2>1
<1>5. P(m)
  <2>1. CASE m = 1
    BY <1>3, <2>1
  <2>2. CASE m # 1
    <3>1. m - 1 \in Nat /\ m - 1 >= 1 /\ ~(m <= m - 1)
      BY <1>3, <2>2
    <3>2. m - 1 \notin Fits
      <4> HIDE DEF Fits
      <4> QED
        BY <1>2, <3>1
    <3>3. ~(v < 2 ^ (m - 1)) /\ 2 ^ (m - 1) \in Nat
      BY <3>1, <3>2, PowerNat
    <3> DEFINE u == 2 ^ (m - 1)
    <3>4. ~(v < u) /\ u \in Nat
      BY <3>3
    <3> HIDE DEF u
    <3>5. u <= v
      BY <3>4
    <3> QED
      BY <1>3, <3>5 DEF u
  <2> QED
    BY <2>1, <2>2
<1> HIDE DEF Fits
<1>6. RequiredWidth(v) \in 1..(v + 1) /\ P(RequiredWidth(v))
  <2>1. RequiredWidth(v) = CHOOSE w \in 1..(v + 1) : P(w)
    BY DEF RequiredWidth
  <2> HIDE DEF P
  <2> QED
    BY <1>4, <1>5, <2>1
<1>7. RequiredWidth(v) \in Nat \ {0}
  BY <1>6
<1> QED
  BY <1>6, <1>7

\* A smaller value needs no larger width.
LEMMA RequiredWidthBelow ==
  ASSUME NEW v \in Nat, NEW m \in Nat \ {0}, v < 2 ^ m
  PROVE  RequiredWidth(v) <= m
<1> DEFINE w == RequiredWidth(v)
<1>1. w \in Nat \ {0} /\ (w = 1 \/ 2 ^ (w - 1) <= v)
  BY RequiredWidthIs
<1> HIDE DEF w
<1>2. SUFFICES ASSUME m < w PROVE FALSE
  BY <1>1 DEF w
<1>3. 2 ^ (w - 1) <= v /\ w - 1 \in Nat /\ m <= w - 1
  BY <1>1, <1>2
<1>4. 2 ^ m <= 2 ^ (w - 1) /\ 2 ^ m \in Nat /\ 2 ^ (w - 1) \in Nat
  <2>1. CASE m = w - 1
    <3>1. 2 ^ m \in Nat
      BY PowerNat
    <3> DEFINE p == 2 ^ m
    <3>2. p <= p /\ p \in Nat
      <4> HIDE DEF p
      <4> QED
        BY <3>1 DEF p
    <3> QED
      BY <2>1, <3>2
  <2>2. CASE m # w - 1
    <3>1. m < w - 1
      BY <1>3, <2>2
    <3>2. 2 ^ m < 2 ^ (w - 1) /\ 2 ^ m \in Nat /\ 2 ^ (w - 1) \in Nat
      BY <1>3, <3>1, PowerStrict
    <3> DEFINE p == 2 ^ m
               q == 2 ^ (w - 1)
    <3>3. p < q /\ p \in Nat /\ q \in Nat
      BY <3>2
    <3> HIDE DEF p, q
    <3>4. p <= q
      BY <3>3
    <3> QED
      BY <3>2, <3>4 DEF p, q
  <2> QED
    BY <2>1, <2>2
<1> DEFINE p == 2 ^ m
           q == 2 ^ (w - 1)
<1>5. p <= q /\ q <= v /\ v < p /\ p \in Nat /\ q \in Nat
  BY <1>3, <1>4
<1> HIDE DEF p, q
<1> QED
  BY <1>5

\* A finite set of numbers has a greatest.
LEMMA GreatestOf ==
  ASSUME NEW N \in Nat, NEW T \in SUBSET (0..N), T # {}
  PROVE  Max(T) \in T /\ \A y \in T : y <= Max(T)
<1> DEFINE Bounds == {b \in Nat : \A y \in T : y <= b}
<1>1. N \in Bounds /\ Bounds \subseteq Nat
  OBVIOUS
<1>2. PICK b \in Bounds : \A c \in Bounds : b <= c
  <2> HIDE DEF Bounds
  <2> QED
    BY <1>1, LeastNatural
<1>3. b \in Nat /\ \A y \in T : y <= b
  OBVIOUS
<1>4. b \in T
  <2>1. SUFFICES ASSUME b \notin T PROVE FALSE
    OBVIOUS
  <2>2. \A y \in T : y \in Nat /\ y < b
    BY <1>3, <2>1
  <2>3. b - 1 \in Nat /\ \A y \in T : y <= b - 1
    <3>1. PICK y \in T : TRUE
      OBVIOUS
    <3>2. b - 1 \in Nat
      BY <1>3, <2>2, <3>1
    <3> QED
      BY <1>3, <2>2, <3>2
  <2>4. b - 1 \in Bounds /\ ~(b <= b - 1)
    BY <1>3, <2>3
  <2> HIDE DEF Bounds
  <2> QED
    BY <1>2, <2>4
<1>5. Max(T) = b
  <2>1. T \subseteq Int /\ \A y \in T : b >= y
    BY <1>3
  <2> QED
    BY <1>4, <2>1, MaxIs
<1> QED
  BY <1>3, <1>4, <1>5

-----------------------------------------------------------------------------
(* What is written *)

Kind == input.kind

\* Width, first bit and values of a field, for each kind of section.
FieldWidth(i) ==
  CASE Kind = "packed"  -> Width
    [] Kind = "masks"   -> Fanout
    [] Kind = "u24"     -> 3 * ByteBits
    [] Kind = "payload" -> input.widths[i + 1]

FieldStart(i) ==
  CASE Kind = "packed"  -> i * Width
    [] Kind = "masks"   -> i * Fanout
    [] Kind = "u24"     -> i * (3 * ByteBits)
    [] Kind = "payload" -> CodeStart(i)

LEMMA InputFacts ==
  ASSUME input \in Inputs
  PROVE  /\ Kind \in {"packed", "masks", "u24", "payload"}
         /\ Count \in Nat
         /\ \A i \in Indexes : i \in Nat /\ i + 1 \in DOMAIN input.values /\ ValueAt(i) \in Nat
<1>1. Kind \in {"packed", "masks", "u24", "payload"} /\ input.values \in Seq(Nat)
  BY InputsAssumption DEF Kind
<1>2. Count \in Nat /\ DOMAIN input.values = 1..Count
  BY <1>1 DEF Count
<1>3. \A i \in Indexes : i \in Nat /\ i + 1 \in 1..Count
  BY <1>2 DEF Indexes
<1>4. \A n \in DOMAIN input.values : input.values[n] \in Nat
  BY <1>1
<1> QED
  BY <1>1, <1>2, <1>3, <1>4 DEF ValueAt

LEMMA PackedFacts ==
  ASSUME input \in Inputs, Kind = "packed"
  PROVE  /\ Width \in Nat \ {0} /\ Width <= MaxLengthWidth
         /\ \A i \in Indexes : ValueAt(i) < 2 ^ Width
<1> DEFINE T == {0} \cup {input.values[i] : i \in DOMAIN input.values}
           m == Max(T)
           N == 2 ^ MaxLengthWidth
<1>1. /\ MaxLengthWidth \in Nat \ {0} /\ N \in Nat \ {0}
  BY FormatAssumption, PowerPositive
<1>2. \A n \in DOMAIN input.values : input.values[n] \in Nat /\ input.values[n] < N
  BY InputsAssumption DEF Kind
<1>3. T \in SUBSET (0..(N - 1)) /\ T # {} /\ N - 1 \in Nat
  <2> HIDE DEF N
  <2> QED
    BY <1>1, <1>2
<1>4. m \in T /\ \A y \in T : y <= m
  <2> HIDE DEF T, N
  <2> QED
    BY <1>3, GreatestOf DEF m
<1>5. m \in Nat /\ m < N
  <2> HIDE DEF T, m, N
  <2> QED
    BY <1>1, <1>3, <1>4
<1>6. Width = RequiredWidth(m)
  BY DEF Width, PackedWidth
<1>7. Width \in Nat \ {0} /\ m < 2 ^ Width /\ Width <= MaxLengthWidth
  <2> HIDE DEF m
  <2> QED
    BY <1>1, <1>5, <1>6, RequiredWidthIs, RequiredWidthBelow DEF N
<1>8. ASSUME NEW i \in Indexes PROVE ValueAt(i) < 2 ^ Width
  <2>1. i + 1 \in DOMAIN input.values /\ ValueAt(i) \in Nat
    BY InputFacts
  <2>2. ValueAt(i) \in T
    BY <2>1 DEF ValueAt
  <2>3. ValueAt(i) <= m
    BY <1>4, <2>2
  <2>4. 2 ^ Width \in Nat
    BY <1>7, PowerNat
  <2> DEFINE p == 2 ^ Width
             x == ValueAt(i)
  <2>5. x \in Nat /\ x <= m /\ m \in Nat /\ m < p /\ p \in Nat
    BY <1>5, <1>7, <2>1, <2>3, <2>4
  <2> HIDE DEF p, x, m
  <2>6. x < p
    BY <2>5
  <2> QED
    BY <2>6 DEF p, x
<1> QED
  BY <1>7, <1>8

\* Every value fits its field; an index beyond MaxU24 need not.
LEMMA FieldFacts ==
  ASSUME input \in Inputs, NEW i \in Indexes
  PROVE  /\ FieldWidth(i) \in Nat
         /\ (Kind = "u24" => ValueAt(i) <= MaxU24) => ValueAt(i) < 2 ^ FieldWidth(i)
<1>1. /\ Kind \in {"packed", "masks", "u24", "payload"}
      /\ i \in Nat /\ i + 1 \in DOMAIN input.values /\ ValueAt(i) \in Nat
  BY InputFacts
<1>2. CASE Kind = "packed"
  <2>1. Width \in Nat /\ ValueAt(i) < 2 ^ Width
    BY <1>2, PackedFacts
  <2> QED
    BY <1>2, <2>1 DEF FieldWidth
<1>3. CASE Kind = "masks"
  <2>1. Fanout \in Nat /\ ValueAt(i) < 2 ^ Fanout
    BY <1>1, <1>3, FormatAssumption, InputsAssumption DEF Kind, ValueAt, SymbolCount
  <2> QED
    BY <1>3, <2>1 DEF FieldWidth
<1>4. CASE Kind = "u24"
  <2>1. 3 * ByteBits \in Nat /\ MaxU24 < 2 ^ (3 * ByteBits) /\ MaxU24 \in Nat
    BY PackingAssumption, FormatAssumption, WidthsAssumption
  <2>2. 2 ^ (3 * ByteBits) \in Nat
    BY <2>1, PowerNat
  <2> DEFINE p == 2 ^ (3 * ByteBits)
  <2>3. MaxU24 < p /\ p \in Nat
    BY <2>1, <2>2
  <2> HIDE DEF p
  <2>4. ValueAt(i) <= MaxU24 => ValueAt(i) < p
    BY <1>1, <2>1, <2>3
  <2> QED
    BY <1>4, <2>1, <2>4 DEF FieldWidth, p
<1>5. CASE Kind = "payload"
  <2>1. input.widths \in Seq(Nat) /\ Len(input.widths) = Len(input.values)
    BY <1>5, InputsAssumption DEF Kind
  <2>2. input.values \in Seq(Nat)
    BY InputsAssumption
  <2>3. i + 1 \in DOMAIN input.widths
    BY <1>1, <2>1, <2>2
  <2>4. input.widths[i + 1] \in Nat
    BY <2>1, <2>3
  <2>5. ValueAt(i) < 2 ^ input.widths[i + 1]
    BY <1>1, <1>5, InputsAssumption DEF Kind, ValueAt
  <2> QED
    BY <1>5, <2>4, <2>5 DEF FieldWidth
<1> QED
  BY <1>1, <1>2, <1>3, <1>4, <1>5

\* Fields follow each other.
LEMMA FieldsFollow ==
  ASSUME input \in Inputs
  PROVE  /\ FieldStart(0) = 0
         /\ \A i \in 0..Count : FieldStart(i) \in Nat
         /\ \A i \in Indexes : FieldStart(i + 1) = FieldStart(i) + FieldWidth(i)
         /\ \A i \in 0..Count : \A j \in i..Count : FieldStart(i) <= FieldStart(j)
<1>1. Kind \in {"packed", "masks", "u24", "payload"} /\ Count \in Nat
  BY InputFacts
<1>2. ASSUME NEW w \in Nat, \A i : FieldStart(i) = i * w, \A i : FieldWidth(i) = w
      PROVE  /\ FieldStart(0) = 0
             /\ \A i \in 0..Count : FieldStart(i) \in Nat
             /\ \A i \in Indexes : FieldStart(i + 1) = FieldStart(i) + FieldWidth(i)
             /\ \A i \in 0..Count : \A j \in i..Count : FieldStart(i) <= FieldStart(j)
  <2>1. FieldStart(0) = 0
    BY <1>2
  <2>2. \A i \in 0..Count : FieldStart(i) \in Nat
    BY <1>1, <1>2
  <2>3. ASSUME NEW i \in Indexes PROVE FieldStart(i + 1) = FieldStart(i) + FieldWidth(i)
    <3>1. i \in Nat /\ (i + 1) * w = i * w + w
      BY <1>1, <1>2 DEF Indexes
    <3> QED
      BY <1>2, <3>1
  <2>4. ASSUME NEW i \in 0..Count, NEW j \in i..Count PROVE FieldStart(i) <= FieldStart(j)
    <3>1. i \in Nat /\ j \in Nat /\ i <= j
      BY <1>1
    <3>2. i * w <= j * w
      BY <1>2, <3>1, ProductGrows
    <3> QED
      BY <1>2, <3>2
  <2> QED
    BY <2>1, <2>2, <2>3, <2>4
<1>3. CASE Kind = "packed"
  <2>1. Width \in Nat
    BY <1>3, PackedFacts
  <2>2. \A i : FieldStart(i) = i * Width /\ FieldWidth(i) = Width
    BY <1>3 DEF FieldStart, FieldWidth
  <2> QED
    BY <1>2, <2>1, <2>2
<1>4. CASE Kind = "masks"
  <2>1. Fanout \in Nat
    BY FormatAssumption
  <2>2. \A i : FieldStart(i) = i * Fanout /\ FieldWidth(i) = Fanout
    BY <1>4 DEF FieldStart, FieldWidth
  <2> QED
    BY <1>2, <2>1, <2>2
<1>5. CASE Kind = "u24"
  <2>1. 3 * ByteBits \in Nat
    BY PackingAssumption
  <2>2. \A i : FieldStart(i) = i * (3 * ByteBits) /\ FieldWidth(i) = 3 * ByteBits
    BY <1>5 DEF FieldStart, FieldWidth
  <2> DEFINE w == 3 * ByteBits
  <2> HIDE DEF w
  <2>3. w \in Nat /\ \A i : FieldStart(i) = i * w /\ FieldWidth(i) = w
    BY <2>1, <2>2 DEF w
  <2> QED
    BY <1>2, <2>3
<1>6. CASE Kind = "payload"
  <2> DEFINE f == [j \in 0..(Count - 1) |-> input.widths[j + 1]]
  <2>1. \A i : FieldStart(i) = PrefixSum(f, i) /\ FieldWidth(i) = input.widths[i + 1]
    BY <1>6 DEF FieldStart, FieldWidth, CodeStart
  <2>2. \A i \in 0..(Count - 1) : f[i] = FieldWidth(i) /\ f[i] \in Nat
    <3>1. \A i \in 0..(Count - 1) : FieldWidth(i) \in Nat
      BY FieldFacts DEF Indexes
    <3>2. \A i \in 0..(Count - 1) : f[i] = FieldWidth(i)
      BY <2>1
    <3> QED
      BY <3>1, <3>2
  <2> HIDE DEF f
  <2>3. FieldStart(0) = 0
    BY <2>1, PrefixSumZero
  <2>4. \A i \in 0..Count : FieldStart(i) \in Nat
    BY <1>1, <2>1, <2>2, PrefixSumNat
  <2>5. ASSUME NEW i \in Indexes PROVE FieldStart(i + 1) = FieldStart(i) + FieldWidth(i)
    <3>1. i \in Nat /\ i \in 0..(Count - 1)
      BY <1>1 DEF Indexes
    <3>2. PrefixSum(f, i + 1) = PrefixSum(f, i) + f[i]
      BY <3>1, PrefixSumNext
    <3>3. FieldStart(i + 1) = PrefixSum(f, i + 1) /\ FieldStart(i) = PrefixSum(f, i)
      BY <2>1
    <3> QED
      BY <2>2, <3>1, <3>2, <3>3
  <2>6. ASSUME NEW i \in 0..Count, NEW j \in i..Count PROVE FieldStart(i) <= FieldStart(j)
    <3>1. PrefixSum(f, i) <= PrefixSum(f, j)
      BY <1>1, <2>2, PrefixSumGrows
    <3> QED
      BY <2>1, <3>1
  <2> QED
    BY <2>3, <2>4, <2>5, <2>6
<1> QED
  BY <1>1, <1>3, <1>4, <1>5, <1>6

-----------------------------------------------------------------------------
(* Where a bit is *)

\* Place of the t-th bit of a section: streams fill bytes from the other end.
Turn(t) == IF Kind = "payload" THEN StreamBit(t) ELSE t

\* The rank in the section of bit k of the i-th field.
RankOf(i, k) ==
  IF Kind = "payload" THEN FieldStart(i) + FieldWidth(i) - 1 - k ELSE FieldStart(i) + k

Spot(i, k) == Turn(RankOf(i, k))

LEMMA ByteSize == ByteBits \in Nat \ {0} /\ ByteBits = 2 * Fanout /\ Fanout \in Nat \ {0}
BY PackingAssumption

\* A bit turned in its byte stays in the byte, and turns back.
LEMMA StreamBitFacts ==
  ASSUME NEW t \in Nat
  PROVE  /\ StreamBit(t) \in Nat
         /\ StreamBit(t) \div ByteBits = t \div ByteBits
         /\ StreamBit(t) % ByteBits = ByteBits - 1 - (t % ByteBits)
         /\ StreamBit(StreamBit(t)) = t
<1> DEFINE B == ByteBits
           q == t \div B
           r == t % B
           s == q * B + (B - 1 - r)
<1>1. B \in Nat \ {0}
  BY ByteSize
<1>2. q \in Nat /\ t = q * B + r /\ r \in 0..(B - 1)
  <2> HIDE DEF B
  <2> QED
    BY <1>1, Remainder, Quotient
<1>3. StreamBit(t) = s
  BY DEF StreamBit, Bit
<1> HIDE DEF q, r, B
<1>4. s \in Nat /\ q * B <= s /\ s < (q + 1) * B
  <2>1. q * B \in Nat /\ (q + 1) * B = q * B + B
    BY <1>1, <1>2
  <2> QED
    BY <1>1, <1>2, <2>1
<1>5. s \div B = q
  <2> HIDE DEF s
  <2> QED
    BY <1>1, <1>2, <1>4, QuotientUnique
<1>6. s % B = B - 1 - r
  <2>1. s = (s \div B) * B + (s % B) /\ s % B \in 0..(B - 1)
    <3> HIDE DEF s
    <3> QED
      BY <1>1, <1>4, Remainder
  <2>2. s = q * B + (B - 1 - r) /\ s = q * B + (s % B) /\ s % B \in Int
    <3>1. s = q * B + (B - 1 - r)
      OBVIOUS
    <3> HIDE DEF s
    <3> QED
      BY <1>1, <1>5, <2>1, <3>1
  <2> DEFINE u == s % B
             v == q * B
  <2>3. v \in Nat /\ u \in Int /\ v + (B - 1 - r) = v + u
    BY <1>1, <1>2, <2>2
  <2> HIDE DEF u, v, s
  <2>4. u = B - 1 - r
    BY <1>1, <1>2, <2>3
  <2> QED
    BY <2>4 DEF u
<1> HIDE DEF s
<1>7. StreamBit(s) = t
  <2>1. StreamBit(s) = (s \div B) * B + ((B - 1) - (s % B))
    BY DEF StreamBit, Bit, B
  <2>2. (B - 1) - (B - 1 - r) = r
    BY <1>1, <1>2
  <2> QED
    BY <1>2, <1>5, <1>6, <2>1, <2>2
<1> QED
  BY <1>3, <1>4, <1>5, <1>6, <1>7 DEF q, r, B

\* A bit lies in the first n bytes exactly if its byte does.
LEMMA ByteBound ==
  ASSUME NEW t \in Nat, NEW n \in Nat
  PROVE  t < n * ByteBits <=> t \div ByteBits < n
<1> DEFINE B == ByteBits
           q == t \div B
<1>1. B \in Nat \ {0}
  BY ByteSize
<1>2. q \in Nat /\ q * B <= t /\ t < (q + 1) * B
  <2> HIDE DEF B
  <2> QED
    BY <1>1, Quotient
<1> HIDE DEF q, B
<1>3. ASSUME q < n PROVE t < n * B
  <2>1. q + 1 \in Nat /\ q + 1 <= n
    BY <1>2, <1>3
  <2>2. (q + 1) * B <= n * B /\ n * B \in Nat /\ (q + 1) * B \in Nat
    BY <1>1, <2>1, ProductGrows
  <2> QED
    BY <1>2, <2>2
<1>4. ASSUME ~(q < n) PROVE ~(t < n * B)
  <2>1. n <= q
    BY <1>2, <1>4
  <2>2. n * B <= q * B /\ n * B \in Nat /\ q * B \in Nat
    BY <1>1, <1>2, <2>1, ProductGrows
  <2> QED
    BY <1>2, <2>2
<1> QED
  BY <1>3, <1>4 DEF q, B

LEMMA TurnFacts ==
  ASSUME NEW t \in Nat
  PROVE  /\ Turn(t) \in Nat /\ Turn(Turn(t)) = t
         /\ \A n \in Nat : t < n * ByteBits <=> Turn(t) < n * ByteBits
<1>1. CASE Kind = "payload"
  <2>1. /\ Turn(t) = StreamBit(t) /\ Turn(Turn(t)) = StreamBit(StreamBit(t))
    BY <1>1 DEF Turn
  <2>2. ASSUME NEW n \in Nat PROVE t < n * ByteBits <=> StreamBit(t) < n * ByteBits
    BY StreamBitFacts, ByteBound
  <2> QED
    BY <2>1, <2>2, StreamBitFacts
<1>2. CASE Kind # "payload"
  BY <1>2 DEF Turn
<1> QED
  BY <1>1, <1>2

\* The bits of a field fill the ranks from its start to the next one's.
LEMMA RanksOfField ==
  ASSUME input \in Inputs, NEW i \in Indexes
  PROVE  /\ \A k \in 0..(FieldWidth(i) - 1) :
              RankOf(i, k) \in Nat /\ RankOf(i, k) \in FieldStart(i)..(FieldStart(i + 1) - 1)
         /\ \A k, l \in 0..(FieldWidth(i) - 1) : RankOf(i, k) = RankOf(i, l) => k = l
         /\ \A t \in FieldStart(i)..(FieldStart(i + 1) - 1) :
              \E k \in 0..(FieldWidth(i) - 1) : RankOf(i, k) = t
<1> DEFINE s == FieldStart(i)
           w == FieldWidth(i)
<1>1. w \in Nat
  BY FieldFacts
<1>2. s \in Nat /\ FieldStart(i + 1) = s + w
  <2>1. i \in 0..Count
    BY InputFacts DEF Indexes
  <2> QED
    BY <2>1, FieldsFollow
<1>3. \A k : RankOf(i, k) = IF Kind = "payload" THEN s + w - 1 - k ELSE s + k
  BY DEF RankOf
<1> HIDE DEF s, w
<1>4. \A k \in 0..(w - 1) : RankOf(i, k) \in Nat /\ RankOf(i, k) \in s..(s + w - 1)
  BY <1>1, <1>2, <1>3
<1>5. \A k, l \in 0..(w - 1) : RankOf(i, k) = RankOf(i, l) => k = l
  BY <1>1, <1>2, <1>3
<1>6. ASSUME NEW t \in s..(s + w - 1) PROVE \E k \in 0..(w - 1) : RankOf(i, k) = t
  <2>1. CASE Kind = "payload"
    <3>1. s + w - 1 - t \in 0..(w - 1) /\ RankOf(i, s + w - 1 - t) = t
      BY <1>1, <1>2, <1>3, <2>1
    <3> QED
      BY <3>1
  <2>2. CASE Kind # "payload"
    <3>1. t - s \in 0..(w - 1) /\ RankOf(i, t - s) = t
      BY <1>1, <1>2, <1>3, <2>2
    <3> QED
      BY <3>1
  <2> QED
    BY <2>1, <2>2
<1>7. \A t \in s..(s + w - 1) : \E k \in 0..(w - 1) : RankOf(i, k) = t
  BY <1>6
<1>8. s..(s + w - 1) = s..(FieldStart(i + 1) - 1)
  BY <1>1, <1>2
<1> QED
  BY <1>4, <1>5, <1>7, <1>8 DEF s, w

\* No two bits share a place.
LEMMA SpotsApart ==
  ASSUME input \in Inputs, NEW i \in Indexes, NEW j \in Indexes,
         NEW k \in 0..(FieldWidth(i) - 1), NEW l \in 0..(FieldWidth(j) - 1),
         Spot(i, k) = Spot(j, l)
  PROVE  i = j /\ k = l
<1> DEFINE t == RankOf(i, k)
           u == RankOf(j, l)
<1>1. t \in Nat /\ u \in Nat
  BY RanksOfField
<1>2. t = u
  <2>1. Turn(t) = Turn(u)
    BY DEF Spot
  <2> HIDE DEF t, u
  <2>2. Turn(Turn(t)) = t /\ Turn(Turn(u)) = u
    BY <1>1, TurnFacts
  <2> QED
    BY <2>1, <2>2
<1>3. /\ i \in Nat /\ j \in Nat /\ i < Count /\ j < Count /\ Count \in Nat
      /\ FieldStart(i) \in Nat /\ FieldStart(j) \in Nat
      /\ FieldStart(i + 1) \in Nat /\ FieldStart(j + 1) \in Nat
  <2>1. Count \in Nat /\ i \in Nat /\ j \in Nat /\ i < Count /\ j < Count
    BY InputFacts DEF Indexes
  <2>2. i \in 0..Count /\ j \in 0..Count /\ i + 1 \in 0..Count /\ j + 1 \in 0..Count
    BY <2>1
  <2> QED
    BY <2>1, <2>2, FieldsFollow
<1>4. /\ t \in FieldStart(i)..(FieldStart(i + 1) - 1)
      /\ u \in FieldStart(j)..(FieldStart(j + 1) - 1)
  BY RanksOfField
<1>5. ~(i < j)
  <2>1. SUFFICES ASSUME i < j PROVE FALSE
    OBVIOUS
  <2>2. i + 1 \in 0..Count /\ j \in (i + 1)..Count
    BY <1>3, <2>1
  <2>3. FieldStart(i + 1) <= FieldStart(j)
    BY <2>2, FieldsFollow
  <2> HIDE DEF t, u
  <2> QED
    BY <1>1, <1>2, <1>3, <1>4, <2>3
<1>6. ~(j < i)
  <2>1. SUFFICES ASSUME j < i PROVE FALSE
    OBVIOUS
  <2>2. j + 1 \in 0..Count /\ i \in (j + 1)..Count
    BY <1>3, <2>1
  <2>3. FieldStart(j + 1) <= FieldStart(i)
    BY <2>2, FieldsFollow
  <2> HIDE DEF t, u
  <2> QED
    BY <1>1, <1>2, <1>3, <1>4, <2>3
<1>7. i = j
  BY <1>3, <1>5, <1>6
<1>8. k = l
  BY <1>2, <1>7, RanksOfField
<1> QED
  BY <1>7, <1>8

\* Every rank before the end of the last field belongs to a field.
LEMMA SpotsCover ==
  ASSUME input \in Inputs, NEW t \in Nat, t < FieldStart(Count)
  PROVE  \E i \in Indexes : \E k \in 0..(FieldWidth(i) - 1) : RankOf(i, k) = t
<1> DEFINE After == {n \in Nat : n <= Count /\ t < FieldStart(n)}
<1>1. Count \in After /\ After \subseteq Nat /\ Count \in Nat
  BY InputFacts
<1>2. PICK n \in After : \A m \in After : n <= m
  <2> HIDE DEF After
  <2> QED
    BY <1>1, LeastNatural
<1>3. n \in Nat /\ n <= Count /\ t < FieldStart(n)
  OBVIOUS
<1>4. n # 0
  <2>1. FieldStart(0) = 0
    BY FieldsFollow
  <2> QED
    BY <1>3, <2>1
<1> DEFINE i == n - 1
<1>5. i \in Nat /\ i + 1 = n /\ i \in Indexes /\ i \in 0..Count /\ ~(n <= i)
  BY <1>1, <1>3, <1>4 DEF Indexes
<1>6. i \notin After
  <2> HIDE DEF After
  <2> QED
    BY <1>2, <1>5
<1>7. FieldStart(i) \in Nat /\ FieldStart(i) <= t
  <2>1. FieldStart(i) \in Nat
    BY <1>5, FieldsFollow
  <2>2. ~(t < FieldStart(i))
    BY <1>1, <1>3, <1>5, <1>6
  <2> QED
    BY <2>1, <2>2
<1> HIDE DEF i
<1>8. t \in FieldStart(i)..(FieldStart(i + 1) - 1)
  <2>1. FieldStart(i + 1) \in Nat /\ t < FieldStart(i + 1)
    <3>1. i + 1 \in 0..Count
      BY <1>1, <1>3, <1>5
    <3> QED
      BY <1>3, <1>5, <3>1, FieldsFollow
  <2> QED
    BY <1>7, <2>1
<1>9. \E k \in 0..(FieldWidth(i) - 1) : RankOf(i, k) = t
  BY <1>5, <1>8, RanksOfField
<1> QED
  BY <1>5, <1>9

-----------------------------------------------------------------------------
(* Writing and reading in terms of places *)

\* Two masks in a byte: the bits of the i-th one.
LEMMA HalfBytes ==
  ASSUME NEW i \in Nat, NEW k \in Int
  PROVE  Bit(i \div 2, Fanout * (i % 2) + k) = i * Fanout + k
<1> DEFINE F == Fanout
           q == i \div 2
           r == i % 2
<1>1. F \in Nat /\ ByteBits = 2 * F
  BY ByteSize
<1>2. q \in Nat /\ r \in 0..1 /\ i = 2 * q + r
  OBVIOUS
<1>3. Bit(q, F * r + k) = q * (2 * F) + (F * r + k)
  BY <1>1 DEF Bit
<1> HIDE DEF F, q, r
<1>4. (2 * q + r) * F = q * (2 * F) + F * r
  BY <1>1, <1>2
<1>5. q * (2 * F) \in Int /\ F * r \in Int
  BY <1>1, <1>2
<1> QED
  BY <1>2, <1>3, <1>4, <1>5 DEF F, q, r

LEMMA PlacesAre ==
  ASSUME input \in Inputs, NEW i \in Indexes, NEW v
  PROVE  Places(i, v) = {Spot(i, k) : k \in BitsOf(v, FieldWidth(i))}
<1>1. /\ Kind \in {"packed", "masks", "u24", "payload"} /\ i \in Nat
      /\ ByteBits \in Nat \ {0} /\ ByteBits = 2 * Fanout /\ Fanout \in Nat \ {0}
  BY InputFacts, ByteSize
<1>2. CASE Kind = "packed"
  BY <1>2 DEF Places, PackedBits, Spot, Turn, RankOf, FieldStart, FieldWidth, Kind
<1>3. CASE Kind = "masks"
  <2>1. Places(i, v) = MaskBits(i, v) /\ FieldWidth(i) = Fanout
    BY <1>3 DEF Places, FieldWidth, Kind
  <2>2. \A k \in BitsOf(v, Fanout) : Bit(i \div 2, Fanout * (i % 2) + k) = Spot(i, k)
    <3>1. TAKE k \in BitsOf(v, Fanout)
    <3>2. k \in Int
      BY <1>1 DEF BitsOf
    <3>3. Spot(i, k) = i * Fanout + k
      BY <1>3 DEF Spot, Turn, RankOf, FieldStart
    <3>4. Bit(i \div 2, Fanout * (i % 2) + k) = i * Fanout + k
      BY <1>1, <3>2, HalfBytes
    <3> QED
      BY <3>3, <3>4
  <2> QED
    BY <2>1, <2>2 DEF MaskBits
<1>4. CASE Kind = "u24"
  <2>1. Places(i, v) = U24Bits(i, v) /\ FieldWidth(i) = 3 * ByteBits
    BY <1>4 DEF Places, FieldWidth, Kind
  <2>2. \A k \in BitsOf(v, 3 * ByteBits) : Bit(3 * i, k) = Spot(i, k)
    <3>1. TAKE k \in BitsOf(v, 3 * ByteBits)
    <3>2. Spot(i, k) = i * (3 * ByteBits) + k
      BY <1>4 DEF Spot, Turn, RankOf, FieldStart
    <3>3. (3 * i) * ByteBits = i * (3 * ByteBits)
      BY <1>1
    <3> QED
      BY <3>2, <3>3 DEF Bit
  <2> QED
    BY <2>1, <2>2 DEF U24Bits
<1>5. CASE Kind = "payload"
  BY <1>5 DEF Places, CodeBits, Spot, Turn, RankOf, FieldStart, FieldWidth, Kind
<1> QED
  BY <1>1, <1>2, <1>3, <1>4, <1>5

LEMMA CeilCovers ==
  ASSUME NEW n \in Nat, NEW d \in Nat \ {0}
  PROVE  /\ CeilDiv(n, d) \in Nat /\ n <= CeilDiv(n, d) * d /\ CeilDiv(n, d) * d < n + d
         /\ CeilDiv(n, d) * d \in Nat
<1> DEFINE q == CeilDiv(n, d)
<1>1. q = (n + d - 1) \div d /\ n + d - 1 \in Nat
  BY DEF CeilDiv
<1> HIDE DEF q
<1>2. q \in Nat /\ q * d <= n + d - 1 /\ n + d - 1 < (q + 1) * d
  BY <1>1, Quotient
<1>3. q * d \in Nat /\ (q + 1) * d = q * d + d
  BY <1>2
<1>4. n <= q * d /\ q * d < n + d
  BY <1>2, <1>3
<1> QED
  BY <1>2, <1>3, <1>4 DEF q

LEMMA BitShift ==
  ASSUME NEW a \in Int, NEW b \in Int, NEW p \in Int
  PROVE  Bit(a + b, p) = Bit(a, b * ByteBits + p)
<1>1. (a + b) * ByteBits = a * ByteBits + b * ByteBits /\ a * ByteBits \in Int /\ b * ByteBits \in Int
  BY ByteSize
<1>2. (a + b) * ByteBits + p = a * ByteBits + (b * ByteBits + p)
  BY <1>1
<1> QED
  BY <1>2 DEF Bit

\* The window of read_packed holds every bit of the value.
LEMMA WindowHolds ==
  ASSUME input \in Inputs, Kind = "packed", NEW i \in Indexes,
         byteLength = CeilDiv(FieldStart(Count), ByteBits),
         NEW k \in 0..(Width - 1)
  PROVE  LET first == (i * Width) \div ByteBits
             shift == (i * Width) % ByteBits
         IN  /\ first \in Nat /\ shift \in Nat /\ first * ByteBits + (k + shift) = i * Width + k
             /\ k + shift < Min({byteLength - first, WindowBytes}) * ByteBits
<1> DEFINE B == ByteBits
           s == i * Width
           first == s \div B
           shift == s % B
           n == byteLength
           M == WindowBytes * B
<1>1. /\ B \in Nat \ {0} /\ Width \in Nat \ {0} /\ Width <= MaxLengthWidth /\ MaxLengthWidth \in Nat
      /\ WindowBytes \in Nat \ {0} /\ MaxLengthWidth + B - 1 <= M /\ i \in Nat
  BY ByteSize, PackedFacts, FormatAssumption, PackingAssumption, WidthsAssumption, InputFacts
<1>2. s \in Nat /\ s + Width <= FieldStart(Count) /\ FieldStart(Count) \in Nat
  <2>1. FieldStart(i) = s /\ FieldStart(i + 1) = FieldStart(i) + Width
    <3>1. FieldStart(i) = s /\ FieldWidth(i) = Width
      BY DEF FieldStart, FieldWidth
    <3> QED
      BY <3>1, FieldsFollow
  <2>2. i \in 0..Count /\ i + 1 \in 0..Count /\ Count \in (i + 1)..Count /\ Count \in 0..Count
    BY InputFacts DEF Indexes
  <2>3. FieldStart(i) \in Nat /\ FieldStart(Count) \in Nat /\ FieldStart(i + 1) <= FieldStart(Count)
    BY <2>2, FieldsFollow
  <2> HIDE DEF s
  <2> QED
    BY <2>1, <2>3
<1>3. n \in Nat /\ FieldStart(Count) <= n * B /\ n * B \in Nat
  <2> HIDE DEF B
  <2> QED
    BY <1>1, <1>2, CeilCovers DEF B
<1> HIDE DEF s
<1>4. first \in Nat /\ shift \in 0..(B - 1) /\ s = first * B + shift
  <2> HIDE DEF B
  <2> QED
    BY <1>1, <1>2, Quotient, Remainder
<1> HIDE DEF first, shift, n, B, M
<1>5. first * B + (k + shift) = s + k
  <2>1. first * B \in Nat
    BY <1>1, <1>4
  <2> QED
    BY <1>1, <1>4, <2>1
<1>6. k + shift < M /\ M \in Nat
  <2>1. M \in Nat
    BY <1>1 DEF M
  <2> QED
    BY <1>1, <1>4, <2>1
<1>7. k + shift < (n - first) * B
  <2>1. (n - first) * B = n * B - first * B /\ first * B \in Nat
    BY <1>1, <1>3, <1>4
  <2>2. s + k < n * B
    BY <1>1, <1>2, <1>3
  <2> QED
    BY <1>1, <1>2, <1>3, <1>4, <1>5, <2>1, <2>2
<1>8. Min({n - first, WindowBytes}) \in {n - first, WindowBytes}
  <2> DEFINE a == n - first
             b == WindowBytes
  <2>1. a \in Int /\ b \in Int
    BY <1>1, <1>3, <1>4
  <2> HIDE DEF a, b
  <2>2. \E x \in {a, b} : \A y \in {a, b} : x <= y
    BY <2>1
  <2>3. Min({a, b}) \in {a, b}
    BY <2>2 DEF Min
  <2> QED
    BY <2>3 DEF a, b
<1>9. k + shift < Min({n - first, WindowBytes}) * B
  BY <1>6, <1>7, <1>8 DEF M
<1> QED
  BY <1>4, <1>5, <1>9 DEF n, first, shift, B, s

\* What the engine reads as a value: the bits of the file at its places.
LEMMA ReadIs ==
  ASSUME input \in Inputs, offset \in Nat, NEW i \in Indexes,
         byteLength = CeilDiv(FieldStart(Count), ByteBits)
  PROVE  ReadAt(i) = {k \in 0..(FieldWidth(i) - 1) : Bit(offset, Spot(i, k)) \in file}
<1>1. /\ Kind \in {"packed", "masks", "u24", "payload"} /\ i \in Nat
      /\ ByteBits \in Nat \ {0} /\ ByteBits = 2 * Fanout /\ Fanout \in Nat \ {0}
  BY InputFacts, ByteSize
<1>2. CASE Kind = "packed"
  <2> DEFINE first == (i * Width) \div ByteBits
             shift == (i * Width) % ByteBits
  <2>1. ReadAt(i) = {k \in 0..(Width - 1) :
                       /\ k + shift < Min({byteLength - first, WindowBytes}) * ByteBits
                       /\ Bit(offset + first, k + shift) \in file}
    BY <1>2 DEF ReadAt, ReadPacked, Kind
  <2>2. ASSUME NEW k \in 0..(Width - 1)
        PROVE  /\ k + shift < Min({byteLength - first, WindowBytes}) * ByteBits
               /\ Bit(offset + first, k + shift) = Bit(offset, Spot(i, k))
    <3>1. /\ first \in Nat /\ shift \in Nat /\ first * ByteBits + (k + shift) = i * Width + k
          /\ k + shift < Min({byteLength - first, WindowBytes}) * ByteBits
      BY <1>2, WindowHolds
    <3>2. Spot(i, k) = i * Width + k
      BY <1>2 DEF Spot, Turn, RankOf, FieldStart
    <3>3. k + shift \in Int /\ offset \in Int /\ first \in Int
      BY <3>1
    <3> HIDE DEF first, shift
    <3>4. Bit(offset + first, k + shift) = Bit(offset, first * ByteBits + (k + shift))
      BY <3>3, BitShift
    <3> QED
      BY <3>1, <3>2, <3>4
  <2>3. FieldWidth(i) = Width
    BY <1>2 DEF FieldWidth
  <2> HIDE DEF first, shift
  <2> QED
    BY <2>1, <2>2, <2>3
<1>3. CASE Kind = "masks"
  <2>1. /\ ReadAt(i) = {k \in 0..(Fanout - 1) : Bit(offset + i \div 2, Fanout * (i % 2) + k) \in file}
        /\ FieldWidth(i) = Fanout
    BY <1>3 DEF ReadAt, RawMask, FieldWidth, Kind
  <2>2. ASSUME NEW k \in 0..(Fanout - 1)
        PROVE  Bit(offset + i \div 2, Fanout * (i % 2) + k) = Bit(offset, Spot(i, k))
    <3>1. k \in Int /\ i \div 2 \in Int /\ Fanout * (i % 2) + k \in Int /\ offset \in Int
      BY <1>1
    <3>2. Bit(offset + i \div 2, Fanout * (i % 2) + k)
            = Bit(offset, (i \div 2) * ByteBits + (Fanout * (i % 2) + k))
      BY <3>1, BitShift
    <3>3. (i \div 2) * ByteBits + (Fanout * (i % 2) + k) = i * Fanout + k
      BY <1>1, <3>1, HalfBytes DEF Bit
    <3>4. Spot(i, k) = i * Fanout + k
      BY <1>3 DEF Spot, Turn, RankOf, FieldStart
    <3> QED
      BY <3>2, <3>3, <3>4
  <2> QED
    BY <2>1, <2>2
<1>4. CASE Kind = "u24"
  <2>1. /\ ReadAt(i) = {k \in 0..(3 * ByteBits - 1) : Bit(offset + 3 * i, k) \in file}
        /\ FieldWidth(i) = 3 * ByteBits
    BY <1>4 DEF ReadAt, ReadU24, FieldWidth, Kind
  <2>2. ASSUME NEW k \in 0..(3 * ByteBits - 1) PROVE Bit(offset + 3 * i, k) = Bit(offset, Spot(i, k))
    <3>1. k \in Int /\ 3 * i \in Int /\ offset \in Int
      BY <1>1
    <3>2. Bit(offset + 3 * i, k) = Bit(offset, (3 * i) * ByteBits + k)
      BY <3>1, BitShift
    <3>3. Spot(i, k) = i * (3 * ByteBits) + k
      BY <1>4 DEF Spot, Turn, RankOf, FieldStart
    <3>4. (3 * i) * ByteBits = i * (3 * ByteBits)
      BY <1>1
    <3> QED
      BY <3>2, <3>3, <3>4
  <2> QED
    BY <2>1, <2>2
<1>5. CASE Kind = "payload"
  BY <1>5 DEF ReadAt, ReadPayloadBits, Spot, Turn, RankOf, FieldStart, FieldWidth, Kind
<1> QED
  BY <1>1, <1>2, <1>3, <1>4, <1>5

\* The ranks behind the last field are in the last byte, above its used bits.
LEMMA BehindLast ==
  ASSUME NEW T \in Nat, NEW t \in Nat, T <= t, t < CeilDiv(T, ByteBits) * ByteBits
  PROVE  /\ T % ByteBits # 0 /\ T \div ByteBits \in Nat
         /\ CeilDiv(T, ByteBits) = T \div ByteBits + 1
         /\ \E r \in (T % ByteBits)..(ByteBits - 1) : t = (T \div ByteBits) * ByteBits + r
<1> DEFINE B == ByteBits
           q == T \div B
           u == T % B
           n == CeilDiv(T, B)
<1>1. B \in Nat \ {0}
  BY ByteSize
<1>2. q \in Nat /\ u \in 0..(B - 1) /\ T = q * B + u /\ q * B \in Nat
  <2> HIDE DEF B
  <2>1. q \in Nat /\ u \in 0..(B - 1) /\ T = q * B + u
    BY <1>1, Quotient, Remainder
  <2> HIDE DEF q, u
  <2> QED
    BY <1>1, <2>1
<1>3. n \in Nat /\ T <= n * B /\ n * B < T + B /\ n * B \in Nat
  <2> HIDE DEF B
  <2> QED
    BY <1>1, CeilCovers
<1> HIDE DEF B, q, u, n
<1>4. t < n * B
  BY DEF n, B
<1>5. u # 0
  <2>1. SUFFICES ASSUME u = 0 PROVE FALSE
    OBVIOUS
  <2>2. q * B < n * B /\ n * B < (q + 1) * B
    <3>1. (q + 1) * B = q * B + B
      BY <1>1, <1>2
    <3> QED
      BY <1>2, <1>3, <1>4, <2>1, <3>1, <1>1
  <2>3. q < n /\ n < q + 1
    <3>1. q + 1 \in Nat
      BY <1>2
    <3> QED
      BY <1>1, <1>2, <1>3, <2>2, <3>1, ProductStrict
  <2> QED
    BY <1>2, <1>3, <2>3
<1>6. n = q + 1
  <2>1. (q + 1) * B = q * B + B /\ (q + 2) * B = q * B + B + B
    BY <1>1, <1>2
  <2>2. q * B < n * B /\ n * B < (q + 2) * B
    BY <1>1, <1>2, <1>3, <1>5, <2>1
  <2>3. q < n /\ n < q + 2
    <3>1. q + 2 \in Nat
      BY <1>2
    <3> QED
      BY <1>1, <1>2, <1>3, <2>2, <3>1, ProductStrict
  <2> QED
    BY <1>2, <1>3, <2>3
<1> DEFINE r == t - q * B
<1>7. r \in u..(B - 1) /\ t = q * B + r
  <2>1. n * B = q * B + B
    BY <1>1, <1>2, <1>6
  <2> QED
    BY <1>1, <1>2, <1>3, <1>4, <2>1
<1> QED
  BY <1>2, <1>5, <1>6, <1>7 DEF B, q, u, n

\* Whichever check a section has, it covers every bit behind the last field.
LEMMA PaddingCovers ==
  ASSUME input \in Inputs, offset \in Nat, PaddingClear,
         byteLength = CeilDiv(FieldStart(Count), ByteBits),
         Kind = "payload" => bitLength = FieldStart(Count),
         NEW t \in Nat, FieldStart(Count) <= t, t < byteLength * ByteBits
  PROVE  Bit(offset, Turn(t)) \notin file
<1> DEFINE T == FieldStart(Count)
           B == ByteBits
           q == T \div B
           u == T % B
<1>1. /\ Kind \in {"packed", "masks", "u24", "payload"} /\ Count \in Nat
      /\ B \in Nat \ {0} /\ B = 2 * Fanout /\ Fanout \in Nat \ {0}
  BY InputFacts, ByteSize
<1>2. T \in Nat
  <2>1. Count \in 0..Count
    BY <1>1
  <2> QED
    BY <2>1, FieldsFollow
<1>3. /\ u # 0 /\ q \in Nat /\ byteLength = q + 1
      /\ \E r \in u..(B - 1) : t = q * B + r
  <2>1. T <= t /\ t < CeilDiv(T, B) * B /\ byteLength = CeilDiv(T, B)
    OBVIOUS
  <2> HIDE DEF T
  <2> QED
    BY <1>2, <2>1, BehindLast
<1>4. PICK r \in u..(B - 1) : t = q * B + r
  BY <1>3
<1>5. u \in 0..(B - 1) /\ T = q * B + u
  <2> HIDE DEF T, B
  <2> QED
    BY <1>1, <1>2, Remainder
<1>6. r \in Int /\ r \in 0..(B - 1)
  <2> HIDE DEF u
  <2> QED
    BY <1>1, <1>4, <1>5
<1>7. Bit(offset + q, r) = Bit(offset, t) /\ offset + byteLength - 1 = offset + q
  <2>1. Bit(offset + q, r) = Bit(offset, q * B + r)
    <3> HIDE DEF q
    <3> QED
      BY <1>3, <1>6, BitShift
  <2>2. offset + byteLength - 1 = offset + q
    <3> HIDE DEF q
    <3> QED
      BY <1>3
  <2> QED
    BY <1>4, <2>1, <2>2
<1>8. CASE Kind = "packed"
  <2>1. T = Count * Width /\ Turn(t) = t
    BY <1>8 DEF FieldStart, Turn
  <2>2. PackedPaddingClear(offset, byteLength, Count, Width)
    BY <1>8 DEF PaddingClear, Kind
  <2>3. u = 0 \/ \A k \in u..(B - 1) : Bit(offset + byteLength - 1, k) \notin file
    BY <2>1, <2>2 DEF PackedPaddingClear
  <2> HIDE DEF T, u, q, B
  <2> QED
    BY <1>3, <1>4, <1>7, <2>1, <2>3
<1>9. CASE Kind = "masks"
  <2>1. T = Count * Fanout /\ Turn(t) = t
    BY <1>9 DEF FieldStart, Turn
  <2>2. Count % 2 = 0 \/ \A k \in Fanout..(B - 1) : Bit(offset + byteLength - 1, k) \notin file
    BY <1>9 DEF PaddingClear, Kind, MaskPaddingClear
  <2> DEFINE F == Fanout
             h == Count \div 2
             c == Count % 2
  <2>3. h \in Nat /\ c \in 0..1 /\ Count = 2 * h + c
    BY <1>1
  <2>4. T = h * B + c * F
    <3> HIDE DEF F, h, c, B
    <3>1. (2 * h + c) * F = h * (2 * F) + c * F
      BY <1>1, <2>3 DEF F
    <3> QED
      BY <1>1, <2>1, <2>3, <3>1 DEF F
  <2>5. c * F \in 0..(B - 1)
    <3> HIDE DEF c
    <3>1. c = 0 \/ c = 1
      BY <2>3
    <3> QED
      BY <1>1, <3>1
  <2>6. T \div B = h
    <3> HIDE DEF T, h, c, F, B
    <3>1. h * B \in Nat /\ (h + 1) * B = h * B + B
      BY <1>1, <2>3
    <3>2. h * B <= T /\ T < (h + 1) * B
      BY <1>1, <2>4, <2>5, <3>1
    <3> QED
      BY <1>1, <1>2, <2>3, <3>2, QuotientUnique
  <2>7. u = c * F
    <3>1. q = h
      BY <2>6
    <3> HIDE DEF T, q, u, h, c, F, B
    <3>2. h * B \in Nat
      BY <1>1, <2>3
    <3> QED
      BY <1>1, <1>5, <2>4, <2>5, <3>1, <3>2
  <2>8. c = 1
    <3> HIDE DEF u, c
    <3>1. c # 0
      <4>1. c = 0 => c * F = 0
        BY <1>1
      <4> QED
        BY <1>3, <2>7, <4>1
    <3> QED
      BY <2>3, <3>1
  <2>9. u = Fanout /\ Count % 2 # 0
    <3>1. u = 1 * F
      BY <2>7, <2>8
    <3> QED
      BY <1>1, <2>8, <3>1
  <2> HIDE DEF T, q, u, h, c, F, B
  <2> QED
    BY <1>4, <1>7, <2>1, <2>2, <2>9
<1>10. CASE Kind = "u24"
  <2>1. T = (Count * 3) * B
    <3>1. T = Count * (3 * B)
      BY <1>10 DEF FieldStart
    <3> QED
      BY <1>1, <3>1
  <2> DEFINE h == Count * 3
  <2>2. h \in Nat
    BY <1>1
  <2>3. T \div B = h
    <3> HIDE DEF T, h, B
    <3>1. h * B \in Nat /\ (h + 1) * B = h * B + B
      BY <1>1, <2>2
    <3>2. h * B <= T /\ T < (h + 1) * B
      BY <1>1, <2>1, <3>1 DEF h
    <3> QED
      BY <1>1, <1>2, <2>2, <3>2, QuotientUnique
  <2>4. u = 0
    <3>1. q = h
      BY <2>3
    <3>2. T = h * B
      BY <2>1
    <3> HIDE DEF T, q, u, h, B
    <3>3. h * B \in Nat
      BY <1>1, <2>2
    <3> QED
      BY <1>1, <1>5, <3>1, <3>2, <3>3
  <2> HIDE DEF u
  <2> QED
    BY <1>3, <2>4
<1>11. CASE Kind = "payload"
  <2>1. u = 0 \/ \A k \in 0..(B - u - 1) : Bit(offset + q, k) \notin file
    BY <1>11 DEF PaddingClear, Kind, PayloadPaddingClear
  <2>2. Turn(t) = StreamBit(t)
    BY <1>11 DEF Turn
  <2>3. t \div B = q
    <3> HIDE DEF T, q, u, B
    <3>1. q * B \in Nat /\ (q + 1) * B = q * B + B
      BY <1>1, <1>3
    <3>2. q * B <= t /\ t < (q + 1) * B
      BY <1>1, <1>4, <1>6, <3>1
    <3> QED
      BY <1>1, <1>3, <3>2, QuotientUnique
  <2>4. t % B = r
    <3>1. t = (t \div B) * B + (t % B) /\ t % B \in 0..(B - 1)
      <4> HIDE DEF B
      <4> QED
        BY <1>1, Remainder
    <3> DEFINE v == t % B
               w == q * B
    <3>2. t = w + v /\ v \in 0..(B - 1) /\ w \in Nat /\ t = w + r
      <4>1. w \in Nat
        <5> HIDE DEF q, B
        <5> QED
          BY <1>1, <1>3
      <4> HIDE DEF B, q
      <4> QED
        BY <1>4, <2>3, <3>1, <4>1
    <3> HIDE DEF v, w
    <3>3. v = r
      BY <1>1, <1>6, <3>2
    <3> QED
      BY <3>3 DEF v
  <2>5. StreamBit(t) = q * B + (B - 1 - r)
    BY <2>3, <2>4 DEF StreamBit, Bit
  <2>6. Bit(offset + q, B - 1 - r) = Bit(offset, StreamBit(t))
    <3> HIDE DEF q, B
    <3>1. B - 1 - r \in Int
      BY <1>1, <1>6
    <3> QED
      BY <1>3, <2>5, <3>1, BitShift DEF B
  <2>7. B - 1 - r \in 0..(B - u - 1)
    <3> HIDE DEF u, B
    <3> QED
      BY <1>1, <1>4, <1>5, <1>6
  <2> HIDE DEF q, u, B
  <2> QED
    BY <1>3, <2>1, <2>2, <2>6, <2>7
<1> QED
  BY <1>1, <1>8, <1>9, <1>10, <1>11

LEMMA AllBitsAre ==
  ASSUME NEW n \in Nat
  PROVE  AllBits(0..(n - 1)) = 0..(n * ByteBits - 1)
<1> DEFINE B == ByteBits
<1>1. B \in Nat \ {0}
  BY ByteSize
<1>2. n * B \in Nat
  BY <1>1
<1>3. ASSUME NEW p \in AllBits(0..(n - 1)) PROVE p \in 0..(n * B - 1)
  <2>1. PICK b \in 0..(n - 1), k \in 0..(B - 1) : p = b * B + k
    BY DEF AllBits, Bit
  <2> HIDE DEF B
  <2>2. b \in Nat /\ b + 1 <= n /\ b + 1 \in Nat
    OBVIOUS
  <2>3. (b + 1) * B <= n * B /\ (b + 1) * B = b * B + B /\ b * B \in Nat
    BY <1>1, <2>2, ProductGrows
  <2> QED
    BY <1>1, <1>2, <2>1, <2>3
<1>4. ASSUME NEW p \in 0..(n * B - 1) PROVE p \in AllBits(0..(n - 1))
  <2>1. p \in Nat /\ p < n * B
    <3> HIDE DEF B
    <3> QED
      BY <1>2
  <2> DEFINE b == p \div B
             k == p % B
  <2>2. b \in Nat /\ k \in 0..(B - 1) /\ p = b * B + k
    <3> HIDE DEF B
    <3> QED
      BY <1>1, <2>1, Quotient, Remainder
  <2>3. b < n
    BY <2>1, ByteBound
  <2> HIDE DEF b, k
  <2>4. b \in 0..(n - 1)
    BY <2>2, <2>3
  <2> QED
    BY <2>2, <2>4 DEF AllBits, Bit
<1> QED
  BY <1>3, <1>4

\* Every bit of a field is in the bytes of its section.
LEMMA SpotsInside ==
  ASSUME input \in Inputs, NEW i \in Indexes, NEW k \in 0..(FieldWidth(i) - 1)
  PROVE  /\ Spot(i, k) \in Nat
         /\ \A n \in Nat : FieldStart(i + 1) <= n * ByteBits => Spot(i, k) < n * ByteBits
<1> DEFINE t == RankOf(i, k)
<1>1. t \in Nat /\ t \in FieldStart(i)..(FieldStart(i + 1) - 1)
  BY RanksOfField
<1>2. FieldStart(i + 1) \in Nat /\ FieldStart(i) \in Nat
  <2>1. i \in 0..Count /\ i + 1 \in 0..Count
    BY InputFacts DEF Indexes
  <2> QED
    BY <2>1, FieldsFollow
<1> HIDE DEF t
<1>3. t < FieldStart(i + 1)
  BY <1>1, <1>2
<1>4. Turn(t) \in Nat
  BY <1>1, TurnFacts
<1>5. ASSUME NEW n \in Nat, FieldStart(i + 1) <= n * ByteBits PROVE Turn(t) < n * ByteBits
  <2>1. n * ByteBits \in Nat
    BY ByteSize
  <2>2. t < n * ByteBits
    BY <1>1, <1>2, <1>3, <1>5, <2>1
  <2> QED
    BY <1>1, <2>2, TurnFacts
<1>6. Spot(i, k) = Turn(t)
  BY DEF Spot, t
<1> QED
  BY <1>4, <1>5, <1>6

LEMMA LastField ==
  ASSUME input \in Inputs
  PROVE  /\ FieldStart(Count) \in Nat
         /\ \A i \in Indexes : FieldStart(i + 1) <= FieldStart(Count)
<1>1. Count \in Nat /\ Count \in 0..Count
  BY InputFacts
<1>2. ASSUME NEW i \in Indexes PROVE FieldStart(i + 1) <= FieldStart(Count)
  <2>1. i + 1 \in 0..Count /\ Count \in (i + 1)..Count
    BY <1>1 DEF Indexes
  <2> QED
    BY <2>1, FieldsFollow
<1> QED
  BY <1>1, <1>2, FieldsFollow

\* Whatever a file holds: if the padding is clear, the values that are read
\* decide every bit of the section.
LEMMA ContentExact ==
  ASSUME input \in Inputs, offset \in Nat, PaddingClear,
         byteLength = CeilDiv(FieldStart(Count), ByteBits),
         Kind = "payload" => bitLength = FieldStart(Count)
  PROVE  {k \in AllBits(0..(byteLength - 1)) : Bit(offset, k) \in file} =
           UNION {Places(i, Number(ReadAt(i))) : i \in Indexes}
<1> DEFINE n == byteLength
           P == 0..(n * ByteBits - 1)
           Written == UNION {Places(i, Number(ReadAt(i))) : i \in Indexes}
<1>1. FieldStart(Count) \in Nat /\ \A i \in Indexes : FieldStart(i + 1) <= FieldStart(Count)
  BY LastField
<1>2. n \in Nat /\ n * ByteBits \in Nat /\ FieldStart(Count) <= n * ByteBits
  <2> DEFINE T == FieldStart(Count)
             m == CeilDiv(T, ByteBits)
  <2>1. T \in Nat
    BY <1>1
  <2>2. m \in Nat /\ m * ByteBits \in Nat /\ T <= m * ByteBits
    <3> HIDE DEF T
    <3> QED
      BY <2>1, ByteSize, CeilCovers
  <2> HIDE DEF m
  <2>3. n = m
    BY DEF m
  <2> QED
    BY <2>2, <2>3
<1>3. AllBits(0..(n - 1)) = P
  BY <1>2, AllBitsAre
<1>4. ASSUME NEW i \in Indexes
      PROVE  Places(i, Number(ReadAt(i))) = {Spot(i, k) : k \in ReadAt(i)}
  <2> DEFINE R == ReadAt(i)
             w == FieldWidth(i)
  <2>1. R \in SUBSET (0..(w - 1)) /\ w \in Nat
    <3>1. R = {k \in 0..(w - 1) : Bit(offset, Spot(i, k)) \in file}
      BY ReadIs
    <3>2. w \in Nat
      BY FieldFacts
    <3> HIDE DEF R, w
    <3> QED
      BY <3>1, <3>2
  <2>2. BitsOf(Number(R), w) = R
    <3> HIDE DEF R, w
    <3> QED
      BY <2>1, BitsOfNumber
  <2> QED
    BY <2>2, PlacesAre
<1>5. ASSUME NEW p \in Written PROVE p \in P /\ Bit(offset, p) \in file
  <2>1. PICK i \in Indexes : p \in Places(i, Number(ReadAt(i)))
    BY <1>5
  <2>2. PICK k \in ReadAt(i) : p = Spot(i, k)
    BY <1>4, <2>1
  <2>3. k \in 0..(FieldWidth(i) - 1) /\ Bit(offset, Spot(i, k)) \in file
    BY <2>2, ReadIs
  <2>4. Spot(i, k) \in Nat /\ Spot(i, k) < n * ByteBits
    <3>1. FieldStart(i + 1) <= n * ByteBits
      <4>1. FieldStart(i + 1) <= FieldStart(Count) /\ FieldStart(i + 1) \in Nat
        <5>1. i + 1 \in 0..Count
          BY InputFacts DEF Indexes
        <5> QED
          BY <1>1, <5>1, FieldsFollow
      <4> HIDE DEF n
      <4> QED
        BY <1>1, <1>2, <4>1
    <3> HIDE DEF n
    <3> QED
      BY <1>2, <2>3, <3>1, SpotsInside
  <2>5. p \in P
    <3> HIDE DEF n
    <3> QED
      BY <1>2, <2>2, <2>4
  <2> QED
    BY <2>2, <2>3, <2>5
<1>6. ASSUME NEW p \in P, Bit(offset, p) \in file PROVE p \in Written
  <2>1. p \in Nat /\ p < n * ByteBits
    <3> HIDE DEF n
    <3> QED
      BY <1>2
  <2> DEFINE t == Turn(p)
  <2>2. t \in Nat /\ Turn(t) = p /\ t < n * ByteBits
    <3> HIDE DEF n
    <3> QED
      BY <1>2, <2>1, TurnFacts
  <2> HIDE DEF t
  <2>3. t < FieldStart(Count)
    <3>1. SUFFICES ASSUME ~(t < FieldStart(Count)) PROVE FALSE
      OBVIOUS
    <3>2. FieldStart(Count) <= t
      BY <1>1, <2>2, <3>1
    <3>3. Bit(offset, Turn(t)) \notin file
      BY <2>2, <3>2, PaddingCovers
    <3> QED
      BY <1>6, <2>2, <3>3
  <2>4. PICK i \in Indexes : \E k \in 0..(FieldWidth(i) - 1) : RankOf(i, k) = t
    BY <2>2, <2>3, SpotsCover
  <2>5. PICK k \in 0..(FieldWidth(i) - 1) : RankOf(i, k) = t
    BY <2>4
  <2>6. p = Spot(i, k)
    BY <2>2, <2>5 DEF Spot
  <2>7. k \in ReadAt(i)
    BY <1>6, <2>6, ReadIs
  <2>8. p \in Places(i, Number(ReadAt(i)))
    BY <1>4, <2>6, <2>7
  <2> QED
    BY <2>8
<1>7. {k \in P : Bit(offset, k) \in file} = Written
  <2> HIDE DEF P, Written
  <2> QED
    BY <1>5, <1>6
<1> QED
  BY <1>3, <1>7

-----------------------------------------------------------------------------
(* The invariant *)

\* What the encoder has to have written after n values.
SectionOf(n) == UNION {Places(i, ValueAt(i)) : i \in 0..(n - 1)}

\* The section holds the values written so far at their places and has the
\* bytes they need; only an index beyond MaxU24 is refused; a placed section
\* is in the file as it was written.
FieldsInv ==
  /\ input \in Inputs
  /\ written \in 0..Count
  /\ stage \in {"write", "refused", "placed", "damaged"}
  /\ offset \in Nat
  /\ section = SectionOf(written)
  /\ Kind = "u24" => \A i \in 0..(written - 1) : ValueAt(i) <= MaxU24
  /\ byteLength = CeilDiv(FieldStart(IF Kind = "packed" THEN Count ELSE written), ByteBits)
  /\ Kind = "payload" => bitLength = FieldStart(written)
  /\ Kind = "masks" => (written % 2 = 0 \/ written = Count)
  /\ stage = "refused" => (Kind = "u24" /\ ValueAt(written) > MaxU24)
  /\ stage \in {"placed", "damaged"} => written = Count
  /\ stage = "placed" =>
       \A p \in 0..(byteLength * ByteBits - 1) : Bit(offset, p) \in file <=> p \in section

LEMMA InputKept ==
  ASSUME input' = input
  PROVE  /\ Kind' = Kind /\ Count' = Count /\ Width' = Width
         /\ \A i : ValueAt(i)' = ValueAt(i)
         /\ \A i : FieldWidth(i)' = FieldWidth(i)
         /\ \A i : FieldStart(i)' = FieldStart(i)
         /\ \A i, v : Places(i, v)' = Places(i, v)
         /\ \A n : SectionOf(n)' = SectionOf(n)
<1>1. Kind' = Kind /\ Count' = Count /\ Width' = Width
  BY DEF Kind, Count, Width
<1>2. \A i : ValueAt(i)' = ValueAt(i)
  BY DEF ValueAt
<1>3. \A i : FieldWidth(i)' = FieldWidth(i)
  BY <1>1 DEF FieldWidth
<1>4. \A i : CodeStart(i)' = CodeStart(i)
  BY <1>1 DEF CodeStart
<1>5. \A i : FieldStart(i)' = FieldStart(i)
  BY <1>1, <1>4 DEF FieldStart
<1>6. \A i, v : Places(i, v)' = Places(i, v)
  BY <1>1, <1>4 DEF Places
<1>7. \A n : SectionOf(n)' = SectionOf(n)
  BY <1>2, <1>6 DEF SectionOf
<1> QED
  BY <1>1, <1>2, <1>3, <1>5, <1>6, <1>7

LEMMA SectionGrows ==
  ASSUME NEW n \in Nat
  PROVE  SectionOf(n + 1) = SectionOf(n) \cup Places(n, ValueAt(n))
<1>1. 0..((n + 1) - 1) = (0..(n - 1)) \cup {n}
  OBVIOUS
<1> QED
  BY <1>1 DEF SectionOf

LEMMA CeilMultiple ==
  ASSUME NEW h \in Nat, NEW d \in Nat \ {0}
  PROVE  CeilDiv(h * d, d) = h
<1>1. h * d \in Nat /\ (h + 1) * d = h * d + d
  OBVIOUS
<1> DEFINE n == h * d
           m == n + d - 1
<1>2. n \in Nat /\ (h + 1) * d = n + d /\ m \in Nat
  BY <1>1
<1>3. h * d <= m /\ m < (h + 1) * d
  <2>1. h * d = n
    OBVIOUS
  <2> HIDE DEF n
  <2> QED
    BY <1>2, <2>1
<1> HIDE DEF m
<1>4. m \div d = h
  BY <1>2, <1>3, QuotientUnique
<1> QED
  BY <1>4 DEF CeilDiv, m

LEMMA CeilHalf ==
  ASSUME NEW h \in Nat
  PROVE  /\ CeilDiv((2 * h) * Fanout, ByteBits) = h
         /\ CeilDiv((2 * h + 1) * Fanout, ByteBits) = h + 1
         /\ CeilDiv((2 * h + 2) * Fanout, ByteBits) = h + 1
<1> DEFINE F == Fanout
           d == 2 * F
<1>1. F \in Nat \ {0} /\ ByteBits = d /\ d \in Nat \ {0}
  BY ByteSize
<1>2. (2 * h) * F = h * d /\ (2 * h + 2) * F = (h + 1) * d /\ (2 * h + 1) * F = h * d + F
      /\ h * d \in Nat /\ (h + 1) * d = h * d + d /\ ((h + 1) + 1) * d = h * d + d + d
  <2> HIDE DEF F
  <2> QED
    BY <1>1
<1>3. CeilDiv(h * d, d) = h /\ CeilDiv((h + 1) * d, d) = h + 1
  <2> HIDE DEF d
  <2>1. h + 1 \in Nat
    OBVIOUS
  <2> QED
    BY <1>1, <2>1, CeilMultiple
<1>4. CeilDiv(h * d + F, d) = h + 1
  <2> DEFINE x == h * d
             m == x + F + d - 1
  <2>1. x \in Nat /\ (h + 1) * d = x + d /\ ((h + 1) + 1) * d = x + d + d /\ d = 2 * F
    BY <1>2
  <2> HIDE DEF x, d, F
  <2>2. m \in Nat /\ (h + 1) * d <= m /\ m < ((h + 1) + 1) * d /\ h + 1 \in Nat
    BY <1>1, <2>1
  <2> HIDE DEF m
  <2>3. m \div d = h + 1
    BY <1>1, <2>2, QuotientUnique
  <2> QED
    BY <2>3 DEF CeilDiv, m, x
<1> QED
  <2> HIDE DEF d
  <2> QED
    BY <1>1, <1>2, <1>3, <1>4 DEF F

\* The first state of an encoder that has been given its input.
THEOREM FieldsInitially == FieldsInit => FieldsInv
<1> SUFFICES ASSUME FieldsInit PROVE FieldsInv
  OBVIOUS
<1> USE DEF FieldsInit
<1>1. /\ input \in Inputs /\ Kind \in {"packed", "masks", "u24", "payload"} /\ Count \in Nat
      /\ written = 0 /\ written \in 0..Count
  BY InputFacts
<1>2. section = SectionOf(written)
  <2>1. 0..(written - 1) = {}
    BY <1>1
  <2> QED
    BY <2>1 DEF SectionOf
<1>3. \A i \in 0..(written - 1) : ValueAt(i) <= MaxU24
  BY <1>1
<1>4. byteLength = CeilDiv(FieldStart(IF Kind = "packed" THEN Count ELSE written), ByteBits)
  <2>1. CASE Kind = "packed"
    <3>1. FieldStart(Count) = Count * PackedWidth(input.values)
      BY <2>1 DEF FieldStart, Width
    <3> QED
      BY <2>1, <3>1 DEF Kind
  <2>2. CASE Kind # "packed"
    <3>1. FieldStart(0) = 0
      BY <1>1, FieldsFollow
    <3>2. CeilDiv(0 * ByteBits, ByteBits) = 0 /\ 0 * ByteBits = 0
      BY ByteSize, CeilMultiple
    <3> QED
      BY <1>1, <2>2, <3>1, <3>2 DEF Kind
  <2> QED
    BY <2>1, <2>2
<1>5. Kind = "payload" => bitLength = FieldStart(written)
  BY <1>1, FieldsFollow
<1> QED
  BY <1>1, <1>2, <1>3, <1>4, <1>5 DEF FieldsInv

LEMMA PackValueKeeps == FieldsInv /\ PackValue => FieldsInv'
<1> SUFFICES ASSUME FieldsInv, PackValue PROVE FieldsInv'
  OBVIOUS
<1>1. /\ input \in Inputs /\ input' = input /\ Kind = "packed" /\ stage = "write"
      /\ Count \in Nat /\ written \in Nat /\ written < Count /\ written \in Indexes
      /\ UNCHANGED <<byteLength, bitLength, offset, file>>
  <2>1. Count \in Nat
    BY InputFacts DEF FieldsInv
  <2> QED
    BY <2>1 DEF FieldsInv, PackValue, Writing, Kind, Indexes
<1>2. ValueAt(written) < 2 ^ Width
  BY <1>1, PackedFacts
<1>3. /\ section' = section \cup PackedBits(written, Width, ValueAt(written))
      /\ written' = written + 1 /\ stage' = stage
  BY <1>2 DEF PackValue, Width
<1>4. PackedBits(written, Width, ValueAt(written)) = Places(written, ValueAt(written))
  BY <1>1 DEF Places, Kind
<1>5. section' = SectionOf(written)'
  BY <1>1, <1>3, <1>4, SectionGrows, InputKept DEF FieldsInv
<1>6. written' \in 0..Count'
  BY <1>1, <1>3, InputKept
<1>7. byteLength' = CeilDiv(FieldStart(IF Kind = "packed" THEN Count ELSE written)', ByteBits)
  <2>1. byteLength = CeilDiv(FieldStart(Count), ByteBits)
    BY <1>1 DEF FieldsInv
  <2>2. FieldStart(IF Kind = "packed" THEN Count ELSE written)' = FieldStart(Count)
    BY <1>1, InputKept
  <2> QED
    BY <1>1, <2>1, <2>2
<1>8. Kind' = "packed" /\ stage' = "write" /\ offset' = offset /\ offset' \in Nat
  BY <1>1, <1>3, InputKept DEF FieldsInv
<1> QED
  BY <1>1, <1>5, <1>6, <1>7, <1>8 DEF FieldsInv

LEMMA PushMaskPairKeeps == FieldsInv /\ PushMaskPair => FieldsInv'
<1> SUFFICES ASSUME FieldsInv, PushMaskPair PROVE FieldsInv'
  OBVIOUS
<1>1. /\ input \in Inputs /\ input' = input /\ Kind = "masks" /\ stage = "write" /\ stage' = stage
      /\ Count \in Nat /\ written \in Nat /\ written < Count /\ written % 2 = 0
      /\ byteLength' = byteLength + 1 /\ UNCHANGED <<bitLength, offset, file>>
      /\ byteLength = CeilDiv(FieldStart(written), ByteBits) /\ offset \in Nat
      /\ section = SectionOf(written)
  <2>1. Count \in Nat
    BY InputFacts DEF FieldsInv
  <2> QED
    BY <2>1 DEF FieldsInv, PushMaskPair, Writing, Kind
<1> DEFINE h == written \div 2
           pair == {i \in {written, written + 1} : i < Count}
<1>2. h \in Nat /\ written = 2 * h
  BY <1>1
<1>3. \A n : FieldStart(n) = n * Fanout
  BY <1>1 DEF FieldStart
<1>4. byteLength = h
  <2>1. byteLength = CeilDiv((2 * h) * Fanout, ByteBits)
    BY <1>1, <1>2, <1>3
  <2> HIDE DEF h
  <2> QED
    BY <1>2, <2>1, CeilHalf
<1>5. /\ section' = section \cup UNION {MaskBits(i, ValueAt(i)) : i \in pair}
      /\ written' = written + Cardinality(pair)
  BY DEF PushMaskPair
<1>6. \A i : Places(i, ValueAt(i)) = MaskBits(i, ValueAt(i))
  BY <1>1 DEF Places, Kind
<1>7. /\ written' \in Nat /\ written' <= Count /\ section' = SectionOf(written')
      /\ CeilDiv(FieldStart(written'), ByteBits) = h + 1
      /\ (written' % 2 = 0 \/ written' = Count)
  <2>1. CASE written + 1 < Count
    <3>1. pair = {written, written + 1} /\ written # written + 1
      BY <1>1, <2>1
    <3>2. Cardinality(pair) = 2
      <4>1. IsFiniteSet({written}) /\ Cardinality({written}) = 1
        BY FS_Singleton
      <4>2. /\ Cardinality({written} \cup {written + 1}) = Cardinality({written}) + 1
        BY <3>1, <4>1, FS_AddElement
      <4>3. {written} \cup {written + 1} = pair
        BY <3>1
      <4> QED
        BY <4>1, <4>2, <4>3
    <3>3. written' = written + 2
      BY <1>5, <3>2
    <3>4. SectionOf(written + 2) = SectionOf(written) \cup Places(written, ValueAt(written))
                                     \cup Places(written + 1, ValueAt(written + 1))
      <4>1. written + 1 \in Nat /\ (written + 1) + 1 = written + 2
        BY <1>1
      <4>2. SectionOf((written + 1) + 1) = SectionOf(written + 1) \cup Places(written + 1, ValueAt(written + 1))
        BY <4>1, SectionGrows
      <4>3. SectionOf(written + 1) = SectionOf(written) \cup Places(written, ValueAt(written))
        BY <1>1, SectionGrows
      <4> QED
        BY <4>1, <4>2, <4>3
    <3>5. UNION {MaskBits(i, ValueAt(i)) : i \in pair}
            = MaskBits(written, ValueAt(written)) \cup MaskBits(written + 1, ValueAt(written + 1))
      <4> HIDE DEF pair
      <4> QED
        BY <3>1
    <3>6. section' = SectionOf(written')
      <4> HIDE DEF pair
      <4> QED
        BY <1>1, <1>5, <1>6, <3>3, <3>4, <3>5
    <3>7. FieldStart(written') = (2 * h + 2) * Fanout
      BY <1>2, <1>3, <3>3
    <3>8. written' \in Nat /\ written' <= Count /\ written' % 2 = 0
      BY <1>1, <2>1, <3>3
    <3> HIDE DEF h
    <3>9. CeilDiv(FieldStart(written'), ByteBits) = h + 1
      BY <1>2, <3>7, CeilHalf
    <3> QED
      BY <3>6, <3>8, <3>9
  <2>2. CASE ~(written + 1 < Count)
    <3>1. pair = {written} /\ written + 1 = Count
      BY <1>1, <2>2
    <3>2. Cardinality(pair) = 1
      BY <3>1, FS_Singleton
    <3>3. written' = written + 1
      BY <1>5, <3>2
    <3>4. SectionOf(written + 1) = SectionOf(written) \cup Places(written, ValueAt(written))
      BY <1>1, SectionGrows
    <3>5. UNION {MaskBits(i, ValueAt(i)) : i \in pair} = MaskBits(written, ValueAt(written))
      <4> HIDE DEF pair
      <4> QED
        BY <3>1
    <3>6. section' = SectionOf(written')
      <4> HIDE DEF pair
      <4> QED
        BY <1>1, <1>5, <1>6, <3>3, <3>4, <3>5
    <3>7. FieldStart(written') = (2 * h + 1) * Fanout
      BY <1>2, <1>3, <3>3
    <3>8. written' \in Nat /\ written' <= Count /\ written' = Count
      BY <1>1, <3>1, <3>3
    <3> HIDE DEF h
    <3>9. CeilDiv(FieldStart(written'), ByteBits) = h + 1
      BY <1>2, <3>7, CeilHalf
    <3> QED
      BY <3>6, <3>8, <3>9
  <2> QED
    BY <2>1, <2>2
<1> HIDE DEF h, pair
<1>8. section' = SectionOf(written)' /\ written' \in 0..Count' /\ Kind' = "masks" /\ Count' = Count
  BY <1>1, <1>7, InputKept
<1>9. byteLength' = CeilDiv(FieldStart(written)', ByteBits)
  <2>1. FieldStart(written)' = FieldStart(written')
    BY <1>1, InputKept
  <2> QED
    BY <1>1, <1>4, <1>7, <2>1
<1> QED
  BY <1>1, <1>7, <1>8, <1>9 DEF FieldsInv

LEMMA AppendU24Keeps == FieldsInv /\ AppendU24 => FieldsInv'
<1> SUFFICES ASSUME FieldsInv, AppendU24 PROVE FieldsInv'
  OBVIOUS
<1>1. /\ input \in Inputs /\ input' = input /\ Kind = "u24" /\ stage = "write"
      /\ Count \in Nat /\ written \in Nat /\ written < Count
      /\ UNCHANGED <<bitLength, offset, file>>
      /\ byteLength = CeilDiv(FieldStart(written), ByteBits) /\ offset \in Nat
      /\ section = SectionOf(written) /\ \A i \in 0..(written - 1) : ValueAt(i) <= MaxU24
      /\ ValueAt(written) \in Nat
  <2>1. Count \in Nat
    BY InputFacts DEF FieldsInv
  <2>2. written \in Indexes
    BY <2>1 DEF FieldsInv, AppendU24, Writing, Indexes
  <2> QED
    BY <2>1, <2>2, InputFacts DEF FieldsInv, AppendU24, Writing, Kind
<1>2. Kind' = "u24" /\ Count' = Count /\ \A i : ValueAt(i)' = ValueAt(i)
  BY <1>1, InputKept
<1>3. CASE U24Fits(ValueAt(written))
  <2>1. /\ section' = section \cup U24Bits(written, ValueAt(written))
        /\ byteLength' = byteLength + 3 /\ written' = written + 1 /\ stage' = stage
    BY <1>3 DEF AppendU24
  <2>2. Places(written, ValueAt(written)) = U24Bits(written, ValueAt(written))
    BY <1>1 DEF Places, Kind
  <2>3. section' = SectionOf(written)'
    BY <1>1, <2>1, <2>2, SectionGrows, InputKept
  <2>4. byteLength' = CeilDiv(FieldStart(written)', ByteBits)
    <3>1. ByteBits \in Nat \ {0}
      BY ByteSize
    <3>2. \A n \in Nat : CeilDiv(FieldStart(n), ByteBits) = 3 * n
      <4> TAKE n \in Nat
      <4>1. FieldStart(n) = (3 * n) * ByteBits
        <5>1. FieldStart(n) = n * (3 * ByteBits)
          BY <1>1 DEF FieldStart
        <5> QED
          BY <3>1, <5>1
      <4>2. 3 * n \in Nat
        OBVIOUS
      <4> QED
        BY <3>1, <4>1, <4>2, CeilMultiple
    <3>3. FieldStart(written)' = FieldStart(written + 1)
      BY <1>1, <2>1, InputKept
    <3>4. byteLength = 3 * written /\ CeilDiv(FieldStart(written + 1), ByteBits) = 3 * (written + 1)
      BY <1>1, <3>2
    <3> QED
      BY <1>1, <2>1, <3>3, <3>4
  <2>5. written' \in 0..Count' /\ \A i \in 0..(written' - 1) : ValueAt(i)' <= MaxU24
    <3>1. \A i \in 0..(written' - 1) : i \in 0..(written - 1) \/ i = written
      BY <1>1, <2>1
    <3>2. ValueAt(written) <= MaxU24
      BY <1>3 DEF U24Fits
    <3> QED
      BY <1>1, <1>2, <2>1, <3>1, <3>2
  <2> QED
    BY <1>1, <1>2, <2>1, <2>3, <2>4, <2>5 DEF FieldsInv
<1>4. CASE ~U24Fits(ValueAt(written))
  <2>1. stage' = "refused" /\ UNCHANGED <<section, byteLength, written>>
    BY <1>4 DEF AppendU24
  <2>2. section' = SectionOf(written)' /\ byteLength' = CeilDiv(FieldStart(written)', ByteBits)
    <3>1. FieldStart(written)' = FieldStart(written)
      BY <1>1, <2>1, InputKept
    <3> QED
      BY <1>1, <2>1, <3>1, InputKept
  <2>3. ValueAt(written)' = ValueAt(written) /\ ValueAt(written) > MaxU24
    <3>1. ValueAt(written)' = ValueAt(written)
      BY <1>1, <2>1 DEF ValueAt
    <3>2. MaxU24 \in Nat
      BY FormatAssumption
    <3> QED
      BY <1>1, <1>4, <3>1, <3>2 DEF U24Fits
  <2>4. written' \in 0..Count' /\ \A i \in 0..(written' - 1) : ValueAt(i)' <= MaxU24
    BY <1>1, <1>2, <2>1
  <2> QED
    BY <1>1, <1>2, <2>1, <2>2, <2>3, <2>4 DEF FieldsInv
<1> QED
  BY <1>3, <1>4

LEMMA WriteCodeKeeps == FieldsInv /\ WriteCode => FieldsInv'
<1> SUFFICES ASSUME FieldsInv, WriteCode PROVE FieldsInv'
  OBVIOUS
<1>1. /\ input \in Inputs /\ input' = input /\ Kind = "payload" /\ stage = "write" /\ stage' = stage
      /\ Count \in Nat /\ written \in Nat /\ written < Count /\ written \in Indexes
      /\ UNCHANGED <<offset, file>> /\ written' = written + 1
      /\ bitLength = FieldStart(written) /\ offset \in Nat /\ section = SectionOf(written)
  <2>1. Count \in Nat
    BY InputFacts DEF FieldsInv
  <2> QED
    BY <2>1 DEF FieldsInv, WriteCode, Writing, Kind, Indexes
<1>2. FieldWidth(written) = input.widths[written + 1] /\ FieldStart(written) = CodeStart(written)
  BY <1>1 DEF FieldWidth, FieldStart
<1>3. /\ section' = section \cup CodeBits(bitLength, ValueAt(written), FieldWidth(written))
      /\ bitLength' = bitLength + FieldWidth(written)
      /\ byteLength' = CeilDiv(bitLength + FieldWidth(written), ByteBits)
  BY <1>2 DEF WriteCode
<1>4. Places(written, ValueAt(written)) = CodeBits(bitLength, ValueAt(written), FieldWidth(written))
  BY <1>1, <1>2 DEF Places, Kind
<1>5. FieldStart(written + 1) = bitLength + FieldWidth(written)
  BY <1>1, FieldsFollow
<1>6. section' = SectionOf(written)'
  BY <1>1, <1>3, <1>4, SectionGrows, InputKept
<1>7. FieldStart(written)' = FieldStart(written + 1) /\ Kind' = "payload" /\ Count' = Count
  BY <1>1, InputKept
<1>8. written' \in 0..Count'
  BY <1>1, <1>7
<1> QED
  BY <1>1, <1>3, <1>5, <1>6, <1>7, <1>8 DEF FieldsInv

\* The section's bytes, when it is complete.
LEMMA SectionBytes ==
  ASSUME FieldsInv, written = Count
  PROVE  /\ byteLength = CeilDiv(FieldStart(Count), ByteBits) /\ byteLength \in Nat
         /\ section \in SUBSET (0..(byteLength * ByteBits - 1))
         /\ byteLength * ByteBits \in Nat
         /\ \A i \in Indexes : FieldStart(i + 1) <= byteLength * ByteBits
<1>1. input \in Inputs /\ section = SectionOf(Count)
  BY DEF FieldsInv
<1>2. byteLength = CeilDiv(FieldStart(Count), ByteBits)
  BY DEF FieldsInv
<1>3. FieldStart(Count) \in Nat /\ \A i \in Indexes : FieldStart(i + 1) <= FieldStart(Count)
  BY <1>1, LastField
<1> DEFINE T == FieldStart(Count)
           n == byteLength
<1>4. n \in Nat /\ n * ByteBits \in Nat /\ T <= n * ByteBits
  <2> DEFINE m == CeilDiv(T, ByteBits)
  <2>1. T \in Nat
    BY <1>3
  <2>2. m \in Nat /\ m * ByteBits \in Nat /\ T <= m * ByteBits
    <3> HIDE DEF T
    <3> QED
      BY <2>1, ByteSize, CeilCovers
  <2> HIDE DEF m
  <2>3. n = m
    BY <1>2 DEF m
  <2> QED
    BY <2>2, <2>3
<1>5. ASSUME NEW i \in Indexes PROVE FieldStart(i + 1) <= n * ByteBits
  <2>1. FieldStart(i + 1) <= T /\ FieldStart(i + 1) \in Nat
    <3>1. i + 1 \in 0..Count
      BY <1>1, InputFacts DEF Indexes
    <3> QED
      BY <1>1, <1>3, <3>1, FieldsFollow
  <2> HIDE DEF n, T
  <2> QED
    BY <1>3, <1>4, <2>1 DEF T
<1>6. ASSUME NEW p \in section PROVE p \in 0..(n * ByteBits - 1)
  <2>1. PICK i \in Indexes : p \in Places(i, ValueAt(i))
    BY <1>1, <1>6 DEF SectionOf, Indexes
  <2>2. PICK k \in BitsOf(ValueAt(i), FieldWidth(i)) : p = Spot(i, k)
    BY <1>1, <2>1, PlacesAre
  <2>3. k \in 0..(FieldWidth(i) - 1)
    BY DEF BitsOf
  <2>4. Spot(i, k) \in Nat /\ Spot(i, k) < n * ByteBits
    <3> HIDE DEF n
    <3> QED
      BY <1>1, <1>4, <1>5, <2>3, SpotsInside
  <2> HIDE DEF n
  <2> QED
    BY <1>4, <2>2, <2>4
<1> QED
  BY <1>2, <1>4, <1>5, <1>6

\* Whatever the other sections hold, the file has the section's bits.
LEMMA PlacedAsWritten ==
  ASSUME NEW a \in Nat, NEW n \in Nat, NEW last, NEW S \in SUBSET Nat,
         NEW others \in SUBSET AllBits((0..(a - 1)) \cup ((a + n)..last)),
         NEW p \in 0..(n * ByteBits - 1), last \in Int
  PROVE  Bit(a, p) \in (others \cup {Bit(a, k) : k \in S}) <=> p \in S
<1> DEFINE B == ByteBits
<1>1. B \in Nat \ {0}
  BY ByteSize
<1>2. a * B \in Nat /\ n * B \in Nat /\ (a + n) * B = a * B + n * B
  BY <1>1
<1>3. p \in Nat /\ p < n * B
  <2> HIDE DEF B
  <2>1. p \in 0..(n * B - 1)
    BY DEF B
  <2> QED
    BY <1>2, <2>1
<1>4. Bit(a, p) \notin others
  <2>1. SUFFICES ASSUME Bit(a, p) \in others PROVE FALSE
    OBVIOUS
  <2>2. PICK b \in (0..(a - 1)) \cup ((a + n)..last), k \in 0..(B - 1) : Bit(a, p) = b * B + k
    BY <2>1 DEF AllBits, Bit
  <2>3. b \in Int /\ (b + 1 <= a \/ a + n <= b) /\ b \in Nat
    OBVIOUS
  <2>4. a * B + p = b * B + k
    BY <2>2 DEF Bit
  <2> HIDE DEF B
  <2>5. CASE b + 1 <= a
    <3>1. b + 1 \in Nat
      BY <2>3
    <3>2. (b + 1) * B <= a * B /\ (b + 1) * B = b * B + B /\ b * B \in Nat
      BY <1>1, <2>3, <2>5, <3>1, ProductGrows
    <3> QED
      BY <1>1, <1>2, <1>3, <2>4, <3>2
  <2>6. CASE a + n <= b
    <3>1. a + n \in Nat
      OBVIOUS
    <3>2. (a + n) * B <= b * B /\ b * B \in Nat
      BY <1>1, <2>3, <2>6, <3>1, ProductGrows
    <3> QED
      BY <1>1, <1>2, <1>3, <2>4, <3>2
  <2> QED
    BY <2>3, <2>5, <2>6
<1>5. ASSUME NEW k \in S, Bit(a, p) = Bit(a, k) PROVE p = k
  <2>1. a * B + p = a * B + k /\ k \in Nat
    BY <1>5 DEF Bit
  <2> HIDE DEF B
  <2> QED
    BY <1>2, <1>3, <2>1
<1> HIDE DEF B
<1> QED
  BY <1>4, <1>5

LEMMA AssembleKeeps == FieldsInv /\ Assemble => FieldsInv'
<1> SUFFICES ASSUME FieldsInv, Assemble PROVE FieldsInv'
  OBVIOUS
<1>1. /\ input' = input /\ written = Count /\ stage = "write" /\ stage' = "placed"
      /\ UNCHANGED <<written, section, byteLength, bitLength>>
  BY DEF Assemble
<1>2. PICK before \in 0..1, ones \in BOOLEAN :
        LET after == before + byteLength
            last == IF input.kind = "payload" THEN after ELSE after + WindowBytes
            others == IF ones
                      THEN AllBits((0..(before - 1)) \cup (after..(last - 1)))
                      ELSE {}
        IN  /\ offset' = before
            /\ file' = others \cup {Bit(before, k) : k \in section}
  BY DEF Assemble
<1> DEFINE after == before + byteLength
           last == IF input.kind = "payload" THEN after ELSE after + WindowBytes
           others == IF ones
                     THEN AllBits((0..(before - 1)) \cup (after..(last - 1)))
                     ELSE {}
<1>3. /\ byteLength \in Nat /\ section \in SUBSET (0..(byteLength * ByteBits - 1))
      /\ byteLength * ByteBits \in Nat
  BY <1>1, SectionBytes
<1>4. offset' = before /\ file' = others \cup {Bit(before, k) : k \in section} /\ before \in Nat
  BY <1>2
<1> DEFINE top == last - 1
<1>5. top \in Int /\ section \in SUBSET Nat
  BY <1>3, PackingAssumption
<1>6. others \in SUBSET AllBits((0..(before - 1)) \cup ((before + byteLength)..top))
  OBVIOUS
<1> HIDE DEF last, others, after, top
<1>7. ASSUME NEW p \in 0..(byteLength * ByteBits - 1)
      PROVE  Bit(before, p) \in (others \cup {Bit(before, k) : k \in section}) <=> p \in section
  BY <1>3, <1>4, <1>5, <1>6, PlacedAsWritten
<1>8. \A p \in 0..(byteLength' * ByteBits - 1) : Bit(offset', p) \in file' <=> p \in section'
  BY <1>1, <1>4, <1>7
<1>9. /\ Count' = Count /\ Kind' = Kind /\ SectionOf(written)' = SectionOf(written')
      /\ \A i : ValueAt(i)' = ValueAt(i)
      /\ FieldStart(IF Kind = "packed" THEN Count ELSE written)'
           = FieldStart(IF Kind = "packed" THEN Count ELSE written)
      /\ FieldStart(written)' = FieldStart(written)
  BY <1>1, InputKept
<1>10. \A p \in 0..(byteLength' * ByteBits - 1) : Bit(offset, p)' \in file' <=> p \in section'
  <2>1. \A p : Bit(offset, p)' = Bit(offset', p)
    BY DEF Bit
  <2> QED
    BY <1>8, <2>1
<1> QED
  BY <1>1, <1>4, <1>9, <1>10 DEF FieldsInv

LEMMA DamageKeeps == FieldsInv /\ Damage => FieldsInv'
<1> SUFFICES ASSUME FieldsInv, Damage PROVE FieldsInv'
  OBVIOUS
<1>1. /\ input' = input /\ stage = "placed" /\ stage' = "damaged"
      /\ UNCHANGED <<written, section, byteLength, bitLength, offset>>
  BY DEF Damage
<1>2. /\ Count' = Count /\ Kind' = Kind /\ SectionOf(written)' = SectionOf(written)
      /\ \A i : ValueAt(i)' = ValueAt(i)
      /\ FieldStart(IF Kind = "packed" THEN Count ELSE written)'
           = FieldStart(IF Kind = "packed" THEN Count ELSE written)
      /\ FieldStart(written)' = FieldStart(written)
  BY <1>1, InputKept
<1> QED
  BY <1>1, <1>2 DEF FieldsInv

LEMMA FieldsStutter == FieldsInv /\ UNCHANGED fieldVars => FieldsInv'
<1> SUFFICES ASSUME FieldsInv, UNCHANGED fieldVars PROVE FieldsInv'
  OBVIOUS
<1>1. UNCHANGED <<input, written, section, byteLength, bitLength, stage, offset, file>>
  BY DEF fieldVars
<1>2. /\ Count' = Count /\ Kind' = Kind /\ SectionOf(written)' = SectionOf(written)
      /\ \A i : ValueAt(i)' = ValueAt(i)
      /\ ValueAt(written)' = ValueAt(written)
      /\ FieldStart(IF Kind = "packed" THEN Count ELSE written)'
           = FieldStart(IF Kind = "packed" THEN Count ELSE written)
      /\ FieldStart(written)' = FieldStart(written)
      /\ \A p : Bit(offset, p)' = Bit(offset, p)
  BY <1>1, InputKept DEF Bit
<1> QED
  BY <1>1, <1>2 DEF FieldsInv

\* Where each written value lies is an invariant of every behaviour.
THEOREM FieldsAlways == FieldsSpec => []FieldsInv
<1>1. FieldsInv /\ [FieldsNext]_fieldVars => FieldsInv'
  BY PackValueKeeps, PushMaskPairKeeps, AppendU24Keeps, WriteCodeKeeps, AssembleKeeps,
     DamageKeeps, FieldsStutter DEF FieldsNext
<1> QED
  BY <1>1, FieldsInitially, PTL DEF FieldsSpec

LEMMA ReadsBack ==
  ASSUME FieldsInv, stage = "placed", NEW i \in Indexes
  PROVE  Number(ReadAt(i)) = ValueAt(i)
<1>1. input \in Inputs /\ offset \in Nat /\ written = Count /\ section = SectionOf(Count)
  BY DEF FieldsInv
<1>2. /\ byteLength = CeilDiv(FieldStart(Count), ByteBits) /\ byteLength \in Nat
      /\ byteLength * ByteBits \in Nat
      /\ \A j \in Indexes : FieldStart(j + 1) <= byteLength * ByteBits
  BY <1>1, SectionBytes
<1> DEFINE w == FieldWidth(i)
           v == ValueAt(i)
<1>3. ReadAt(i) = {k \in 0..(w - 1) : Bit(offset, Spot(i, k)) \in file}
  BY <1>1, <1>2, ReadIs
<1>4. ASSUME NEW k \in 0..(w - 1) PROVE Bit(offset, Spot(i, k)) \in file <=> k \in BitsOf(v, w)
  <2>1. Spot(i, k) \in Nat /\ Spot(i, k) < byteLength * ByteBits
    BY <1>1, <1>2, SpotsInside
  <2>2. Spot(i, k) \in 0..(byteLength * ByteBits - 1)
    BY <1>2, <2>1
  <2>3. Bit(offset, Spot(i, k)) \in file <=> Spot(i, k) \in section
    BY <2>2 DEF FieldsInv
  <2>4. ASSUME k \in BitsOf(v, w) PROVE Spot(i, k) \in section
    <3>1. Spot(i, k) \in Places(i, v)
      BY <1>1, <2>4, PlacesAre
    <3> QED
      BY <1>1, <3>1 DEF SectionOf, Indexes
  <2>5. ASSUME Spot(i, k) \in section PROVE k \in BitsOf(v, w)
    <3>1. PICK j \in Indexes : Spot(i, k) \in Places(j, ValueAt(j))
      BY <1>1, <2>5 DEF SectionOf, Indexes
    <3>2. PICK l \in BitsOf(ValueAt(j), FieldWidth(j)) : Spot(i, k) = Spot(j, l)
      BY <1>1, <3>1, PlacesAre
    <3>3. l \in 0..(FieldWidth(j) - 1)
      BY DEF BitsOf
    <3>4. i = j /\ k = l
      BY <1>1, <3>2, <3>3, SpotsApart
    <3> QED
      BY <3>2, <3>4
  <2> QED
    BY <2>3, <2>4, <2>5
<1>5. ReadAt(i) = BitsOf(v, w)
  <2>1. BitsOf(v, w) \subseteq 0..(w - 1)
    BY DEF BitsOf
  <2> HIDE DEF w, v
  <2> QED
    BY <1>3, <1>4, <2>1
<1>6. w \in Nat /\ v \in Nat /\ v < 2 ^ w
  <2>1. Kind = "u24" => v <= MaxU24
    BY <1>1 DEF FieldsInv, Indexes
  <2>2. v \in Nat
    BY <1>1, InputFacts
  <2> QED
    BY <1>1, <2>1, <2>2, FieldFacts
<1> HIDE DEF w, v
<1>7. Number(BitsOf(v, w)) = v
  BY <1>6, NumberOfBits
<1> QED
  BY <1>5, <1>7 DEF v

\* Any sections: what the engine reads is what the encoder was given, and the
\* only thing the encoder refuses is an index beyond MaxU24.
THEOREM AlwaysReadBack == FieldsSpec => []WrittenReadBack
<1>1. FieldsInv => WrittenReadBack
  <2>1. FieldsInv => (stage = "refused" => input.kind = "u24" /\ ValueAt(written) > MaxU24)
    BY DEF FieldsInv, Kind
  <2>2. FieldsInv => (stage = "placed" => \A i \in Indexes : Number(ReadAt(i)) = ValueAt(i))
    BY ReadsBack
  <2> QED
    BY <2>1, <2>2 DEF WrittenReadBack
<1> QED
  BY <1>1, FieldsAlways, PTL

\* Any sections, any change of one bit, and in fact any bytes in the section's
\* place: the values read and the padding checks decide every bit.
THEOREM ContentAlwaysDecides == FieldsSpec => []ContentDecidesBytes
<1>1. FieldsInv => ContentDecidesBytes
  <2> SUFFICES ASSUME FieldsInv, stage \in {"placed", "damaged"}, PaddingClear
               PROVE  {k \in AllBits(0..(byteLength - 1)) : Bit(offset, k) \in file} =
                        UNION {Places(i, Number(ReadAt(i))) : i \in Indexes}
    BY DEF ContentDecidesBytes
  <2>1. input \in Inputs /\ offset \in Nat /\ written = Count
    BY DEF FieldsInv
  <2>2. byteLength = CeilDiv(FieldStart(Count), ByteBits)
    BY <2>1, SectionBytes
  <2>3. Kind = "payload" => bitLength = FieldStart(Count)
    BY <2>1 DEF FieldsInv
  <2> QED
    BY <2>1, <2>2, <2>3, ContentExact
<1> QED
  BY <1>1, FieldsAlways, PTL

-----------------------------------------------------------------------------
(* Counting ones *)

\* The one bits of the file between two positions.
OnesBetween(a, b) == Cardinality({p \in a..(b - 1) : p \in file})

LEMMA OnesNat ==
  ASSUME NEW a \in Int, NEW b \in Int
  PROVE  OnesBetween(a, b) \in Nat /\ IsFiniteSet({p \in a..(b - 1) : p \in file})
<1>1. IsFiniteSet(a..(b - 1))
  BY FS_Interval
<1>2. IsFiniteSet({p \in a..(b - 1) : p \in file})
  BY <1>1, FS_Subset
<1> QED
  BY <1>2, FS_CardinalityType DEF OnesBetween

LEMMA OnesJoin ==
  ASSUME NEW a \in Int, NEW b \in Int, NEW c \in Int, a <= b, b <= c
  PROVE  OnesBetween(a, c) = OnesBetween(a, b) + OnesBetween(b, c)
<1> DEFINE A == {p \in a..(b - 1) : p \in file}
           B == {p \in b..(c - 1) : p \in file}
           C == {p \in a..(c - 1) : p \in file}
<1>1. IsFiniteSet(A) /\ IsFiniteSet(B)
  BY OnesNat
<1>2. A \cap B = {} /\ A \cup B = C
  OBVIOUS
<1>3. Cardinality(A) \in Nat /\ Cardinality(B) \in Nat /\ Cardinality({}) = 0
  BY <1>1, FS_CardinalityType, FS_EmptySet
<1> HIDE DEF A, B, C
<1>4. Cardinality(A \cup B) = Cardinality(A) + Cardinality(B) - Cardinality(A \cap B)
  BY <1>1, FS_Union
<1>5. Cardinality(C) = Cardinality(A) + Cardinality(B)
  <2>1. Cardinality(A \cap B) = 0
    BY <1>2, <1>3, Zenon
  <2>2. Cardinality(C) = Cardinality(A \cup B)
    BY <1>2, Zenon
  <2> DEFINE m == Cardinality(A)
             n == Cardinality(B)
  <2>3. Cardinality(C) = m + n - 0
    BY <1>4, <2>1, <2>2
  <2>4. m \in Nat /\ n \in Nat
    BY <1>3
  <2> HIDE DEF m, n
  <2>5. m + n - 0 = m + n
    BY <2>4
  <2> QED
    BY <2>3, <2>5 DEF m, n
<1> QED
  BY <1>5 DEF A, B, C, OnesBetween

LEMMA OnesNone ==
  ASSUME NEW a \in Int
  PROVE  OnesBetween(a, a) = 0
<1>1. {p \in a..(a - 1) : p \in file} = {}
  OBVIOUS
<1> QED
  BY <1>1, FS_EmptySet DEF OnesBetween

\* Ones that are counted piece by piece are the ones of the whole.
LEMMA OnesOfPieces ==
  ASSUME NEW f, NEW c \in Int, NEW d \in Nat, NEW a \in Nat, NEW b \in Nat, a <= b,
         \A j \in a..(b - 1) : f[j] = OnesBetween(c + j * d, c + (j + 1) * d)
  PROVE  SetSum(f, a..(b - 1)) = OnesBetween(c + a * d, c + b * d)
<1> DEFINE Wrong == {n \in Nat : n \in a..b /\ SetSum(f, a..(n - 1)) # OnesBetween(c + a * d, c + n * d)}
<1>1. SUFFICES ASSUME Wrong # {} PROVE FALSE
  <2>1. b \in a..b /\ b \in Nat
    OBVIOUS
  <2> QED
    BY <1>1, <2>1
<1>2. PICK n \in Wrong : \A y \in Wrong : n <= y
  <2>1. Wrong \subseteq Nat
    OBVIOUS
  <2> HIDE DEF Wrong
  <2> QED
    BY <1>1, <2>1, LeastNatural
<1>3. n \in Nat /\ n \in a..b /\ SetSum(f, a..(n - 1)) # OnesBetween(c + a * d, c + n * d)
  OBVIOUS
<1>4. \A j \in Nat : c + j * d \in Int
  OBVIOUS
<1>5. CASE n = a
  <2>1. a..(n - 1) = {}
    BY <1>5
  <2>2. SetSum(f, a..(n - 1)) = 0
    BY <2>1, SetSumEmpty
  <2>3. OnesBetween(c + a * d, c + n * d) = 0
    <3> DEFINE x == c + a * d
    <3>1. x \in Int
      BY <1>4
    <3> HIDE DEF x
    <3>2. OnesBetween(x, x) = 0
      BY <3>1, OnesNone
    <3> QED
      BY <1>5, <3>2 DEF x
  <2> QED
    BY <1>3, <2>2, <2>3
<1>6. CASE n # a
  <2> DEFINE j == n - 1
  <2>1. j \in Nat /\ j + 1 = n /\ j \in a..b /\ j \in a..(b - 1) /\ ~(n <= j)
    BY <1>3, <1>6
  <2>2. SetSum(f, a..(j - 1)) = OnesBetween(c + a * d, c + j * d)
    <3>1. j \notin Wrong
      <4> HIDE DEF Wrong
      <4> QED
        BY <1>2, <2>1
    <3> QED
      BY <2>1, <3>1
  <2> HIDE DEF j
  <2> DEFINE x == c + a * d
             y == c + j * d
             z == c + (j + 1) * d
  <2>3. x \in Int /\ y \in Int /\ z \in Int /\ x <= y /\ y <= z
    <3>1. a * d <= j * d /\ j * d <= (j + 1) * d /\ a * d \in Nat /\ j * d \in Nat /\ (j + 1) * d \in Nat
      <4>1. j + 1 \in Nat /\ j <= j + 1 /\ a <= j
        BY <2>1
      <4> QED
        BY <2>1, <4>1, ProductGrows
    <3> QED
      BY <3>1
  <2>4. OnesBetween(x, z) = OnesBetween(x, y) + OnesBetween(y, z)
    <3> HIDE DEF x, y, z
    <3> QED
      BY <2>3, OnesJoin
  <2>5. SetSum(f, a..j) = f[j] + SetSum(f, a..(j - 1))
    <3> DEFINE A == a..j
    <3>1. IsFiniteSet(A) /\ j \in A /\ A \ {j} = a..(j - 1)
      <4>1. IsFiniteSet(A)
        BY <2>1, FS_Interval
      <4> QED
        BY <2>1, <4>1
    <3>2. \A i \in A : f[i] \in Nat
      <4>1. ASSUME NEW i \in A PROVE f[i] \in Nat
        <5>1. i \in a..(b - 1) /\ i \in Nat /\ i + 1 \in Nat
          BY <2>1
        <5>2. c + i * d \in Int /\ c + (i + 1) * d \in Int
          BY <1>4, <5>1
        <5> DEFINE u == c + i * d
                   v == c + (i + 1) * d
        <5>3. OnesBetween(u, v) \in Nat
          <6> HIDE DEF u, v
          <6> QED
            BY <5>2, OnesNat DEF u, v
        <5> QED
          BY <5>1, <5>3
      <4> QED
        BY <4>1
    <3> HIDE DEF A
    <3>3. SetSum(f, A) = f[j] + SetSum(f, A \ {j})
      BY <3>1, <3>2, SetSumRemove
    <3> QED
      BY <3>1, <3>3 DEF A
  <2>6. f[j] = OnesBetween(y, z)
    BY <2>1
  <2>7. OnesBetween(x, y) \in Nat /\ OnesBetween(y, z) \in Nat
    <3> HIDE DEF x, y, z
    <3> QED
      BY <2>3, OnesNat
  <2>8. SetSum(f, a..j) = OnesBetween(x, z)
    <3>1. SetSum(f, a..(j - 1)) = OnesBetween(x, y)
      BY <2>2
    <3> HIDE DEF x, y, z
    <3> QED
      BY <2>4, <2>5, <2>6, <2>7, <3>1
  <2>9. a..(n - 1) = a..j /\ z = c + n * d
    BY <2>1
  <2> QED
    BY <1>3, <2>8, <2>9
<1> QED
  BY <1>5, <1>6

LEMMA ShiftedOnes ==
  ASSUME NEW c \in Int, NEW m \in Nat
  PROVE  Cardinality({k \in 0..(m - 1) : c + k \in file}) = OnesBetween(c, c + m)
<1> DEFINE A == {k \in 0..(m - 1) : c + k \in file}
           B == {p \in c..(c + m - 1) : p \in file}
           shift == [k \in A |-> c + k]
<1>1. IsFiniteSet(A)
  <2>1. IsFiniteSet(0..(m - 1))
    BY FS_Interval
  <2> QED
    BY <2>1, FS_Subset
<1>2. shift \in Bijection(A, B)
  <2>1. \A k \in A : k \in Int /\ c + k \in B /\ shift[k] = c + k
    OBVIOUS
  <2>2. shift \in [A -> B]
    BY <2>1
  <2>3. \A k, l \in A : shift[k] = shift[l] => k = l
    BY <2>1
  <2>4. \A p \in B : \E k \in A : shift[k] = p
    <3> TAKE p \in B
    <3>1. p \in Int /\ p - c \in 0..(m - 1) /\ c + (p - c) = p /\ p \in file
      OBVIOUS
    <3>2. p - c \in A
      BY <3>1
    <3> QED
      BY <2>1, <3>1, <3>2
  <2> HIDE DEF A, B, shift
  <2> QED
    BY <2>2, <2>3, <2>4 DEF Bijection, Injection, Surjection, IsInjective
<1>3. Cardinality(A) = Cardinality(B)
  <2> HIDE DEF A, B, shift
  <2>1. ExistsBijection(A, B)
    BY <1>2 DEF ExistsBijection
  <2> QED
    BY <1>1, <2>1, FS_Bijection
<1>4. B = {p \in c..((c + m) - 1) : p \in file}
  OBVIOUS
<1> QED
  BY <1>3, <1>4 DEF OnesBetween

\* The children of one mask, and of whole bytes of masks.
LEMMA MaskOnes ==
  ASSUME offset \in Nat, NEW j \in Nat
  PROVE  Cardinality(RawMask(offset, j))
           = OnesBetween(offset * ByteBits + j * Fanout, offset * ByteBits + (j + 1) * Fanout)
<1>1. ByteBits \in Nat \ {0} /\ Fanout \in Nat \ {0}
  BY ByteSize
<1> DEFINE c == offset * ByteBits + j * Fanout
<1>2. c \in Int /\ offset * ByteBits \in Int /\ j * Fanout \in Int
  BY <1>1
<1>3. ASSUME NEW k \in 0..(Fanout - 1)
      PROVE  Bit(offset + j \div 2, Fanout * (j % 2) + k) = c + k
  <2>1. k \in Int /\ j \div 2 \in Int /\ Fanout * (j % 2) + k \in Int /\ offset \in Int
    BY <1>1
  <2>2. Bit(offset + j \div 2, Fanout * (j % 2) + k)
          = Bit(offset, (j \div 2) * ByteBits + (Fanout * (j % 2) + k))
    BY <2>1, BitShift
  <2>3. (j \div 2) * ByteBits + (Fanout * (j % 2) + k) = j * Fanout + k
    BY <2>1, HalfBytes DEF Bit
  <2>4. offset * ByteBits + (j * Fanout + k) = c + k
    BY <1>2, <2>1
  <2> QED
    BY <2>2, <2>3, <2>4 DEF Bit
<1>4. RawMask(offset, j) = {k \in 0..(Fanout - 1) : c + k \in file}
  <2> HIDE DEF c
  <2> QED
    BY <1>3 DEF RawMask
<1>5. Cardinality({k \in 0..(Fanout - 1) : c + k \in file}) = OnesBetween(c, c + Fanout)
  <2> HIDE DEF c
  <2> QED
    BY <1>1, <1>2, ShiftedOnes
<1>6. c + Fanout = offset * ByteBits + (j + 1) * Fanout
  <2>1. (j + 1) * Fanout = j * Fanout + Fanout
    BY <1>1
  <2> QED
    BY <1>1, <1>2, <2>1
<1> QED
  BY <1>4, <1>5, <1>6

LEMMA ByteOnes ==
  ASSUME NEW at \in Nat, NEW x \in Nat, NEW y \in Nat
  PROVE  OnesIn(at, x..(y - 1)) = OnesBetween((at + x) * ByteBits, (at + y) * ByteBits)
<1> DEFINE B == ByteBits
           S == {at + b : b \in x..(y - 1)}
           lo == (at + x) * B
           hi == (at + y) * B
<1>1. B \in Nat \ {0} /\ lo \in Nat /\ hi \in Nat
  BY ByteSize
<1>2. ASSUME NEW p \in AllBits(S) PROVE p \in lo..(hi - 1)
  <2>1. PICK b \in x..(y - 1), k \in 0..(B - 1) : p = (at + b) * B + k
    BY DEF AllBits, Bit
  <2>2. at + x \in Nat /\ at + b \in Nat /\ at + x <= at + b /\ (at + b) + 1 \in Nat
        /\ (at + b) + 1 <= at + y /\ at + y \in Nat
    OBVIOUS
  <2> DEFINE c == at + b
             d == at + x
             e == at + y
  <2> HIDE DEF B, c, d, e
  <2>3. d \in Nat /\ c \in Nat /\ d <= c /\ c + 1 \in Nat /\ c + 1 <= e /\ e \in Nat
    BY <2>2 DEF c, d, e
  <2>4. d * B <= c * B /\ (c + 1) * B <= e * B /\ (c + 1) * B = c * B + B /\ c * B \in Nat
        /\ d * B \in Nat /\ e * B \in Nat
    BY <1>1, <2>3, ProductGrows
  <2>5. p = c * B + k /\ k \in 0..(B - 1)
    BY <2>1 DEF c
  <2>6. p \in (d * B)..(e * B - 1)
    BY <1>1, <2>4, <2>5
  <2> QED
    BY <2>6 DEF d, e
<1>3. ASSUME NEW p \in lo..(hi - 1) PROVE p \in AllBits(S)
  <2>1. p \in Nat /\ ~(p < lo) /\ p < hi
    <3> HIDE DEF lo, hi
    <3> QED
      BY <1>1
  <2>2. at + x \in Nat /\ at + y \in Nat
    OBVIOUS
  <2>3. ~(p \div B < at + x) /\ p \div B < at + y
    BY <2>1, <2>2, ByteBound
  <2>4. p \div B \in Nat /\ p % B \in 0..(B - 1) /\ p = (p \div B) * B + (p % B)
    <3> HIDE DEF B
    <3> QED
      BY <1>1, <2>1, Quotient, Remainder
  <2> DEFINE q == p \div B
             r == p % B
  <2> HIDE DEF q, r
  <2>5. q \in Nat /\ ~(q < at + x) /\ q < at + y /\ r \in 0..(B - 1) /\ p = q * B + r
    BY <2>3, <2>4 DEF q, r
  <2>6. q - at \in x..(y - 1) /\ q = at + (q - at)
    BY <2>5
  <2>7. q \in S
    BY <2>6
  <2> HIDE DEF S
  <2> QED
    BY <2>5, <2>7 DEF AllBits, Bit
<1>4. AllBits(S) = lo..(hi - 1)
  <2> HIDE DEF S, lo, hi
  <2>1. AllBits(S) \subseteq lo..(hi - 1) /\ lo..(hi - 1) \subseteq AllBits(S)
    BY <1>2, <1>3
  <2> QED
    BY <2>1
<1>5. OnesIn(at, x..(y - 1)) = Cardinality({k \in AllBits(S) : k \in file})
  BY DEF OnesIn
<1> HIDE DEF S, lo, hi
<1>6. {k \in AllBits(S) : k \in file} = {p \in lo..(hi - 1) : p \in file}
  BY <1>4
<1> QED
  BY <1>5, <1>6 DEF OnesBetween, lo, hi

\* What raw_mask_and_rank counts: the ones from the checkpoint's mask to the
\* node's, whatever the file holds.
LEMMA RankIsOnes ==
  ASSUME offset \in Nat, NEW i \in Nat
  PROVE  LET s == CheckpointStartOf(CheckpointOf(i))
         IN  /\ s \in Nat /\ s <= i
             /\ RankSinceCheckpoint(offset, i)
                  = OnesBetween(offset * ByteBits + s * Fanout, offset * ByteBits + i * Fanout)
<1> DEFINE B == ByteBits
           F == Fanout
           K == ChunkBytes
           R == RawRankInterval
           s == CheckpointStartOf(CheckpointOf(i))
           start == s \div 2
           end == i \div 2
           chunks == (end - start) \div K
           chunked == start + chunks * K
           inChunk == [c \in 0..(chunks - 1) |->
                         OnesIn(offset, (start + c * K)..(start + (c + 1) * K - 1))]
           odd == IF i % 2 = 0 THEN 0
                  ELSE Cardinality({k \in 0..(F - 1) : Bit(offset + end, k) \in file})
           base == offset * B
           C == (offset + start) * B
           D == K * B
<1>1. /\ B \in Nat \ {0} /\ F \in Nat \ {0} /\ B = 2 * F /\ K \in Nat \ {0}
      /\ R \in Nat \ {0} /\ R % 2 = 0 /\ base \in Nat /\ D \in Nat
  <2>1. B \in Nat \ {0} /\ F \in Nat \ {0} /\ B = 2 * F
    BY ByteSize
  <2>2. K \in Nat \ {0} /\ R \in Nat \ {0} /\ R % 2 = 0
    BY PackingAssumption, FormatAssumption
  <2> HIDE DEF B, F, K, R
  <2> QED
    BY <2>1, <2>2
<1>2. RankSinceCheckpoint(offset, i)
        = SetSum(inChunk, DOMAIN inChunk) + OnesIn(offset, chunked..(end - 1)) + odd
  BY DEF RankSinceCheckpoint
<1>3. s = (i \div R) * R /\ s \in Nat /\ s <= i
  <2>1. s = (i \div R) * R
    BY DEF CheckpointStartOf, CheckpointOf
  <2> HIDE DEF R, s
  <2>2. i \div R \in Nat /\ (i \div R) * R <= i
    BY <1>1, Quotient
  <2> DEFINE q == i \div R
  <2> HIDE DEF q
  <2>3. q \in Nat /\ q * R \in Nat
    BY <1>1, <2>2 DEF q
  <2> QED
    BY <2>1, <2>2, <2>3 DEF q
<1>4. s = 2 * start /\ start \in Nat
  <2> DEFINE q == i \div R
             h == R \div 2
  <2>1. q \in Nat
    <3> HIDE DEF R
    <3> QED
      BY <1>1, Quotient
  <2>2. h \in Nat /\ R = 2 * h
    <3> HIDE DEF R
    <3> QED
      BY <1>1
  <2>3. s = q * R
    BY <1>3
  <2> HIDE DEF q, h, R, s
  <2>4. q * (2 * h) = 2 * (q * h) /\ q * h \in Nat
    BY <2>1, <2>2
  <2> DEFINE m == q * h
  <2>5. s = 2 * m /\ m \in Nat
    BY <2>2, <2>3, <2>4
  <2> HIDE DEF m
  <2>6. (2 * m) \div 2 = m
    BY <2>5
  <2> QED
    BY <2>5, <2>6
<1>5. end \in Nat /\ i % 2 \in 0..1 /\ i = 2 * end + (i % 2) /\ start <= end
  <2>1. end \in Nat /\ i % 2 \in 0..1 /\ i = 2 * end + (i % 2)
    OBVIOUS
  <2> HIDE DEF start, end, s
  <2> QED
    BY <1>3, <1>4, <2>1
<1> HIDE DEF s, start
<1>6. chunks \in Nat /\ chunks * K \in Nat /\ chunks * K <= end - start
  <2> DEFINE n == end - start
  <2>1. n \in Nat
    <3> HIDE DEF end
    <3> QED
      BY <1>4, <1>5
  <2> HIDE DEF n, K
  <2>2. n \div K \in Nat /\ (n \div K) * K <= n
    BY <1>1, <2>1, Quotient
  <2> DEFINE q == n \div K
  <2> HIDE DEF q
  <2>3. q \in Nat /\ q * K \in Nat /\ q * K <= n
    BY <1>1, <2>2 DEF q
  <2> QED
    BY <2>3 DEF q, n
<1> HIDE DEF end, chunks
<1>7. chunked \in Nat /\ start <= chunked /\ chunked <= end
  <2> HIDE DEF K
  <2> QED
    BY <1>4, <1>5, <1>6
<1>8. SetSum(inChunk, DOMAIN inChunk) = OnesBetween(C, (offset + chunked) * B)
  <2>1. DOMAIN inChunk = 0..(chunks - 1)
    OBVIOUS
  <2>2. C \in Int
    <3> HIDE DEF B
    <3> QED
      BY <1>1, <1>4
  <2>3. ASSUME NEW c \in 0..(chunks - 1)
        PROVE  inChunk[c] = OnesBetween(C + c * D, C + (c + 1) * D)
    <3>1. c \in Nat /\ c + 1 \in Nat
      BY <1>6
    <3> DEFINE x == start + c * K
               y == start + (c + 1) * K
    <3>2. x \in Nat /\ y \in Nat
      <4> HIDE DEF K
      <4> QED
        BY <1>1, <1>4, <3>1
    <3>3. inChunk[c] = OnesIn(offset, x..(y - 1))
      <4> DEFINE piece(j) == OnesIn(offset, (start + j * K)..(start + (j + 1) * K - 1))
                 top == chunks - 1
      <4>1. inChunk = [j \in 0..top |-> piece(j)] /\ c \in 0..top
        OBVIOUS
      <4>2. piece(c) = OnesIn(offset, x..(y - 1))
        <5> DEFINE u == (c + 1) * K
                   z == start + u - 1
        <5>1. u \in Int
          <6> HIDE DEF K
          <6> QED
            BY <1>1, <3>1
        <5>2. piece(c) = OnesIn(offset, x..z) /\ y = start + u
          OBVIOUS
        <5>3. z = y - 1
          <6> HIDE DEF u, y
          <6> QED
            BY <1>4, <5>1, <5>2
        <5> HIDE DEF piece, x, y, z
        <5> QED
          BY <5>2, <5>3
      <4> HIDE DEF piece, inChunk, top, x, y
      <4>3. inChunk[c] = piece(c)
        BY <4>1
      <4> QED
        BY <4>2, <4>3
    <3>4. (offset + x) * B = C + c * D /\ (offset + y) * B = C + (c + 1) * D
      <4>1. \A u \in Nat : (offset + (start + u * K)) * B = (offset + start) * B + u * (K * B)
        <5> HIDE DEF B, K
        <5> TAKE u \in Nat
        <5>1. u * K \in Nat /\ (u * K) * B = u * (K * B)
          BY <1>1
        <5> DEFINE v == u * K
                   w == offset + start
        <5>2. offset + (start + v) = w + v /\ w \in Nat /\ v \in Nat
          BY <1>4, <5>1
        <5> HIDE DEF v, w
        <5>3. (w + v) * B = w * B + v * B
          BY <1>1, <5>2
        <5> QED
          BY <5>1, <5>2, <5>3 DEF v, w
      <4> QED
        BY <3>1, <4>1
    <3>5. OnesIn(offset, x..(y - 1)) = OnesBetween((offset + x) * ByteBits, (offset + y) * ByteBits)
      <4> HIDE DEF x, y
      <4> QED
        BY <3>2, ByteOnes
    <3> QED
      BY <3>3, <3>4, <3>5
  <2>4. SetSum(inChunk, 0..(chunks - 1)) = OnesBetween(C + 0 * D, C + chunks * D)
    <3> HIDE DEF inChunk, C, D
    <3>1. 0 \in Nat /\ 0 <= chunks
      BY <1>6
    <3>2. \A j \in 0..(chunks - 1) : inChunk[j] = OnesBetween(C + j * D, C + (j + 1) * D)
      BY <2>3
    <3>3. D \in Nat /\ chunks \in Nat
      BY <1>1, <1>6
    <3> DEFINE z == 0
    <3>4. z \in Nat /\ z <= chunks
          /\ \A j \in z..(chunks - 1) : inChunk[j] = OnesBetween(C + j * D, C + (j + 1) * D)
      BY <3>1, <3>2
    <3> HIDE DEF z
    <3>5. SetSum(inChunk, z..(chunks - 1)) = OnesBetween(C + z * D, C + chunks * D)
      BY <2>2, <3>3, <3>4, OnesOfPieces
    <3> QED
      BY <3>5 DEF z
  <2>5. C + 0 * D = C /\ C + chunks * D = (offset + chunked) * B
    <3>1. C + 0 * D = C
      <4> HIDE DEF C, D
      <4> QED
        BY <1>1, <2>2
    <3>2. C + chunks * D = (offset + chunked) * B
      <4> HIDE DEF B, K
      <4>1. chunks * K \in Nat /\ (chunks * K) * B = chunks * (K * B)
        BY <1>1, <1>6
      <4> DEFINE v == chunks * K
                 w == offset + start
      <4>2. offset + (start + v) = w + v /\ w \in Nat /\ v \in Nat
        BY <1>4, <4>1
      <4>3. C = w * B /\ chunks * D = v * B
        BY <4>1
      <4> HIDE DEF v, w, C, D
      <4>4. (w + v) * B = w * B + v * B
        BY <1>1, <4>2
      <4>5. chunked = start + v
        BY DEF v
      <4> QED
        BY <4>2, <4>3, <4>4, <4>5
    <3> QED
      BY <3>1, <3>2
  <2> QED
    BY <2>1, <2>4, <2>5
<1> HIDE DEF chunked, inChunk
<1>9. OnesIn(offset, chunked..(end - 1)) = OnesBetween((offset + chunked) * B, (offset + end) * B)
  BY <1>5, <1>7, ByteOnes
<1>10. odd = OnesBetween((offset + end) * B, base + i * F)
  <2> DEFINE e == (offset + end) * B
  <2>1. e \in Nat /\ base + (2 * end) * F = e
    <3> HIDE DEF B, F
    <3>1. (2 * end) * F = end * B /\ (offset + end) * B = offset * B + end * B
          /\ (offset + end) * B \in Nat
      BY <1>1, <1>5
    <3> QED
      BY <3>1
  <2>2. CASE i % 2 = 0
    <3>1. odd = 0 /\ i = 2 * end
      BY <1>5, <2>2
    <3> HIDE DEF e, base
    <3>2. OnesBetween(e, e) = 0
      BY <2>1, OnesNone
    <3>3. base + i * F = e
      BY <2>1, <3>1
    <3> QED
      BY <3>1, <3>2, <3>3 DEF e
  <2>3. CASE i % 2 # 0
    <3>1. i = 2 * end + 1
      BY <1>5, <2>3
    <3>2. odd = Cardinality({k \in 0..(F - 1) : Bit(offset + end, k) \in file})
      BY <2>3
    <3>3. \A k : Bit(offset + end, k) = e + k
      BY DEF Bit
    <3>4. odd = Cardinality({k \in 0..(F - 1) : e + k \in file})
      <4> HIDE DEF e, odd
      <4> QED
        BY <3>2, <3>3
    <3>5. Cardinality({k \in 0..(F - 1) : e + k \in file}) = OnesBetween(e, e + F)
      <4>1. e \in Int /\ F \in Nat
        BY <1>1, <2>1
      <4> HIDE DEF e, F
      <4> QED
        BY <4>1, ShiftedOnes
    <3>6. base + i * F = e + F
      <4> HIDE DEF base, e, F
      <4>1. (2 * end + 1) * F = (2 * end) * F + F /\ (2 * end) * F \in Nat
        BY <1>1, <1>5
      <4> DEFINE v == (2 * end) * F
      <4>2. i * F = v + F /\ v \in Nat /\ base + v = e
        BY <2>1, <3>1, <4>1
      <4> DEFINE w == i * F
      <4> HIDE DEF v, w, end
      <4>3. w = v + F
        BY <4>2 DEF w
      <4> QED
        BY <1>1, <2>1, <4>2, <4>3 DEF w
    <3> QED
      BY <3>4, <3>5, <3>6
  <2> QED
    BY <2>2, <2>3
<1> HIDE DEF odd
<1>11. C = base + s * F
  <2> HIDE DEF B, F
  <2>1. (2 * start) * F = start * B /\ (offset + start) * B = offset * B + start * B
    BY <1>1, <1>4
  <2> QED
    BY <1>4, <2>1
<1>12. /\ C \in Int /\ (offset + chunked) * B \in Int /\ (offset + end) * B \in Int
       /\ base + i * F \in Int
       /\ C <= (offset + chunked) * B /\ (offset + chunked) * B <= (offset + end) * B
       /\ (offset + end) * B <= base + i * F
  <2>1. (offset + end) * B = base + (2 * end) * F
    <3> HIDE DEF B, F
    <3>1. (2 * end) * F = end * B /\ (offset + end) * B = offset * B + end * B
      BY <1>1, <1>5
    <3> QED
      BY <3>1
  <2>2. (2 * end) * F <= i * F /\ (2 * end) * F \in Nat /\ i * F \in Nat
    <3>1. 2 * end \in Nat /\ 2 * end <= i
      BY <1>5
    <3> HIDE DEF F
    <3> QED
      BY <1>1, <3>1, ProductGrows
  <2>3. /\ (offset + start) * B <= (offset + chunked) * B
        /\ (offset + chunked) * B <= (offset + end) * B
        /\ (offset + start) * B \in Nat /\ (offset + chunked) * B \in Nat /\ (offset + end) * B \in Nat
    <3>1. /\ offset + start \in Nat /\ offset + chunked \in Nat /\ offset + end \in Nat
          /\ offset + start <= offset + chunked /\ offset + chunked <= offset + end
      BY <1>4, <1>5, <1>7
    <3> DEFINE x == offset + start
               y == offset + chunked
               z == offset + end
    <3>2. x \in Nat /\ y \in Nat /\ z \in Nat /\ x <= y /\ y <= z
      BY <3>1
    <3> HIDE DEF x, y, z, B
    <3>3. x * B <= y * B /\ y * B <= z * B /\ x * B \in Nat /\ y * B \in Nat /\ z * B \in Nat
      BY <1>1, <3>2, ProductGrows
    <3> QED
      BY <3>3 DEF x, y, z
  <2> DEFINE u == (offset + end) * B
             v == i * F
             w == (2 * end) * F
  <2>4. u = base + w /\ w <= v /\ w \in Nat /\ v \in Nat /\ u \in Nat
    BY <2>1, <2>2, <2>3
  <2>5. base + v \in Int /\ u <= base + v
    <3> HIDE DEF u, v, w, base
    <3> QED
      BY <1>1, <2>4
  <2> QED
    BY <2>3, <2>5
<1> HIDE DEF C, base
<1> DEFINE x == C
           y == (offset + chunked) * B
           z == (offset + end) * B
           w == base + i * F
<1>13. x \in Int /\ y \in Int /\ z \in Int /\ w \in Int /\ x <= y /\ y <= z /\ z <= w
  BY <1>12
<1>14. RankSinceCheckpoint(offset, i) = OnesBetween(x, y) + OnesBetween(y, z) + OnesBetween(z, w)
  BY <1>2, <1>8, <1>9, <1>10
<1> HIDE DEF x, y, z, w
<1>15. OnesBetween(x, w) = OnesBetween(x, y) + OnesBetween(y, z) + OnesBetween(z, w)
  <2>1. OnesBetween(x, z) = OnesBetween(x, y) + OnesBetween(y, z)
    BY <1>13, OnesJoin
  <2>2. x <= z
    BY <1>13
  <2>3. OnesBetween(x, w) = OnesBetween(x, z) + OnesBetween(z, w)
    BY <1>13, <2>2, OnesJoin
  <2> QED
    BY <2>1, <2>3
<1> QED
  BY <1>3, <1>11, <1>14, <1>15 DEF x, w, base, s

\* Any masks: a rank counted in chunks, bytes and half a byte is the number of
\* children of the masks since the checkpoint.
THEOREM RanksAlwaysCounted == FieldsSpec => []RanksCounted
<1>1. FieldsInv => RanksCounted
  <2> SUFFICES ASSUME FieldsInv, input.kind = "masks", NEW i \in Indexes
               PROVE  RankSinceCheckpoint(offset, i) =
                        SetSum([j \in Indexes |-> Cardinality(RawMask(offset, j))],
                               CheckpointStartOf(CheckpointOf(i))..(i - 1))
    BY DEF RanksCounted
  <2> DEFINE s == CheckpointStartOf(CheckpointOf(i))
             f == [j \in Indexes |-> Cardinality(RawMask(offset, j))]
             base == offset * ByteBits
  <2>1. input \in Inputs /\ offset \in Nat
    BY DEF FieldsInv
  <2>2. i \in Nat /\ i < Count /\ Count \in Nat
    BY <2>1, InputFacts DEF Indexes
  <2>3. /\ s \in Nat /\ s <= i
        /\ RankSinceCheckpoint(offset, i) = OnesBetween(base + s * Fanout, base + i * Fanout)
    BY <2>1, <2>2, RankIsOnes
  <2> HIDE DEF s
  <2>4. ASSUME NEW j \in s..(i - 1)
        PROVE  f[j] = OnesBetween(base + j * Fanout, base + (j + 1) * Fanout)
    <3>1. j \in Nat /\ j \in Indexes
      BY <2>2, <2>3 DEF Indexes
    <3> QED
      BY <2>1, <3>1, MaskOnes
  <2>5. base \in Int /\ Fanout \in Nat
    BY <2>1, ByteSize
  <2>6. SetSum(f, s..(i - 1)) = OnesBetween(base + s * Fanout, base + i * Fanout)
    <3> HIDE DEF f, base
    <3> QED
      BY <2>2, <2>3, <2>4, <2>5, OnesOfPieces
  <2> QED
    BY <2>3, <2>6 DEF s
<1> QED
  BY <1>1, FieldsAlways, PTL

=============================================================================
