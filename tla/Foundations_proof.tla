-------------------------- MODULE Foundations_proof --------------------------
(***************************************************************************)
(* Lemmas about data that several proofs need: running totals and sums,    *)
(* quotients, powers of two, recurrences, ranks, cell paths and the        *)
(* lengths of prefix codes. The induction principle is a least element of  *)
(* a set of naturals, proved from the facts about finite sets.             *)
(***************************************************************************)
EXTENDS PrefixSums, CellTree, FiniteSetTheorems, SequenceTheorems, TLAPS

\* A non-empty set of naturals has a least element: otherwise the numbers below
\* all of it would be a finite set that the successor maps into itself, and an
\* injection of a finite set into itself reaches 0.
THEOREM LeastNatural ==
  ASSUME NEW T, T \subseteq Nat, T # {}
  PROVE  \E x \in T : \A y \in T : x <= y
<1> DEFINE Below == {k \in Nat : \A y \in T : k < y}
           succ  == [k \in Below |-> k + 1]
<1>1. SUFFICES ASSUME \A x \in T : \E y \in T : y < x
               PROVE  FALSE
  OBVIOUS
<1>2. PICK top \in T : TRUE
  OBVIOUS
<1>3. 0 \in Below
  BY <1>1
<1>4. IsFiniteSet(Below)
  <2>1. \A k \in Below : k <= top
    BY <1>2
  <2> QED
    BY <2>1, <1>2, FS_BoundedSetOfNaturals
<1>5. succ \in Injection(Below, Below)
  <2>1. ASSUME NEW k \in Below
        PROVE  k + 1 \in Below
    <3>1. \A y \in T : k + 1 <= y
      OBVIOUS
    <3>2. k + 1 \notin T
      BY <1>1, <3>1
    <3> QED
      BY <3>1, <3>2
  <2> QED
    BY <2>1 DEF Injection, IsInjective
<1>6. succ \in Surjection(Below, Below)
  BY <1>4, <1>5, FS_Injection
<1>7. PICK k \in Below : succ[k] = 0
  BY <1>3, <1>6 DEF Surjection
<1> QED
  BY <1>7

-----------------------------------------------------------------------------

\* s is the function of running totals of f up to n.
Totals(s, f, n) ==
  s = [k \in 0..n |-> IF k = 0 THEN 0 ELSE s[k - 1] + f[k - 1]]

\* Running totals exist for every bound.
LEMMA TotalsExist ==
  ASSUME NEW f, NEW n \in Nat
  PROVE  \E s : Totals(s, f, n)
<1> DEFINE Missing == {m \in Nat : ~ \E s : Totals(s, f, m)}
<1>1. SUFFICES ASSUME Missing # {} PROVE FALSE
  OBVIOUS
<1>2. PICK m \in Missing : \A y \in Missing : m <= y
  <2> HIDE DEF Missing
  <2>1. Missing \subseteq Nat
    BY DEF Missing
  <2> QED
    BY <1>1, <2>1, LeastNatural
<1>3. CASE m = 0
  <2> DEFINE s == [k \in 0..0 |-> 0]
  <2>1. Totals(s, f, 0)
    BY DEF Totals
  <2> QED
    BY <1>3, <2>1
<1>4. CASE m # 0
  <2>1. PICK s : Totals(s, f, m - 1)
    BY <1>2, <1>4
  <2> DEFINE t == [k \in 0..m |-> IF k = m THEN s[m - 1] + f[m - 1] ELSE s[k]]
  <2>2. \A k \in 0..(m - 1) :
          s[k] = IF k = 0 THEN 0 ELSE s[k - 1] + f[k - 1]
    BY <2>1 DEF Totals
  <2>3. \A k \in 0..m : t[k] = IF k = 0 THEN 0 ELSE t[k - 1] + f[k - 1]
    BY <2>2, <1>4
  <2>4. Totals(t, f, m)
    BY <2>3 DEF Totals
  <2> QED
    BY <2>4
<1> QED
  BY <1>3, <1>4

\* Totals up to different bounds agree where both are defined.
LEMMA TotalsAgree ==
  ASSUME NEW f, NEW n \in Nat, NEW m \in Nat, NEW s, NEW t,
         Totals(s, f, n), Totals(t, f, m)
  PROVE  \A k \in (0..n) \cap (0..m) : s[k] = t[k]
<1> DEFINE Different == {k \in Nat : k \in 0..n /\ k \in 0..m /\ s[k] # t[k]}
<1>1. SUFFICES ASSUME Different # {} PROVE FALSE
  OBVIOUS
<1>2. PICK k \in Different : \A y \in Different : k <= y
  <2> HIDE DEF Different
  <2>1. Different \subseteq Nat
    BY DEF Different
  <2> QED
    BY <1>1, <2>1, LeastNatural
<1>3. /\ s[k] = IF k = 0 THEN 0 ELSE s[k - 1] + f[k - 1]
      /\ t[k] = IF k = 0 THEN 0 ELSE t[k - 1] + f[k - 1]
  BY DEF Totals
<1>4. k # 0 /\ k - 1 \in Nat /\ k - 1 \in 0..n /\ k - 1 \in 0..m
  BY <1>3
<1>5. s[k - 1] = t[k - 1]
  BY <1>2, <1>4
<1> QED
  BY <1>3, <1>5

LEMMA PrefixSumIsTotal ==
  ASSUME NEW f, NEW n \in Nat
  PROVE  \E s : Totals(s, f, n) /\ PrefixSum(f, n) = s[n]
<1> DEFINE Sum == CHOOSE s : Totals(s, f, n)
<1>1. Totals(Sum, f, n)
  BY TotalsExist
<1>2. PrefixSum(f, n) = Sum[n]
  BY DEF PrefixSum, Totals
<1> QED
  BY <1>1, <1>2

\* The empty sum, and one value more.
THEOREM PrefixSumZero ==
  ASSUME NEW f
  PROVE  PrefixSum(f, 0) = 0
<1>1. PICK s : Totals(s, f, 0) /\ PrefixSum(f, 0) = s[0]
  BY PrefixSumIsTotal
<1> QED
  BY <1>1 DEF Totals

\* One value more: the recurrence of the running total, for every length.
THEOREM PrefixSumNext ==
  ASSUME NEW f, NEW n \in Nat
  PROVE  PrefixSum(f, n + 1) = PrefixSum(f, n) + f[n]
<1>1. PICK s : Totals(s, f, n) /\ PrefixSum(f, n) = s[n]
  BY PrefixSumIsTotal
<1>2. PICK t : Totals(t, f, n + 1) /\ PrefixSum(f, n + 1) = t[n + 1]
  BY PrefixSumIsTotal
<1>3. t[n + 1] = t[n] + f[n]
  BY <1>2 DEF Totals
<1>4. s[n] = t[n]
  BY <1>1, <1>2, TotalsAgree
<1> QED
  BY <1>1, <1>2, <1>3, <1>4

\* Totals of naturals are naturals and never decrease.
THEOREM PrefixSumNat ==
  ASSUME NEW N \in Nat, NEW f, \A k \in 0..(N - 1) : f[k] \in Nat
  PROVE  \A n \in 0..N : PrefixSum(f, n) \in Nat
<1> DEFINE Wrong == {n \in Nat : n <= N /\ PrefixSum(f, n) \notin Nat}
<1>1. SUFFICES ASSUME Wrong # {} PROVE FALSE
  OBVIOUS
<1>2. PICK n \in Wrong : \A y \in Wrong : n <= y
  <2> HIDE DEF Wrong
  <2>1. Wrong \subseteq Nat
    BY DEF Wrong
  <2> QED
    BY <1>1, <2>1, LeastNatural
<1>3. n # 0
  BY PrefixSumZero
<1>4. n - 1 \in Nat /\ PrefixSum(f, n - 1) \in Nat /\ f[n - 1] \in Nat
  BY <1>2, <1>3
<1>5. PrefixSum(f, (n - 1) + 1) = PrefixSum(f, n - 1) + f[n - 1]
  BY <1>4, PrefixSumNext
<1> QED
  BY <1>4, <1>5

\* Running totals of naturals, such as ranks and offsets, never decrease.
THEOREM PrefixSumGrows ==
  ASSUME NEW N \in Nat, NEW f, \A k \in 0..(N - 1) : f[k] \in Nat,
         NEW m \in 0..N
  PROVE  \A n \in m..N : PrefixSum(f, m) <= PrefixSum(f, n)
<1> DEFINE Wrong == {n \in Nat : n \in m..N /\ ~ PrefixSum(f, m) <= PrefixSum(f, n)}
<1>1. SUFFICES ASSUME Wrong # {} PROVE FALSE
  OBVIOUS
<1>2. PICK n \in Wrong : \A y \in Wrong : n <= y
  <2> HIDE DEF Wrong
  <2>1. Wrong \subseteq Nat
    BY DEF Wrong
  <2> QED
    BY <1>1, <2>1, LeastNatural
<1>3. PrefixSum(f, m) \in Nat /\ PrefixSum(f, n) \in Nat
  BY PrefixSumNat
<1>4. n # m
  BY <1>3
<1>5. n - 1 \in Nat /\ n - 1 \in m..N /\ PrefixSum(f, m) <= PrefixSum(f, n - 1)
  BY <1>2, <1>4
<1>6. PrefixSum(f, n - 1) \in Nat /\ f[n - 1] \in Nat
  BY <1>5, PrefixSumNat
<1>7. PrefixSum(f, (n - 1) + 1) = PrefixSum(f, n - 1) + f[n - 1]
  BY <1>5, PrefixSumNext
<1> QED
  BY <1>3, <1>5, <1>6, <1>7

\* A running total grows evenly over a stretch of equal values.
THEOREM PrefixSumEven ==
  ASSUME NEW f, NEW m \in Nat, NEW n \in Nat, m <= n, NEW c \in Nat,
         PrefixSum(f, m) \in Nat, \A k \in m..(n - 1) : f[k] = c
  PROVE  PrefixSum(f, n) = PrefixSum(f, m) + (n - m) * c
<1> DEFINE Wrong == {i \in Nat : i \in m..n /\ PrefixSum(f, i) # PrefixSum(f, m) + (i - m) * c}
<1>1. SUFFICES ASSUME Wrong # {} PROVE FALSE
  <2>1. n \in m..n
    OBVIOUS
  <2> QED
    BY <2>1
<1>2. PICK i \in Wrong : \A j \in Wrong : i <= j
  <2>1. Wrong \subseteq Nat
    OBVIOUS
  <2> HIDE DEF Wrong
  <2> QED
    BY <1>1, <2>1, LeastNatural
<1>3. i # m
  <2>1. (m - m) * c = 0
    OBVIOUS
  <2> QED
    BY <2>1
<1>4. PICK j \in Nat : i = j + 1 /\ j \in m..(n - 1)
  <2>1. i - 1 \in Nat /\ i = (i - 1) + 1 /\ i - 1 \in m..(n - 1)
    BY <1>3
  <2> QED
    BY <2>1
<1>5. PrefixSum(f, j) = PrefixSum(f, m) + (j - m) * c
  <2>1. j \notin Wrong
    BY <1>2, <1>4
  <2> QED
    BY <1>4, <2>1
<1>6. PrefixSum(f, i) = PrefixSum(f, j) + c
  BY <1>4, PrefixSumNext
<1>7. (j - m) * c + c = (i - m) * c /\ (j - m) * c \in Nat
  <2>1. PICK d \in Nat : d = j - m
    BY <1>4
  <2>2. i - m = d + 1
    BY <1>4, <2>1
  <2> QED
    BY <2>1, <2>2
<1>8. PrefixSum(f, i) = PrefixSum(f, m) + (i - m) * c
  <2>1. PICK x \in Nat : x = (j - m) * c
    BY <1>7
  <2>2. PrefixSum(f, i) = PrefixSum(f, m) + x + c /\ x + c = (i - m) * c
    BY <1>5, <1>6, <1>7, <2>1
  <2> QED
    BY <2>1, <2>2
<1> QED
  BY <1>8

\* Running totals of the same values are the same.
THEOREM PrefixSumSame ==
  ASSUME NEW f, NEW g, NEW n \in Nat, \A k \in 0..(n - 1) : f[k] = g[k]
  PROVE  PrefixSum(f, n) = PrefixSum(g, n)
<1> DEFINE Wrong == {i \in Nat : i <= n /\ PrefixSum(f, i) # PrefixSum(g, i)}
<1>1. SUFFICES ASSUME Wrong # {} PROVE FALSE
  OBVIOUS
<1>2. PICK i \in Wrong : \A j \in Wrong : i <= j
  <2>1. Wrong \subseteq Nat
    OBVIOUS
  <2> HIDE DEF Wrong
  <2> QED
    BY <1>1, <2>1, LeastNatural
<1>3. i # 0
  BY PrefixSumZero
<1>4. PICK j \in Nat : i = j + 1 /\ j \in 0..(n - 1)
  <2>1. i - 1 \in Nat /\ i = (i - 1) + 1 /\ i - 1 \in 0..(n - 1)
    BY <1>3
  <2> QED
    BY <2>1
<1>5. PrefixSum(f, j) = PrefixSum(g, j)
  BY <1>2, <1>4
<1>6. PrefixSum(f, i) = PrefixSum(f, j) + f[j] /\ PrefixSum(g, i) = PrefixSum(g, j) + g[j]
  BY <1>4, PrefixSumNext
<1> QED
  BY <1>4, <1>5, <1>6

-----------------------------------------------------------------------------
(* Sums over finite sets *)

Choice(T) == CHOOSE y \in T : TRUE

\* s is the function of the sums of f over the subsets of S.
Sums(s, f, S) ==
  s = [T \in SUBSET S |-> IF T = {} THEN 0 ELSE f[Choice(T)] + s[T \ {Choice(T)}]]

LEMMA SumsStep ==
  ASSUME NEW f, NEW S, NEW s, Sums(s, f, S), NEW T \in SUBSET S
  PROVE  s[T] = IF T = {} THEN 0 ELSE f[Choice(T)] + s[T \ {Choice(T)}]
BY DEF Sums

LEMMA WithoutMember ==
  ASSUME NEW T, IsFiniteSet(T), NEW x \in T
  PROVE  /\ IsFiniteSet(T \ {x})
         /\ Cardinality(T \ {x}) \in Nat /\ Cardinality(T) \in Nat
         /\ Cardinality(T \ {x}) < Cardinality(T)
<1>1. IsFiniteSet(T \ {x}) /\ Cardinality(T \ {x}) = Cardinality(T) - 1
  BY FS_RemoveElement
<1>2. Cardinality(T) \in Nat /\ Cardinality(T \ {x}) \in Nat
  BY <1>1, FS_CardinalityType
<1> QED
  BY <1>1, <1>2

\* A family of finite sets that is not empty has a smallest member.
LEMMA LeastSet ==
  ASSUME NEW F, F # {}, \A T \in F : IsFiniteSet(T)
  PROVE  \E T \in F : \A U \in F : Cardinality(T) <= Cardinality(U)
<1> DEFINE N == {Cardinality(T) : T \in F}
<1>1. N \subseteq Nat /\ N # {}
  BY FS_CardinalityType
<1>2. PICK n \in N : \A m \in N : n <= m
  <2> HIDE DEF N
  <2> QED
    BY <1>1, LeastNatural
<1> QED
  BY <1>2

LEMMA SumsAgree ==
  ASSUME NEW f, NEW A, NEW B, NEW s, NEW t, Sums(s, f, A), Sums(t, f, B),
         NEW T, IsFiniteSet(T), T \subseteq A, T \subseteq B
  PROVE  s[T] = t[T]
<1> DEFINE Wrong == {U \in SUBSET T : s[U] # t[U]}
<1>1. SUFFICES ASSUME Wrong # {} PROVE FALSE
  OBVIOUS
<1>2. \A U \in Wrong : IsFiniteSet(U) /\ U \in SUBSET T
  BY FS_Subset
<1>3. PICK U \in Wrong : \A V \in Wrong : Cardinality(U) <= Cardinality(V)
  <2> HIDE DEF Wrong
  <2> QED
    BY <1>1, <1>2, LeastSet
<1>4. U # {} /\ U \in SUBSET A /\ U \in SUBSET B /\ IsFiniteSet(U)
  <2>1. U \in SUBSET A /\ U \in SUBSET B /\ IsFiniteSet(U)
    BY <1>2
  <2> QED
    BY <2>1, SumsStep
<1> DEFINE x == Choice(U)
<1>5. x \in U
  BY <1>4 DEF Choice
<1>6. /\ s[U] = f[x] + s[U \ {x}]
      /\ t[U] = f[x] + t[U \ {x}]
  BY <1>4, SumsStep
<1> HIDE DEF x
<1>7. /\ Cardinality(U \ {x}) < Cardinality(U)
      /\ Cardinality(U \ {x}) \in Nat /\ Cardinality(U) \in Nat
  BY <1>4, <1>5, WithoutMember
<1>8. U \ {x} \in SUBSET T /\ ~(Cardinality(U) <= Cardinality(U \ {x}))
  BY <1>2, <1>7
<1>9. s[U \ {x}] = t[U \ {x}]
  BY <1>3, <1>8
<1> QED
  BY <1>6, <1>9

LEMMA SumsExist ==
  ASSUME NEW f, NEW A, IsFiniteSet(A)
  PROVE  \E s : Sums(s, f, A)
<1> DEFINE Missing == {T \in SUBSET A : ~ \E s : Sums(s, f, T)}
<1>1. SUFFICES ASSUME Missing # {} PROVE FALSE
  OBVIOUS
<1>2. \A T \in Missing : IsFiniteSet(T) /\ T \in SUBSET A
  BY FS_Subset
<1>3. PICK M \in Missing : \A U \in Missing : Cardinality(M) <= Cardinality(U)
  <2> HIDE DEF Missing
  <2> QED
    BY <1>1, <1>2, LeastSet
<1> DEFINE sum(T) == CHOOSE s : Sums(s, f, T)
           value(T) == sum(T)[T]
           x == Choice(M)
           whole == [T \in SUBSET M |-> IF T = M /\ T # {}
                                        THEN f[x] + value(M \ {x}) ELSE value(T)]
<1>4. ASSUME NEW T \in SUBSET M, T # M
      PROVE  IsFiniteSet(T) /\ Sums(sum(T), f, T)
  <2>1. PICK y \in M : y \notin T
    BY <1>4
  <2>2. IsFiniteSet(M) /\ IsFiniteSet(T)
    BY <1>2, FS_Subset
  <2>3. /\ IsFiniteSet(M \ {y}) /\ Cardinality(M \ {y}) \in Nat
        /\ Cardinality(M) \in Nat /\ Cardinality(M \ {y}) < Cardinality(M)
    BY <2>1, <2>2, WithoutMember
  <2>4. T \subseteq M \ {y}
    BY <2>1
  <2>5. Cardinality(T) \in Nat /\ Cardinality(T) <= Cardinality(M \ {y})
    BY <2>3, <2>4, FS_Subset, FS_CardinalityType
  <2>6. ~(Cardinality(M) <= Cardinality(T))
    BY <2>3, <2>5
  <2>7. T \in SUBSET A
    BY <1>2
  <2>8. \E s : Sums(s, f, T)
    BY <1>3, <2>6, <2>7
  <2> QED
    BY <2>2, <2>8
<1>5. ASSUME NEW T \in SUBSET M, T # M, T # {}
      PROVE  value(T) = f[Choice(T)] + value(T \ {Choice(T)})
  <2> DEFINE y == Choice(T)
             s == sum(T)
             t == sum(T \ {y})
  <2>1. y \in T
    BY <1>5 DEF Choice
  <2> HIDE DEF y
  <2>2. Sums(s, f, T) /\ Sums(t, f, T \ {y}) /\ IsFiniteSet(T \ {y})
    <3>1. T \ {y} \in SUBSET M /\ T \ {y} # M
      BY <1>5
    <3> HIDE DEF sum
    <3> QED
      BY <1>4, <1>5, <3>1
  <2> HIDE DEF s, t
  <2>3. s[T \ {y}] = t[T \ {y}]
    BY <2>2, SumsAgree
  <2>4. s[T] = f[y] + s[T \ {y}]
    BY <1>5, <2>2, SumsStep DEF y
  <2> QED
    BY <2>3, <2>4 DEF s, t, y
<1>6. ASSUME NEW T \in SUBSET M
      PROVE  whole[T] = IF T = {} THEN 0 ELSE f[Choice(T)] + whole[T \ {Choice(T)}]
  <2>1. CASE T = M /\ T # {}
    <3>1. x \in M /\ M \ {x} \in SUBSET M /\ M \ {x} # M
      BY <2>1 DEF Choice
    <3> HIDE DEF value, x
    <3> QED
      BY <2>1, <3>1 DEF x
  <2>2. CASE T # M /\ T # {}
    <3>1. T \ {Choice(T)} \in SUBSET M /\ T \ {Choice(T)} # M
      BY <2>2
    <3> HIDE DEF value, x
    <3> QED
      BY <1>5, <2>2, <3>1
  <2>3. CASE T = {}
    <3>1. \E s : Sums(s, f, {})
      <4>1. Sums([T0 \in SUBSET {} |-> 0], f, {})
        BY DEF Sums
      <4> QED
        BY <4>1
    <3>2. Sums(sum({}), f, {})
      BY <3>1
    <3> HIDE DEF sum
    <3>3. value({}) = 0
      BY <3>2, SumsStep
    <3> HIDE DEF value
    <3> QED
      BY <2>3, <3>3
  <2> QED
    BY <2>1, <2>2, <2>3
<1>7. Sums(whole, f, M)
  <2>1. whole = [T \in SUBSET M |-> whole[T]]
    OBVIOUS
  <2> HIDE DEF whole
  <2> QED
    BY <1>6, <2>1 DEF Sums
<1> QED
  BY <1>3, <1>7

\* The sum is the value of any such function.
LEMMA SetSumIs ==
  ASSUME NEW f, NEW A, IsFiniteSet(A), NEW s, Sums(s, f, A), NEW T \in SUBSET A
  PROVE  SetSum(f, T) = s[T]
<1> DEFINE sum == CHOOSE t : Sums(t, f, T)
<1>1. IsFiniteSet(T)
  BY FS_Subset
<1>2. Sums(sum, f, T)
  BY <1>1, SumsExist
<1>3. SetSum(f, T) = sum[T]
  BY DEF SetSum, Sums, Choice
<1> HIDE DEF sum
<1> QED
  BY <1>1, <1>2, <1>3, SumsAgree

\* The sum over no member.
THEOREM SetSumEmpty ==
  ASSUME NEW f
  PROVE  SetSum(f, {}) = 0
<1>1. IsFiniteSet({})
  BY FS_EmptySet
<1>2. PICK s : Sums(s, f, {})
  BY <1>1, SumsExist
<1> QED
  BY <1>1, <1>2, SetSumIs, SumsStep

\* One member less: the sum does not depend on the order of the members.
THEOREM SetSumRemove ==
  ASSUME NEW f, NEW A, IsFiniteSet(A), \A a \in A : f[a] \in Nat, NEW x \in A
  PROVE  /\ SetSum(f, A) = f[x] + SetSum(f, A \ {x})
         /\ SetSum(f, A) \in Nat /\ SetSum(f, A \ {x}) \in Nat
<1>1. PICK s : Sums(s, f, A)
  BY SumsExist
<1>2. ASSUME NEW T \in SUBSET A, T # {}
      PROVE  Choice(T) \in T /\ s[T] = f[Choice(T)] + s[T \ {Choice(T)}]
  BY <1>1, <1>2, SumsStep DEF Choice
<1>3. \A T \in SUBSET A : s[T] \in Nat
  <2> DEFINE Wrong == {T \in SUBSET A : s[T] \notin Nat}
  <2>1. SUFFICES ASSUME Wrong # {} PROVE FALSE
    OBVIOUS
  <2>2. \A T \in Wrong : IsFiniteSet(T) /\ T \in SUBSET A
    BY FS_Subset
  <2>3. PICK T \in Wrong : \A U \in Wrong : Cardinality(T) <= Cardinality(U)
    <3> HIDE DEF Wrong
    <3> QED
      BY <2>1, <2>2, LeastSet
  <2>4. T # {} /\ T \in SUBSET A
    BY <1>1, SumsStep
  <2> DEFINE c == Choice(T)
  <2>5. c \in T /\ s[T] = f[c] + s[T \ {c}]
    BY <1>2, <2>4
  <2> HIDE DEF c
  <2>6. /\ Cardinality(T \ {c}) < Cardinality(T)
        /\ Cardinality(T \ {c}) \in Nat /\ Cardinality(T) \in Nat
    BY <2>2, <2>5, WithoutMember
  <2>7. s[T \ {c}] \in Nat
    BY <2>3, <2>4, <2>6
  <2>8. f[c] \in Nat
    BY <2>4, <2>5
  <2> QED
    BY <2>5, <2>7, <2>8
<1>4. \A T \in SUBSET A : \A y \in T : s[T] = f[y] + s[T \ {y}]
  <2> DEFINE Wrong == {T \in SUBSET A : \E y \in T : s[T] # f[y] + s[T \ {y}]}
  <2>1. SUFFICES ASSUME Wrong # {} PROVE FALSE
    OBVIOUS
  <2>2. \A T \in Wrong : IsFiniteSet(T) /\ T \in SUBSET A
    BY FS_Subset
  <2>3. PICK T \in Wrong : \A U \in Wrong : Cardinality(T) <= Cardinality(U)
    <3> HIDE DEF Wrong
    <3> QED
      BY <2>1, <2>2, LeastSet
  <2>4. PICK y \in T : s[T] # f[y] + s[T \ {y}]
    OBVIOUS
  <2> DEFINE c == Choice(T)
  <2>5. c \in T /\ s[T] = f[c] + s[T \ {c}] /\ T \in SUBSET A
    <3>1. T \in SUBSET A /\ T # {}
      BY <2>2, <2>4
    <3> QED
      BY <1>2, <3>1
  <2> HIDE DEF c
  <2>6. y # c
    BY <2>4, <2>5
  <2>7. ASSUME NEW z \in T PROVE T \ {z} \notin Wrong
    <3>1. /\ Cardinality(T \ {z}) < Cardinality(T)
          /\ Cardinality(T \ {z}) \in Nat /\ Cardinality(T) \in Nat
      BY <2>2, WithoutMember
    <3>2. ~(Cardinality(T) <= Cardinality(T \ {z}))
      BY <3>1
    <3> HIDE DEF Wrong
    <3> QED
      BY <2>3, <3>2
  <2> DEFINE rest == (T \ {c}) \ {y}
  <2>8. s[T \ {c}] = f[y] + s[rest]
    <3>1. T \ {c} \in SUBSET A /\ y \in T \ {c}
      BY <2>5, <2>6
    <3> QED
      BY <2>5, <2>7, <3>1
  <2>9. s[T \ {y}] = f[c] + s[rest]
    <3>1. T \ {y} \in SUBSET A /\ c \in T \ {y} /\ (T \ {y}) \ {c} = rest
      BY <2>5, <2>6
    <3>2. T \ {y} \notin Wrong
      BY <2>7
    <3>3. s[T \ {y}] = f[c] + s[(T \ {y}) \ {c}]
      BY <3>1, <3>2
    <3> QED
      BY <3>1, <3>3
  <2>10. f[c] \in Nat /\ f[y] \in Nat /\ s[rest] \in Nat
    <3>1. rest \in SUBSET A
      BY <2>5
    <3> QED
      BY <1>3, <2>5, <3>1
  <2> HIDE DEF rest
  <2> QED
    BY <2>4, <2>5, <2>8, <2>9, <2>10
<1>5. A \in SUBSET A /\ A \ {x} \in SUBSET A
  OBVIOUS
<1>6. SetSum(f, A) = s[A] /\ SetSum(f, A \ {x}) = s[A \ {x}]
  BY <1>1, <1>5, SetSumIs
<1> QED
  BY <1>3, <1>4, <1>5, <1>6

\* A sum of naturals, such as the populations of some cells, is a natural.
THEOREM SetSumNat ==
  ASSUME NEW f, NEW A, IsFiniteSet(A), \A a \in A : f[a] \in Nat
  PROVE  SetSum(f, A) \in Nat
<1>1. CASE A = {}
  BY <1>1, SetSumEmpty
<1>2. CASE A # {}
  <2>1. PICK x \in A : TRUE
    BY <1>2
  <2> QED
    BY <2>1, SetSumRemove
<1> QED
  BY <1>1, <1>2

\* Sums over sets without a common member add up.
THEOREM SetSumUnion ==
  ASSUME NEW f, NEW A, NEW B, IsFiniteSet(A), IsFiniteSet(B), A \intersect B = {},
         \A a \in A \union B : f[a] \in Nat
  PROVE  /\ SetSum(f, A \union B) = SetSum(f, A) + SetSum(f, B)
         /\ SetSum(f, A) \in Nat /\ SetSum(f, B) \in Nat
<1> DEFINE Wrong == {T \in SUBSET A : SetSum(f, T \union B) # SetSum(f, T) + SetSum(f, B)}
<1>0. \A T \in SUBSET A : IsFiniteSet(T) /\ IsFiniteSet(T \union B)
  BY FS_Subset, FS_Union
<1>1. \A T \in SUBSET A : SetSum(f, T) \in Nat /\ SetSum(f, T \union B) \in Nat
  <2> TAKE T \in SUBSET A
  <2>1. \A a \in T : f[a] \in Nat
    OBVIOUS
  <2>2. \A a \in T \union B : f[a] \in Nat
    OBVIOUS
  <2> QED
    BY <1>0, <2>1, <2>2, SetSumNat
<1>2. SetSum(f, B) \in Nat
  <2>1. \A a \in B : f[a] \in Nat
    OBVIOUS
  <2> QED
    BY <2>1, SetSumNat
<1>3. ASSUME Wrong # {} PROVE FALSE
  <2>1. \A T \in Wrong : IsFiniteSet(T) /\ T \in SUBSET A
    BY FS_Subset
  <2>2. PICK T \in Wrong : \A U \in Wrong : Cardinality(T) <= Cardinality(U)
    <3> HIDE DEF Wrong
    <3> QED
      BY <1>3, <2>1, LeastSet
  <2>3. T # {}
    BY <1>2, SetSumEmpty
  <2>4. PICK x \in T : TRUE
    BY <2>3
  <2>5. T \in SUBSET A /\ T \ {x} \in SUBSET A /\ (T \union B) \ {x} = (T \ {x}) \union B
        /\ x \in T \union B
    BY <2>1
  <2>6. T \ {x} \notin Wrong
    <3>1. /\ Cardinality(T \ {x}) < Cardinality(T)
          /\ Cardinality(T \ {x}) \in Nat /\ Cardinality(T) \in Nat
      BY <2>1, WithoutMember
    <3>2. ~(Cardinality(T) <= Cardinality(T \ {x}))
      BY <3>1
    <3> HIDE DEF Wrong
    <3> QED
      BY <2>2, <3>2
  <2>7. SetSum(f, (T \ {x}) \union B) = SetSum(f, T \ {x}) + SetSum(f, B)
    BY <2>5, <2>6
  <2>8. SetSum(f, T) = f[x] + SetSum(f, T \ {x}) /\ SetSum(f, T \ {x}) \in Nat
    <3>1. \A a \in T : f[a] \in Nat
      BY <2>5
    <3> QED
      BY <2>1, <3>1, SetSumRemove
  <2>9. SetSum(f, T \union B) = f[x] + SetSum(f, (T \union B) \ {x})
    <3>1. \A a \in T \union B : f[a] \in Nat
      BY <2>5
    <3> QED
      BY <1>0, <2>5, <3>1, SetSumRemove
  <2>10. SetSum(f, T \union B) = f[x] + SetSum(f, (T \ {x}) \union B)
    BY <2>5, <2>9
  <2>11. f[x] \in Nat
    BY <2>5
  <2>12. SetSum(f, T \union B) # SetSum(f, T) + SetSum(f, B)
    BY <2>2
  <2> QED
    BY <1>2, <2>7, <2>8, <2>10, <2>11, <2>12
<1>4. A \in SUBSET A /\ A \notin Wrong
  BY <1>3
<1> QED
  BY <1>1, <1>2, <1>4

\* A part of the members has no larger sum than all of them.
THEOREM SetSumGrows ==
  ASSUME NEW f, NEW A, IsFiniteSet(A), \A a \in A : f[a] \in Nat, NEW B \in SUBSET A
  PROVE  SetSum(f, B) <= SetSum(f, A) /\ SetSum(f, B) \in Nat /\ SetSum(f, A) \in Nat
<1> DEFINE C == A \ B
<1>1. A = B \union C /\ B \intersect C = {}
  OBVIOUS
<1>2. IsFiniteSet(B) /\ IsFiniteSet(C)
  BY FS_Subset
<1> HIDE DEF C
<1>3. \A a \in B \union C : f[a] \in Nat
  BY <1>1
<1>4. /\ SetSum(f, B \union C) = SetSum(f, B) + SetSum(f, C)
      /\ SetSum(f, B) \in Nat /\ SetSum(f, C) \in Nat
  BY <1>1, <1>2, <1>3, SetSumUnion
<1>5. SetSum(f, A) = SetSum(f, B) + SetSum(f, C)
  BY <1>1, <1>4, Zenon
<1> QED
  BY <1>4, <1>5

\* A sum is zero exactly when all its terms are.
THEOREM SetSumZero ==
  ASSUME NEW f, NEW A, IsFiniteSet(A), \A a \in A : f[a] \in Nat
  PROVE  SetSum(f, A) = 0 <=> \A a \in A : f[a] = 0
<1>1. ASSUME SetSum(f, A) = 0, NEW a \in A PROVE f[a] = 0
  <2>1. SetSum(f, A) = f[a] + SetSum(f, A \ {a}) /\ SetSum(f, A \ {a}) \in Nat
    BY SetSumRemove
  <2>2. f[a] \in Nat
    OBVIOUS
  <2> QED
    BY <1>1, <2>1, <2>2
<1>2. ASSUME \A a \in A : f[a] = 0 PROVE SetSum(f, A) = 0
  <2> DEFINE Wrong == {T \in SUBSET A : SetSum(f, T) # 0}
  <2>1. ASSUME Wrong # {} PROVE FALSE
    <3>1. \A T \in Wrong : IsFiniteSet(T) /\ T \in SUBSET A
      BY FS_Subset
    <3>2. PICK T \in Wrong : \A U \in Wrong : Cardinality(T) <= Cardinality(U)
      <4> HIDE DEF Wrong
      <4> QED
        BY <2>1, <3>1, LeastSet
    <3>3. T # {} /\ T \in SUBSET A
      BY SetSumEmpty
    <3>4. PICK x \in T : TRUE
      BY <3>3
    <3>5. /\ Cardinality(T \ {x}) < Cardinality(T)
          /\ Cardinality(T \ {x}) \in Nat /\ Cardinality(T) \in Nat
      BY <3>1, WithoutMember
    <3>6. SetSum(f, T \ {x}) = 0
      BY <3>2, <3>3, <3>5
    <3>7. SetSum(f, T) = f[x] + SetSum(f, T \ {x}) /\ f[x] = 0
      <4>1. \A a \in T : f[a] \in Nat
        BY <3>3
      <4> QED
        BY <1>2, <3>1, <3>3, <4>1, SetSumRemove
    <3> QED
      BY <3>2, <3>6, <3>7
  <2>2. A \in SUBSET A /\ A \notin Wrong
    BY <2>1
  <2> QED
    BY <2>2
<1> QED
  BY <1>1, <1>2

-----------------------------------------------------------------------------
(* Quotients *)

LEMMA Quotient ==
  ASSUME NEW a \in Nat, NEW d \in Nat \ {0}
  PROVE  /\ a \div d \in Nat
         /\ (a \div d) * d <= a
         /\ a < (a \div d + 1) * d
<1>1. a \div d \in Nat
  OBVIOUS
<1>2. (a \div d) * d <= a
  OBVIOUS
<1>3. a < (a \div d + 1) * d
  OBVIOUS
<1> QED
  BY <1>1, <1>2, <1>3

LEMMA ProductGrows ==
  ASSUME NEW a \in Nat, NEW b \in Nat, NEW d \in Nat, a <= b
  PROVE  a * d <= b * d /\ a * d \in Nat /\ b * d \in Nat
<1>1. b = a + (b - a) /\ b - a \in Nat
  OBVIOUS
<1>2. (a + (b - a)) * d = a * d + (b - a) * d
  OBVIOUS
<1>3. a * d \in Nat /\ (b - a) * d \in Nat
  BY <1>1
<1> QED
  BY <1>1, <1>2, <1>3

LEMMA ProductStrict ==
  ASSUME NEW a \in Nat, NEW b \in Nat, NEW d \in Nat \ {0}
  PROVE  a < b <=> a * d < b * d
<1>1. CASE a < b
  <2>1. (a + 1) * d <= b * d /\ (a + 1) * d \in Nat
    BY <1>1, ProductGrows
  <2>2. (a + 1) * d = a * d + d /\ a * d \in Nat /\ b * d \in Nat
    OBVIOUS
  <2> QED
    BY <1>1, <2>1, <2>2
<1>2. CASE b <= a
  <2>1. b * d <= a * d /\ b * d \in Nat /\ a * d \in Nat
    BY <1>2, ProductGrows
  <2> QED
    BY <1>2, <2>1
<1> QED
  BY <1>1, <1>2

LEMMA QuotientUnique ==
  ASSUME NEW a \in Nat, NEW d \in Nat \ {0}, NEW q \in Nat
  PROVE  a \div d = q <=> q * d <= a /\ a < (q + 1) * d
<1> DEFINE r == a \div d
<1>1. r \in Nat /\ r * d <= a /\ a < (r + 1) * d
  BY Quotient
<1> HIDE DEF r
<1>2. /\ q * d \in Nat /\ (q + 1) * d \in Nat
      /\ r * d \in Nat /\ (r + 1) * d \in Nat
  BY <1>1
<1>3. ASSUME q * d <= a, a < (q + 1) * d PROVE r = q
  <2>1. r * d < (q + 1) * d /\ q * d < (r + 1) * d
    BY <1>1, <1>2, <1>3
  <2>2. r < q + 1 /\ q < r + 1
    BY <1>1, <2>1, ProductStrict
  <2> QED
    BY <1>1, <2>2
<1> QED
  BY <1>1, <1>3 DEF r

LEMMA QuotientGrows ==
  ASSUME NEW a \in Nat, NEW b \in Nat, NEW d \in Nat \ {0}, a <= b
  PROVE  a \div d <= b \div d
<1>1. /\ a \div d \in Nat /\ (a \div d) * d <= a
      /\ b \div d \in Nat /\ b < (b \div d + 1) * d
  BY Quotient
<1>2. (a \div d) * d < (b \div d + 1) * d
  BY <1>1
<1>3. a \div d < b \div d + 1
  BY <1>1, <1>2, ProductStrict
<1> QED
  BY <1>1, <1>3

\* Dividing twice is dividing by the product.
LEMMA QuotientTwice ==
  ASSUME NEW a \in Nat, NEW d \in Nat \ {0}, NEW e \in Nat \ {0}
  PROVE  /\ d * e \in Nat \ {0}
         /\ (a \div d) \div e = a \div (d * e)
<1> DEFINE q == a \div d
           r == q \div e
<1>1. d * e \in Nat \ {0}
  <2>1. 0 < d
    OBVIOUS
  <2>2. 0 * e < d * e /\ d * e \in Nat
    BY <2>1, ProductStrict
  <2> QED
    BY <2>2
<1>2. q \in Nat /\ q * d <= a /\ a < (q + 1) * d
  BY Quotient
<1> HIDE DEF q
<1>3. r \in Nat /\ r * e <= q /\ q < (r + 1) * e
  BY <1>2, Quotient
<1> HIDE DEF r
<1>4. r * e \in Nat /\ (r + 1) * e \in Nat /\ q + 1 \in Nat /\ q + 1 <= (r + 1) * e
  BY <1>2, <1>3
<1>5. (r * e) * d <= q * d /\ (q + 1) * d <= ((r + 1) * e) * d
  BY <1>2, <1>3, <1>4, ProductGrows
<1>6. (r * e) * d = r * (d * e) /\ ((r + 1) * e) * d = (r + 1) * (d * e)
  BY <1>3
<1>7. q * d \in Nat /\ (q + 1) * d \in Nat /\ r * (d * e) \in Nat /\ (r + 1) * (d * e) \in Nat
  BY <1>1, <1>2, <1>3
<1>8. r * (d * e) <= a /\ a < (r + 1) * (d * e)
  BY <1>2, <1>5, <1>6, <1>7
<1>9. a \div (d * e) = r
  BY <1>1, <1>3, <1>8, QuotientUnique
<1> QED
  BY <1>1, <1>9 DEF q, r

LEMMA Remainder ==
  ASSUME NEW a \in Nat, NEW d \in Nat \ {0}
  PROVE  /\ a = (a \div d) * d + (a % d)
         /\ a % d \in 0..(d - 1)
<1>1. a % d \in 0..(d - 1)
  OBVIOUS
<1>2. a = (a \div d) * d + (a % d)
  OBVIOUS
<1> QED
  BY <1>1, <1>2

\* Every d-th of n elements, the first included.
LEMMA MultiplesCounted ==
  ASSUME NEW n \in Nat, NEW d \in Nat \ {0}
  PROVE  Cardinality({i \in 0..(n - 1) : i % d = 0}) = (n + d - 1) \div d
<1> DEFINE S == {i \in 0..(n - 1) : i % d = 0}
           q == (n + d - 1) \div d
           times == [k \in 0..(q - 1) |-> k * d]
<1>1. q \in Nat /\ q * d <= n + d - 1 /\ n + d - 1 < (q + 1) * d
  BY Quotient
<1>2. \A k \in Nat : k * d < n <=> k < q
  <2>1. TAKE k \in Nat
  <2>2. k * d \in Nat /\ (k + 1) * d = k * d + d /\ q * d \in Nat /\ (q + 1) * d = q * d + d
    BY <1>1
  <2>3. k < q => k * d < n
    <3>1. k < q => (k + 1) * d <= q * d
      BY <1>1, ProductGrows
    <3> QED
      BY <1>1, <2>2, <3>1
  <2>4. q <= k => q * d <= k * d
    BY <1>1, ProductGrows
  <2> QED
    BY <1>1, <2>2, <2>3, <2>4
<1>3. \A k \in Nat : (k * d) % d = 0
  <2>1. TAKE k \in Nat
  <2>2. k * d \in Nat /\ (k + 1) * d = k * d + d
    OBVIOUS
  <2>3. (k * d) \div d = k
    BY <2>2, QuotientUnique
  <2>4. \A m \in Nat : m = (m \div d) * d + (m % d) /\ m % d \in Nat
    BY Remainder
  <2>5. k * d = k * d + ((k * d) % d) /\ (k * d) % d \in Nat
    BY <2>2, <2>3, <2>4
  <2> QED
    BY <2>2, <2>5
<1>4. \A i \in S : i \div d \in Nat /\ i = (i \div d) * d
  BY Quotient, Remainder
<1>5. times \in Bijection(0..(q - 1), S)
  <2> HIDE DEF q
  <2>1. \A k \in 0..(q - 1) : k \in Nat /\ k * d \in S
    <3>1. TAKE k \in 0..(q - 1)
    <3>2. k \in Nat /\ k < q
      BY <1>1
    <3>3. k * d \in Nat /\ k * d < n /\ (k * d) % d = 0
      BY <1>2, <1>3, <3>2
    <3> QED
      BY <3>2, <3>3
  <2>2. times \in [0..(q - 1) -> S]
    BY <2>1
  <2>3. \A i \in S : \E k \in 0..(q - 1) : times[k] = i
    <3>1. TAKE i \in S
    <3>2. PICK k \in Nat : i = k * d
      BY <1>4
    <3>3. k < q
      BY <1>2, <3>2
    <3> QED
      BY <1>1, <3>2, <3>3
  <2>4. \A j, k \in 0..(q - 1) : times[j] = times[k] => j = k
    <3>1. TAKE j, k \in 0..(q - 1)
    <3>2. j \in Nat /\ k \in Nat
      BY <1>1
    <3>3. (j < k <=> j * d < k * d) /\ (k < j <=> k * d < j * d)
      BY <3>2, ProductStrict
    <3>4. j * d \in Nat /\ k * d \in Nat
      BY <3>2
    <3> QED
      BY <3>2, <3>3, <3>4
  <2> HIDE DEF S
  <2> QED
    BY <2>2, <2>3, <2>4 DEF Bijection, Injection, Surjection, IsInjective
<1>6. IsFiniteSet(0..(q - 1)) /\ Cardinality(0..(q - 1)) = q
  <2> HIDE DEF q
  <2> QED
    BY <1>1, FS_Interval
<1> HIDE DEF S, times
<1>7. Cardinality(0..(q - 1)) = Cardinality(S)
  BY <1>5, <1>6, FS_Bijection DEF ExistsBijection
<1> QED
  BY <1>6, <1>7 DEF S, q

-----------------------------------------------------------------------------
(* Powers of two *)

\* Powers of two count subsets.
LEMMA PowerCounts ==
  ASSUME NEW n \in Nat
  PROVE  /\ IsFiniteSet(SUBSET (1..n))
         /\ Cardinality(SUBSET (1..n)) = 2 ^ n
<1>1. IsFiniteSet(1..n) /\ Cardinality(1..n) = n
  BY FS_Interval
<1> QED
  BY <1>1, FS_SUBSET

LEMMA PowerNat ==
  ASSUME NEW n \in Nat
  PROVE  2 ^ n \in Nat
BY PowerCounts, FS_CardinalityType

LEMMA PowerZero ==
  ASSUME NEW n \in Nat, n = 0
  PROVE  2 ^ n = 1
<1>1. SUBSET (1..n) = {{}}
  OBVIOUS
<1>2. Cardinality({{}}) = 1
  BY FS_Singleton
<1> QED
  BY <1>1, <1>2, PowerCounts

LEMMA PowerNext ==
  ASSUME NEW n \in Nat
  PROVE  2 ^ (n + 1) = 2 * 2 ^ n
<1> DEFINE Old == SUBSET (1..n)
           add == [T \in Old |-> T \union {n + 1}]
           New == {T \union {n + 1} : T \in Old}
<1>1. IsFiniteSet(Old) /\ Cardinality(Old) = 2 ^ n
  BY PowerCounts
<1>2. add \in Bijection(Old, New)
  <2>1. \A T \in Old : n + 1 \notin T
    OBVIOUS
  <2>2. \A T, U \in Old : add[T] = add[U] => T = U
    BY <2>1
  <2>3. add \in Surjection(Old, New)
    BY DEF Surjection
  <2>4. add \in [Old -> New] /\ DOMAIN add = Old
    OBVIOUS
  <2>5. add \in Injection(Old, New)
    <3> HIDE DEF add, Old, New
    <3> QED
      BY <2>2, <2>4 DEF Injection, IsInjective
  <2> QED
    BY <2>3, <2>5 DEF Bijection
<1>3. IsFiniteSet(New) /\ Cardinality(New) = 2 ^ n
  <2>1. ExistsBijection(Old, New)
    BY <1>2 DEF ExistsBijection
  <2> HIDE DEF add, Old, New
  <2> QED
    BY <1>1, <2>1, FS_Bijection
<1>4. Old \intersect New = {}
  <2>1. \A T \in New : n + 1 \in T
    OBVIOUS
  <2>2. \A T \in Old : n + 1 \notin T
    OBVIOUS
  <2> QED
    BY <2>1, <2>2
<1>5. SUBSET (1..(n + 1)) = Old \union New
  <2>1. ASSUME NEW T \in SUBSET (1..(n + 1)) PROVE T \in Old \union New
    <3>1. CASE n + 1 \in T
      <4>1. T \ {n + 1} \in Old
        OBVIOUS
      <4>2. T = (T \ {n + 1}) \union {n + 1}
        BY <3>1
      <4> QED
        BY <4>1, <4>2
    <3>2. CASE n + 1 \notin T
      <4>1. T \in Old
        BY <3>2
      <4> QED
        BY <4>1
    <3> QED
      BY <3>1, <3>2
  <2>2. ASSUME NEW T \in Old \union New PROVE T \in SUBSET (1..(n + 1))
    OBVIOUS
  <2> QED
    BY <2>1, <2>2
<1>6. Cardinality(Old \union New) = 2 ^ n + 2 ^ n - Cardinality(Old \intersect New)
  <2> HIDE DEF Old, New
  <2> QED
    BY <1>1, <1>3, FS_Union
<1>7. Cardinality(Old \intersect New) = 0
  BY <1>4, FS_EmptySet
<1>8. Cardinality(SUBSET (1..(n + 1))) = 2 ^ (n + 1)
  BY PowerCounts
<1>9. 2 ^ n \in Nat
  BY PowerNat
<1>10. Cardinality(Old \union New) = 2 ^ n + 2 ^ n
  BY <1>6, <1>7, <1>9
<1>11. 2 ^ (n + 1) = 2 ^ n + 2 ^ n
  BY <1>5, <1>8, <1>10
<1> QED
  BY <1>9, <1>11

LEMMA PowerPositive ==
  ASSUME NEW n \in Nat
  PROVE  2 ^ n \in Nat \ {0}
<1> DEFINE Wrong == {m \in Nat : 2 ^ m = 0}
<1>1. SUFFICES ASSUME Wrong # {} PROVE FALSE
  BY PowerNat
<1>2. PICK m \in Wrong : \A y \in Wrong : m <= y
  <2> HIDE DEF Wrong
  <2>1. Wrong \subseteq Nat
    BY DEF Wrong
  <2> QED
    BY <1>1, <2>1, LeastNatural
<1>3. m # 0
  BY PowerZero
<1>4. m - 1 \in Nat /\ m - 1 \notin Wrong /\ (m - 1) + 1 = m
  BY <1>2, <1>3
<1>5. 2 ^ ((m - 1) + 1) = 2 * 2 ^ (m - 1) /\ 2 ^ (m - 1) \in Nat
  BY <1>4, PowerNext, PowerNat
<1> QED
  BY <1>4, <1>5

LEMMA PowerSum ==
  ASSUME NEW n \in Nat, NEW k \in Nat
  PROVE  2 ^ (n + k) = 2 ^ n * 2 ^ k
<1> DEFINE Wrong == {m \in Nat : 2 ^ (n + m) # 2 ^ n * 2 ^ m}
<1>1. SUFFICES ASSUME Wrong # {} PROVE FALSE
  OBVIOUS
<1>2. PICK m \in Wrong : \A y \in Wrong : m <= y
  <2> HIDE DEF Wrong
  <2>1. Wrong \subseteq Nat
    BY DEF Wrong
  <2> QED
    BY <1>1, <2>1, LeastNatural
<1>3. m # 0
  BY PowerZero, PowerNat
<1>4. m - 1 \in Nat /\ m - 1 \notin Wrong /\ (m - 1) + 1 = m /\ n + m = (n + (m - 1)) + 1
  BY <1>2, <1>3
<1>5. 2 ^ ((m - 1) + 1) = 2 * 2 ^ (m - 1) /\ 2 ^ (n + (m - 1) + 1) = 2 * 2 ^ (n + (m - 1))
  BY <1>4, PowerNext
<1>6. 2 ^ (n + (m - 1)) = 2 ^ n * 2 ^ (m - 1)
  BY <1>4
<1>7. 2 ^ n \in Nat /\ 2 ^ (m - 1) \in Nat
  BY <1>4, PowerNat
<1> QED
  BY <1>4, <1>5, <1>6, <1>7

\* Dropping the lowest bit.
LEMMA BitStep ==
  ASSUME NEW a \in Nat, NEW k \in Nat
  PROVE  /\ a \div 2 ^ k = 2 * (a \div 2 ^ (k + 1)) + ((a \div 2 ^ k) % 2)
         /\ (a \div 2 ^ k) % 2 \in 0..1 /\ a \div 2 ^ k \in Nat /\ a \div 2 ^ (k + 1) \in Nat
<1>1. 2 ^ k \in Nat \ {0} /\ 2 ^ (k + 1) = 2 ^ k * 2
  <2> DEFINE d == 2 ^ k
  <2>1. d \in Nat \ {0} /\ 2 ^ (k + 1) = 2 * d
    BY PowerPositive, PowerNext
  <2> HIDE DEF d
  <2>2. 2 * d = d * 2
    BY <2>1
  <2> QED
    BY <2>1, <2>2 DEF d
<1>2. (a \div 2 ^ k) \div 2 = a \div (2 ^ k * 2)
  BY <1>1, QuotientTwice
<1>3. a \div 2 ^ k \in Nat
  BY <1>1, Quotient
<1> DEFINE q == a \div 2 ^ k
<1> HIDE DEF q
<1>4. q = 2 * (q \div 2) + (q % 2) /\ q % 2 \in 0..1 /\ q \div 2 \in Nat
  <2>1. q \in Nat
    BY <1>3 DEF q
  <2> QED
    BY <2>1
<1> QED
  BY <1>1, <1>2, <1>3, <1>4 DEF q

-----------------------------------------------------------------------------
(* Cells by their paths *)

LEMMA AncestorPointwise ==
  ASSUME NEW a \in Seq(Int), NEW c \in Seq(Int)
  PROVE  IsAncestor(a, c) <=> Len(a) <= Len(c) /\ \A i \in 1..Len(a) : a[i] = c[i]
<1>1. Len(a) \in Nat /\ Len(c) \in Nat
  OBVIOUS
<1>2. a = [i \in 1..Len(a) |-> a[i]]
  OBVIOUS
<1>3. ASSUME Len(a) <= Len(c)
      PROVE  SubSeq(c, 1, Len(a)) = a <=> \A i \in 1..Len(a) : a[i] = c[i]
  <2>1. SubSeq(c, 1, Len(a)) = [i \in 1..Len(a) |-> c[i]]
    BY <1>1, <1>3
  <2> QED
    BY <1>2, <2>1
<1> QED
  BY <1>3 DEF IsAncestor

LEMMA AncestorOrder ==
  ASSUME NEW a \in Seq(Int), NEW b \in Seq(Int), NEW c \in Seq(Int)
  PROVE  /\ IsAncestor(a, a)
         /\ IsAncestor(a, b) /\ IsAncestor(b, c) => IsAncestor(a, c)
         /\ IsAncestor(a, c) /\ IsAncestor(b, c) /\ Len(a) <= Len(b) => IsAncestor(a, b)
         /\ IsAncestor(a, b) /\ Len(a) = Len(b) => a = b
<1>1. Len(a) \in Nat /\ Len(b) \in Nat /\ Len(c) \in Nat
  OBVIOUS
<1>2. IsAncestor(a, a)
  BY AncestorPointwise
<1>3. ASSUME IsAncestor(a, b), IsAncestor(b, c) PROVE IsAncestor(a, c)
  BY <1>1, <1>3, AncestorPointwise
<1>4. ASSUME IsAncestor(a, c), IsAncestor(b, c), Len(a) <= Len(b) PROVE IsAncestor(a, b)
  BY <1>1, <1>4, AncestorPointwise
<1>5. ASSUME IsAncestor(a, b), Len(a) = Len(b) PROVE a = b
  <2>1. SubSeq(b, 1, Len(b)) = b
    BY <1>1
  <2> QED
    BY <1>5, <2>1 DEF IsAncestor
<1> QED
  BY <1>2, <1>3, <1>4, <1>5

LEMMA PrecedesPointwise ==
  ASSUME NEW a \in Seq(Int), NEW c \in Seq(Int)
  PROVE  Precedes(a, c)
           <=> \E k \in 1..Len(a) : /\ k <= Len(c) /\ a[k] < c[k]
                                    /\ \A i \in 1..(k - 1) : a[i] = c[i]
<1>1. Len(a) \in Nat /\ Len(c) \in Nat
  OBVIOUS
<1>2. ASSUME NEW k \in 1..Len(a), k <= Len(c)
      PROVE  SubSeq(a, 1, k - 1) = SubSeq(c, 1, k - 1)
               <=> \A i \in 1..(k - 1) : a[i] = c[i]
  <2>1. k - 1 \in Nat /\ k - 1 <= Len(a) /\ k - 1 <= Len(c)
    BY <1>1, <1>2
  <2>2. /\ SubSeq(a, 1, k - 1) = [i \in 1..(k - 1) |-> a[i]]
        /\ SubSeq(c, 1, k - 1) = [i \in 1..(k - 1) |-> c[i]]
    BY <1>1, <2>1
  <2> QED
    BY <2>2
<1> QED
  BY <1>2 DEF Precedes

\* The order of cells is an order of the cells below them; cells in order do not nest.
LEMMA PrecedesOrder ==
  ASSUME NEW a \in Seq(Int), NEW b \in Seq(Int)
  PROVE  /\ Precedes(a, b) => ~IsAncestor(a, b) /\ ~IsAncestor(b, a) /\ a # b
         /\ Precedes(a, b) => ~Precedes(b, a)
         /\ \A d \in Seq(Int) : Precedes(a, b) /\ IsAncestor(b, d) => Precedes(a, d)
         /\ \A d \in Seq(Int) : Precedes(a, b) /\ IsAncestor(a, d) => Precedes(d, b)
<1>1. Len(a) \in Nat /\ Len(b) \in Nat
  OBVIOUS
<1>2. ASSUME Precedes(a, b)
      PROVE  /\ ~IsAncestor(a, b) /\ ~IsAncestor(b, a) /\ a # b /\ ~Precedes(b, a)
             /\ \A d \in Seq(Int) : IsAncestor(b, d) => Precedes(a, d)
             /\ \A d \in Seq(Int) : IsAncestor(a, d) => Precedes(d, b)
  <2>1. PICK k \in 1..Len(a) : /\ k <= Len(b) /\ a[k] < b[k]
                               /\ \A i \in 1..(k - 1) : a[i] = b[i]
    BY <1>2, PrecedesPointwise
  <2>2. /\ k \in Nat /\ k \in 1..Len(a) /\ k \in 1..Len(b)
        /\ a[k] \in Int /\ b[k] \in Int /\ a[k] # b[k]
    BY <1>1, <2>1
  <2>3. ~IsAncestor(a, b) /\ ~IsAncestor(b, a)
    BY <2>2, AncestorPointwise
  <2>4. ASSUME Precedes(b, a) PROVE FALSE
    <3>1. PICK m \in 1..Len(b) : /\ m <= Len(a) /\ b[m] < a[m]
                                 /\ \A i \in 1..(m - 1) : b[i] = a[i]
      BY <2>4, PrecedesPointwise
    <3>2. m \in Nat /\ a[m] \in Int /\ b[m] \in Int /\ a[m] # b[m]
      BY <1>1, <3>1
    <3>3. ~(m < k) /\ ~(k < m)
      BY <2>1, <2>2, <3>1, <3>2
    <3>4. m = k
      BY <2>2, <3>2, <3>3
    <3> QED
      BY <2>1, <2>2, <3>1, <3>4
  <2>5. ASSUME NEW d \in Seq(Int), IsAncestor(b, d) PROVE Precedes(a, d)
    <3>1. Len(b) <= Len(d) /\ \A i \in 1..Len(b) : b[i] = d[i]
      BY <2>5, AncestorPointwise
    <3>2. k <= Len(d) /\ d[k] = b[k]
      BY <1>1, <2>2, <3>1
    <3>3. ASSUME NEW i \in 1..(k - 1) PROVE a[i] = d[i]
      <4>1. i \in 1..Len(b)
        BY <1>1, <2>2
      <4> QED
        BY <2>1, <3>1, <4>1
    <3> QED
      BY <2>1, <3>2, <3>3, PrecedesPointwise
  <2>6. ASSUME NEW d \in Seq(Int), IsAncestor(a, d) PROVE Precedes(d, b)
    <3>1. Len(a) <= Len(d) /\ (\A i \in 1..Len(a) : a[i] = d[i]) /\ Len(d) \in Nat
      BY <2>6, AncestorPointwise
    <3>2. k \in 1..Len(d) /\ d[k] = a[k]
      BY <1>1, <2>2, <3>1
    <3>3. ASSUME NEW i \in 1..(k - 1) PROVE d[i] = b[i]
      <4>1. i \in 1..Len(a)
        BY <1>1, <2>2
      <4> QED
        BY <2>1, <3>1, <4>1
    <3> QED
      BY <2>1, <3>2, <3>3, PrecedesPointwise
  <2> QED
    BY <2>2, <2>3, <2>4, <2>5, <2>6
<1> QED
  BY <1>2

LEMMA FunctionIsSequence ==
  ASSUME NEW T, NEW n \in Nat, NEW f \in [1..n -> T]
  PROVE  f \in Seq(T)
BY SeqDef

\* The beginning of a path.
LEMMA SubPath ==
  ASSUME NEW c \in Seq(Nat), NEW k \in 0..Len(c)
  PROVE  /\ SubSeq(c, 1, k) \in Seq(Nat) /\ SubSeq(c, 1, k) \in Seq(Int)
         /\ Len(SubSeq(c, 1, k)) = k
         /\ \A i \in 1..k : SubSeq(c, 1, k)[i] = c[i]
<1>1. SubSeq(c, 1, k) = [i \in 1..k |-> c[i]]
  OBVIOUS
<1>2. Len(c) \in Nat
  OBVIOUS
<1>3. \A i \in 1..k : c[i] \in Nat
  BY <1>2, ElementOfSeq
<1>4. [i \in 1..k |-> c[i]] \in Seq(Nat)
  BY <1>2, <1>3, FunctionIsSequence
<1>5. Len([i \in 1..k |-> c[i]]) = k
  BY <1>2, <1>4, LenProperties
<1> DEFINE s == [i \in 1..k |-> c[i]]
<1>6. s \in Seq(Int)
  BY <1>4
<1>7. \A i \in 1..k : s[i] = c[i]
  OBVIOUS
<1> HIDE DEF s
<1> QED
  BY <1>1, <1>4, <1>5, <1>6, <1>7 DEF s

LEMMA PathsEqual ==
  ASSUME NEW a \in Seq(Int), NEW b \in Seq(Int), Len(a) = Len(b),
         \A i \in 1..Len(a) : a[i] = b[i]
  PROVE  a = b
BY AncestorPointwise, AncestorOrder

\* The tree holds the ancestors of what it holds.
LEMMA PrefixesInTree ==
  ASSUME NEW L, \A leaf \in L : leaf \in Seq(Int),
         NEW c \in Seq(Nat), NEW k \in 1..Len(c), NEW j \in 1..k,
         InTree(L, SubSeq(c, 1, k))
  PROVE  InTree(L, SubSeq(c, 1, j))
<1>1. PICK leaf \in L : IsAncestor(SubSeq(c, 1, k), leaf)
  BY DEF InTree
<1>2. k \in 0..Len(c) /\ j \in 0..Len(c) /\ j <= k /\ j \in Nat /\ k \in Nat
  OBVIOUS
<1> DEFINE a == SubSeq(c, 1, j)
           b == SubSeq(c, 1, k)
<1>3. /\ a \in Seq(Int) /\ Len(a) = j /\ \A i \in 1..j : a[i] = c[i]
      /\ b \in Seq(Int) /\ Len(b) = k /\ \A i \in 1..k : b[i] = c[i]
  BY <1>2, SubPath
<1> HIDE DEF a, b
<1>4. IsAncestor(a, b)
  <2>1. \A i \in 1..j : i \in 1..k
    BY <1>2
  <2>2. Len(a) <= Len(b) /\ \A i \in 1..Len(a) : a[i] = b[i]
    BY <1>2, <1>3, <2>1
  <2> QED
    BY <1>3, <2>2, AncestorPointwise
<1>5. IsAncestor(a, leaf)
  BY <1>1, <1>3, <1>4, AncestorOrder DEF b
<1> QED
  BY <1>5 DEF InTree, a

\* The deepest ancestor is the prefix whose successor is no longer in the tree.
LEMMA DeepestFound ==
  ASSUME NEW L, \A leaf \in L : leaf \in Seq(Int),
         NEW c \in Seq(Nat), NEW n \in 1..Len(c),
         InTree(L, SubSeq(c, 1, n)),
         n # Len(c) => ~InTree(L, SubSeq(c, 1, n + 1))
  PROVE  DeepestAncestor(L, c) = SubSeq(c, 1, n)
<1>1. Len(c) \in Nat /\ n \in Nat
  OBVIOUS
<1>2. ASSUME NEW k \in 1..Len(c), InTree(L, SubSeq(c, 1, k))
      PROVE  k <= n
  <2> SUFFICES ASSUME k > n PROVE FALSE
    BY <1>1
  <2>1. n + 1 \in 1..k /\ n # Len(c)
    BY <1>1
  <2> QED
    BY <1>2, <2>1, PrefixesInTree
<1>3. \A k \in 1..Len(c) : Len(SubSeq(c, 1, k)) = k
  <2>1. \A k \in 1..Len(c) : k \in 0..Len(c)
    OBVIOUS
  <2> QED
    BY <2>1, SubPath
<1> DEFINE P(a) == /\ InTree(L, a)
                   /\ \A k \in 1..Len(c) : InTree(L, SubSeq(c, 1, k)) => k <= Len(a)
           Prefixes == {SubSeq(c, 1, k) : k \in 1..Len(c)}
<1>4. SubSeq(c, 1, n) \in Prefixes /\ P(SubSeq(c, 1, n))
  BY <1>2, <1>3
<1>5. ASSUME NEW a \in Prefixes, P(a) PROVE a = SubSeq(c, 1, n)
  <2>1. PICK k \in 1..Len(c) : a = SubSeq(c, 1, k)
    OBVIOUS
  <2>2. k <= n /\ n <= k
    BY <1>2, <1>3, <1>5, <2>1
  <2> QED
    BY <1>1, <2>1, <2>2
<1>6. DeepestAncestor(L, c) = CHOOSE a \in Prefixes : P(a)
  BY DEF DeepestAncestor
<1> HIDE DEF P, Prefixes
<1> QED
  BY <1>4, <1>5, <1>6

-----------------------------------------------------------------------------
(* Recurrences that double a value at each step *)

Doubles(h, n, a, d) == h[0] = a /\ \A k \in 1..n : h[k] = 2 * h[k - 1] + d[k]

\* The values of such a recurrence exist for every length.
LEMMA DoublingExists ==
  ASSUME NEW N \in Nat, NEW a \in Int, NEW d, \A k \in 1..N : d[k] \in Int
  PROVE  \E h \in [0..N -> Int] : Doubles(h, N, a, d)
<1> DEFINE Missing == {n \in Nat : n <= N /\ ~ \E h \in [0..n -> Int] : Doubles(h, n, a, d)}
<1>1. SUFFICES ASSUME Missing # {} PROVE FALSE
  OBVIOUS
<1>2. PICK n \in Missing : \A y \in Missing : n <= y
  <2>1. Missing \subseteq Nat
    OBVIOUS
  <2> HIDE DEF Missing
  <2> QED
    BY <1>1, <2>1, LeastNatural
<1>3. CASE n = 0
  <2> DEFINE h == [k \in 0..0 |-> a]
  <2>1. h \in [0..0 -> Int] /\ h[0] = a
    OBVIOUS
  <2>2. Doubles(h, 0, a, d)
    BY <2>1 DEF Doubles
  <2> QED
    BY <1>3, <2>1, <2>2
<1>4. CASE n # 0
  <2>1. n - 1 \in Nat /\ n - 1 <= N /\ ~ (n <= n - 1) /\ d[n] \in Int /\ n \in Nat
    BY <1>4
  <2>2. PICK h \in [0..(n - 1) -> Int] : Doubles(h, n - 1, a, d)
    BY <1>2, <2>1
  <2> DEFINE g == [k \in 0..n |-> IF k = n THEN 2 * h[n - 1] + d[n] ELSE h[k]]
  <2>3. h[n - 1] \in Int
    BY <2>1, <2>2
  <2>4. g \in [0..n -> Int]
    BY <2>1, <2>2, <2>3
  <2>5. g[0] = a
    BY <2>1, <2>2, <1>4 DEF Doubles
  <2>6. \A k \in 1..n : g[k] = 2 * g[k - 1] + d[k]
    BY <2>1, <2>2 DEF Doubles
  <2>7. Doubles(g, n, a, d)
    <3> HIDE DEF g
    <3> QED
      BY <2>5, <2>6 DEF Doubles
  <2> HIDE DEF g
  <2> QED
    BY <2>4, <2>7
<1> QED
  BY <1>3, <1>4

\* They are determined, wherever the recurrence ends.
LEMMA DoublingAgree ==
  ASSUME NEW n \in Nat, NEW m \in Nat, NEW a, NEW d, NEW g, NEW h,
         Doubles(g, n, a, d), Doubles(h, m, a, d)
  PROVE  \A k \in 0..n : k <= m => g[k] = h[k]
<1> DEFINE Wrong == {k \in Nat : k <= n /\ k <= m /\ g[k] # h[k]}
<1>1. SUFFICES ASSUME Wrong # {} PROVE FALSE
  OBVIOUS
<1>2. PICK k \in Wrong : \A y \in Wrong : k <= y
  <2>1. Wrong \subseteq Nat
    OBVIOUS
  <2> HIDE DEF Wrong
  <2> QED
    BY <1>1, <2>1, LeastNatural
<1>3. k # 0
  BY DEF Doubles
<1>4. k \in 1..n /\ k \in 1..m /\ k - 1 \in Nat /\ ~ (k <= k - 1)
  BY <1>3
<1>5. g[k - 1] = h[k - 1]
  BY <1>2, <1>4
<1>6. g[k] = 2 * g[k - 1] + d[k] /\ h[k] = 2 * h[k - 1] + d[k]
  BY <1>4 DEF Doubles
<1> QED
  BY <1>5, <1>6

\* A function defined by such a recurrence obeys it, and is a function to
\* integers.
LEMMA DoublingIs ==
  ASSUME NEW N \in Nat, NEW a \in Int, NEW d, \A k \in 1..N : d[k] \in Int,
         NEW h, h = [k \in 0..N |-> IF k = 0 THEN a ELSE 2 * h[k - 1] + d[k]]
  PROVE  Doubles(h, N, a, d) /\ h \in [0..N -> Int]
<1>1. Doubles(h, N, a, d)
  BY DEF Doubles
<1>2. PICK g \in [0..N -> Int] : Doubles(g, N, a, d)
  BY DoublingExists
<1>3. \A k \in 0..N : h[k] = g[k]
  BY <1>1, <1>2, DoublingAgree
<1>4. \A k \in 0..N : h[k] \in Int
  BY <1>2, <1>3
<1>5. h = [k \in 0..N |-> h[k]]
  OBVIOUS
<1> QED
  BY <1>1, <1>4, <1>5

LEMMA DoublingFunction ==
  ASSUME NEW N \in Nat, NEW a \in Int, NEW d, \A k \in 1..N : d[k] \in Int,
         NEW h, h \in [0..N -> Int], Doubles(h, N, a, d)
  PROVE  h = [k \in 0..N |-> IF k = 0 THEN a ELSE 2 * h[k - 1] + d[k]]
<1>1. \A k \in 0..N : h[k] = IF k = 0 THEN a ELSE 2 * h[k - 1] + d[k]
  BY DEF Doubles
<1> QED
  BY <1>1

-----------------------------------------------------------------------------
(* Sums over two functions *)

\* Where a claim about subsets fails, a member can be removed that makes it true.
LEMMA SmallestWrong ==
  ASSUME NEW A, IsFiniteSet(A), NEW Wrong, Wrong \subseteq SUBSET A, Wrong # {}, {} \notin Wrong
  PROVE  \E T \in Wrong : \E x \in T :
           /\ T \ {x} \notin Wrong /\ T \ {x} \in SUBSET A /\ T \in SUBSET A
           /\ IsFiniteSet(T) /\ IsFiniteSet(T \ {x})
<1>1. PICK T \in Wrong : \A U \in Wrong : Cardinality(T) <= Cardinality(U)
  <2>1. \A T \in Wrong : IsFiniteSet(T)
    BY FS_Subset
  <2> QED
    BY <2>1, LeastSet
<1>2. PICK x : x \in T
  BY <1>1
<1> DEFINE U == T \ {x}
<1>3. IsFiniteSet(T) /\ IsFiniteSet(U) /\ Cardinality(U) = Cardinality(T) - 1 /\ Cardinality(T) \in Nat
  BY <1>2, FS_Subset, FS_CardinalityType, FS_RemoveElement
<1>4. U \notin Wrong
  <2>1. ~ (Cardinality(T) <= Cardinality(U))
    BY <1>3
  <2> QED
    BY <1>1, <2>1
<1> QED
  BY <1>1, <1>2, <1>3, <1>4

\* Values a times as large have a sum a times as large.
LEMMA SetSumScaled ==
  ASSUME NEW f, NEW g, NEW A, IsFiniteSet(A), NEW c \in Nat,
         \A a \in A : g[a] \in Nat /\ f[a] = c * g[a]
  PROVE  SetSum(f, A) = c * SetSum(g, A)
<1> DEFINE Wrong == {T \in SUBSET A : SetSum(f, T) # c * SetSum(g, T)}
<1>1. SUFFICES ASSUME Wrong # {} PROVE FALSE
  OBVIOUS
<1>2. {} \notin Wrong
  <2>1. SetSum(f, {}) = 0 /\ SetSum(g, {}) = 0
    BY SetSumEmpty
  <2> QED
    BY <2>1
<1>3. PICK T \in Wrong : \E x \in T :
        /\ T \ {x} \notin Wrong /\ T \ {x} \in SUBSET A /\ T \in SUBSET A
        /\ IsFiniteSet(T) /\ IsFiniteSet(T \ {x})
  <2> HIDE DEF Wrong
  <2>1. Wrong \subseteq SUBSET A
    BY DEF Wrong
  <2> QED
    BY <1>1, <1>2, <2>1, SmallestWrong
<1>4. PICK x \in T : /\ T \ {x} \notin Wrong /\ T \ {x} \in SUBSET A /\ T \in SUBSET A
                     /\ IsFiniteSet(T) /\ IsFiniteSet(T \ {x})
  BY <1>3
<1>5. \A a \in T : g[a] \in Nat /\ f[a] \in Nat
  BY <1>4
<1> DEFINE a == g[x]
           b == SetSum(g, T \ {x})
<1>6. SetSum(g, T) = a + b /\ a \in Nat /\ b \in Nat
  BY <1>4, <1>5, SetSumRemove
<1>7. SetSum(f, T) = c * a + c * b
  <2>1. SetSum(f, T) = f[x] + SetSum(f, T \ {x})
    BY <1>4, <1>5, SetSumRemove
  <2> QED
    BY <1>4, <2>1
<1> HIDE DEF a, b
<1>8. c * (a + b) = c * a + c * b
  BY <1>6
<1> QED
  BY <1>6, <1>7, <1>8

\* Doubled values have a doubled sum.
LEMMA SetSumTwice ==
  ASSUME NEW f, NEW g, NEW A, IsFiniteSet(A),
         \A a \in A : g[a] \in Nat /\ f[a] = 2 * g[a]
  PROVE  SetSum(f, A) = 2 * SetSum(g, A)
<1> DEFINE two == 2
<1>1. two \in Nat /\ \A a \in A : g[a] \in Nat /\ f[a] = two * g[a]
  OBVIOUS
<1> HIDE DEF two
<1>2. SetSum(f, A) = two * SetSum(g, A)
  BY <1>1, SetSumScaled
<1> QED
  BY <1>2 DEF two

\* Added values have an added sum.
LEMMA SetSumPlus ==
  ASSUME NEW f, NEW g, NEW h, NEW A, IsFiniteSet(A),
         \A a \in A : g[a] \in Nat /\ h[a] \in Nat /\ f[a] = g[a] + h[a]
  PROVE  /\ SetSum(f, A) = SetSum(g, A) + SetSum(h, A)
         /\ SetSum(g, A) \in Nat /\ SetSum(h, A) \in Nat
<1> DEFINE Wrong == {T \in SUBSET A : SetSum(f, T) # SetSum(g, T) + SetSum(h, T)}
<1>1. SUFFICES ASSUME Wrong # {} PROVE FALSE
  BY SetSumNat
<1>2. {} \notin Wrong
  <2>1. SetSum(f, {}) = 0 /\ SetSum(g, {}) = 0 /\ SetSum(h, {}) = 0
    BY SetSumEmpty
  <2> QED
    BY <2>1
<1>3. PICK T \in Wrong : \E x \in T :
        /\ T \ {x} \notin Wrong /\ T \ {x} \in SUBSET A /\ T \in SUBSET A
        /\ IsFiniteSet(T) /\ IsFiniteSet(T \ {x})
  <2> HIDE DEF Wrong
  <2>1. Wrong \subseteq SUBSET A
    BY DEF Wrong
  <2> QED
    BY <1>1, <1>2, <2>1, SmallestWrong
<1>4. PICK x \in T : /\ T \ {x} \notin Wrong /\ T \ {x} \in SUBSET A /\ T \in SUBSET A
                     /\ IsFiniteSet(T) /\ IsFiniteSet(T \ {x})
  BY <1>3
<1>5. \A a \in T : g[a] \in Nat /\ h[a] \in Nat /\ f[a] \in Nat
  BY <1>4
<1> DEFINE U == T \ {x}
<1>6. SetSum(g, T) = g[x] + SetSum(g, U) /\ SetSum(g, U) \in Nat /\ g[x] \in Nat
  BY <1>4, <1>5, SetSumRemove
<1>7. SetSum(h, T) = h[x] + SetSum(h, U) /\ SetSum(h, U) \in Nat /\ h[x] \in Nat
  BY <1>4, <1>5, SetSumRemove
<1>8. SetSum(f, T) = f[x] + SetSum(f, U) /\ f[x] = g[x] + h[x]
  BY <1>4, <1>5, SetSumRemove
<1>9. SetSum(f, U) = SetSum(g, U) + SetSum(h, U)
  BY <1>4
<1>10. SetSum(f, T) # SetSum(g, T) + SetSum(h, T)
  BY <1>4
<1> HIDE DEF U, Wrong
<1> QED
  BY <1>6, <1>7, <1>8, <1>9, <1>10

\* Equal values sum to a product.
LEMMA SetSumConstant ==
  ASSUME NEW f, NEW A, IsFiniteSet(A), NEW w \in Nat, \A a \in A : f[a] = w
  PROVE  SetSum(f, A) = Cardinality(A) * w
<1> DEFINE Wrong == {T \in SUBSET A : SetSum(f, T) # Cardinality(T) * w}
           Sizes1 == {Cardinality(T) : T \in Wrong}
<1>1. SUFFICES ASSUME Wrong # {} PROVE FALSE
  OBVIOUS
<1>2. \A T \in SUBSET A : IsFiniteSet(T) /\ Cardinality(T) \in Nat
  BY FS_Subset, FS_CardinalityType
<1>3. PICK T \in Wrong : \A U \in Wrong : Cardinality(T) <= Cardinality(U)
  <2>1. Sizes1 \subseteq Nat /\ Sizes1 # {}
    BY <1>1, <1>2
  <2>2. PICK k \in Sizes1 : \A y \in Sizes1 : k <= y
    <3> HIDE DEF Sizes1
    <3> QED
      BY <2>1, LeastNatural
  <2> QED
    BY <2>2
<1>4. T # {}
  <2>1. SetSum(f, {}) = 0 /\ Cardinality({}) = 0
    BY SetSumEmpty, FS_EmptySet
  <2>2. SetSum(f, {}) = Cardinality({}) * w
    BY <2>1
  <2> QED
    BY <2>2
<1>5. PICK x : x \in T
  BY <1>4
<1> DEFINE U == T \ {x}
           n == Cardinality(U)
<1>6. /\ IsFiniteSet(T) /\ U \in SUBSET A /\ Cardinality(T) = n + 1 /\ n \in Nat
  BY <1>2, <1>5, FS_RemoveElement
<1>7. SetSum(f, U) = n * w
  <2>1. ~ (Cardinality(T) <= Cardinality(U))
    BY <1>6
  <2> QED
    BY <1>3, <1>6, <2>1
<1>8. SetSum(f, T) = f[x] + SetSum(f, U) /\ f[x] = w
  <2>1. \A a \in T : f[a] \in Nat
    OBVIOUS
  <2> QED
    BY <1>5, <1>6, <2>1, SetSumRemove
<1> HIDE DEF n
<1>9. (n + 1) * w = n * w + w /\ n * w \in Nat
  BY <1>6
<1>10. SetSum(f, T) = Cardinality(T) * w
  <2> DEFINE p == n * w
  <2>1. SetSum(f, T) = w + p /\ (n + 1) * w = p + w /\ p \in Nat
    BY <1>7, <1>8, <1>9
  <2> HIDE DEF p
  <2>2. SetSum(f, T) = (n + 1) * w
    BY <2>1
  <2> QED
    BY <1>6, <2>2
<1> QED
  BY <1>10

\* The sum depends on the values of the set's members only.
LEMMA SetSumSame ==
  ASSUME NEW f, NEW g, NEW A, IsFiniteSet(A),
         \A a \in A : g[a] \in Nat /\ f[a] = g[a]
  PROVE  SetSum(f, A) = SetSum(g, A)
<1> DEFINE h == [a \in A |-> 2 * g[a]]
<1>1. \A a \in A : h[a] = 2 * g[a] /\ h[a] = 2 * f[a] /\ f[a] \in Nat
  OBVIOUS
<1> HIDE DEF h
<1>2. SetSum(h, A) = 2 * SetSum(g, A) /\ SetSum(h, A) = 2 * SetSum(f, A)
  BY <1>1, SetSumTwice
<1>3. SetSum(f, A) \in Nat /\ SetSum(g, A) \in Nat
  BY <1>1, SetSumNat
<1> QED
  BY <1>2, <1>3

\* A sum may be taken over other names for the same values.
LEMMA SetSumImage ==
  ASSUME NEW f, NEW g, NEW e, NEW A, IsFiniteSet(A),
         \A a \in A : g[a] \in Nat /\ f[e[a]] = g[a],
         \A a, b \in A : e[a] = e[b] => a = b
  PROVE  SetSum(f, {e[a] : a \in A}) = SetSum(g, A)
<1> DEFINE Named(T) == {e[a] : a \in T}
           Wrong == {T \in SUBSET A : SetSum(f, Named(T)) # SetSum(g, T)}
<1>1. SUFFICES ASSUME Wrong # {} PROVE FALSE
  OBVIOUS
<1>2. {} \notin Wrong
  <2>1. SetSum(f, {}) = 0 /\ SetSum(g, {}) = 0 /\ Named({}) = {}
    BY SetSumEmpty
  <2> QED
    BY <2>1
<1>3. PICK T \in Wrong : \E x \in T :
        /\ T \ {x} \notin Wrong /\ T \ {x} \in SUBSET A /\ T \in SUBSET A
        /\ IsFiniteSet(T) /\ IsFiniteSet(T \ {x})
  <2> HIDE DEF Wrong
  <2>1. Wrong \subseteq SUBSET A
    BY DEF Wrong
  <2> QED
    BY <1>1, <1>2, <2>1, SmallestWrong
<1>4. PICK x \in T : /\ T \ {x} \notin Wrong /\ T \ {x} \in SUBSET A /\ T \in SUBSET A
                     /\ IsFiniteSet(T) /\ IsFiniteSet(T \ {x})
  BY <1>3
<1>5. \A a \in T : g[a] \in Nat
  BY <1>4
<1> DEFINE U == T \ {x}
<1>6. SetSum(g, T) = g[x] + SetSum(g, U)
  BY <1>4, <1>5, SetSumRemove
<1>7. SetSum(f, Named(T)) = f[e[x]] + SetSum(f, Named(U))
  <2> DEFINE N == Named(T)
             y == e[x]
  <2>1. y \in N /\ N \ {y} = Named(U)
    BY <1>4
  <2>2. \A b \in N : f[b] \in Nat
    BY <1>4
  <2>3. IsFiniteSet(N)
    <3> DEFINE s == [a \in T |-> e[a]]
    <3>1. s \in Surjection(T, N)
      BY DEF Surjection
    <3> HIDE DEF N, s
    <3> QED
      BY <1>4, <3>1, FS_Surjection
  <2> HIDE DEF N, y
  <2>4. SetSum(f, N) = f[y] + SetSum(f, N \ {y})
    BY <2>1, <2>2, <2>3, SetSumRemove
  <2> QED
    BY <2>1, <2>4 DEF N, y
<1>8. SetSum(f, Named(U)) = SetSum(g, U) /\ f[e[x]] = g[x]
  BY <1>4
<1> QED
  BY <1>6, <1>7, <1>8

\* Two values of a sum exchanged, or replaced by others.
LEMMA SetSumTwo ==
  ASSUME NEW f, NEW A, IsFiniteSet(A), NEW a \in A, NEW b \in A, a # b, \A x \in A : f[x] \in Nat
  PROVE  /\ SetSum(f, A) = f[a] + f[b] + SetSum(f, A \ {a, b})
         /\ SetSum(f, A \ {a, b}) \in Nat
<1> DEFINE B == A \ {a}
<1>1. SetSum(f, A) = f[a] + SetSum(f, B)
  BY SetSumRemove
<1>2. IsFiniteSet(B) /\ b \in B /\ \A x \in B : f[x] \in Nat
  BY FS_RemoveElement
<1> HIDE DEF B
<1>3. SetSum(f, B) = f[b] + SetSum(f, B \ {b}) /\ SetSum(f, B \ {b}) \in Nat
  BY <1>2, SetSumRemove
<1>4. B \ {b} = A \ {a, b}
  BY DEF B
<1> DEFINE p == f[a]
           q == f[b]
           r == SetSum(f, A \ {a, b})
<1>5. p \in Nat /\ q \in Nat /\ r \in Nat /\ SetSum(f, A) = p + (q + r)
  BY <1>1, <1>3, <1>4
<1> HIDE DEF p, q, r
<1>6. SetSum(f, A) = p + q + r
  BY <1>5
<1> QED
  BY <1>5, <1>6 DEF p, q, r

\* A member in the place of two.
LEMMA SetSumJoined ==
  ASSUME NEW f, NEW s, NEW A, IsFiniteSet(A), NEW x \in A, NEW y \in A, x # y,
         NEW z, z \notin A \ {x, y},
         \A n \in A : f[n] \in Nat, s[z] \in Nat, \A n \in A \ {x, y} : s[n] = f[n]
  PROVE  \E t \in Nat : /\ SetSum(f, A) = f[x] + f[y] + t
                        /\ SetSum(s, (A \ {x, y}) \union {z}) = s[z] + t
<1> DEFINE R == A \ {x, y}
           B == R \union {z}
<1>1. IsFiniteSet(R) /\ IsFiniteSet(B) /\ B \ {z} = R /\ z \in B /\ R \subseteq A
  <2>1. IsFiniteSet(R)
    BY FS_Difference
  <2> QED
    BY <2>1, FS_AddElement
<1>2. \A n \in B : s[n] \in Nat
  OBVIOUS
<1>3. \A n \in R : f[n] \in Nat /\ s[n] = f[n]
  OBVIOUS
<1>4. SetSum(f, A) = f[x] + f[y] + SetSum(f, R) /\ SetSum(f, R) \in Nat
  BY SetSumTwo
<1> HIDE DEF R, B
<1>5. SetSum(s, B) = s[z] + SetSum(s, B \ {z})
  BY <1>1, <1>2, SetSumRemove
<1>6. SetSum(s, R) = SetSum(f, R)
  BY <1>1, <1>3, SetSumSame
<1> QED
  BY <1>1, <1>4, <1>5, <1>6 DEF R, B

\* The sum over one member.
LEMMA SetSumOne ==
  ASSUME NEW f, NEW x, f[x] \in Nat
  PROVE  SetSum(f, {x}) = f[x]
<1> DEFINE T == {x}
<1>1. x \in T /\ T \ {x} = {} /\ IsFiniteSet(T) /\ \A a \in T : f[a] \in Nat
  BY FS_Singleton
<1> HIDE DEF T
<1>2. SetSum(f, T) = f[x] + SetSum(f, T \ {x})
  BY <1>1, SetSumRemove
<1>3. SetSum(f, T \ {x}) = 0
  BY <1>1, SetSumEmpty
<1>4. SetSum(f, T) = f[x]
  BY <1>2, <1>3
<1> QED
  BY <1>4 DEF T

-----------------------------------------------------------------------------
(* Ranks *)

\* How many members of a set have a smaller key.
KeyRank(S, K, x) == Cardinality({y \in S : K[y] < K[x]})

LEMMA Ranks ==
  ASSUME NEW S, IsFiniteSet(S), NEW K, \A x \in S : K[x] \in Nat,
         \A x, y \in S : K[x] = K[y] => x = y
  PROVE  /\ Cardinality(S) \in Nat
         /\ \A x \in S : KeyRank(S, K, x) \in 0..(Cardinality(S) - 1)
         /\ \A x, y \in S : K[x] < K[y] => KeyRank(S, K, x) < KeyRank(S, K, y)
         /\ \A x, y \in S : KeyRank(S, K, x) = KeyRank(S, K, y) => x = y
         /\ \A i \in 0..(Cardinality(S) - 1) : \E x \in S : KeyRank(S, K, x) = i
<1> DEFINE Lower(x) == {y \in S : K[y] < K[x]}
           n == Cardinality(S)
<1>0. n \in Nat /\ \A x : KeyRank(S, K, x) = Cardinality(Lower(x))
  BY FS_CardinalityType DEF KeyRank
<1>1. ASSUME NEW A, NEW B, A \subseteq B, B \subseteq S, NEW x \in B, x \notin A
      PROVE  /\ Cardinality(A) \in Nat /\ Cardinality(B) \in Nat
             /\ Cardinality(A) < Cardinality(B)
  <2>1. IsFiniteSet(B)
    BY <1>1, FS_Subset
  <2>2. IsFiniteSet(A) /\ Cardinality(A) <= Cardinality(B)
        /\ (Cardinality(B) = Cardinality(A) => B = A)
    BY <1>1, <2>1, FS_Subset
  <2>3. Cardinality(A) \in Nat /\ Cardinality(B) \in Nat
    BY <2>1, <2>2, FS_CardinalityType
  <2> QED
    BY <1>1, <2>2, <2>3
<1>2. ASSUME NEW x \in S PROVE KeyRank(S, K, x) \in 0..(n - 1)
  <2>1. Lower(x) \subseteq S /\ x \notin Lower(x)
    OBVIOUS
  <2> HIDE DEF Lower
  <2>2. Cardinality(Lower(x)) \in Nat /\ Cardinality(Lower(x)) < n
    BY <1>1, <2>1
  <2> QED
    BY <1>0, <2>2
<1>3. ASSUME NEW x \in S, NEW y \in S, K[x] < K[y]
      PROVE  KeyRank(S, K, x) < KeyRank(S, K, y)
  <2>1. Lower(x) \subseteq Lower(y) /\ Lower(y) \subseteq S /\ x \in Lower(y) /\ x \notin Lower(x)
    BY <1>3
  <2> HIDE DEF Lower
  <2> QED
    BY <1>0, <1>1, <2>1
<1>4. ASSUME NEW x \in S, NEW y \in S, KeyRank(S, K, x) = KeyRank(S, K, y) PROVE x = y
  <2>1. KeyRank(S, K, x) \in Nat
    BY <1>0, <1>2
  <2>2. K[x] \in Nat /\ K[y] \in Nat
    OBVIOUS
  <2>3. ~ (K[x] < K[y]) /\ ~ (K[y] < K[x])
    BY <1>3, <1>4, <2>1
  <2> QED
    BY <2>2, <2>3
<1>5. \A i \in 0..(n - 1) : \E x \in S : KeyRank(S, K, x) = i
  <2> DEFINE T == 0..(n - 1)
             f == [x \in S |-> KeyRank(S, K, x)]
  <2>1. IsFiniteSet(T) /\ Cardinality(T) = n
    BY <1>0, FS_Interval
  <2>2. f \in Injection(S, T)
    <3>1. f \in [S -> T]
      BY <1>2
    <3>2. \A x, y \in S : f[x] = f[y] => x = y
      BY <1>4
    <3> HIDE DEF f, T
    <3> QED
      BY <3>1, <3>2 DEF Injection, IsInjective
  <2> HIDE DEF f, T
  <2>3. f \in Surjection(S, T)
    BY <2>1, <2>2, FS_Injection
  <2>4. \A i \in T : \E x \in S : f[x] = i
    BY <2>3 DEF Surjection
  <2> QED
    BY <2>4 DEF f, T
<1> QED
  BY <1>0, <1>2, <1>3, <1>4, <1>5

LEMMA PairKey ==
  ASSUME NEW n \in Nat \ {0}, NEW a \in Nat, NEW b \in Nat, NEW v \in Nat, NEW w \in Nat,
         v < n, w < n
  PROVE  /\ a * n + v \in Nat
         /\ a * n + v < b * n + w <=> a < b \/ (a = b /\ v < w)
<1>1. a * n \in Nat /\ b * n \in Nat
  OBVIOUS
<1>2. ASSUME NEW x \in Nat, NEW y \in Nat, NEW t \in Nat, NEW u \in Nat, t < n, x < y
      PROVE  x * n + t < y * n + u
  <2>1. (x + 1) * n <= y * n
    <3>1. x + 1 <= y /\ x + 1 \in Nat
      BY <1>2
    <3> DEFINE z == x + 1
    <3>2. z <= y /\ z \in Nat
      BY <3>1
    <3> HIDE DEF z
    <3>3. z * n <= y * n
      BY <3>2, ProductGrows
    <3> QED
      BY <3>3 DEF z
  <2>2. (x + 1) * n = x * n + n /\ x * n \in Nat /\ y * n \in Nat
    OBVIOUS
  <2> DEFINE p == x * n
             q == y * n
  <2>3. p \in Nat /\ q \in Nat /\ p + n <= q
    BY <2>1, <2>2
  <2> HIDE DEF p, q
  <2>4. p + t < q + u
    BY <1>2, <2>3
  <2> QED
    BY <2>4 DEF p, q
<1>3. CASE a < b
  <2>1. a * n + v < b * n + w
    BY <1>2, <1>3
  <2> QED
    BY <1>1, <1>3, <2>1
<1>4. CASE b < a
  <2>1. b * n + w < a * n + v
    BY <1>2, <1>4
  <2> DEFINE p == a * n
             q == b * n
  <2>2. p \in Nat /\ q \in Nat /\ q + w < p + v
    BY <1>1, <2>1
  <2> HIDE DEF p, q
  <2>3. ~ (p + v < q + w) /\ p + v \in Nat
    BY <2>2
  <2> QED
    BY <1>4, <2>3 DEF p, q
<1>5. CASE a = b
  <2> DEFINE p == a * n
  <2>1. p \in Nat
    BY <1>1
  <2> HIDE DEF p
  <2>2. p + v \in Nat /\ (p + v < p + w <=> v < w)
    BY <2>1
  <2> QED
    BY <1>5, <2>2 DEF p
<1> QED
  BY <1>3, <1>4, <1>5

-----------------------------------------------------------------------------
(* Code lengths at the least cost *)

\* What a code of each length takes of a code space of 2^K codes.
CodeShares(g, K) == [n \in DOMAIN g |-> 2 ^ (K - g[n])]
\* Code lengths that leave no code space.
Fills(g, A, K) == g \in [A -> 0..K] /\ SetSum(CodeShares(g, K), A) = 2 ^ K
\* The bits of all codes, each as often as it is used.
Spent(c, g, A) == SetSum([n \in A |-> c[n] * g[n]], A)

LEMMA ShareFacts ==
  ASSUME NEW A, NEW K \in Nat, NEW g \in [A -> 0..K], NEW n \in A
  PROVE  /\ CodeShares(g, K)[n] = 2 ^ (K - g[n])
         /\ K - g[n] \in Nat /\ CodeShares(g, K)[n] \in Nat \ {0} /\ g[n] \in Nat
<1> DEFINE k == K - g[n]
<1>1. k \in Nat /\ g[n] \in Nat
  OBVIOUS
<1> HIDE DEF k
<1>2. 2 ^ k \in Nat \ {0}
  BY <1>1, PowerPositive
<1>3. CodeShares(g, K)[n] = 2 ^ k
  BY DEF CodeShares, k
<1> QED
  BY <1>1, <1>2, <1>3 DEF k

LEMMA SpentFacts ==
  ASSUME NEW A, NEW K \in Nat, NEW g \in [A -> 0..K], NEW c \in [A -> Nat], NEW n \in A
  PROVE  [m \in A |-> c[m] * g[m]][n] = c[n] * g[n] /\ c[n] * g[n] \in Nat
<1> DEFINE a == c[n]
           b == g[n]
<1>1. a \in Nat /\ b \in Nat
  OBVIOUS
<1> HIDE DEF a, b
<1>2. a * b \in Nat
  BY <1>1
<1> QED
  BY <1>2 DEF a, b

LEMMA SharesAre ==
  ASSUME NEW A, NEW K \in Nat, NEW g \in [A -> 0..K]
  PROVE  \A n \in A : CodeShares(g, K)[n] = 2 ^ (K - g[n]) /\ CodeShares(g, K)[n] \in Nat
BY ShareFacts

LEMMA SpentAre ==
  ASSUME NEW A, NEW K \in Nat, NEW g \in [A -> 0..K], NEW c \in [A -> Nat]
  PROVE  \A n \in A : [m \in A |-> c[m] * g[m]][n] = c[n] * g[n] /\ [m \in A |-> c[m] * g[m]][n] \in Nat
BY SpentFacts

LEMMA SpentNat ==
  ASSUME NEW A, IsFiniteSet(A), NEW K \in Nat, NEW g, Fills(g, A, K), NEW c \in [A -> Nat]
  PROVE  Spent(c, g, A) \in Nat
<1> DEFINE f == [n \in A |-> c[n] * g[n]]
<1>1. \A n \in A : f[n] \in Nat
  BY SpentFacts DEF Fills
<1> HIDE DEF f
<1>2. SetSum(f, A) \in Nat
  BY <1>1, SetSumNat
<1> QED
  BY <1>2 DEF Spent, f

\* A cheaper node may have the longer code of a dearer one.
LEMMA ExchangedCodes ==
  ASSUME NEW A, IsFiniteSet(A), NEW K \in Nat, NEW g, Fills(g, A, K), NEW c \in [A -> Nat],
         NEW x \in A, NEW a \in A, c[x] <= c[a], g[x] <= g[a]
  PROVE  \E e : /\ Fills(e, A, K) /\ Spent(c, e, A) <= Spent(c, g, A)
                /\ e[x] = g[a] /\ e[a] = g[x]
                /\ \A n \in A \ {x, a} : e[n] = g[n]
<1>0. g \in [A -> 0..K]
  BY DEF Fills
<1>1. CASE x = a
  <2>1. Spent(c, g, A) \in Nat
    BY SpentNat
  <2> DEFINE t == Spent(c, g, A)
  <2> HIDE DEF t
  <2>2. t <= t
    BY <2>1 DEF t
  <2> QED
    BY <1>1, <2>2 DEF t
<1>2. CASE x # a
  <2> DEFINE e == [n \in A |-> IF n = x THEN g[a] ELSE IF n = a THEN g[x] ELSE g[n]]
             B == A \ {x, a}
  <2>1. e \in [A -> 0..K] /\ e[x] = g[a] /\ e[a] = g[x] /\ \A n \in B : e[n] = g[n]
    BY <1>0, <1>2
  <2> HIDE DEF e
  <2>2. IsFiniteSet(B) /\ B \subseteq A
    BY FS_Difference, FS_Subset
  <2>3. SetSum(CodeShares(e, K), A) = 2 ^ K
    <3> DEFINE r == CodeShares(g, K)
               s == CodeShares(e, K)
    <3>1. /\ \A n \in A : r[n] \in Nat /\ s[n] \in Nat
          /\ \A n \in B : s[n] = r[n]
          /\ s[x] = r[a] /\ s[a] = r[x]
      <4>1. \A n \in A : r[n] = 2 ^ (K - g[n]) /\ r[n] \in Nat
        BY <1>0, ShareFacts
      <4>2. ASSUME NEW n \in A PROVE s[n] = 2 ^ (K - e[n]) /\ s[n] \in Nat
        <5>1. e \in [A -> 0..K]
          BY <2>1
        <5> QED
          BY <5>1, SharesAre
      <4> HIDE DEF r, s
      <4> QED
        BY <2>1, <4>1, <4>2
    <3>2. SetSum(r, A) = 2 ^ K
      BY DEF Fills
    <3> HIDE DEF r, s, B
    <3>3. SetSum(r, A) = r[x] + r[a] + SetSum(r, A \ {x, a}) /\ SetSum(r, A \ {x, a}) \in Nat
      BY <1>2, <3>1, SetSumTwo
    <3>4. SetSum(s, A) = s[x] + s[a] + SetSum(s, A \ {x, a})
      BY <1>2, <3>1, SetSumTwo
    <3>5. SetSum(s, B) = SetSum(r, B)
      BY <2>2, <3>1, SetSumSame
    <3> DEFINE v == r[x]
               w == r[a]
               z == SetSum(r, B)
    <3>6. SetSum(r, A) = v + w + z /\ SetSum(s, A) = w + v + z /\ z \in Nat /\ v \in Nat /\ w \in Nat
      BY <3>1, <3>3, <3>4, <3>5 DEF B
    <3> HIDE DEF v, w, z
    <3>7. SetSum(s, A) = SetSum(r, A)
      BY <3>6
    <3> QED
      BY <3>2, <3>7 DEF s
  <2>4. Spent(c, e, A) <= Spent(c, g, A)
    <3> DEFINE r == [n \in A |-> c[n] * g[n]]
               s == [n \in A |-> c[n] * e[n]]
    <3>1. /\ \A n \in A : r[n] \in Nat /\ r[n] = c[n] * g[n]
          /\ \A n \in A : s[n] \in Nat /\ s[n] = c[n] * e[n]
      BY <1>0, <2>1, SpentFacts
    <3>2. \A n \in B : r[n] \in Nat /\ s[n] = r[n]
      BY <2>1, <3>1
    <3>3. Spent(c, g, A) = SetSum(r, A) /\ Spent(c, e, A) = SetSum(s, A)
      BY DEF Spent
    <3> HIDE DEF r, s, B
    <3>4. SetSum(r, A) = r[x] + r[a] + SetSum(r, A \ {x, a}) /\ SetSum(r, A \ {x, a}) \in Nat
      BY <1>2, <3>1, SetSumTwo
    <3>5. SetSum(s, A) = s[x] + s[a] + SetSum(s, A \ {x, a})
      BY <1>2, <3>1, SetSumTwo
    <3>6. SetSum(s, B) = SetSum(r, B)
      BY <2>2, <3>2, SetSumSame
    <3> DEFINE u == c[x]
               v == c[a]
               i == g[x]
               j == g[a]
               z == SetSum(r, B)
    <3>7. /\ r[x] = u * i /\ r[a] = v * j /\ s[x] = u * j /\ s[a] = v * i
          /\ u \in Nat /\ v \in Nat /\ i \in Nat /\ j \in Nat /\ z \in Nat /\ u <= v /\ i <= j
          /\ SetSum(r, A) = r[x] + r[a] + z /\ SetSum(s, A) = s[x] + s[a] + z
      BY <1>0, <2>1, <3>1, <3>4, <3>5, <3>6 DEF B
    <3> HIDE DEF u, v, i, j, z
    <3>8. u * j + v * i <= u * i + v * j
      <4> DEFINE p == v - u
                 q == j - i
      <4>1. p \in Nat /\ q \in Nat /\ v = u + p /\ j = i + q
        BY <3>7
      <4> HIDE DEF p, q
      <4>2. p * q \in Nat
        BY <4>1
      <4>3. /\ u * (i + q) = u * i + u * q
            /\ (u + p) * i = u * i + p * i
            /\ (u + p) * (i + q) = u * i + u * q + p * i + p * q
        BY <3>7, <4>1
      <4>4. u * i \in Nat /\ u * q \in Nat /\ p * i \in Nat
        BY <3>7, <4>1
      <4> DEFINE ui == u * i
                 uq == u * q
                 pi == p * i
                 pq == p * q
      <4>5. /\ u * j = ui + uq /\ v * i = ui + pi /\ v * j = ui + uq + pi + pq
            /\ ui \in Nat /\ uq \in Nat /\ pi \in Nat /\ pq \in Nat
        BY <4>1, <4>2, <4>3, <4>4
      <4> HIDE DEF ui, uq, pi, pq
      <4>6. (ui + uq) + (ui + pi) <= ui + (ui + uq + pi + pq)
        BY <4>5
      <4> QED
        BY <4>5, <4>6 DEF ui
    <3> DEFINE uj == u * j
               vi == v * i
               ui == u * i
               vj == v * j
    <3>9. uj \in Nat /\ vi \in Nat /\ ui \in Nat /\ vj \in Nat
      BY <3>7
    <3>10. uj + vi <= ui + vj
      BY <3>8
    <3>11. SetSum(r, A) = ui + vj + z /\ SetSum(s, A) = uj + vi + z
      BY <3>7
    <3> HIDE DEF uj, vi, ui, vj
    <3>12. SetSum(s, A) <= SetSum(r, A)
      BY <3>7, <3>9, <3>10, <3>11
    <3> QED
      BY <3>3, <3>12
  <2> QED
    BY <2>1, <2>3, <2>4 DEF Fills
<1> QED
  BY <1>1, <1>2

\* Two nodes at least fill the code space only with codes of some bits.
LEMMA LongestFound ==
  ASSUME NEW A, IsFiniteSet(A), NEW K \in Nat, NEW g, Fills(g, A, K),
         NEW x \in A, NEW y \in A, x # y
  PROVE  \E a \in A : g[a] \in 1..K /\ \A n \in A : g[n] <= g[a]
<1>0. g \in [A -> 0..K]
  BY DEF Fills
<1> DEFINE Gaps == {K - g[n] : n \in A}
<1>1. Gaps \subseteq Nat /\ Gaps # {}
  BY <1>0
<1>2. PICK k \in Gaps : \A j \in Gaps : k <= j
  <2> HIDE DEF Gaps
  <2> QED
    BY <1>1, LeastNatural
<1>3. PICK a \in A : k = K - g[a]
  OBVIOUS
<1>4. \A n \in A : g[n] <= g[a] /\ g[n] \in Nat
  <2> TAKE n \in A
  <2>1. k <= K - g[n] /\ g[n] \in 0..K /\ g[a] \in 0..K
    BY <1>0, <1>2
  <2> DEFINE u == g[n]
             v == g[a]
  <2>2. K - v <= K - u /\ u \in 0..K /\ v \in 0..K
    BY <1>3, <2>1
  <2> HIDE DEF u, v
  <2>3. u <= v /\ u \in Nat
    BY <2>2
  <2> QED
    BY <2>3 DEF u, v
<1>5. g[a] # 0
  <2>1. SUFFICES ASSUME g[a] = 0 PROVE FALSE
    OBVIOUS
  <2>2. g[x] = 0 /\ g[y] = 0
    <3>1. g[x] <= 0 /\ g[x] \in Nat /\ g[y] <= 0 /\ g[y] \in Nat
      BY <1>4, <2>1
    <3> DEFINE u == g[x]
               v == g[y]
    <3> HIDE DEF u, v
    <3>2. u = 0 /\ v = 0
      BY <3>1 DEF u, v
    <3> QED
      BY <3>2 DEF u, v
  <2> DEFINE r == CodeShares(g, K)
             z == SetSum(r, A \ {x, y})
             full == 2 ^ K
  <2>3. r[x] = full /\ r[y] = full /\ full \in Nat \ {0}
    <3>1. K - 0 = K
      OBVIOUS
    <3> QED
      BY <1>0, <2>2, <3>1, ShareFacts
  <2>4. SetSum(r, A) = full /\ \A n \in A : r[n] \in Nat
    BY <1>0, ShareFacts DEF Fills
  <2> HIDE DEF r, full
  <2>5. SetSum(r, A) = r[x] + r[y] + z /\ z \in Nat
    BY <2>4, SetSumTwo
  <2> HIDE DEF z
  <2>6. full = full + full + z
    BY <2>3, <2>4, <2>5
  <2> QED
    BY <2>3, <2>5, <2>6
<1> QED
  BY <1>0, <1>4, <1>5

\* One longest code is never alone: the others would leave an odd number of codes.
LEMMA DeepestPaired ==
  ASSUME NEW A, IsFiniteSet(A), NEW K \in Nat, NEW g, Fills(g, A, K),
         NEW a \in A, g[a] \in 1..K, \A n \in A : g[n] <= g[a]
  PROVE  \E b \in A \ {a} : g[b] = g[a]
<1>0. g \in [A -> 0..K]
  BY DEF Fills
<1>1. SUFFICES ASSUME \A b \in A \ {a} : g[b] # g[a] PROVE FALSE
  OBVIOUS
<1> DEFINE m == g[a]
           k == K - m
           q == 2 ^ k
           B == A \ {a}
           r == CodeShares(g, K)
           above == [b \in B |-> 2 ^ ((m - 1) - g[b])]
           s == SetSum(above, B)
           t == 2 ^ (m - 1)
<1>2. m \in Nat /\ m - 1 \in Nat /\ k \in Nat /\ q \in Nat \ {0} /\ t \in Nat
  <2>1. m \in Nat /\ m - 1 \in Nat /\ k \in Nat
    BY <1>0
  <2> HIDE DEF m, k
  <2> QED
    BY <2>1, PowerPositive, PowerNat
<1>3. 2 ^ K = 2 * q * t
  <2> DEFINE j == m - 1
  <2>1. j \in Nat /\ K = (k + 1) + j /\ k + 1 \in Nat /\ k \in Nat
    BY <1>2
  <2> HIDE DEF j, k, m
  <2> DEFINE i == k + 1
  <2>2. 2 ^ K = 2 ^ i * 2 ^ j
    <3>1. i \in Nat /\ K = i + j
      BY <2>1
    <3> HIDE DEF i
    <3> QED
      BY <2>1, <3>1, PowerSum
  <2>3. 2 ^ i = 2 * q
    BY <2>1, PowerNext
  <2> QED
    BY <2>2, <2>3 DEF j
<1>4. ASSUME NEW b \in B
      PROVE  above[b] \in Nat /\ r[b] = (2 * q) * above[b] /\ r[b] \in Nat
  <2> DEFINE i == k + 1
             j == (m - 1) - g[b]
  <2>1. g[b] \in 0..K /\ g[b] <= m /\ g[b] # m /\ m \in 0..K
    BY <1>0, <1>1
  <2>2. i \in Nat /\ j \in Nat /\ K - g[b] = i + j
    <3> DEFINE u == g[b]
               v == m
    <3>1. u \in 0..K /\ u <= v /\ u # v /\ v \in 0..K /\ j = (v - 1) - u /\ i = (K - v) + 1
      BY <2>1
    <3> HIDE DEF u, v, i, j
    <3>2. i \in Nat /\ j \in Nat /\ K - u = i + j
      BY <3>1
    <3> QED
      BY <3>2 DEF u
  <2>3. r[b] = 2 ^ (K - g[b])
    <3>1. b \in A
      OBVIOUS
    <3> HIDE DEF B, i, j, m, k, q, above
    <3> QED
      BY <1>0, <3>1, SharesAre
  <2>4. 2 ^ i = 2 * q
    BY <1>2, PowerNext
  <2>5. above[b] = 2 ^ j
    OBVIOUS
  <2> HIDE DEF i, j, r, above, q
  <2>6. 2 ^ (i + j) = 2 ^ i * 2 ^ j /\ 2 ^ j \in Nat
    BY <2>2, PowerSum, PowerNat
  <2>7. r[b] = (2 * q) * above[b]
    BY <2>2, <2>3, <2>4, <2>5, <2>6
  <2>8. above[b] \in Nat
    BY <2>5, <2>6
  <2> DEFINE p == above[b]
  <2>9. (2 * q) * p \in Nat
    <3>1. p \in Nat /\ q \in Nat
      BY <1>2, <2>8
    <3> HIDE DEF p
    <3> QED
      BY <3>1
  <2> QED
    BY <2>7, <2>8, <2>9
<1>5. IsFiniteSet(B)
  BY FS_RemoveElement
<1>6. r[a] = q /\ SetSum(r, A) = 2 ^ K /\ \A n \in A : r[n] \in Nat
  BY <1>0, ShareFacts DEF Fills
<1> HIDE DEF r, above, q, t
<1>7. SetSum(r, A) = r[a] + SetSum(r, B)
  BY <1>6, SetSumRemove
<1>8. SetSum(r, B) = (2 * q) * s /\ s \in Nat
  <2> HIDE DEF B
  <2> DEFINE d == 2 * q
  <2>1. d \in Nat /\ \A b \in B : above[b] \in Nat /\ r[b] = d * above[b]
    BY <1>2, <1>4
  <2> HIDE DEF d
  <2>2. SetSum(r, B) = d * s
    BY <1>5, <2>1, SetSumScaled
  <2>3. s \in Nat
    BY <1>5, <2>1, SetSumNat
  <2> QED
    BY <2>2, <2>3 DEF d
<1> HIDE DEF s, m, k, B
<1>9. 2 * q * t = q + (2 * q) * s
  BY <1>3, <1>6, <1>7, <1>8
<1>10. q * (2 * t) = q * (1 + 2 * s)
  BY <1>2, <1>8, <1>9
<1>11. 2 * t = 1 + 2 * s
  <2> DEFINE u == 2 * t
             v == 1 + 2 * s
  <2>1. u \in Nat /\ v \in Nat /\ q * u = q * v
    BY <1>2, <1>8, <1>10
  <2> HIDE DEF u, v
  <2>2. u = v
    BY <1>2, <2>1
  <2> QED
    BY <2>2 DEF u, v
<1> QED
  BY <1>2, <1>8, <1>11

\* The two cheapest nodes may have the longest codes.
LEMMA CheapestDeepest ==
  ASSUME NEW A, IsFiniteSet(A), NEW K \in Nat, NEW g, Fills(g, A, K), NEW c \in [A -> Nat],
         NEW x \in A, NEW y \in A, x # y,
         \A n \in A : c[x] <= c[n], \A n \in A \ {x} : c[y] <= c[n]
  PROVE  \E h : /\ Fills(h, A, K) /\ Spent(c, h, A) <= Spent(c, g, A)
                /\ h[x] \in 1..K /\ h[y] = h[x]
<1>1. PICK a \in A : g[a] \in 1..K /\ \A n \in A : g[n] <= g[a]
  BY LongestFound
<1>2. PICK e : /\ Fills(e, A, K) /\ Spent(c, e, A) <= Spent(c, g, A)
               /\ e[x] = g[a] /\ e[a] = g[x]
               /\ \A n \in A \ {x, a} : e[n] = g[n]
  BY <1>1, ExchangedCodes
<1>3. e[x] \in 1..K /\ \A n \in A : e[n] <= e[x]
  <2>1. g[a] <= g[a]
    BY <1>1
  <2> QED
    BY <1>1, <1>2, <2>1
<1>4. PICK b \in A \ {x} : e[b] = e[x]
  BY <1>2, <1>3, DeepestPaired
<1>5. c[y] <= c[b] /\ e[y] <= e[b]
  BY <1>3, <1>4
<1>6. PICK h : /\ Fills(h, A, K) /\ Spent(c, h, A) <= Spent(c, e, A)
               /\ h[y] = e[b] /\ h[b] = e[y]
               /\ \A n \in A \ {y, b} : h[n] = e[n]
  BY <1>2, <1>5, ExchangedCodes
<1>7. h[x] = e[x]
  BY <1>4, <1>6
<1>8. Spent(c, h, A) <= Spent(c, g, A)
  <2> DEFINE u == Spent(c, g, A)
             v == Spent(c, e, A)
             w == Spent(c, h, A)
  <2>1. u \in Nat /\ v \in Nat /\ w \in Nat
    BY <1>2, <1>6, SpentNat
  <2>2. v <= u /\ w <= v
    BY <1>2, <1>6
  <2> HIDE DEF u, v, w
  <2>3. w <= u
    BY <2>1, <2>2
  <2> QED
    BY <2>3 DEF u, w
<1> QED
  BY <1>3, <1>4, <1>6, <1>7, <1>8

\* Nodes x and y of A with codes of the same length, and B with z in their place.
MayJoin(A, K, h, c, x, y, z, B, d) ==
  /\ IsFiniteSet(A) /\ Fills(h, A, K) /\ c \in [A -> Nat] /\ d \in [B -> Nat]
  /\ x \in A /\ y \in A /\ x # y /\ h[x] \in 1..K /\ h[y] = h[x]
  /\ z \notin A \ {x, y} /\ B = (A \ {x, y}) \union {z}
  /\ d[z] = c[x] + c[y] /\ \A n \in A \ {x, y} : d[n] = c[n]

\* Joining them saves a bit for each of their uses.
LEMMA JoinedShorter ==
  ASSUME NEW K \in Nat, NEW A, NEW h, NEW c, NEW x, NEW y, NEW z, NEW B, NEW d,
         MayJoin(A, K, h, c, x, y, z, B, d)
  PROVE  \E e : /\ Fills(e, B, K)
                /\ Spent(d, e, B) + d[z] = Spent(c, h, A)
                /\ Spent(d, e, B) \in Nat /\ d[z] \in Nat
<1> DEFINE R == A \ {x, y}
           m == h[x]
           e == [n \in B |-> IF n = z THEN m - 1 ELSE h[n]]
<1>0. /\ IsFiniteSet(A) /\ Fills(h, A, K) /\ h \in [A -> 0..K] /\ c \in [A -> Nat] /\ d \in [B -> Nat]
      /\ x \in A /\ y \in A /\ x # y /\ m \in 1..K /\ h[y] = m
      /\ z \notin R /\ B = R \union {z}
      /\ d[z] = c[x] + c[y] /\ \A n \in R : d[n] = c[n]
  BY DEF Fills, MayJoin
<1>1. e \in [B -> 0..K] /\ e[z] = m - 1 /\ \A n \in R : e[n] = h[n]
  BY <1>0
<1>2. z \in B /\ R \subseteq A /\ R \subseteq B /\ d \in [B -> Nat]
  BY <1>0
<1> HIDE DEF e
<1>3. SetSum(CodeShares(e, K), B) = 2 ^ K
  <2> DEFINE r == CodeShares(h, K)
             s == CodeShares(e, K)
  <2>1. SetSum(r, A) = 2 ^ K /\ \A n \in A : r[n] = 2 ^ (K - h[n]) /\ r[n] \in Nat
    BY <1>0, SharesAre DEF Fills
  <2>2. \A n \in B : s[n] = 2 ^ (K - e[n]) /\ s[n] \in Nat
    BY <1>1, SharesAre
  <2> HIDE DEF r, s
  <2>3. \A n \in R : s[n] = r[n]
    BY <1>1, <1>2, <2>1, <2>2
  <2>4. s[z] \in Nat /\ \A n \in A : r[n] \in Nat
    BY <1>0, <2>1, <2>2
  <2>5. PICK t \in Nat : SetSum(r, A) = r[x] + r[y] + t /\ SetSum(s, B) = s[z] + t
    BY <1>0, <2>3, <2>4, SetSumJoined
  <2>6. s[z] = r[x] + r[y]
    <3> DEFINE k == K - m
               j == k + 1
    <3>1. k \in Nat /\ K - (m - 1) = j
      BY <1>0
    <3>2. s[z] = 2 ^ j /\ r[x] = 2 ^ k /\ r[y] = 2 ^ k
      BY <1>0, <1>1, <1>2, <2>1, <2>2, <3>1
    <3> HIDE DEF k
    <3>3. 2 ^ j = 2 * 2 ^ k /\ 2 ^ k \in Nat
      BY <3>1, PowerNext, PowerNat
    <3> QED
      BY <3>2, <3>3
  <2> QED
    BY <2>1, <2>5, <2>6 DEF s
<1>4. Spent(d, e, B) + d[z] = Spent(c, h, A) /\ Spent(d, e, B) \in Nat
  <2> DEFINE r == [n \in A |-> c[n] * h[n]]
             s == [n \in B |-> d[n] * e[n]]
  <2>1. \A n \in A : r[n] = c[n] * h[n] /\ r[n] \in Nat
    BY <1>0, SpentAre
  <2>2. \A n \in B : s[n] = d[n] * e[n] /\ s[n] \in Nat
    BY <1>1, <1>2, SpentAre
  <2>3. Spent(c, h, A) = SetSum(r, A) /\ Spent(d, e, B) = SetSum(s, B)
    BY DEF Spent
  <2> HIDE DEF r, s
  <2>4. \A n \in R : s[n] = r[n]
    BY <1>0, <1>1, <1>2, <2>1, <2>2
  <2>5. s[z] \in Nat /\ \A n \in A : r[n] \in Nat
    BY <1>0, <2>1, <2>2
  <2>6. PICK t \in Nat : SetSum(r, A) = r[x] + r[y] + t /\ SetSum(s, B) = s[z] + t
    BY <1>0, <2>4, <2>5, SetSumJoined
  <2>7. s[z] + d[z] = r[x] + r[y] /\ d[z] \in Nat
    <3> DEFINE a == c[x]
               b == c[y]
               u == a * m
               v == b * m
    <3>1. a \in Nat /\ b \in Nat /\ m \in Nat /\ d[z] = a + b
      BY <1>0
    <3>2. s[z] = (a + b) * (m - 1) /\ r[x] = a * m /\ r[y] = b * m
      BY <1>0, <1>1, <1>2, <2>1, <2>2
    <3> HIDE DEF a, b, m
    <3>3. (a + b) * (m - 1) = u + v - (a + b) /\ u \in Nat /\ v \in Nat
      BY <3>1
    <3> HIDE DEF u, v
    <3> DEFINE w == a + b
    <3>4. s[z] = u + v - w /\ d[z] = w /\ w \in Nat
      BY <3>1, <3>2, <3>3
    <3> HIDE DEF w
    <3>5. s[z] + d[z] = u + v
      BY <3>3, <3>4
    <3> QED
      BY <3>2, <3>4, <3>5 DEF u, v
  <2> DEFINE p == r[x]
             q == r[y]
             w == d[z]
             o == s[z]
  <2>8. /\ o + w = p + q /\ o \in Nat /\ w \in Nat /\ p \in Nat /\ q \in Nat
        /\ SetSum(r, A) = p + q + t /\ SetSum(s, B) = o + t
    BY <1>0, <2>5, <2>6, <2>7
  <2> HIDE DEF p, q, w, o
  <2>9. SetSum(s, B) + w = SetSum(r, A) /\ SetSum(s, B) \in Nat
    BY <2>8
  <2> QED
    BY <2>3, <2>9 DEF w
<1>5. Fills(e, B, K) /\ d[z] \in Nat
  BY <1>1, <1>2, <1>3 DEF Fills
<1> QED
  BY <1>4, <1>5

=============================================================================
