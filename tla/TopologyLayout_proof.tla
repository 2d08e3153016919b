------------------------- MODULE TopologyLayout_proof -------------------------
(***************************************************************************)
(* The layout of a file and the code tables in it. The sections an engine  *)
(* locates tile its file, no offset it computes on the way leaves the      *)
(* range of a usize, and the engine locates the files the encoder writes   *)
(* and no others, for every file and directory. A context's table is       *)
(* accepted, codes its symbols unambiguously and in the fewest bits, for   *)
(* any counts.                                                             *)
(*                                                                         *)
(* Layout. SectionsTile speaks of the end of the walk only. The first      *)
(* invariant says, for each section, how far the walk has come: where the  *)
(* levels passed so far end, which is the cursor where the code keeps one. *)
(* The second says what the walk has read: the same values the encoder     *)
(* writes, level by level. A header is then recovered from the values of   *)
(* its fields, because the fields cover it and a number of as many bytes   *)
(* as its field is determined by them.                                     *)
(*                                                                         *)
(* Huffman codes. AvailableFacts and FirstCodeFacts unfold the two         *)
(* recurrences of a table; CodeSpace adds them up to all codes of a        *)
(* length. If none is left, any string of bits has a code of exactly one   *)
(* length (OneMatch, SomeMatch). The merge loop keeps a forest of trees    *)
(* whose codes fill the code space (MergeKeepsForest), so the table        *)
(* written from the last tree is complete (WrittenValid) and no code is    *)
(* too long. The encoder numbers the symbols in canonical order, and the   *)
(* code it gives the i-th is the one the decoder expects at index i        *)
(* (CodesAre). Any other complete code stays an upper bound of what the    *)
(* loop has spent and still has to spend (MergeKeepsBest), so the code it  *)
(* ends with is the cheapest.                                              *)
(***************************************************************************)
EXTENDS TopologyLayout, ContextModel, Foundations_proof, TLAPS

-----------------------------------------------------------------------------
(* The code space of a table *)

Longest == MaxCodeLength

TypedCounts(model) == \A n \in 1..Longest : model.counts[n] \in Nat

\* AvailableCodes and FirstCode obey their recurrences.
LEMMA AvailableFacts ==
  ASSUME NEW model, TypedCounts(model)
  PROVE  /\ AvailableCodes(model) \in [0..Longest -> Int]
         /\ AvailableCodes(model)[0] = 1
         /\ \A k \in 1..Longest : AvailableCodes(model)[k] = 2 * AvailableCodes(model)[k - 1] - model.counts[k]
<1> DEFINE d == [k \in 1..Longest |-> 0 - model.counts[k]]
           Is(h) == h = [k \in 0..Longest |-> IF k = 0 THEN 1 ELSE 2 * h[k - 1] - model.counts[k]]
           Av == AvailableCodes(model)
<1>1. Longest \in Nat /\ \A k \in 1..Longest : d[k] \in Int /\ d[k] = 0 - model.counts[k] /\ model.counts[k] \in Nat
  BY FormatAssumption DEF TypedCounts, Longest
<1> HIDE DEF d
<1>2. PICK h \in [0..Longest -> Int] : Doubles(h, Longest, 1, d)
  <2> DEFINE one == 1
  <2>1. one \in Int
    OBVIOUS
  <2> HIDE DEF one
  <2>2. \E h \in [0..Longest -> Int] : Doubles(h, Longest, one, d)
    BY <1>1, <2>1, DoublingExists
  <2> QED
    BY <2>2 DEF one
<1>3. h = [k \in 0..Longest |-> IF k = 0 THEN 1 ELSE 2 * h[k - 1] - model.counts[k]]
  <2>1. \A k \in 0..Longest : h[k] = IF k = 0 THEN 1 ELSE 2 * h[k - 1] - model.counts[k]
    <3> TAKE k \in 0..Longest
    <3>1. CASE k = 0
      BY <1>2, <3>1 DEF Doubles
    <3>2. CASE k # 0
      <4>1. k \in 1..Longest /\ k - 1 \in 0..Longest
        BY <1>1, <3>2
      <4>2. h[k] = 2 * h[k - 1] + d[k] /\ h[k - 1] \in Int
        BY <1>2, <4>1 DEF Doubles
      <4>3. d[k] = 0 - model.counts[k] /\ model.counts[k] \in Nat
        BY <1>1, <4>1
      <4> DEFINE x == h[k - 1]
                 y == model.counts[k]
                 z == h[k]
                 w == d[k]
      <4>4. z = 2 * x + w /\ w = 0 - y /\ x \in Int /\ y \in Nat
        BY <4>2, <4>3
      <4> HIDE DEF x, y, z, w, Is, Av
      <4>5. z = 2 * x - y
        BY <4>4
      <4> QED
        BY <3>2, <4>5 DEF x, y, z
    <3> QED
      BY <3>1, <3>2
  <2> QED
    BY <2>1
<1>4. Is(Av)
  <2>1. Av = CHOOSE x : Is(x)
    BY DEF AvailableCodes, Longest
  <2>2. Is(h)
    BY <1>3
  <2> HIDE DEF Is, Av
  <2> QED
    BY <2>1, <2>2
<1> HIDE DEF Av
<1>5. Av[0] = 1 /\ \A k \in 1..Longest : Av[k] = 2 * Av[k - 1] - model.counts[k]
  BY <1>1, <1>4, SMTT(30)
<1>6. \A k \in 0..Longest : Av[k] = h[k]
  <2> DEFINE Wrong == {k \in Nat : k <= Longest /\ Av[k] # h[k]}
  <2>1. SUFFICES ASSUME Wrong # {} PROVE FALSE
    OBVIOUS
  <2>2. PICK k \in Wrong : \A y \in Wrong : k <= y
    <3>1. Wrong \subseteq Nat
      OBVIOUS
    <3> HIDE DEF Wrong
    <3> QED
      BY <2>1, <3>1, LeastNatural
  <2>3. k # 0
    BY <1>2, <1>5 DEF Doubles
  <2>4. k \in 1..Longest /\ k - 1 \in Nat /\ ~ (k <= k - 1)
    BY <2>3
  <2>5. Av[k - 1] = h[k - 1]
    BY <1>1, <2>2, <2>4
  <2>6. h[k] = 2 * h[k - 1] - model.counts[k]
    BY <1>1, <1>3, <2>4
  <2> QED
    BY <1>5, <2>4, <2>5, <2>6
<1>7. Av \in [0..Longest -> Int]
  <2>1. Av = [k \in 0..Longest |-> Av[k]]
    BY <1>4
  <2> QED
    BY <1>2, <1>6, <2>1
<1> QED
  BY <1>5, <1>7 DEF Av

\* The first codes of every length.
LEMMA FirstCodeFacts ==
  ASSUME NEW model, TypedCounts(model)
  PROVE  /\ \A k \in 0..Longest : FirstCode(model, k) \in Int
         /\ FirstCode(model, 1) = 0
         /\ \A k \in 1..(Longest - 1) :
              FirstCode(model, k + 1) = 2 * (FirstCode(model, k) + model.counts[k])
<1> DEFINE c == [k \in 1..Longest |-> IF k = 1 THEN 0 ELSE model.counts[k - 1]]
           d == [k \in 1..Longest |-> 2 * c[k]]
           Is(h) == h = [k \in 0..Longest |->
                           IF k = 0 THEN 0
                           ELSE 2 * (h[k - 1] + IF k = 1 THEN 0 ELSE model.counts[k - 1])]
           F == CHOOSE x : Is(x)
<1>1. /\ Longest \in Nat \ {0}
      /\ \A k \in 1..Longest : /\ c[k] = IF k = 1 THEN 0 ELSE model.counts[k - 1]
                               /\ c[k] \in Int /\ d[k] = 2 * c[k] /\ d[k] \in Int
  BY FormatAssumption DEF TypedCounts, Longest
<1> HIDE DEF c, d
<1>2. PICK h \in [0..Longest -> Int] : Doubles(h, Longest, 0, d)
  <2> DEFINE zero == 0
  <2>1. zero \in Int
    OBVIOUS
  <2> HIDE DEF zero
  <2>2. \E h \in [0..Longest -> Int] : Doubles(h, Longest, zero, d)
    BY <1>1, <2>1, DoublingExists
  <2> QED
    BY <2>2 DEF zero
<1>3. Is(h)
  <2>1. ASSUME NEW k \in 0..Longest
        PROVE  h[k] = IF k = 0 THEN 0
                      ELSE 2 * (h[k - 1] + IF k = 1 THEN 0 ELSE model.counts[k - 1])
    <3>1. CASE k = 0
      BY <1>2, <3>1 DEF Doubles
    <3>2. CASE k # 0
      <4>1. k \in 1..Longest /\ k - 1 \in 0..Longest
        BY <1>1, <3>2
      <4>2. h[k] = 2 * h[k - 1] + d[k] /\ h[k - 1] \in Int
        BY <1>2, <4>1 DEF Doubles
      <4>3. d[k] = 2 * c[k] /\ c[k] \in Int
        BY <1>1, <4>1
      <4>4. h[k] = 2 * (h[k - 1] + c[k])
        BY <4>2, <4>3
      <4> QED
        BY <1>1, <3>2, <4>1, <4>4
    <3> QED
      BY <3>1, <3>2
  <2> QED
    BY <2>1
<1>4. Is(F)
  <2> HIDE DEF Is
  <2> QED
    BY <1>3
<1>5. \A k : FirstCode(model, k) = F[k]
  BY DEF FirstCode, Longest
<1> HIDE DEF F
<1>6. /\ F[0] = 0
      /\ \A k \in 1..Longest : F[k] = 2 * (F[k - 1] + c[k])
  BY <1>1, <1>4
<1>7. \A k \in 0..Longest : F[k] = h[k]
  <2> DEFINE Wrong == {k \in Nat : k <= Longest /\ F[k] # h[k]}
  <2>1. SUFFICES ASSUME Wrong # {} PROVE FALSE
    OBVIOUS
  <2>2. PICK k \in Wrong : \A y \in Wrong : k <= y
    <3>1. Wrong \subseteq Nat
      OBVIOUS
    <3> HIDE DEF Wrong
    <3> QED
      BY <2>1, <3>1, LeastNatural
  <2>3. k # 0
    BY <1>2, <1>6 DEF Doubles
  <2>4. k \in 1..Longest /\ k - 1 \in Nat /\ k - 1 <= Longest /\ ~ (k <= k - 1)
    BY <1>1, <2>3
  <2>5. F[k - 1] = h[k - 1]
    BY <2>2, <2>4
  <2>6. h[k] = 2 * h[k - 1] + d[k] /\ h[k - 1] \in Int /\ d[k] = 2 * c[k] /\ c[k] \in Int
    BY <1>1, <1>2, <2>4 DEF Doubles
  <2>7. F[k] = 2 * (h[k - 1] + c[k])
    BY <1>6, <2>4, <2>5
  <2> QED
    BY <2>6, <2>7
<1>8. \A k \in 0..Longest : F[k] \in Int
  BY <1>2, <1>7
<1>9. F[1] = 0
  BY <1>1, <1>6
<1>10. ASSUME NEW k \in 1..(Longest - 1)
       PROVE  F[k + 1] = 2 * (F[k] + model.counts[k])
  <2>1. k + 1 \in 1..Longest /\ k + 1 # 1 /\ (k + 1) - 1 = k
    BY <1>1
  <2>2. F[k + 1] = 2 * (F[(k + 1) - 1] + c[k + 1]) /\ c[k + 1] = model.counts[(k + 1) - 1]
    BY <1>1, <1>6, <2>1
  <2> QED
    BY <2>1, <2>2
<1> QED
  BY <1>5, <1>8, <1>9, <1>10

\* First code, codes and space left of a length together are all codes of that
\* length.
LEMMA CodeSpace ==
  ASSUME NEW model, TypedCounts(model), NEW n \in 1..Longest
  PROVE  FirstCode(model, n) + model.counts[n] + AvailableCodes(model)[n] = 2 ^ n
<1> DEFINE F(k) == FirstCode(model, k)
           A(k) == AvailableCodes(model)[k]
           Wrong == {k \in Nat : k \in 1..Longest /\ F(k) + model.counts[k] + A(k) # 2 ^ k}
<1>0. Longest \in Nat /\ \A k \in 1..Longest : model.counts[k] \in Nat
  BY FormatAssumption DEF Longest, TypedCounts
<1>1. SUFFICES ASSUME Wrong # {} PROVE FALSE
  BY <1>0
<1>2. PICK k \in Wrong : \A y \in Wrong : k <= y
  <2>1. Wrong \subseteq Nat
    OBVIOUS
  <2> HIDE DEF Wrong
  <2> QED
    BY <1>1, <2>1, LeastNatural
<1>3. A(k) = 2 * A(k - 1) - model.counts[k] /\ A(k - 1) \in Int /\ model.counts[k] \in Nat
  <2>1. k \in 1..Longest /\ k - 1 \in 0..Longest
    BY <1>0
  <2> QED
    BY <1>0, <2>1, AvailableFacts
<1>4. CASE k = 1
  <2>1. A(0) = 1 /\ F(1) = 0
    BY AvailableFacts, FirstCodeFacts
  <2>2. 2 ^ (0 + 1) = 2 * 2 ^ 0 /\ 2 ^ 0 = 1
    BY PowerNext, PowerZero
  <2>3. k - 1 = 0 /\ 0 + 1 = 1
    BY <1>4
  <2>4. A(k) = 2 * 1 - model.counts[k] /\ F(k) = 0
    BY <1>3, <1>4, <2>1, <2>3
  <2>5. 2 ^ k = 2
    BY <1>4, <2>2, <2>3
  <2> HIDE DEF A, F
  <2>6. F(k) + model.counts[k] + A(k) = 2
    BY <1>3, <2>4
  <2> QED
    BY <1>2, <2>5, <2>6
<1>5. CASE k # 1
  <2> DEFINE j == k - 1
  <2>1. j \in Nat /\ j \in 1..(Longest - 1) /\ j \in 1..Longest /\ ~ (k <= j) /\ k = j + 1
    BY <1>0, <1>5
  <2> HIDE DEF j
  <2>2. F(j) + model.counts[j] + A(j) = 2 ^ j
    BY <1>2, <2>1
  <2>3. F(k) = 2 * (F(j) + model.counts[j]) /\ F(j) \in Int /\ model.counts[j] \in Nat
    <3>1. j \in 0..Longest
      BY <2>1, <1>0
    <3> QED
      BY <1>0, <2>1, <3>1, FirstCodeFacts
  <2>4. 2 ^ k = 2 * 2 ^ j /\ 2 ^ j \in Nat
    BY <2>1, PowerNext, PowerNat
  <2>5. A(k) = 2 * A(j) - model.counts[k] /\ A(j) \in Int
    BY <1>3, <2>1
  <2> HIDE DEF A, F
  <2>6. F(k) + model.counts[k] + A(k) = 2 ^ k
    BY <1>3, <2>2, <2>3, <2>4, <2>5
  <2> QED
    BY <1>2, <2>6 DEF A, F
<1> QED
  BY <1>4, <1>5

-----------------------------------------------------------------------------
(* Decoding *)

\* Bits read one by one: a number of n bits.
LEMMA PayloadCodeFacts ==
  ASSUME NEW p, NEW from, NEW n \in Nat, \A k \in 1..n : p[from + k - 1] \in 0..1
  PROVE  /\ PayloadCode(p, from, 0) = 0
         /\ \A k \in 1..n :
              PayloadCode(p, from, k) = 2 * PayloadCode(p, from, k - 1) + p[from + k - 1]
         /\ \A k \in 0..n : PayloadCode(p, from, k) \in Nat
<1> DEFINE d == [k \in 1..n |-> p[from + k - 1]]
           Is(h, m) == h = [k \in 0..m |-> IF k = 0 THEN 0 ELSE 2 * h[k - 1] + p[from + k - 1]]
           C(m) == CHOOSE x : Is(x, m)
<1>1. \A k \in 1..n : d[k] = p[from + k - 1] /\ d[k] \in 0..1
  OBVIOUS
<1> HIDE DEF d
<1>2. ASSUME NEW m \in 0..n
      PROVE  Doubles(C(m), m, 0, d) /\ C(m) \in [0..m -> Int]
  <2> DEFINE zero == 0
  <2>1. zero \in Int /\ m \in Nat /\ \A k \in 1..m : d[k] \in Int
    BY <1>1
  <2> HIDE DEF zero
  <2>2. PICK h \in [0..m -> Int] : Doubles(h, m, zero, d)
    BY <2>1, DoublingExists
  <2>3. \A k \in 1..m : d[k] = p[from + k - 1]
    BY <1>1
  <2>4. h = [k \in 0..m |-> IF k = 0 THEN zero ELSE 2 * h[k - 1] + d[k]]
    BY <2>1, <2>2, DoublingFunction
  <2>5. Is(h, m)
    BY <2>3, <2>4 DEF zero
  <2>6. Is(C(m), m)
    <3> HIDE DEF Is
    <3> QED
      BY <2>5
  <2> DEFINE c == C(m)
  <2> HIDE DEF C
  <2>7. c = [k \in 0..m |-> IF k = 0 THEN zero ELSE 2 * c[k - 1] + d[k]]
    BY <2>3, <2>6 DEF zero
  <2>8. Doubles(c, m, zero, d)
    <3>1. c[0] = zero
      BY <2>1, <2>7
    <3>2. \A k \in 1..m : c[k] = 2 * c[k - 1] + d[k]
      BY <2>1, <2>7
    <3> HIDE DEF c
    <3> QED
      BY <3>1, <3>2 DEF Doubles
  <2>9. c \in [0..m -> Int]
    <3> HIDE DEF c
    <3>1. \A k \in 0..m : c[k] = h[k] /\ h[k] \in Int
      BY <2>1, <2>2, <2>8, DoublingAgree
    <3>2. c = [k \in 0..m |-> c[k]]
      BY <2>7
    <3> QED
      BY <3>1, <3>2
  <2> QED
    BY <2>8, <2>9 DEF c, zero
<1>3. \A m : PayloadCode(p, from, m) = C(m)[m]
  BY DEF PayloadCode
<1> HIDE DEF C
<1>4. PayloadCode(p, from, 0) = 0
  BY <1>2, <1>3 DEF Doubles
<1>5. ASSUME NEW k \in 1..n
      PROVE  PayloadCode(p, from, k) = 2 * PayloadCode(p, from, k - 1) + p[from + k - 1]
  <2>1. C(k)[k] = 2 * C(k)[k - 1] + d[k]
    BY <1>2 DEF Doubles
  <2> DEFINE j == k - 1
             g == C(j)
             h == C(k)
             zero == 0
  <2>2. j \in 0..n /\ j \in Nat /\ k \in 0..n /\ k \in Nat /\ j <= k /\ j \in 0..j
    OBVIOUS
  <2>3. Doubles(g, j, zero, d) /\ Doubles(h, k, zero, d)
    BY <1>2, <2>2
  <2> HIDE DEF g, h, j, zero
  <2>4. g[j] = h[j]
    BY <2>2, <2>3, DoublingAgree
  <2>5. PayloadCode(p, from, j) = g[j]
    BY <1>3 DEF g
  <2> QED
    BY <1>1, <1>3, <2>1, <2>4, <2>5 DEF h, j
<1>6. \A k \in 0..n : PayloadCode(p, from, k) \in Nat
  <2> DEFINE Wrong == {k \in Nat : k <= n /\ PayloadCode(p, from, k) \notin Nat}
  <2>1. SUFFICES ASSUME Wrong # {} PROVE FALSE
    OBVIOUS
  <2>2. PICK k \in Wrong : \A y \in Wrong : k <= y
    <3>1. Wrong \subseteq Nat
      OBVIOUS
    <3> HIDE DEF Wrong
    <3> QED
      BY <2>1, <3>1, LeastNatural
  <2>3. k # 0
    BY <1>4
  <2>4. k \in 1..n /\ k - 1 \in Nat /\ k - 1 <= n /\ ~ (k <= k - 1)
    BY <2>3
  <2>5. PayloadCode(p, from, k - 1) \in Nat
    BY <2>2, <2>4
  <2>6. p[from + k - 1] \in 0..1
    BY <2>4
  <2> QED
    BY <1>5, <2>2, <2>4, <2>5, <2>6
<1> QED
  BY <1>4, <1>5, <1>6

LEMMA PayloadCodeBound ==
  ASSUME NEW p, NEW from, NEW n \in Nat, \A k \in 1..n : p[from + k - 1] \in 0..1
  PROVE  PayloadCode(p, from, n) < 2 ^ n
<1> DEFINE V(k) == PayloadCode(p, from, k)
           Wrong == {k \in Nat : k <= n /\ ~ (V(k) < 2 ^ k)}
<1>1. SUFFICES ASSUME Wrong # {} PROVE FALSE
  OBVIOUS
<1>2. PICK k \in Wrong : \A y \in Wrong : k <= y
  <2>1. Wrong \subseteq Nat
    OBVIOUS
  <2> HIDE DEF Wrong
  <2> QED
    BY <1>1, <2>1, LeastNatural
<1>3. k # 0
  <2>1. V(0) = 0 /\ 2 ^ 0 = 1
    BY PayloadCodeFacts, PowerZero
  <2>2. V(0) < 2 ^ 0
    BY <2>1
  <2> HIDE DEF V
  <2> QED
    BY <1>2, <2>2
<1> DEFINE j == k - 1
<1>4. j \in Nat /\ j <= n /\ j \in 0..n /\ ~ (k <= j) /\ k = j + 1 /\ k \in 1..n
  BY <1>3
<1>5. V(k) = 2 * V(k - 1) + p[from + k - 1] /\ V(j) \in Nat
  <2> HIDE DEF j
  <2> QED
    BY <1>4, PayloadCodeFacts
<1>6. V(j) < 2 ^ j
  <2> HIDE DEF j
  <2> QED
    BY <1>2, <1>4
<1>7. p[from + k - 1] \in 0..1
  BY <1>4
<1> DEFINE b == p[from + k - 1]
<1>8. V(k) = 2 * V(j) + b
  BY <1>5
<1> HIDE DEF j, b
<1>9. 2 ^ k = 2 * 2 ^ j /\ 2 ^ j \in Nat
  BY <1>4, PowerNext, PowerNat
<1>10. b \in 0..1
  BY <1>7 DEF b
<1> HIDE DEF V
<1>11. V(k) < 2 ^ k
  BY <1>5, <1>6, <1>8, <1>9, <1>10
<1> QED
  BY <1>2, <1>11

\* The first codes are numbers.
LEMMA FirstCodeNat ==
  ASSUME NEW model, TypedCounts(model), NEW n \in 1..Longest
  PROVE  FirstCode(model, n) \in Nat
<1> DEFINE F(k) == FirstCode(model, k)
           Wrong == {k \in Nat : k \in 1..Longest /\ F(k) \notin Nat}
<1>0. Longest \in Nat \ {0} /\ \A k \in 1..Longest : model.counts[k] \in Nat
  BY FormatAssumption DEF Longest, TypedCounts
<1>1. SUFFICES ASSUME Wrong # {} PROVE FALSE
  BY <1>0
<1>2. PICK k \in Wrong : \A y \in Wrong : k <= y
  <2>1. Wrong \subseteq Nat
    OBVIOUS
  <2> HIDE DEF Wrong
  <2> QED
    BY <1>1, <2>1, LeastNatural
<1>3. F(1) = 0
  BY FirstCodeFacts
<1>4. k # 1
  <2> HIDE DEF F
  <2> QED
    BY <1>2, <1>3
<1> DEFINE j == k - 1
<1>5. j \in 1..(Longest - 1) /\ j \in 1..Longest /\ ~ (k <= j) /\ k = j + 1
  BY <1>0, <1>4
<1> HIDE DEF j
<1>6. F(k) = 2 * (F(j) + model.counts[j])
  BY <1>5, FirstCodeFacts
<1> HIDE DEF F
<1>7. F(j) \in Nat
  BY <1>2, <1>5
<1>8. model.counts[j] \in Nat
  BY <1>0, <1>5
<1>9. F(k) \in Nat
  BY <1>6, <1>7, <1>8
<1> QED
  BY <1>2, <1>9

\* A string of bits to decode.
BitsAt(p, from) == \A k \in 1..Longest : p[from + k - 1] \in 0..1

\* A code below the end of its length's codes is below the codes of every longer
\* length.
LEMMA BelowStays ==
  ASSUME NEW model, TypedCounts(model), NEW p, NEW from, BitsAt(p, from),
         NEW n \in 1..Longest,
         PayloadCode(p, from, n) < FirstCode(model, n) + model.counts[n],
         NEW m \in 1..Longest, n < m
  PROVE  PayloadCode(p, from, m) < FirstCode(model, m)
<1> DEFINE F(k) == FirstCode(model, k)
           V(k) == PayloadCode(p, from, k)
           Wrong == {k \in Nat : k \in 1..Longest /\ n < k /\ ~ (V(k) < F(k))}
<1>0. Longest \in Nat \ {0} /\ \A k \in 1..Longest : model.counts[k] \in Nat
  BY FormatAssumption DEF Longest, TypedCounts
<1>1. SUFFICES ASSUME Wrong # {} PROVE FALSE
  BY <1>0
<1>2. PICK k \in Wrong : \A y \in Wrong : k <= y
  <2>1. Wrong \subseteq Nat
    OBVIOUS
  <2> HIDE DEF Wrong
  <2> QED
    BY <1>1, <2>1, LeastNatural
<1> DEFINE j == k - 1
           b == p[from + k - 1]
<1>3. j \in 1..(Longest - 1) /\ j \in 1..Longest /\ ~ (k <= j) /\ k = j + 1 /\ n <= j
      /\ k \in 1..Longest
  BY <1>0
<1>4. b \in 0..1
  BY <1>3 DEF BitsAt
<1>5. V(k) = 2 * V(j) + b /\ V(j) \in Nat
  <2>1. \A i \in 1..Longest : p[from + i - 1] \in 0..1
    BY DEF BitsAt
  <2>2. k \in 1..Longest /\ j \in 0..Longest
    BY <1>3, <1>0
  <2> HIDE DEF V, j
  <2>3. V(k) = 2 * V(k - 1) + b /\ V(j) \in Nat
    BY <2>1, <2>2, <1>0, PayloadCodeFacts DEF V
  <2>4. k - 1 = j
    BY DEF j
  <2> QED
    BY <2>3, <2>4
<1> HIDE DEF j, b
<1>6. F(k) = 2 * (F(j) + model.counts[j]) /\ F(j) \in Nat
  BY <1>3, FirstCodeFacts, FirstCodeNat
<1>7. model.counts[j] \in Nat
  BY <1>0, <1>3
<1>8. V(j) < F(j) + model.counts[j]
  <2>1. CASE j = n
    BY <2>1
  <2>2. CASE j # n
    <3>1. n < j
      BY <1>3, <2>2
    <3>2. V(j) < F(j)
      <4> HIDE DEF V, F
      <4> QED
        BY <1>2, <1>3, <3>1
    <3> HIDE DEF V, F
    <3> QED
      BY <1>5, <1>6, <1>7, <3>2
  <2> QED
    BY <2>1, <2>2
<1> HIDE DEF V, F
<1>9. V(k) < F(k)
  BY <1>4, <1>5, <1>6, <1>7, <1>8
<1> QED
  BY <1>2, <1>9

\* Bits have a code of one length at most.
LEMMA OneMatch ==
  ASSUME NEW model, TypedCounts(model), NEW p, NEW from, BitsAt(p, from),
         NEW n \in 1..Longest, CodeMatches(model, p, from, n),
         NEW m \in 1..Longest, CodeMatches(model, p, from, m)
  PROVE  n = m
<1> DEFINE F(k) == FirstCode(model, k)
           V(k) == PayloadCode(p, from, k)
<1>0. Longest \in Nat \ {0} /\ \A k \in 1..Longest : model.counts[k] \in Nat
  BY FormatAssumption DEF Longest, TypedCounts
<1>1. \A k \in 1..Longest : F(k) \in Nat /\ V(k) \in Nat
  <2>1. \A k \in 1..Longest : p[from + k - 1] \in 0..1
    BY DEF BitsAt
  <2>2. \A k \in 0..Longest : V(k) \in Nat
    BY <1>0, <2>1, PayloadCodeFacts
  <2> QED
    BY <1>0, <2>2, FirstCodeNat
<1>2. ASSUME NEW k \in 1..Longest, CodeMatches(model, p, from, k)
      PROVE  F(k) <= V(k) /\ V(k) < F(k) + model.counts[k]
  <2>1. V(k) >= F(k) /\ V(k) - F(k) < model.counts[k]
    BY <1>2 DEF CodeMatches
  <2>2. V(k) \in Nat /\ F(k) \in Nat /\ model.counts[k] \in Nat
    BY <1>0, <1>1
  <2> HIDE DEF V, F
  <2> QED
    BY <2>1, <2>2
<1>3. ASSUME NEW i \in 1..Longest, NEW j \in 1..Longest, i < j,
             CodeMatches(model, p, from, i), CodeMatches(model, p, from, j)
      PROVE  FALSE
  <2>1. V(i) < F(i) + model.counts[i] /\ F(j) <= V(j)
    BY <1>2, <1>3
  <2>2. V(j) < F(j)
    BY <2>1, <1>3, BelowStays
  <2>3. V(j) \in Nat /\ F(j) \in Nat
    BY <1>1
  <2> HIDE DEF V, F
  <2> QED
    BY <2>1, <2>2, <2>3
<1>4. n < m \/ m < n \/ n = m
  BY <1>0
<1> QED
  BY <1>3, <1>4

\* When no code space is left, every string of bits has a code.
LEMMA SomeMatch ==
  ASSUME NEW model, TypedCounts(model), NEW p, NEW from, BitsAt(p, from),
         AvailableCodes(model)[Longest] = 0
  PROVE  \E n \in 1..Longest : CodeMatches(model, p, from, n)
<1> DEFINE F(k) == FirstCode(model, k)
           V(k) == PayloadCode(p, from, k)
           Inside == {k \in Nat : k \in 1..Longest /\ V(k) < F(k) + model.counts[k]}
<1>0. Longest \in Nat \ {0} /\ Longest \in 1..Longest /\ \A k \in 1..Longest : model.counts[k] \in Nat
  BY FormatAssumption DEF Longest, TypedCounts
<1>1. /\ \A k \in 1..Longest : V(k) = 2 * V(k - 1) + p[from + k - 1] /\ p[from + k - 1] \in 0..1
      /\ \A k \in 0..Longest : V(k) \in Nat
  <2>1. \A k \in 1..Longest : p[from + k - 1] \in 0..1
    BY DEF BitsAt
  <2>2. Longest \in Nat
    BY <1>0
  <2> HIDE DEF V
  <2>3. /\ \A k \in 1..Longest : V(k) = 2 * V(k - 1) + p[from + k - 1]
        /\ \A k \in 0..Longest : V(k) \in Nat
    <3> DEFINE L == Longest
    <3>1. L \in Nat /\ \A k \in 1..L : p[from + k - 1] \in 0..1
      BY <2>1, <2>2
    <3> HIDE DEF L
    <3>2. /\ PayloadCode(p, from, 0) = 0
          /\ \A k \in 1..L :
               PayloadCode(p, from, k) = 2 * PayloadCode(p, from, k - 1) + p[from + k - 1]
          /\ \A k \in 0..L : PayloadCode(p, from, k) \in Nat
      BY <3>1, PayloadCodeFacts
    <3> QED
      BY <3>2 DEF V, L
  <2> QED
    BY <2>1, <2>3
<1>2. Inside # {}
  <2>1. V(Longest) < 2 ^ Longest
    <3>1. \A k \in 1..Longest : p[from + k - 1] \in 0..1
      BY DEF BitsAt
    <3> QED
      BY <1>0, <3>1, PayloadCodeBound
  <2>2. F(Longest) + model.counts[Longest] + AvailableCodes(model)[Longest] = 2 ^ Longest
    BY <1>0, CodeSpace
  <2>3. F(Longest) \in Nat /\ model.counts[Longest] \in Nat
    BY <1>0, FirstCodeNat
  <2> HIDE DEF V, F
  <2>4. V(Longest) < F(Longest) + model.counts[Longest]
    BY <2>1, <2>2, <2>3
  <2> QED
    BY <1>0, <2>4
<1>3. PICK n \in Inside : \A y \in Inside : n <= y
  <2>1. Inside \subseteq Nat
    OBVIOUS
  <2> HIDE DEF Inside
  <2> QED
    BY <1>2, <2>1, LeastNatural
<1>4. n \in 1..Longest /\ V(n) \in Nat /\ F(n) \in Nat /\ model.counts[n] \in Nat
  <2>1. n \in 1..Longest /\ n \in 0..Longest
    BY <1>0
  <2> QED
    BY <1>0, <1>1, <2>1, FirstCodeNat
<1>5. F(n) <= V(n)
  <2>1. CASE n = 1
    <3>1. F(1) = 0
      BY FirstCodeFacts
    <3> HIDE DEF F, V
    <3> QED
      BY <1>4, <2>1, <3>1
  <2>2. CASE n # 1
    <3> DEFINE j == n - 1
               b == p[from + n - 1]
    <3>1. j \in 1..(Longest - 1) /\ j \in 1..Longest /\ j \in 0..Longest /\ ~ (n <= j) /\ n = j + 1
      BY <1>0, <2>2
    <3>2. V(n) = 2 * V(j) + b /\ b \in 0..1 /\ V(j) \in Nat
      BY <1>1, <1>4, <3>1
    <3> HIDE DEF j, b
    <3>3. F(n) = 2 * (F(j) + model.counts[j]) /\ F(j) \in Nat /\ model.counts[j] \in Nat
      BY <1>0, <3>1, FirstCodeFacts, FirstCodeNat
    <3> HIDE DEF V, F
    <3>4. ~ (V(j) < F(j) + model.counts[j])
      BY <1>3, <3>1
    <3> QED
      BY <3>2, <3>3, <3>4
  <2> QED
    BY <2>1, <2>2
<1>6. CodeMatches(model, p, from, n)
  <2>1. V(n) < F(n) + model.counts[n]
    OBVIOUS
  <2> HIDE DEF V, F
  <2>2. V(n) >= F(n) /\ V(n) - F(n) < model.counts[n]
    BY <1>4, <1>5, <2>1
  <2> QED
    BY <2>2 DEF CodeMatches, V, F
<1> QED
  BY <1>4, <1>6

\* The codes shorter than a length.
LEMMA CodesBelowFacts ==
  ASSUME NEW model, TypedCounts(model)
  PROVE  /\ CodesBelow(model, 1) = 0
         /\ \A n \in 1..Longest :
              CodesBelow(model, n + 1) = CodesBelow(model, n) + model.counts[n]
         /\ \A n \in 1..(Longest + 1) :
              /\ CodesBelow(model, n) \in Nat
              /\ CodesBelow(model, n) <= CodesBelow(model, Longest + 1)
<1> DEFINE f == [k \in 0..(Longest - 1) |-> model.counts[k + 1]]
           B(n) == CodesBelow(model, n)
<1>0. Longest \in Nat \ {0} /\ \A k \in 1..Longest : model.counts[k] \in Nat
  BY FormatAssumption DEF Longest, TypedCounts
<1>1. \A k \in 0..(Longest - 1) : f[k] = model.counts[k + 1] /\ f[k] \in Nat
  BY <1>0
<1>2. ASSUME NEW n \in 1..(Longest + 1) PROVE B(n) = PrefixSum(f, n - 1)
  <2> DEFINE g == [k \in 0..(n - 2) |-> model.counts[k + 1]]
             m == n - 1
  <2>1. m \in Nat /\ \A k \in 0..(m - 1) : g[k] = f[k]
    BY <1>0
  <2>2. B(n) = PrefixSum(g, m)
    BY DEF CodesBelow
  <2> HIDE DEF f, g, m, B
  <2>3. PrefixSum(g, m) = PrefixSum(f, m)
    BY <2>1, PrefixSumSame
  <2> QED
    BY <2>2, <2>3 DEF m
<1> HIDE DEF f, B
<1>3. B(1) = 0
  <2>1. B(1) = PrefixSum(f, 1 - 1) /\ 1 - 1 = 0
    BY <1>0, <1>2
  <2> QED
    BY <2>1, PrefixSumZero
<1>4. ASSUME NEW n \in 1..Longest PROVE B(n + 1) = B(n) + model.counts[n]
  <2> DEFINE m == n - 1
  <2>1. m \in Nat /\ m \in 0..(Longest - 1) /\ m + 1 = n /\ n \in 1..(Longest + 1)
        /\ n + 1 \in 1..(Longest + 1) /\ (n + 1) - 1 = n
    BY <1>0
  <2>2. B(n + 1) = PrefixSum(f, n) /\ B(n) = PrefixSum(f, m)
    BY <1>2, <2>1
  <2>3. f[m] = model.counts[n]
    BY <1>1, <2>1
  <2> HIDE DEF m
  <2>4. PrefixSum(f, m + 1) = PrefixSum(f, m) + f[m]
    BY <2>1, PrefixSumNext
  <2> QED
    BY <2>1, <2>2, <2>3, <2>4
<1>5. ASSUME NEW n \in 1..(Longest + 1)
      PROVE  B(n) \in Nat /\ B(n) <= B(Longest + 1)
  <2> DEFINE m == n - 1
             N == Longest
  <2>1. m \in 0..N /\ N \in Nat /\ N \in m..N /\ N + 1 \in 1..(N + 1) /\ (N + 1) - 1 = N
    BY <1>0
  <2>2. B(n) = PrefixSum(f, m) /\ B(N + 1) = PrefixSum(f, N)
    BY <1>2, <2>1
  <2>3. \A k \in 0..(N - 1) : f[k] \in Nat
    BY <1>1
  <2> HIDE DEF m, N
  <2>4. PrefixSum(f, m) \in Nat
    BY <2>1, <2>3, PrefixSumNat
  <2>5. PrefixSum(f, m) <= PrefixSum(f, N)
    BY <2>1, <2>3, PrefixSumGrows
  <2> QED
    BY <2>2, <2>4, <2>5 DEF N
<1> QED
  BY <1>3, <1>4, <1>5 DEF B

\* A complete table with its symbols.
CompleteTable(model) ==
  /\ TypedCounts(model)
  /\ model.flag # 1
  /\ \A i \in 0..(SymbolCount - 1) : model.symbols[i] \in Masks
  /\ CodesBelow(model, Longest + 1) <= SymbolCount
  /\ \A n \in 1..Longest : AvailableCodes(model)[n] >= 0
  /\ AvailableCodes(model)[Longest] = 0

LEMMA SymbolCountNat == SymbolCount \in Nat \ {0}
BY FormatAssumption, PowerPositive DEF SymbolCount

\* The position of a decoded code among the symbols.
LEMMA MatchedIndex ==
  ASSUME NEW model, CompleteTable(model), NEW p, NEW from, BitsAt(p, from),
         NEW n \in 1..Longest, CodeMatches(model, p, from, n)
  PROVE  CodesBelow(model, n) + PayloadCode(p, from, n) - FirstCode(model, n)
           \in 0..(SymbolCount - 1)
<1> DEFINE B == CodesBelow(model, n)
           V == PayloadCode(p, from, n)
           F == FirstCode(model, n)
           c == model.counts[n]
           total == CodesBelow(model, Longest + 1)
           S == SymbolCount
<1>0. Longest \in Nat \ {0} /\ TypedCounts(model) /\ c \in Nat
  BY FormatAssumption DEF Longest, CompleteTable, TypedCounts
<1>1. V \in Nat /\ F \in Nat /\ V >= F /\ V - F < c
  <2>1. \A k \in 1..Longest : p[from + k - 1] \in 0..1
    BY DEF BitsAt
  <2>2. V >= F /\ V - F < c
    BY DEF CodeMatches
  <2>3. V \in Nat
    <3>1. n \in 0..Longest /\ Longest \in Nat
      BY <1>0
    <3> HIDE DEF V
    <3> QED
      BY <3>1, <2>1, PayloadCodeFacts DEF V
  <2> QED
    BY <1>0, <2>2, <2>3, FirstCodeNat
<1>2. B + c <= total /\ B \in Nat /\ total \in Nat
  <2>1. n + 1 \in 1..(Longest + 1) /\ n \in 1..(Longest + 1) /\ Longest + 1 \in 1..(Longest + 1)
    BY <1>0
  <2>2. CodesBelow(model, n + 1) = B + c
    BY <1>0, CodesBelowFacts
  <2>3. CodesBelow(model, n + 1) <= total
    BY <1>0, <2>1, CodesBelowFacts
  <2> QED
    BY <1>0, <2>1, <2>2, <2>3, CodesBelowFacts
<1>3. total <= S /\ S \in Nat
  BY SymbolCountNat DEF CompleteTable
<1> HIDE DEF B, V, F, c, total, S
<1>4. B + V - F \in 0..(S - 1)
  BY <1>0, <1>1, <1>2, <1>3
<1> QED
  BY <1>4 DEF B, V, F, S

\* A complete table decodes every string of bits to one symbol.
LEMMA CompleteDecodes ==
  ASSUME NEW model, CompleteTable(model), NEW p, NEW from \in Nat, BitsAt(p, from),
         NEW end \in Nat, from + Longest <= end
  PROVE  \E n \in 1..Longest, m \in Masks :
            /\ Decodes(model, p, from, end, n, m)
            /\ CodeMatches(model, p, from, n)
            /\ \A k \in CodeLengths, s \in Masks :
                 Decodes(model, p, from, end, k, s) => k = n /\ s = m
<1>0. Longest \in Nat \ {0} /\ TypedCounts(model) /\ AvailableCodes(model)[Longest] = 0
  BY FormatAssumption DEF Longest, CompleteTable
<1>1. PICK n \in 1..Longest : CodeMatches(model, p, from, n)
  BY <1>0, SomeMatch
<1> DEFINE i == CodesBelow(model, n) + PayloadCode(p, from, n) - FirstCode(model, n)
           m == model.symbols[i]
<1>2. i \in 0..(SymbolCount - 1)
  BY <1>1, MatchedIndex
<1> HIDE DEF i
<1>3. m \in Masks
  BY <1>2 DEF CompleteTable
<1>4. from + n <= end /\ n \in 1..MaxCodeLength
  BY <1>0 DEF Longest
<1>5. \A k \in 1..(n - 1) : ~ CodeMatches(model, p, from, k)
  <2> TAKE k \in 1..(n - 1)
  <2>1. k \in 1..Longest /\ k # n
    BY <1>0
  <2> QED
    BY <1>0, <1>1, <2>1, OneMatch
<1>6. Decodes(model, p, from, end, n, m)
  BY <1>1, <1>4, <1>5 DEF Decodes, i, CompleteTable
<1>7. ASSUME NEW k \in CodeLengths, NEW s \in Masks, Decodes(model, p, from, end, k, s)
      PROVE  k = n /\ s = m
  <2>1. model.flag # 1
    BY DEF CompleteTable
  <2>2. /\ k \in 1..Longest
        /\ CodeMatches(model, p, from, k)
        /\ s = model.symbols[CodesBelow(model, k) + PayloadCode(p, from, k) - FirstCode(model, k)]
    BY <1>7, <2>1 DEF Decodes, Longest
  <2>3. k = n
    BY <1>0, <1>1, <2>2, OneMatch
  <2> QED
    BY <2>2, <2>3 DEF i
<1> QED
  BY <1>1, <1>3, <1>6, <1>7

\* Each index below the number of codes is a code of one length.
LEMMA LengthOfIndex ==
  ASSUME NEW model, TypedCounts(model), NEW i \in Nat,
         i < CodesBelow(model, Longest + 1)
  PROVE  \E n \in 1..Longest : /\ CodesBelow(model, n) <= i
                               /\ i < CodesBelow(model, n) + model.counts[n]
<1> DEFINE B(n) == CodesBelow(model, n)
           Past == {n \in Nat : n \in 1..Longest /\ i < B(n + 1)}
<1>0. Longest \in Nat \ {0} /\ Longest \in 1..Longest
  BY FormatAssumption DEF Longest
<1>1. PICK n \in Past : \A y \in Past : n <= y
  <2>1. Past \subseteq Nat /\ Past # {}
    BY <1>0
  <2> HIDE DEF Past
  <2> QED
    BY <2>1, LeastNatural
<1>2. n \in 1..Longest /\ B(n + 1) = B(n) + model.counts[n]
  BY CodesBelowFacts
<1>3. B(n) \in Nat
  <2>1. n \in 1..(Longest + 1)
    BY <1>0
  <2> QED
    BY <2>1, CodesBelowFacts
<1>4. B(n) <= i
  <2>1. CASE n = 1
    <3>1. B(1) = 0
      BY CodesBelowFacts
    <3> HIDE DEF B
    <3> QED
      BY <2>1, <3>1
  <2>2. CASE n # 1
    <3> DEFINE j == n - 1
    <3>1. j \in Nat /\ j \in 1..Longest /\ ~ (n <= j) /\ j + 1 = n
      BY <1>0, <1>2, <2>2
    <3> HIDE DEF j, B
    <3>2. ~ (i < B(j + 1))
      BY <1>1, <3>1
    <3> QED
      BY <1>3, <3>1, <3>2
  <2> QED
    BY <2>1, <2>2
<1> HIDE DEF B
<1>5. i < B(n) + model.counts[n]
  BY <1>1, <1>2
<1> QED
  BY <1>2, <1>4, <1>5 DEF B

\* The bits of a number, read back one by one.
LEMMA WordCode ==
  ASSUME NEW n \in Nat, NEW v \in Nat, v < 2 ^ n, NEW p, NEW from,
         \A k \in 1..n : p[from + k - 1] = (v \div 2 ^ (n - k)) % 2
  PROVE  \A k \in 0..n : PayloadCode(p, from, k) = v \div 2 ^ (n - k)
<1> DEFINE V(k) == PayloadCode(p, from, k)
           Wrong == {k \in Nat : k <= n /\ V(k) # v \div 2 ^ (n - k)}
<1>1. ASSUME NEW k \in 1..n
      PROVE  /\ v \div 2 ^ (n - k) = 2 * (v \div 2 ^ (n - k + 1)) + ((v \div 2 ^ (n - k)) % 2)
             /\ (v \div 2 ^ (n - k)) % 2 \in 0..1
  <2> DEFINE h == n - k
  <2>1. h \in Nat
    OBVIOUS
  <2> HIDE DEF h
  <2>2. /\ v \div 2 ^ h = 2 * (v \div 2 ^ (h + 1)) + ((v \div 2 ^ h) % 2)
        /\ (v \div 2 ^ h) % 2 \in 0..1
    BY <2>1, BitStep
  <2> QED
    BY <2>2 DEF h
<1>2. \A k \in 1..n : p[from + k - 1] \in 0..1
  BY <1>1
<1>3. V(0) = 0
  BY <1>2, PayloadCodeFacts
<1>4. ASSUME NEW k \in 1..n PROVE V(k) = 2 * V(k - 1) + p[from + k - 1]
  BY <1>2, PayloadCodeFacts
<1>5. v \div 2 ^ (n - 0) = 0
  <2>1. n - 0 = n /\ 2 ^ n \in Nat \ {0}
    BY PowerPositive
  <2> DEFINE w == 2 ^ n
  <2>2. w \in Nat \ {0} /\ v < w
    BY <2>1
  <2> HIDE DEF w
  <2>3. v \div w = 0
    <3>1. v \div w \in Nat /\ (v \div w) * w <= v
      BY <2>2, Quotient
    <3> DEFINE q == v \div w
    <3>2. q \in Nat /\ q * w <= v
      BY <3>1
    <3> HIDE DEF q
    <3>3. q = 0
      <4>1. SUFFICES ASSUME q # 0 PROVE FALSE
        OBVIOUS
      <4>2. q = (q - 1) + 1 /\ q - 1 \in Nat
        BY <3>2, <4>1
      <4> DEFINE r == q - 1
      <4>3. r \in Nat /\ q = r + 1
        BY <4>2
      <4> HIDE DEF r
      <4>4. q * w = r * w + w /\ r * w \in Nat
        BY <4>3, <2>2
      <4> DEFINE t == r * w
      <4>5. t \in Nat /\ t + w <= v
        BY <3>2, <4>4
      <4> HIDE DEF t
      <4> QED
        BY <2>2, <4>5
    <3> QED
      BY <3>3 DEF q
  <2> QED
    BY <2>1, <2>3 DEF w
<1>6. SUFFICES ASSUME Wrong # {} PROVE FALSE
  <2> DEFINE Q(k) == v \div 2 ^ (n - k)
  <2>1. SUFFICES ASSUME Wrong = {} PROVE \A k \in 0..n : V(k) = Q(k)
    OBVIOUS
  <2>2. Wrong = {k \in Nat : k <= n /\ V(k) # Q(k)}
    OBVIOUS
  <2> HIDE DEF Wrong, Q, V
  <2> QED
    BY <2>1, <2>2
<1>7. PICK k \in Wrong : \A y \in Wrong : k <= y
  <2>1. Wrong \subseteq Nat
    OBVIOUS
  <2> HIDE DEF Wrong
  <2> QED
    BY <1>6, <2>1, LeastNatural
<1>8. k # 0
  <2>1. V(0) = v \div 2 ^ (n - 0)
    BY <1>3, <1>5
  <2> HIDE DEF V
  <2> QED
    BY <1>7, <2>1
<1> DEFINE j == k - 1
<1>9. k \in 1..n /\ j \in Nat /\ j <= n /\ ~ (k <= j) /\ n - j = n - k + 1
  BY <1>8
<1>10. V(j) = v \div 2 ^ (n - j)
  <2> HIDE DEF j, V
  <2> QED
    BY <1>7, <1>9
<1>11. V(k) = 2 * V(j) + p[from + k - 1]
  BY <1>4, <1>9
<1>12. V(k) = v \div 2 ^ (n - k)
  <2> HIDE DEF j, V
  <2>1. V(j) = v \div 2 ^ (n - k + 1)
    BY <1>9, <1>10
  <2>2. p[from + k - 1] = (v \div 2 ^ (n - k)) % 2
    BY <1>9
  <2> QED
    BY <1>1, <1>9, <1>11, <2>1, <2>2
<1> HIDE DEF V
<1> QED
  BY <1>7, <1>12

\* A string of bits as the decoder reads it.
LEMMA PayloadIs ==
  ASSUME NEW tail \in Tails
  PROVE  /\ BitsAt(Payload(tail), 0)
         /\ \A k \in 1..Longest : Payload(tail)[0 + k - 1] = tail[k]
<1>0. Longest \in Nat /\ tail \in [1..Longest -> {0, 1}]
  BY FormatAssumption DEF Longest, Tails
<1>1. tail \in Seq({0, 1}) /\ Len(tail) = Longest
  <2>1. tail \in Seq({0, 1})
    BY <1>0, FunctionIsSequence
  <2> QED
    BY <1>0, <2>1, LenProperties
<1>2. Payload(tail) = [k \in 0..(Longest - 1) |-> tail[k + 1]]
  BY <1>1 DEF Payload
<1>3. ASSUME NEW k \in 1..Longest
      PROVE  Payload(tail)[0 + k - 1] = tail[k] /\ tail[k] \in 0..1
  <2>1. 0 + k - 1 \in 0..(Longest - 1) /\ (0 + k - 1) + 1 = k
    BY <1>0
  <2>2. tail[k] \in {0, 1}
    BY <1>0
  <2> QED
    BY <1>2, <2>1, <2>2
<1> QED
  BY <1>3 DEF BitsAt

\* A table that may hold anything in its fields.
TypedTable(model) ==
  /\ TypedCounts(model)
  /\ \A i \in 0..(SymbolCount - 1) : model.symbols[i] \in Masks

LEMMA ValidIsComplete ==
  ASSUME NEW model, TypedTable(model), ValidModel(model), model.flag = 0,
         ~ \A n \in 1..MaxCodeLength : model.counts[n] = 0
  PROVE  CompleteTable(model)
<1> DEFINE total == CodesBelow(model, MaxCodeLength + 1)
<1>0. Longest \in Nat \ {0} /\ TypedCounts(model) /\ Longest = MaxCodeLength
  BY FormatAssumption DEF Longest, TypedTable
<1>1. ValidCanonicalModel(model)
  BY DEF ValidModel
<1>2. total # 0
  <2>1. PICK n \in 1..Longest : model.counts[n] # 0
    BY <1>0
  <2>2. model.counts[n] \in Nat /\ n \in 1..(Longest + 1) /\ n + 1 \in 1..(Longest + 1)
    BY <1>0 DEF TypedCounts
  <2> DEFINE B(k) == CodesBelow(model, k)
  <2>3. B(n + 1) = B(n) + model.counts[n]
    BY <1>0, CodesBelowFacts
  <2>4. B(n) \in Nat /\ B(n + 1) \in Nat /\ B(n + 1) <= B(Longest + 1)
    BY <1>0, <2>2, CodesBelowFacts
  <2>5. B(Longest + 1) \in Nat
    <3>1. Longest + 1 \in 1..(Longest + 1)
      BY <1>0
    <3> QED
      BY <1>0, <3>1, CodesBelowFacts
  <2>6. total = B(Longest + 1)
    BY <1>0
  <2> HIDE DEF total, B
  <2> QED
    BY <2>1, <2>2, <2>3, <2>4, <2>5, <2>6
<1>3. /\ total \in 2..SymbolCount /\ AvailableCodes(model)[MaxCodeLength] = 0
      /\ \A n \in 1..MaxCodeLength : AvailableCodes(model)[n] >= 0
  BY <1>1, <1>2 DEF ValidCanonicalModel
<1>4. CodesBelow(model, Longest + 1) <= SymbolCount
  BY <1>0, <1>3, SymbolCountNat
<1>5. model.flag # 1
  OBVIOUS
<1> QED
  BY <1>0, <1>3, <1>4, <1>5 DEF CompleteTable, TypedTable

\* The symbol of any index is the one of some bits.
LEMMA SymbolReached ==
  ASSUME NEW model, CompleteTable(model), NEW i \in Nat,
         i < CodesBelow(model, Longest + 1)
  PROVE  \E tail \in Tails : \E d \in CodeLengths \X Masks :
            /\ Decodes(model, Payload(tail), 0, MaxCodeLength, d[1], d[2])
            /\ d[2] = model.symbols[i]
<1>0. Longest \in Nat \ {0} /\ TypedCounts(model) /\ Longest = MaxCodeLength
  BY FormatAssumption DEF Longest, CompleteTable
<1>1. PICK n \in 1..Longest : /\ CodesBelow(model, n) <= i
                              /\ i < CodesBelow(model, n) + model.counts[n]
  BY <1>0, LengthOfIndex
<1> DEFINE F == FirstCode(model, n)
           B == CodesBelow(model, n)
           c == model.counts[n]
           A == AvailableCodes(model)[n]
           v == F + i - B
<1>2. F \in Nat /\ B \in Nat /\ c \in Nat /\ F + c + A = 2 ^ n
  <2>1. n \in 1..(Longest + 1)
    BY <1>0
  <2> QED
    BY <1>0, <2>1, FirstCodeNat, CodesBelowFacts, CodeSpace DEF TypedCounts
<1>3. A \in Nat
  <2>1. A >= 0 /\ n \in 0..Longest
    BY <1>0 DEF CompleteTable
  <2>2. A \in Int
    BY <1>0, <2>1, AvailableFacts
  <2> QED
    BY <2>1, <2>2
<1>4. v \in Nat /\ F <= v /\ v - F < c /\ v < 2 ^ n /\ B + v - F = i
  <2> DEFINE w == 2 ^ n
  <2>1. F + c + A = w /\ B <= i /\ i < B + c
    BY <1>1, <1>2
  <2> HIDE DEF F, B, c, A, w
  <2>2. v \in Nat /\ F <= v /\ v - F < c /\ v < w /\ B + v - F = i
    BY <1>2, <1>3, <2>1
  <2> QED
    BY <2>2 DEF w
<1> HIDE DEF v
<1> DEFINE tail == [k \in 1..MaxCodeLength |-> IF k <= n THEN (v \div 2 ^ (n - k)) % 2 ELSE 0]
           p == Payload(tail)
<1>5. tail \in Tails
  <2>1. ASSUME NEW k \in 1..MaxCodeLength, k <= n
        PROVE  (v \div 2 ^ (n - k)) % 2 \in {0, 1}
    <3> DEFINE h == n - k
    <3>1. h \in Nat
      BY <2>1
    <3> HIDE DEF h
    <3>2. (v \div 2 ^ h) % 2 \in 0..1
      BY <1>4, <3>1, BitStep
    <3> QED
      BY <3>2 DEF h
  <2> QED
    BY <2>1 DEF Tails
<1>6. BitsAt(p, 0) /\ \A k \in 1..Longest : p[0 + k - 1] = tail[k]
  BY <1>5, PayloadIs
<1>7. PayloadCode(p, 0, n) = v
  <2>1. \A k \in 1..n : p[0 + k - 1] = (v \div 2 ^ (n - k)) % 2
    <3> TAKE k \in 1..n
    <3>1. k \in 1..Longest /\ k <= n /\ k \in 1..MaxCodeLength
      BY <1>0
    <3> HIDE DEF p
    <3> QED
      BY <1>6, <3>1
  <2> DEFINE zero == 0
  <2>2. n \in Nat /\ n \in 0..n /\ v < 2 ^ n
    BY <1>4
  <2>3. \A k \in 1..n : p[zero + k - 1] = (v \div 2 ^ (n - k)) % 2
    BY <2>1
  <2> HIDE DEF zero, p
  <2>4. \A k \in 0..n : PayloadCode(p, zero, k) = v \div 2 ^ (n - k)
    BY <1>4, <2>2, <2>3, WordCode
  <2>5. PayloadCode(p, zero, n) = v \div 2 ^ (n - n)
    BY <2>2, <2>4
  <2>6. v \div 2 ^ (n - n) = v
    <3>1. 2 ^ (n - n) = 1
      BY PowerZero
    <3> QED
      BY <1>4, <3>1
  <2> QED
    BY <2>5, <2>6 DEF zero
<1> HIDE DEF p
<1>8. CodeMatches(model, p, 0, n)
  BY <1>4, <1>7 DEF CodeMatches
<1>9. PICK k \in 1..Longest, m \in Masks :
         /\ Decodes(model, p, 0, MaxCodeLength, k, m)
         /\ CodeMatches(model, p, 0, k)
  <2> DEFINE zero == 0
             end == MaxCodeLength
  <2>1. zero \in Nat /\ end \in Nat /\ zero + Longest <= end /\ BitsAt(p, zero)
    BY <1>0, <1>6
  <2> HIDE DEF zero, end
  <2>2. \E k \in 1..Longest, m \in Masks :
            /\ Decodes(model, p, zero, end, k, m)
            /\ CodeMatches(model, p, zero, k)
    BY <2>1, CompleteDecodes
  <2> QED
    BY <2>2 DEF zero, end
<1>10. k = n
  <2> DEFINE zero == 0
  <2>1. BitsAt(p, zero) /\ CodeMatches(model, p, zero, n) /\ CodeMatches(model, p, zero, k)
    BY <1>6, <1>8, <1>9
  <2> HIDE DEF zero
  <2> QED
    BY <1>0, <2>1, OneMatch
<1>11. m = model.symbols[B + v - F]
  BY <1>7, <1>9, <1>10 DEF Decodes, CompleteTable
<1>12. m = model.symbols[i]
  BY <1>4, <1>11
<1>13. <<n, m>> \in CodeLengths \X Masks
  BY <1>0 DEF CodeLengths
<1> DEFINE d == <<n, m>>
<1>14. d \in CodeLengths \X Masks /\ d[1] = n /\ d[2] = m
  BY <1>13
<1> HIDE DEF d, tail
<1> QED
  BY <1>5, <1>9, <1>10, <1>12, <1>14 DEF p

\* A valid table decodes every string of bits to one mask, and lists no symbol
\* without bits.
LEMMA ValidDecodes ==
  ASSUME NEW model, TypedTable(model), ValidModel(model),
         ~ (model.flag = 0 /\ \A n \in 1..MaxCodeLength : model.counts[n] = 0)
  PROVE  LET decoded == [tail \in Tails |->
                           {d \in CodeLengths \X Masks :
                              Decodes(model, Payload(tail), 0, MaxCodeLength, d[1], d[2])}]
         IN  /\ \A tail \in Tails : Cardinality(decoded[tail]) = 1
             /\ model.flag = 0 =>
                  \A i \in 0..(CodesBelow(model, MaxCodeLength + 1) - 1) :
                    \E tail \in Tails : \E d \in decoded[tail] : d[2] = model.symbols[i]
<1> DEFINE Decoded(tail) == {d \in CodeLengths \X Masks :
                               Decodes(model, Payload(tail), 0, MaxCodeLength, d[1], d[2])}
<1>0. Longest \in Nat \ {0} /\ Longest = MaxCodeLength /\ 0 \in CodeLengths
  BY FormatAssumption DEF Longest, CodeLengths
<1>1. model.flag \in {0, 1}
  BY DEF ValidModel
<1>2. ASSUME NEW tail \in Tails PROVE \E e : Decoded(tail) = {e}
  <2>1. CASE model.flag = 1
    <3> DEFINE m == model.symbols[0]
               e == <<0, m>>
    <3>1. m \in Masks
      <4>1. 0 \in 0..(SymbolCount - 1)
        BY SymbolCountNat
      <4> QED
        BY <4>1 DEF TypedTable
    <3>2. e \in Decoded(tail)
      BY <1>0, <2>1, <3>1 DEF Decodes
    <3>3. ASSUME NEW d \in Decoded(tail) PROVE d = e
      <4>1. Decodes(model, Payload(tail), 0, MaxCodeLength, d[1], d[2]) /\ d = <<d[1], d[2]>>
        OBVIOUS
      <4>2. d[1] = 0 /\ d[2] = m
        BY <2>1, <4>1 DEF Decodes
      <4> QED
        BY <4>1, <4>2
    <3> HIDE DEF Decoded, e
    <3> QED
      BY <3>2, <3>3
  <2>2. CASE model.flag = 0
    <3>1. CompleteTable(model)
      BY <2>2, ValidIsComplete
    <3> DEFINE p == Payload(tail)
               zero == 0
               end == MaxCodeLength
    <3>2. BitsAt(p, zero) /\ zero \in Nat /\ end \in Nat /\ zero + Longest <= end
      BY <1>0, PayloadIs
    <3>3. PICK n \in 1..Longest, m \in Masks :
            /\ Decodes(model, p, zero, end, n, m)
            /\ \A k \in CodeLengths, s \in Masks :
                 Decodes(model, p, zero, end, k, s) => k = n /\ s = m
      <4> HIDE DEF p, zero, end
      <4> QED
        BY <3>1, <3>2, CompleteDecodes
    <3> DEFINE e == <<n, m>>
    <3>4. e \in CodeLengths \X Masks /\ e[1] = n /\ e[2] = m
      BY <1>0 DEF CodeLengths
    <3>5. e \in Decoded(tail)
      <4> HIDE DEF e
      <4> QED
        BY <3>3, <3>4
    <3>6. ASSUME NEW d \in Decoded(tail) PROVE d = e
      <4>1. Decodes(model, p, zero, end, d[1], d[2]) /\ d = <<d[1], d[2]>>
            /\ d[1] \in CodeLengths /\ d[2] \in Masks
        OBVIOUS
      <4>2. d[1] = n /\ d[2] = m
        BY <3>3, <4>1
      <4> QED
        BY <4>1, <4>2
    <3> HIDE DEF Decoded, e
    <3> QED
      BY <3>5, <3>6
  <2> QED
    BY <1>1, <2>1, <2>2
<1>3. ASSUME model.flag = 0, NEW i \in 0..(CodesBelow(model, MaxCodeLength + 1) - 1)
      PROVE  \E tail \in Tails : \E d \in Decoded(tail) : d[2] = model.symbols[i]
  <2>1. CompleteTable(model)
    BY <1>3, ValidIsComplete
  <2>2. CodesBelow(model, Longest + 1) \in Nat
    <3>1. Longest + 1 \in 1..(Longest + 1)
      BY <1>0
    <3> QED
      BY <3>1, CodesBelowFacts DEF TypedTable
  <2>3. i \in Nat /\ i < CodesBelow(model, Longest + 1)
    <3> DEFINE total == CodesBelow(model, MaxCodeLength + 1)
    <3>1. i \in 0..(total - 1) /\ total \in Nat
      BY <1>0, <2>2
    <3> HIDE DEF total
    <3>2. i \in Nat /\ i < total
      BY <3>1
    <3> QED
      BY <1>0, <3>2 DEF total
  <2>4. PICK tail \in Tails : \E d \in CodeLengths \X Masks :
            /\ Decodes(model, Payload(tail), 0, MaxCodeLength, d[1], d[2])
            /\ d[2] = model.symbols[i]
    BY <2>1, <2>3, SymbolReached
  <2> QED
    BY <2>4
<1>4. \A tail \in Tails : Cardinality(Decoded(tail)) = 1
  <2> HIDE DEF Decoded
  <2> QED
    BY <1>2, FS_Singleton
<1> HIDE DEF Decoded
<1> QED
  BY <1>3, <1>4 DEF Decoded

-----------------------------------------------------------------------------
(* Masks in the order of their values *)

LEMMA TableIs ==
  ASSUME NEW f
  PROVE  Table(f) = f
BY DEF Table

MaskPowers(m) == [p \in ChildPositions |-> IF p \in m THEN 2 ^ p ELSE 0]

LEMMA MaskPowersNat ==
  ASSUME NEW m, NEW p \in 0..(Fanout - 1)
  PROVE  /\ MaskPowers(m)[p] = (IF p \in m THEN 2 ^ p ELSE 0)
         /\ MaskPowers(m)[p] \in Nat /\ 2 ^ p \in Nat
<1>1. p \in Nat /\ p \in ChildPositions
  BY FormatAssumption DEF ChildPositions
<1> DEFINE w == 2 ^ p
<1>2. w \in Nat
  BY <1>1, PowerNat
<1> HIDE DEF w
<1> QED
  BY <1>1, <1>2 DEF MaskPowers, w

LEMMA ValueBelow ==
  ASSUME NEW m, NEW n \in 0..Fanout
  PROVE  PrefixSum(MaskPowers(m), n) \in Nat /\ PrefixSum(MaskPowers(m), n) < 2 ^ n
<1> DEFINE V(k) == PrefixSum(MaskPowers(m), k)
           Wrong == {k \in Nat : k <= Fanout /\ ~ (V(k) < 2 ^ k)}
<1>0. Fanout \in Nat
  BY FormatAssumption
<1>1. \A k \in 0..Fanout : V(k) \in Nat
  <2>1. \A k \in 0..(Fanout - 1) : MaskPowers(m)[k] \in Nat
    BY MaskPowersNat
  <2> QED
    BY <1>0, <2>1, PrefixSumNat
<1>2. SUFFICES ASSUME Wrong # {} PROVE FALSE
  BY <1>0, <1>1
<1>3. PICK k \in Wrong : \A y \in Wrong : k <= y
  <2>1. Wrong \subseteq Nat
    OBVIOUS
  <2> HIDE DEF Wrong
  <2> QED
    BY <1>2, <2>1, LeastNatural
<1>4. k # 0
  <2>1. V(0) = 0 /\ 2 ^ 0 = 1
    BY PrefixSumZero, PowerZero
  <2>2. V(0) < 2 ^ 0
    BY <2>1
  <2> HIDE DEF V
  <2> QED
    BY <1>3, <2>2
<1> DEFINE j == k - 1
           b == MaskPowers(m)[j]
<1>5. j \in Nat /\ j <= Fanout /\ j \in 0..Fanout /\ j \in 0..(Fanout - 1) /\ ~ (k <= j) /\ k = j + 1
  BY <1>0, <1>4
<1> HIDE DEF j
<1>6. V(k) = V(j) + b
  BY <1>5, PrefixSumNext
<1>7. b \in Nat /\ b <= 2 ^ j /\ 2 ^ j \in Nat /\ 2 ^ k = 2 * 2 ^ j
  <2> DEFINE w == 2 ^ j
  <2>1. b = (IF j \in m THEN w ELSE 0) /\ w \in Nat
    BY <1>5, MaskPowersNat
  <2>2. 2 ^ k = 2 * w
    BY <1>5, PowerNext
  <2> HIDE DEF w, b
  <2>3. b \in Nat /\ b <= w
    BY <2>1
  <2> QED
    BY <2>1, <2>2, <2>3 DEF w
<1>8. V(j) < 2 ^ j /\ V(j) \in Nat
  <2>1. V(j) \in Nat
    BY <1>1, <1>5
  <2> HIDE DEF V
  <2> QED
    BY <1>3, <1>5, <2>1
<1> HIDE DEF V, b
<1>9. V(k) < 2 ^ k
  BY <1>6, <1>7, <1>8
<1> QED
  BY <1>3, <1>9

LEMMA ValueInjective ==
  ASSUME NEW m, NEW s, PrefixSum(MaskPowers(m), Fanout) = PrefixSum(MaskPowers(s), Fanout)
  PROVE  \A p \in ChildPositions : p \in m <=> p \in s
<1> DEFINE V(k) == PrefixSum(MaskPowers(m), k)
           U(k) == PrefixSum(MaskPowers(s), k)
           Same == {k \in Nat : k <= Fanout /\ V(Fanout - k) = U(Fanout - k)
                                /\ \A p \in (Fanout - k)..(Fanout - 1) : p \in m <=> p \in s}
           Wrong == {k \in Nat : k <= Fanout /\ k \notin Same}
<1>0. Fanout \in Nat
  BY FormatAssumption
<1>1. 0 \in Same
  <2>1. Fanout - 0 = Fanout /\ \A p \in (Fanout - 0)..(Fanout - 1) : FALSE
    BY <1>0
  <2> QED
    BY <1>0, <2>1
<1>2. ASSUME NEW k \in Same, k < Fanout PROVE k + 1 \in Same
  <2> DEFINE j == Fanout - (k + 1)
             a == MaskPowers(m)[j]
             b == MaskPowers(s)[j]
             w == 2 ^ j
  <2>1. j \in 0..(Fanout - 1) /\ j \in Nat /\ j \in 0..Fanout /\ j + 1 = Fanout - k
        /\ \A p \in j..(Fanout - 1) : p = j \/ p \in (Fanout - k)..(Fanout - 1)
    BY <1>0, <1>2
  <2>2. /\ a = (IF j \in m THEN w ELSE 0)
        /\ b = (IF j \in s THEN w ELSE 0) /\ w \in Nat
    BY <2>1, MaskPowersNat
  <2> HIDE DEF j
  <2>3. V(j + 1) = V(j) + a /\ U(j + 1) = U(j) + b
    BY <2>1, PrefixSumNext
  <2>4. V(j) \in Nat /\ V(j) < w /\ U(j) \in Nat /\ U(j) < w
    BY <2>1, ValueBelow
  <2>5. V(j + 1) = U(j + 1)
    BY <2>1
  <2> HIDE DEF V, U, a, b, w
  <2>6. j \in m <=> j \in s
    BY <2>2, <2>3, <2>4, <2>5
  <2>7. V(j) = U(j)
    BY <2>2, <2>3, <2>4, <2>5, <2>6
  <2>8. \A p \in j..(Fanout - 1) : p \in m <=> p \in s
    BY <2>1, <2>6
  <2>9. k + 1 \in Nat /\ k + 1 <= Fanout
    BY <1>0, <1>2
  <2> QED
    BY <2>7, <2>8, <2>9 DEF j
<1>3. Wrong = {}
  <2>1. SUFFICES ASSUME Wrong # {} PROVE FALSE
    OBVIOUS
  <2> HIDE DEF Same
  <2>2. PICK k \in Wrong : \A y \in Wrong : k <= y
    <3>1. Wrong \subseteq Nat
      OBVIOUS
    <3> HIDE DEF Wrong
    <3> QED
      BY <2>1, <3>1, LeastNatural
  <2>3. k # 0 /\ k \in Nat /\ k <= Fanout
    BY <1>1
  <2>4. k - 1 \in Nat /\ ~ (k <= k - 1) /\ k - 1 < Fanout /\ (k - 1) + 1 = k
    BY <1>0, <2>3
  <2>5. k - 1 \in Same
    BY <1>0, <2>2, <2>4
  <2> QED
    BY <1>2, <2>4, <2>5
<1>4. Fanout \in Same
  <2> HIDE DEF Same
  <2> QED
    BY <1>0, <1>3
<1>5. \A p \in (Fanout - Fanout)..(Fanout - 1) : p \in m <=> p \in s
  BY <1>4
<1> QED
  BY <1>0, <1>5 DEF ChildPositions

\* Masks have distinct values below the number of symbols.
LEMMA SymbolValues ==
  /\ IsFiniteSet(Masks)
  /\ Cardinality(Masks) = SymbolCount
  /\ \A m \in Masks : SymbolValue(m) \in Nat /\ SymbolValue(m) < SymbolCount
  /\ \A m, s \in Masks : SymbolValue(m) = SymbolValue(s) => m = s
<1>0. Fanout \in Nat /\ Fanout \in 0..Fanout
  BY FormatAssumption
<1>1. IsFiniteSet(ChildPositions) /\ Cardinality(ChildPositions) = Fanout
  BY <1>0, FormatAssumption, FS_Interval DEF ChildPositions
<1>2. IsFiniteSet(Masks) /\ Cardinality(Masks) = SymbolCount
  BY <1>1, FS_SUBSET DEF Masks, SymbolCount
<1>3. \A m : SymbolValue(m) = PrefixSum(MaskPowers(m), Fanout)
  BY DEF SymbolValue, MaskPowers
<1>4. ASSUME NEW m \in Masks PROVE SymbolValue(m) \in Nat /\ SymbolValue(m) < SymbolCount
  BY <1>0, <1>3, ValueBelow DEF SymbolCount
<1>5. ASSUME NEW m \in Masks, NEW s \in Masks, SymbolValue(m) = SymbolValue(s)
      PROVE  m = s
  <2>1. \A p \in ChildPositions : p \in m <=> p \in s
    BY <1>3, <1>5, ValueInjective
  <2> QED
    BY <2>1 DEF Masks
<1> QED
  BY <1>2, <1>4, <1>5

\* Shorter codes first, equal lengths by the mask's value.
CanonicalKey(lengths) == [s \in Masks |-> lengths[s] * SymbolCount + SymbolValue(s)]
Coded(lengths) == {s \in Masks : lengths[s] # 0}

LEMMA CanonicalKeys ==
  ASSUME NEW lengths \in [Masks -> Nat]
  PROVE  /\ \A s \in Masks : CanonicalKey(lengths)[s] \in Nat
         /\ \A s, t \in Masks :
              CanonicalKey(lengths)[s] < CanonicalKey(lengths)[t]
                <=> \/ lengths[s] < lengths[t]
                    \/ lengths[s] = lengths[t] /\ SymbolValue(s) < SymbolValue(t)
         /\ \A s, t \in Masks :
              CanonicalKey(lengths)[s] = CanonicalKey(lengths)[t] => s = t
<1> DEFINE K == CanonicalKey(lengths)
           n == SymbolCount
<1>1. n \in Nat \ {0}
  BY SymbolCountNat
<1>2. \A s \in Masks : /\ K[s] = lengths[s] * n + SymbolValue(s) /\ lengths[s] \in Nat
                       /\ SymbolValue(s) \in Nat /\ SymbolValue(s) < n
  BY SymbolValues DEF CanonicalKey
<1> HIDE DEF K, n
<1>3. ASSUME NEW s \in Masks, NEW t \in Masks
      PROVE  /\ K[s] \in Nat
             /\ K[s] < K[t] <=> \/ lengths[s] < lengths[t]
                                \/ lengths[s] = lengths[t] /\ SymbolValue(s) < SymbolValue(t)
  <2> DEFINE a == lengths[s]
             b == lengths[t]
             v == SymbolValue(s)
             w == SymbolValue(t)
  <2>1. a \in Nat /\ b \in Nat /\ v \in Nat /\ w \in Nat /\ v < n /\ w < n
        /\ K[s] = a * n + v /\ K[t] = b * n + w
    BY <1>2
  <2> HIDE DEF a, b, v, w
  <2>2. a * n + v \in Nat /\ (a * n + v < b * n + w <=> a < b \/ (a = b /\ v < w))
    BY <1>1, <2>1, PairKey
  <2> QED
    BY <2>1, <2>2 DEF a, b, v, w
<1>4. ASSUME NEW s \in Masks, NEW t \in Masks, K[s] = K[t] PROVE s = t
  <2>1. K[s] \in Nat /\ K[t] \in Nat
    BY <1>3
  <2>2. ~ (K[s] < K[t]) /\ ~ (K[t] < K[s])
    BY <1>4, <2>1
  <2>3. /\ ~ (lengths[s] < lengths[t]) /\ ~ (lengths[t] < lengths[s])
        /\ lengths[s] \in Nat /\ lengths[t] \in Nat
    BY <1>2, <1>3, <2>2
  <2>4. lengths[s] = lengths[t]
    BY <2>3
  <2>5. ~ (SymbolValue(s) < SymbolValue(t)) /\ ~ (SymbolValue(t) < SymbolValue(s))
    BY <1>3, <2>2, <2>4
  <2>6. SymbolValue(s) = SymbolValue(t)
    BY <1>2, <2>5
  <2> QED
    BY <2>6, SymbolValues
<1> QED
  BY <1>3, <1>4 DEF K

\* The canonical order lists every coded symbol at its rank.
LEMMA CanonicalOrderIs ==
  ASSUME NEW lengths \in [Masks -> Nat]
  PROVE  LET S     == Coded(lengths)
             order == CanonicalOrder(lengths)
         IN  /\ IsFiniteSet(S) /\ Cardinality(S) \in Nat /\ Cardinality(S) <= SymbolCount
             /\ order \in [1..Cardinality(S) -> S] /\ order \in Seq(S)
             /\ Len(order) = Cardinality(S)
             /\ \A i \in 1..Cardinality(S) :
                  KeyRank(S, CanonicalKey(lengths), order[i]) = i - 1
             /\ \A i, j \in 1..Cardinality(S) : order[i] = order[j] => i = j
             /\ \A s \in S : \E i \in 1..Cardinality(S) : order[i] = s
<1> DEFINE S == Coded(lengths)
           order == CanonicalOrder(lengths)
           K == CanonicalKey(lengths)
           n == Cardinality(S)
<1>1. S \subseteq Masks
  BY DEF Coded
<1>2. IsFiniteSet(S) /\ n \in Nat /\ n <= SymbolCount
  <2>1. IsFiniteSet(S) /\ Cardinality(S) <= Cardinality(Masks)
    BY <1>1, SymbolValues, FS_Subset
  <2> QED
    BY <2>1, SymbolValues, FS_CardinalityType
<1>3. /\ \A x \in S : K[x] \in Nat
      /\ \A x, y \in S : K[x] = K[y] => x = y
  BY <1>1, CanonicalKeys
<1>4. order = [i \in 1..n |-> CHOOSE x \in S : KeyRank(S, K, x) = i - 1]
  <2> DEFINE Goes(s, t) == lengths[s] < lengths[t]
                           \/ (lengths[s] = lengths[t] /\ SymbolValue(s) < SymbolValue(t))
             Earlier(x) == {y \in S : Goes(y, x)}
             Lower(x) == {y \in S : K[y] < K[x]}
  <2>1. \A x \in S : Earlier(x) = Lower(x)
    BY <1>1, CanonicalKeys
  <2>2. order = [i \in 1..n |-> CHOOSE x \in S : Cardinality(Earlier(x)) = i - 1]
    <3> DEFINE sorted == [i \in 1..Cardinality({s \in Masks : lengths[s] # 0}) |->
                 CHOOSE x \in {s \in Masks : lengths[s] # 0} :
                   Cardinality({y \in {s \in Masks : lengths[s] # 0} : Goes(y, x)}) = i - 1]
    <3>1. order = Table(sorted)
      BY DEF CanonicalOrder, SortedBy
    <3>2. order = sorted
      <4> HIDE DEF sorted
      <4> QED
        BY <3>1, TableIs
    <3> QED
      BY <3>2 DEF Coded
  <2>3. \A x : KeyRank(S, K, x) = Cardinality(Lower(x))
    BY DEF KeyRank
  <2> HIDE DEF order, S, K, Earlier, Goes, Lower
  <2> DEFINE ByOrder(i) == CHOOSE x \in S : Cardinality(Earlier(x)) = i - 1
             ByRank(i) == CHOOSE x \in S : KeyRank(S, K, x) = i - 1
  <2>4. \A i : ByOrder(i) = ByRank(i)
    BY <2>1, <2>3
  <2>5. order = [i \in 1..n |-> ByOrder(i)]
    BY <2>2
  <2> HIDE DEF ByOrder, ByRank
  <2>6. order = [i \in 1..n |-> ByRank(i)]
    BY <2>4, <2>5
  <2> QED
    BY <2>6 DEF ByRank
<1> HIDE DEF S, order, K
<1>5. /\ \A i \in 0..(n - 1) : \E x \in S : KeyRank(S, K, x) = i
      /\ \A x \in S : KeyRank(S, K, x) \in 0..(n - 1)
      /\ \A x, y \in S : KeyRank(S, K, x) = KeyRank(S, K, y) => x = y
  BY <1>2, <1>3, Ranks
<1>6. ASSUME NEW i \in 1..n PROVE order[i] \in S /\ KeyRank(S, K, order[i]) = i - 1
  <2>1. i - 1 \in 0..(n - 1)
    BY <1>2
  <2>2. \E x \in S : KeyRank(S, K, x) = i - 1
    BY <1>5, <2>1
  <2>3. order[i] = CHOOSE x \in S : KeyRank(S, K, x) = i - 1
    BY <1>4
  <2> QED
    BY <2>2, <2>3
<1>7. order \in [1..n -> S] /\ order \in Seq(S) /\ Len(order) = n
  <2>1. order \in [1..n -> S]
    <3>1. order = [i \in 1..n |-> order[i]]
      BY <1>4
    <3> QED
      BY <1>6, <3>1
  <2>2. order \in Seq(S)
    BY <1>2, <2>1, FunctionIsSequence
  <2> QED
    BY <1>2, <2>1, <2>2, LenProperties
<1>8. ASSUME NEW i \in 1..n, NEW j \in 1..n, order[i] = order[j] PROVE i = j
  <2>1. i - 1 = j - 1
    BY <1>6, <1>8
  <2> QED
    BY <2>1
<1>9. ASSUME NEW s \in S PROVE \E i \in 1..n : order[i] = s
  <2> DEFINE i == KeyRank(S, K, s) + 1
  <2>1. KeyRank(S, K, s) \in 0..(n - 1)
    BY <1>5
  <2>2. i \in 1..n /\ i - 1 = KeyRank(S, K, s)
    BY <1>2, <2>1
  <2>3. order[i] = s
    BY <1>5, <1>6, <2>2
  <2> QED
    BY <2>2, <2>3
<1> QED
  BY <1>2, <1>6, <1>7, <1>8, <1>9 DEF S, order, K

-----------------------------------------------------------------------------
(* The merge loop *)

\* The nodes of a forest over the present symbols: each holds some, and no two the
\* same.
TreesOf(A, present) ==
  /\ IsFiniteSet(A)
  /\ \A n \in A : n.count \in Nat /\ n.symbols \subseteq present /\ n.symbols # {}
  /\ \A n, m \in A : n.symbols \intersect m.symbols # {} => n = m

LEMMA LeastSymbolIs ==
  ASSUME NEW n, n.symbols \subseteq Masks, n.symbols # {}
  PROVE  /\ \E s \in n.symbols : LeastSymbol(n) = SymbolValue(s)
         /\ LeastSymbol(n) \in Nat /\ LeastSymbol(n) < SymbolCount
<1> DEFINE V == {SymbolValue(s) : s \in n.symbols}
<1>1. V \subseteq Nat /\ V # {}
  BY SymbolValues
<1>2. LeastSymbol(n) = CHOOSE x \in V : \A y \in V : x =< y
  BY DEF LeastSymbol, Min
<1> DEFINE L == LeastSymbol(n)
<1>3. L \in V
  <2> HIDE DEF V
  <2>1. \E x \in V : \A y \in V : x =< y
    BY <1>1, LeastNatural
  <2> QED
    BY <1>2, <2>1
<1> QED
  BY <1>3, SymbolValues

LEMMA LightestIs ==
  ASSUME NEW A, TreesOf(A, Masks), A # {}
  PROVE  /\ Lightest(A) \in A
         /\ \A n \in A : Lightest(A).count <= n.count
<1> DEFINE key(n) == n.count * SymbolCount + LeastSymbol(n)
           Keys == {key(n) : n \in A}
<1>1. ASSUME NEW n \in A
      PROVE  n.count \in Nat /\ LeastSymbol(n) \in Nat /\ LeastSymbol(n) < SymbolCount
             /\ \E s \in n.symbols : LeastSymbol(n) = SymbolValue(s)
  BY LeastSymbolIs DEF TreesOf
<1>2. ASSUME NEW n \in A, NEW m \in A
      PROVE  /\ key(n) \in Nat
             /\ key(n) < key(m) <=> Lighter(n, m)
  <2> DEFINE a == n.count
             b == m.count
             v == LeastSymbol(n)
             w == LeastSymbol(m)
             c == SymbolCount
  <2>1. a \in Nat /\ b \in Nat /\ v \in Nat /\ w \in Nat /\ v < c /\ w < c /\ c \in Nat \ {0}
    BY <1>1, SymbolCountNat
  <2>2. Lighter(n, m) <=> a < b \/ (a = b /\ v < w)
    BY DEF Lighter
  <2> HIDE DEF a, b, v, w, c
  <2>3. a * c + v \in Nat /\ (a * c + v < b * c + w <=> a < b \/ (a = b /\ v < w))
    BY <2>1, PairKey
  <2> QED
    BY <2>2, <2>3 DEF a, b, v, w, c
<1>3. ASSUME NEW n \in A, NEW m \in A, n # m, key(n) = key(m) PROVE FALSE
  <2> DEFINE v == LeastSymbol(n)
             w == LeastSymbol(m)
  <2>1. ~ Lighter(n, m) /\ ~ Lighter(m, n)
    BY <1>2, <1>3
  <2>2. n.count \in Nat /\ m.count \in Nat /\ v \in Nat /\ w \in Nat
    BY <1>1
  <2>3. n.count = m.count /\ v = w
    BY <2>1, <2>2 DEF Lighter
  <2>4. PICK s \in n.symbols, t \in m.symbols : v = SymbolValue(s) /\ w = SymbolValue(t)
    BY <1>1
  <2>5. s \in Masks /\ t \in Masks
    BY DEF TreesOf
  <2>6. s = t
    BY <2>3, <2>4, <2>5, SymbolValues
  <2> QED
    BY <1>3, <2>6 DEF TreesOf
<1>4. PICK k \in Keys : \A y \in Keys : k <= y
  <2>1. Keys \subseteq Nat /\ Keys # {}
    BY <1>2
  <2> HIDE DEF Keys
  <2> QED
    BY <2>1, LeastNatural
<1>5. PICK a \in A : k = key(a)
  OBVIOUS
<1>6. \A b \in A \ {a} : Lighter(a, b)
  <2> TAKE b \in A \ {a}
  <2>1. key(a) <= key(b) /\ key(a) # key(b) /\ key(a) \in Nat /\ key(b) \in Nat
    BY <1>2, <1>3, <1>4, <1>5
  <2> DEFINE x == key(a)
             y == key(b)
  <2>2. x <= y /\ x # y /\ x \in Nat /\ y \in Nat
    BY <2>1
  <2> HIDE DEF x, y
  <2>3. x < y
    BY <2>2
  <2> QED
    BY <1>2, <2>3 DEF x, y
<1> HIDE DEF key
<1>7. Lightest(A) \in A /\ \A b \in A \ {Lightest(A)} : Lighter(Lightest(A), b)
  BY <1>6 DEF Lightest
<1>8. ASSUME NEW n \in A PROVE Lightest(A).count <= n.count
  <2>1. n.count \in Nat /\ Lightest(A).count \in Nat
    BY <1>7 DEF TreesOf
  <2>2. n = Lightest(A) \/ Lighter(Lightest(A), n)
    BY <1>7
  <2> QED
    BY <2>1, <2>2 DEF Lighter
<1> QED
  BY <1>7, <1>8

\* What a code of each length takes of the code space.
Weights(lengths) == [s \in Masks |-> 2 ^ (Longest - lengths[s])]

\* The forest after some merges: every node is a tree over its symbols, no
\* deeper than they are many, whose codes fill the code space.
Forest(f, present, merges) ==
  /\ TreesOf(f.active, present)
  /\ Cardinality(f.active) = Cardinality(present) - merges
  /\ \A s \in present : \E n \in f.active : s \in n.symbols
  /\ f.lengths \in [Masks -> Nat]
  /\ \A s \in Masks \ present : f.lengths[s] = 0
  /\ \A n \in f.active : \A s \in n.symbols :
       /\ f.lengths[s] + 1 <= Cardinality(n.symbols)
       /\ f.lengths[s] = 0 => n.symbols = {s}
  /\ \A n \in f.active : SetSum(Weights(f.lengths), n.symbols) = 2 ^ Longest

\* A format whose longest code has room for the deepest tree.
LEMMA LengthRoom ==
  /\ Longest \in Nat \ {0}
  /\ \A T \in SUBSET Masks : /\ IsFiniteSet(T)
                             /\ Cardinality(T) \in Nat
                             /\ Cardinality(T) <= Longest + 1
<1>1. Longest \in Nat \ {0} /\ SymbolCount \in Nat /\ SymbolCount <= Longest + 1
  <2>1. Longest \in Nat \ {0} /\ SymbolCount \in Nat
    BY FormatAssumption, SymbolCountNat DEF Longest
  <2>2. SymbolCount - 1 <= Longest
    BY LengthAssumption DEF Longest
  <2> QED
    BY <2>1, <2>2
<1>2. ASSUME NEW T \in SUBSET Masks
      PROVE  IsFiniteSet(T) /\ Cardinality(T) \in Nat /\ Cardinality(T) <= Longest + 1
  <2>1. IsFiniteSet(T) /\ Cardinality(T) <= SymbolCount
    BY SymbolValues, FS_Subset
  <2> QED
    BY <1>1, <2>1, FS_CardinalityType
<1> QED
  BY <1>1, <1>2

LEMMA WeightFacts ==
  ASSUME NEW lengths, NEW s \in Masks, lengths[s] \in Nat, lengths[s] <= Longest
  PROVE  Weights(lengths)[s] = 2 ^ (Longest - lengths[s]) /\ Weights(lengths)[s] \in Nat
<1> DEFINE k == Longest - lengths[s]
<1>1. k \in Nat
  BY LengthRoom
<1> HIDE DEF k
<1>2. 2 ^ k \in Nat
  BY <1>1, PowerNat
<1> QED
  BY <1>2 DEF Weights, k

\* A tree set one deeper weighs half as much.
LEMMA DeeperWeighsHalf ==
  ASSUME NEW old, NEW new, NEW T \in SUBSET Masks,
         \A s \in T : old[s] \in Nat /\ new[s] = old[s] + 1 /\ new[s] <= Longest
  PROVE  SetSum(Weights(old), T) = 2 * SetSum(Weights(new), T)
<1>1. ASSUME NEW s \in T
      PROVE  Weights(new)[s] \in Nat /\ Weights(old)[s] = 2 * Weights(new)[s]
  <2> DEFINE k == Longest - new[s]
  <2>1. k \in Nat /\ Longest - old[s] = k + 1 /\ old[s] <= Longest /\ new[s] \in Nat
    BY LengthRoom
  <2>2. Weights(new)[s] = 2 ^ k /\ Weights(new)[s] \in Nat
    BY <2>1, WeightFacts
  <2>3. Weights(old)[s] = 2 ^ (Longest - old[s])
    BY <2>1, WeightFacts
  <2> HIDE DEF k
  <2>4. 2 ^ (k + 1) = 2 * 2 ^ k
    BY <2>1, PowerNext
  <2> QED
    BY <2>1, <2>2, <2>3, <2>4
<1>2. IsFiniteSet(T)
  BY LengthRoom
<1> DEFINE f == Weights(old)
           g == Weights(new)
<1> HIDE DEF f, g
<1>3. \A s \in T : g[s] \in Nat /\ f[s] = 2 * g[s]
  BY <1>1 DEF f, g
<1>4. SetSum(f, T) = 2 * SetSum(g, T)
  BY <1>2, <1>3, SetSumTwice
<1> QED
  BY <1>4 DEF f, g

LEMMA SameWeights ==
  ASSUME NEW old, NEW new, NEW T \in SUBSET Masks,
         \A s \in T : old[s] \in Nat /\ new[s] = old[s] /\ old[s] <= Longest
  PROVE  SetSum(Weights(new), T) = SetSum(Weights(old), T)
<1> DEFINE f == Weights(new)
           g == Weights(old)
<1>1. \A s \in T : g[s] \in Nat /\ f[s] = g[s]
  <2> TAKE s \in T
  <2>1. g[s] \in Nat
    BY WeightFacts
  <2>2. f[s] = g[s]
    BY DEF Weights
  <2> QED
    BY <2>1, <2>2
<1>2. IsFiniteSet(T)
  BY LengthRoom
<1> HIDE DEF f, g
<1>3. SetSum(f, T) = SetSum(g, T)
  BY <1>1, <1>2, SetSumSame
<1> QED
  BY <1>3 DEF f, g

\* Merging the two lightest trees makes one of them.
LEMMA MergeKeepsForest ==
  ASSUME NEW present \in SUBSET Masks, NEW merges \in Nat, merges + 1 < Cardinality(present),
         NEW f, Forest(f, present, merges)
  PROVE  Forest(MergeLightest(f), present, merges + 1)
<1> DEFINE A == f.active
           left == Lightest(A)
           right == Lightest(A \ {left})
           both == left.symbols \union right.symbols
           joined == [count |-> left.count + right.count, symbols |-> both]
           rest == A \ {left, right}
           active == rest \union {joined}
           old == f.lengths
           new == [s \in Masks |-> old[s] + IF s \in both THEN 1 ELSE 0]
           P == Cardinality(present)
           g == MergeLightest(f)
<1>0. P \in Nat /\ Cardinality(A) = P - merges /\ IsFiniteSet(A)
  BY LengthRoom DEF Forest, TreesOf
<1>1. /\ IsFiniteSet(A)
      /\ \A n \in A : n.count \in Nat /\ n.symbols \subseteq present /\ n.symbols # {}
      /\ \A n, m \in A : n.symbols \intersect m.symbols # {} => n = m
  BY DEF Forest, TreesOf
<1>2. left \in A
  <2>1. A # {}
    BY <1>0, FS_EmptySet
  <2>2. TreesOf(A, Masks)
    BY <1>1 DEF TreesOf
  <2> HIDE DEF A
  <2> QED
    BY <2>1, <2>2, LightestIs
<1> HIDE DEF left
<1>3. IsFiniteSet(A \ {left}) /\ Cardinality(A \ {left}) = P - merges - 1
  <2>1. Cardinality(A \ {left}) = Cardinality(A) - 1 /\ IsFiniteSet(A \ {left})
    BY <1>1, <1>2, FS_RemoveElement
  <2> QED
    BY <1>0, <2>1
<1>4. right \in A /\ right # left
  <2> DEFINE B == A \ {left}
  <2>1. B # {}
    BY <1>0, <1>3, FS_EmptySet
  <2>2. TreesOf(B, Masks)
    BY <1>1, <1>3 DEF TreesOf
  <2>3. right = Lightest(B)
    OBVIOUS
  <2> HIDE DEF B, right
  <2>4. right \in B
    BY <2>1, <2>2, <2>3, LightestIs
  <2> QED
    BY <2>4 DEF B
<1> HIDE DEF right
<1>5. IsFiniteSet(rest) /\ Cardinality(rest) = P - merges - 2
  <2>1. rest = (A \ {left}) \ {right} /\ right \in A \ {left}
    BY <1>4
  <2>2. IsFiniteSet(rest) /\ Cardinality(rest) = Cardinality(A \ {left}) - 1
    BY <1>3, <2>1, FS_RemoveElement, SMTT(30)
  <2> QED
    BY <1>0, <1>3, <2>2
<1>6. /\ left.symbols \subseteq present /\ right.symbols \subseteq present
      /\ left.symbols # {} /\ right.symbols # {}
      /\ left.symbols \intersect right.symbols = {}
      /\ left.count \in Nat /\ right.count \in Nat
  BY <1>1, <1>2, <1>4
<1>7. ASSUME NEW n \in rest PROVE n \in A /\ n.symbols \intersect both = {}
  BY <1>1, <1>2, <1>4
<1>8. g.active = active /\ g.lengths = new
  <2>1. g = [active |-> active, lengths |-> Table(new)]
    BY DEF MergeLightest, left, right
  <2>2. Table(new) = new
    <3> HIDE DEF new
    <3> QED
      BY TableIs
  <2> QED
    BY <2>1, <2>2
<1>9. joined.count \in Nat /\ joined.symbols = both /\ both \subseteq present /\ both # {}
  BY <1>6
<1>10. joined \notin rest
  <2>1. joined.symbols \intersect both # {}
    BY <1>9
  <2> QED
    BY <1>7, <2>1
<1> HIDE DEF joined, A
<1>11. TreesOf(active, present)
  <2>1. IsFiniteSet(active)
    BY <1>5, FS_AddElement
  <2>2. \A n \in active : n.count \in Nat /\ n.symbols \subseteq present /\ n.symbols # {}
    BY <1>1, <1>7, <1>9
  <2>3. ASSUME NEW n \in active, NEW m \in active, n.symbols \intersect m.symbols # {}
        PROVE  n = m
    <3>1. CASE n \in rest /\ m \in rest
      BY <1>1, <1>7, <2>3, <3>1
    <3>2. CASE n = joined /\ m = joined
      BY <3>2
    <3>3. CASE n \in rest /\ m = joined
      BY <1>7, <1>9, <2>3, <3>3
    <3>4. CASE n = joined /\ m \in rest
      BY <1>7, <1>9, <2>3, <3>4
    <3> QED
      BY <3>1, <3>2, <3>3, <3>4
  <2> HIDE DEF active
  <2> QED
    BY <2>1, <2>2, <2>3 DEF TreesOf
<1>12. Cardinality(active) = P - (merges + 1)
  <2>1. Cardinality(active) = Cardinality(rest) + 1
    BY <1>5, <1>10, FS_AddElement
  <2> QED
    BY <1>0, <1>5, <2>1
<1>13. ASSUME NEW s \in present PROVE \E n \in active : s \in n.symbols
  <2>1. PICK n \in A : s \in n.symbols
    BY DEF Forest, A
  <2>2. CASE n \in rest
    BY <2>1, <2>2
  <2>3. CASE n \notin rest
    BY <1>9, <2>1, <2>3
  <2> QED
    BY <2>2, <2>3
<1>14. old \in [Masks -> Nat] /\ \A s \in Masks \ present : old[s] = 0
  BY DEF Forest
<1>15. /\ \A n \in A : \A s \in n.symbols :
              /\ old[s] + 1 <= Cardinality(n.symbols)
              /\ old[s] = 0 => n.symbols = {s}
       /\ \A n \in A : SetSum(Weights(old), n.symbols) = 2 ^ Longest
  BY DEF Forest, A
<1> HIDE DEF old
<1>16. new \in [Masks -> Nat] /\ \A s \in Masks \ present : new[s] = 0
  BY <1>9, <1>14
<1>17. /\ \A s \in both : new[s] = old[s] + 1
       /\ \A s \in Masks \ both : new[s] = old[s]
  <2>1. both \subseteq Masks
    BY <1>9
  <2> QED
    BY <1>14, <2>1
<1> HIDE DEF new
<1>18. Cardinality(both) = Cardinality(left.symbols) + Cardinality(right.symbols)
       /\ Cardinality(left.symbols) \in Nat \ {0} /\ Cardinality(right.symbols) \in Nat \ {0}
       /\ Cardinality(both) <= Longest + 1
  <2>1. IsFiniteSet(left.symbols) /\ IsFiniteSet(right.symbols) /\ Cardinality(both) <= Longest + 1
        /\ Cardinality(left.symbols) \in Nat /\ Cardinality(right.symbols) \in Nat
    BY <1>6, <1>9, LengthRoom
  <2>2. Cardinality(left.symbols \intersect right.symbols) = 0
    BY <1>6, FS_EmptySet
  <2>3. Cardinality(both) = Cardinality(left.symbols) + Cardinality(right.symbols)
                            - Cardinality(left.symbols \intersect right.symbols)
    BY <2>1, FS_Union
  <2>4. Cardinality(left.symbols) # 0 /\ Cardinality(right.symbols) # 0
    BY <1>6, <2>1, FS_EmptySet
  <2> QED
    BY <2>1, <2>2, <2>3, <2>4
<1>19. ASSUME NEW s \in both
       PROVE  new[s] + 1 <= Cardinality(both) /\ new[s] # 0 /\ new[s] <= Longest /\ old[s] \in Nat
  <2>1. old[s] \in Nat /\ new[s] = old[s] + 1
    BY <1>9, <1>14, <1>17
  <2>2. old[s] + 1 <= Cardinality(left.symbols) \/ old[s] + 1 <= Cardinality(right.symbols)
    BY <1>2, <1>4, <1>15
  <2>3. new[s] + 1 <= Cardinality(both)
    BY <1>18, <2>1, <2>2
  <2>4. Longest \in Nat /\ Cardinality(both) \in Nat
    BY <1>18, LengthRoom
  <2>5. new[s] # 0
    BY <2>1
  <2>6. new[s] <= Longest
    BY <1>18, <2>1, <2>3, <2>4
  <2> QED
    BY <2>1, <2>3, <2>5, <2>6
<1>20. ASSUME NEW n \in active, NEW s \in n.symbols
       PROVE  /\ new[s] + 1 <= Cardinality(n.symbols)
              /\ new[s] = 0 => n.symbols = {s}
  <2>1. CASE n = joined
    BY <1>9, <1>19, <2>1
  <2>2. CASE n \in rest
    <3>1. s \notin both /\ s \in Masks /\ n \in A
      BY <1>1, <1>7, <2>2
    <3>2. new[s] = old[s]
      BY <1>17, <3>1
    <3> QED
      BY <1>15, <3>1, <3>2
  <2> QED
    BY <2>1, <2>2
<1>21. ASSUME NEW n \in active PROVE SetSum(Weights(new), n.symbols) = 2 ^ Longest
  <2> DEFINE Space(T) == SetSum(Weights(new), T)
             full == 2 ^ Longest
  <2>1. CASE n = joined
    <3>1. left.symbols \in SUBSET Masks /\ right.symbols \in SUBSET Masks
      BY <1>6
    <3>2. \A s \in both : old[s] \in Nat /\ new[s] = old[s] + 1 /\ new[s] <= Longest /\ new[s] \in Nat
      BY <1>17, <1>19
    <3>3. SetSum(Weights(old), left.symbols) = 2 * Space(left.symbols)
      BY <3>1, <3>2, DeeperWeighsHalf
    <3>4. SetSum(Weights(old), right.symbols) = 2 * Space(right.symbols)
      BY <3>1, <3>2, DeeperWeighsHalf
    <3>5. /\ Space(both) = Space(left.symbols) + Space(right.symbols)
          /\ Space(left.symbols) \in Nat /\ Space(right.symbols) \in Nat
      <4>1. IsFiniteSet(left.symbols) /\ IsFiniteSet(right.symbols)
        BY <3>1, LengthRoom
      <4>2. \A s \in left.symbols \union right.symbols : Weights(new)[s] \in Nat
        BY <1>6, <3>2, WeightFacts
      <4> QED
        BY <1>6, <4>1, <4>2, SetSumUnion
    <3>6. 2 * Space(left.symbols) = full /\ 2 * Space(right.symbols) = full
      BY <1>2, <1>4, <1>15, <3>3, <3>4
    <3> HIDE DEF Space, full
    <3>7. Space(both) = full
      BY <3>5, <3>6
    <3> QED
      BY <1>9, <2>1, <3>7 DEF Space, full
  <2>2. CASE n \in rest
    <3>1. n \in A /\ n.symbols \subseteq Masks /\ n.symbols \intersect both = {}
      BY <1>1, <1>7, <2>2
    <3>2. ASSUME NEW s \in n.symbols
          PROVE  old[s] \in Nat /\ new[s] = old[s] /\ old[s] <= Longest
      <4>1. new[s] = old[s] /\ old[s] \in Nat /\ old[s] + 1 <= Cardinality(n.symbols)
        BY <1>14, <1>15, <1>17, <3>1
      <4>2. Cardinality(n.symbols) \in Nat /\ Cardinality(n.symbols) <= Longest + 1 /\ Longest \in Nat
        BY <3>1, LengthRoom
      <4> QED
        BY <4>1, <4>2
    <3>3. Space(n.symbols) = SetSum(Weights(old), n.symbols)
      BY <3>1, <3>2, SameWeights
    <3> QED
      BY <1>15, <3>1, <3>3
  <2> QED
    BY <2>1, <2>2
<1> HIDE DEF active, g, P
<1>22. Forest(g, present, merges + 1)
  BY <1>8, <1>11, <1>12, <1>13, <1>16, <1>20, <1>21 DEF Forest, P
<1> QED
  BY <1>22 DEF g

PresentIn(c) == {s \in Masks : c[s] # 0}
SingleTrees(c) == {[count |-> c[s], symbols |-> {s}] : s \in PresentIn(c)}
FirstForest(c) == [active |-> SingleTrees(c), lengths |-> NoLengths(PresentIn(c))]
Merges(h, c, n) ==
  h = [turn \in 0..n |-> IF turn = 0 THEN FirstForest(c) ELSE MergeLightest(h[turn - 1])]

\* The merge loop runs for any number of turns.
LEMMA MergesExist ==
  ASSUME NEW c, NEW N \in Nat
  PROVE  \E h : Merges(h, c, N)
<1> DEFINE Missing == {n \in Nat : ~ \E h : Merges(h, c, n)}
<1>1. SUFFICES ASSUME Missing # {} PROVE FALSE
  OBVIOUS
<1>2. PICK n \in Missing : \A y \in Missing : n <= y
  <2>1. Missing \subseteq Nat
    OBVIOUS
  <2> HIDE DEF Missing
  <2> QED
    BY <1>1, <2>1, LeastNatural
<1>3. CASE n = 0
  <2> DEFINE h == [turn \in 0..0 |-> FirstForest(c)]
  <2>1. \A turn \in 0..0 : turn = 0
    OBVIOUS
  <2>2. h = [turn \in 0..0 |-> IF turn = 0 THEN FirstForest(c) ELSE MergeLightest(h[turn - 1])]
    BY <2>1
  <2>3. Merges(h, c, 0)
    <3> HIDE DEF h
    <3> QED
      BY <2>2 DEF Merges
  <2> HIDE DEF h
  <2> QED
    BY <1>3, <2>3
<1>4. CASE n # 0
  <2>1. n - 1 \in Nat /\ ~ (n <= n - 1) /\ n \in Nat
    BY <1>4
  <2>2. PICK h : Merges(h, c, n - 1)
    BY <1>2, <2>1
  <2> DEFINE g == [turn \in 0..n |-> IF turn = n THEN MergeLightest(h[n - 1]) ELSE h[turn]]
  <2>3. ASSUME NEW k \in 0..(n - 1)
        PROVE  h[k] = IF k = 0 THEN FirstForest(c) ELSE MergeLightest(h[k - 1])
    BY <2>2 DEF Merges
  <2>4. ASSUME NEW k \in 0..n
        PROVE  g[k] = IF k = 0 THEN FirstForest(c) ELSE MergeLightest(g[k - 1])
    <3>1. CASE k = n
      <4>1. g[k - 1] = h[n - 1] /\ k # 0
        BY <2>1, <3>1, <1>4
      <4> QED
        BY <3>1, <4>1
    <3>2. CASE k # n
      <4>1. k \in 0..(n - 1) /\ g[k] = h[k]
        BY <2>1, <3>2
      <4>2. CASE k = 0
        BY <2>3, <4>1, <4>2
      <4>3. CASE k # 0
        <5>1. k - 1 \in 0..n /\ k - 1 # n /\ g[k - 1] = h[k - 1]
          BY <2>1, <3>2, <4>3
        <5> QED
          BY <2>3, <4>1, <4>3, <5>1
      <4> QED
        BY <4>2, <4>3
    <3> QED
      BY <3>1, <3>2
  <2>5. g = [turn \in 0..n |-> g[turn]]
    OBVIOUS
  <2> HIDE DEF g
  <2>6. Merges(g, c, n)
    <3> DEFINE Body(turn) == IF turn = 0 THEN FirstForest(c) ELSE MergeLightest(g[turn - 1])
    <3>1. \A turn \in 0..n : g[turn] = Body(turn)
      BY <2>4
    <3> HIDE DEF Body
    <3>2. g = [turn \in 0..n |-> Body(turn)]
      BY <2>5, <3>1
    <3> QED
      BY <3>2 DEF Merges, Body
  <2> QED
    BY <2>6
<1> QED
  BY <1>3, <1>4

\* One tree for each present symbol.
LEMMA FirstIsForest ==
  ASSUME NEW c \in [Masks -> Nat]
  PROVE  Forest(FirstForest(c), PresentIn(c), 0)
<1> DEFINE present == PresentIn(c)
           f == FirstForest(c)
           tree == [s \in present |-> [count |-> c[s], symbols |-> {s}]]
           A == f.active
<1>1. present \in SUBSET Masks /\ IsFiniteSet(present) /\ Cardinality(present) \in Nat
  <2>1. present \in SUBSET Masks
    BY DEF PresentIn
  <2> QED
    BY <2>1, LengthRoom
<1>2. A = {tree[s] : s \in present} /\ f.lengths = [s \in Masks |-> 0]
  BY DEF FirstForest, SingleTrees, NoLengths
<1>3. \A s \in present : tree[s].count = c[s] /\ tree[s].symbols = {s} /\ c[s] \in Nat
  BY <1>1
<1> HIDE DEF present, tree
<1>4. IsFiniteSet(A) /\ Cardinality(A) = Cardinality(present)
  <2> HIDE DEF f
  <2> DEFINE g == [s \in present |-> tree[s]]
  <2>1. g \in Bijection(present, A)
    <3>1. g \in [present -> A] /\ \A t \in A : \E s \in present : g[s] = t
      BY <1>2
    <3>2. \A s, t \in present : g[s] = g[t] => s = t
      <4>1. ASSUME NEW s \in present, NEW t \in present, g[s] = g[t] PROVE s = t
        <5>1. tree[s] = tree[t]
          BY <4>1
        <5>2. {s} = {t}
          BY <1>3, <5>1
        <5> QED
          BY <5>2
      <4> QED
        BY <4>1
    <3> HIDE DEF g, A
    <3> QED
      BY <3>1, <3>2 DEF Bijection, Injection, Surjection, IsInjective
  <2>2. ExistsBijection(present, A)
    BY <2>1 DEF ExistsBijection
  <2> HIDE DEF A
  <2> QED
    BY <1>1, <2>2, FS_Bijection
<1>5. TreesOf(A, present)
  <2>1. \A n \in A : n.count \in Nat /\ n.symbols \subseteq present /\ n.symbols # {}
    BY <1>2, <1>3
  <2>2. \A n, m \in A : n.symbols \intersect m.symbols # {} => n = m
    BY <1>2, <1>3
  <2> HIDE DEF A
  <2> QED
    BY <1>4, <2>1, <2>2 DEF TreesOf
<1>6. \A s \in present : \E n \in A : s \in n.symbols
  BY <1>2, <1>3
<1>7. f.lengths \in [Masks -> Nat] /\ \A s \in Masks : f.lengths[s] = 0
  BY <1>2
<1>8. ASSUME NEW n \in A
      PROVE  /\ \A s \in n.symbols : /\ f.lengths[s] + 1 <= Cardinality(n.symbols)
                                     /\ n.symbols = {s}
             /\ SetSum(Weights(f.lengths), n.symbols) = 2 ^ Longest
  <2>1. PICK s \in present : n.symbols = {s}
    BY <1>2, <1>3
  <2>2. s \in Masks /\ f.lengths[s] = 0
    BY <1>1, <1>7
  <2>3. Cardinality(n.symbols) = 1 /\ IsFiniteSet({s})
    BY <2>1, FS_Singleton
  <2> DEFINE Space == Weights(f.lengths)
  <2>4. Space[s] = 2 ^ Longest /\ Space[s] \in Nat
    <3>1. Longest - 0 = Longest /\ 0 <= Longest
      BY LengthRoom
    <3> QED
      BY <2>2, <3>1, WeightFacts
  <2> HIDE DEF Space
  <2>5. SetSum(Space, {s}) = Space[s]
    <3> DEFINE T == {s}
    <3>1. s \in T /\ T \ {s} = {} /\ \A a \in T : Space[a] \in Nat
      BY <2>4
    <3>2. IsFiniteSet(T)
      BY <2>3
    <3> HIDE DEF T
    <3>3. SetSum(Space, T) = Space[s] + SetSum(Space, T \ {s})
      BY <3>1, <3>2, SetSumRemove
    <3>4. SetSum(Space, T \ {s}) = 0
      BY <3>1, SetSumEmpty
    <3>5. SetSum(Space, T) = Space[s]
      BY <2>4, <3>3, <3>4
    <3> QED
      BY <3>5 DEF T
  <2>6. 0 + 1 <= 1
    OBVIOUS
  <2> QED
    BY <2>1, <2>2, <2>3, <2>4, <2>5, <2>6 DEF Space
<1>9. Cardinality(A) = Cardinality(present) - 0
  BY <1>1, <1>4
<1> HIDE DEF f
<1>10. Forest(f, present, 0)
  BY <1>5, <1>6, <1>7, <1>8, <1>9 DEF Forest
<1> QED
  BY <1>10 DEF f, present

\* Merging stays a forest until one tree is left.
LEMMA ForestsAre ==
  ASSUME NEW c \in [Masks -> Nat], NEW N \in Nat, NEW h, Merges(h, c, N),
         NEW k \in 0..N, k < Cardinality(PresentIn(c))
  PROVE  Forest(h[k], PresentIn(c), k)
<1> DEFINE present == PresentIn(c)
           Wrong == {i \in Nat : i \in 0..N /\ i < Cardinality(present) /\ ~ Forest(h[i], present, i)}
<1>0. present \in SUBSET Masks /\ Cardinality(present) \in Nat
  <2>1. present \in SUBSET Masks
    BY DEF PresentIn
  <2> QED
    BY <2>1, LengthRoom
<1>1. SUFFICES ASSUME Wrong # {} PROVE FALSE
  OBVIOUS
<1>2. PICK i \in Wrong : \A y \in Wrong : i <= y
  <2>1. Wrong \subseteq Nat
    OBVIOUS
  <2> HIDE DEF Wrong
  <2> QED
    BY <1>1, <2>1, LeastNatural
<1>3. i # 0
  <2>1. h[0] = FirstForest(c)
    BY DEF Merges
  <2>2. Forest(h[0], present, 0)
    BY <2>1, FirstIsForest
  <2> QED
    BY <1>2, <2>2
<1> DEFINE j == i - 1
<1>4. i \in 0..N /\ j \in Nat /\ j \in 0..N /\ j < Cardinality(present) /\ ~ (i <= j) /\ i = j + 1
      /\ i < Cardinality(present)
  BY <1>0, <1>3
<1>5. h[i] = MergeLightest(h[j])
  BY <1>3, <1>4 DEF Merges
<1> HIDE DEF present, j
<1>6. Forest(h[j], present, j)
  BY <1>2, <1>4
<1>7. Forest(h[i], present, i)
  BY <1>0, <1>4, <1>5, <1>6, MergeKeepsForest
<1> QED
  BY <1>2, <1>7

\* The code lengths of a context: those of a single tree over its symbols.
LEMMA CodeLengthsAre ==
  ASSUME NEW c \in [Masks -> Nat]
  PROVE  LET present == PresentIn(c)
             lengths == CodeLengthsOf(c)
         IN  /\ lengths \in [Masks -> Nat]
             /\ \A s \in Masks \ present : lengths[s] = 0
             /\ \A s \in Masks : lengths[s] <= Longest
             /\ Cardinality(present) <= 1 => \A s \in Masks : lengths[s] = 0
             /\ Cardinality(present) > 1 =>
                  /\ \A s \in present : lengths[s] # 0
                  /\ SetSum(Weights(lengths), present) = 2 ^ Longest
<1> DEFINE present == PresentIn(c)
           P == Cardinality(present)
           h == CHOOSE x : Merges(x, c, P)
           lengths == CodeLengthsOf(c)
<1>1. present \in SUBSET Masks /\ P \in Nat /\ IsFiniteSet(present) /\ P <= Longest + 1
  <2>1. present \in SUBSET Masks
    BY DEF PresentIn
  <2> QED
    BY <2>1, LengthRoom
<1>2. lengths = IF present = {} THEN NoLengths(present) ELSE h[P - 1].lengths
  BY DEF CodeLengthsOf, Merges, PresentIn, FirstForest, SingleTrees
<1>3. Merges(h, c, P)
  <2>1. \E x : Merges(x, c, P)
    BY <1>1, MergesExist
  <2> QED
    BY <2>1
<1>4. CASE present = {}
  <2>1. lengths = [s \in Masks |-> 0] /\ P = 0
    BY <1>2, <1>4, FS_EmptySet DEF NoLengths
  <2>2. 0 <= Longest
    BY LengthRoom
  <2> HIDE DEF lengths, present
  <2>3. ~ (P > 1)
    BY <2>1
  <2>4. \A s \in Masks : lengths[s] = 0 /\ lengths[s] <= Longest
    BY <2>1, <2>2
  <2>5. lengths \in [Masks -> Nat]
    BY <2>1
  <2> QED
    BY <2>3, <2>4, <2>5 DEF lengths, present
<1>5. CASE present # {}
  <2> HIDE DEF h
  <2> DEFINE f == h[P - 1]
  <2>1. P # 0
    BY <1>1, <1>5, FS_EmptySet
  <2>2. Forest(f, present, P - 1)
    <3> DEFINE k == P - 1
    <3>1. k \in 0..P /\ k < P
      BY <1>1, <2>1
    <3> HIDE DEF k
    <3>2. Forest(h[k], present, k)
      BY <1>1, <1>3, <3>1, ForestsAre
    <3> QED
      BY <3>2 DEF k
  <2>3. lengths = f.lengths
    BY <1>2, <1>5
  <2> HIDE DEF f, lengths, present
  <2>4. IsFiniteSet(f.active) /\ Cardinality(f.active) = 1
    BY <1>1, <2>2 DEF Forest, TreesOf
  <2>5. PICK n : f.active = {n}
    BY <2>4, FS_Singleton
  <2>6. n.symbols = present
    <3>1. n.symbols \subseteq present
      BY <2>2, <2>5 DEF Forest, TreesOf
    <3>2. \A s \in present : s \in n.symbols
      BY <2>2, <2>5 DEF Forest
    <3> QED
      BY <3>1, <3>2
  <2>7. /\ lengths \in [Masks -> Nat]
        /\ \A s \in Masks \ present : lengths[s] = 0
        /\ \A s \in present : /\ lengths[s] + 1 <= P
                              /\ lengths[s] = 0 => present = {s}
        /\ SetSum(Weights(lengths), present) = 2 ^ Longest
    BY <2>2, <2>3, <2>5, <2>6 DEF Forest
  <2>8. \A s \in Masks : lengths[s] <= Longest
    <3> TAKE s \in Masks
    <3>1. lengths[s] \in Nat /\ Longest \in Nat
      BY <2>7, LengthRoom
    <3>2. CASE s \in present
      <4>1. lengths[s] + 1 <= P
        BY <2>7, <3>2
      <4> HIDE DEF P
      <4> QED
        BY <1>1, <3>1, <4>1
    <3>3. CASE s \notin present
      BY <2>7, <3>1, <3>3
    <3> QED
      BY <3>2, <3>3
  <2>9. ASSUME P <= 1, NEW s \in Masks PROVE lengths[s] = 0
    <3>1. CASE s \in present
      <4>1. lengths[s] + 1 <= P /\ lengths[s] \in Nat
        BY <2>7, <3>1
      <4> HIDE DEF P
      <4> QED
        BY <1>1, <2>9, <4>1
    <3>2. CASE s \notin present
      BY <2>7, <3>2
    <3> QED
      BY <3>1, <3>2
  <2>10. ASSUME P > 1, NEW s \in present PROVE lengths[s] # 0
    <3>1. SUFFICES ASSUME lengths[s] = 0 PROVE FALSE
      OBVIOUS
    <3>2. present = {s}
      BY <2>7, <3>1
    <3>3. P = 1
      BY <3>2, FS_Singleton
    <3> HIDE DEF P
    <3> QED
      BY <2>10, <3>3
  <2> QED
    BY <2>7, <2>8, <2>9, <2>10 DEF lengths, present
<1> QED
  BY <1>4, <1>5

-----------------------------------------------------------------------------
(* The written table *)

OfLength(lengths, n) == {s \in Masks : lengths[s] = n}
ShorterThan(lengths, n) == {s \in Coded(lengths) : lengths[s] < n}
CountsLengths(model, lengths) ==
  \A n \in 1..Longest : model.counts[n] = Cardinality(OfLength(lengths, n))

LEMMA LengthClasses ==
  ASSUME NEW lengths \in [Masks -> Nat], NEW n \in Nat \ {0}
  PROVE  /\ ShorterThan(lengths, n + 1) = ShorterThan(lengths, n) \union OfLength(lengths, n)
         /\ ShorterThan(lengths, n) \intersect OfLength(lengths, n) = {}
         /\ ShorterThan(lengths, n) \in SUBSET Masks /\ OfLength(lengths, n) \in SUBSET Masks
         /\ Cardinality(ShorterThan(lengths, n + 1))
              = Cardinality(ShorterThan(lengths, n)) + Cardinality(OfLength(lengths, n))
<1> DEFINE A == ShorterThan(lengths, n)
           B == OfLength(lengths, n)
<1>1. \A s \in Masks : lengths[s] \in Nat
  OBVIOUS
<1>2. A \in SUBSET Masks /\ B \in SUBSET Masks
  BY DEF ShorterThan, OfLength, Coded
<1>3. A \intersect B = {}
  BY <1>1 DEF ShorterThan, OfLength, Coded
<1>4. ShorterThan(lengths, n + 1) = A \union B
  <2>1. \A s \in Masks : (lengths[s] # 0 /\ lengths[s] < n + 1)
                           <=> (lengths[s] # 0 /\ lengths[s] < n) \/ lengths[s] = n
    BY <1>1
  <2> QED
    BY <2>1 DEF ShorterThan, OfLength, Coded
<1> HIDE DEF A, B
<1>5. Cardinality(A \union B) = Cardinality(A) + Cardinality(B)
  <2>1. IsFiniteSet(A) /\ IsFiniteSet(B) /\ Cardinality(A) \in Nat /\ Cardinality(B) \in Nat
    BY <1>2, LengthRoom
  <2>2. Cardinality(A \union B) = Cardinality(A) + Cardinality(B) - Cardinality(A \intersect B)
    BY <2>1, FS_Union
  <2>3. Cardinality(A \intersect B) = 0
    BY <1>3, FS_EmptySet
  <2> QED
    BY <2>1, <2>2, <2>3
<1> QED
  BY <1>2, <1>3, <1>4, <1>5 DEF A, B

LEMMA CountsTyped ==
  ASSUME NEW lengths, NEW model, CountsLengths(model, lengths)
  PROVE  TypedCounts(model)
<1>1. \A n : OfLength(lengths, n) \in SUBSET Masks
  BY DEF OfLength
<1> QED
  BY <1>1, LengthRoom DEF CountsLengths, TypedCounts

\* The codes before a length are those of the symbols with a shorter one.
LEMMA BelowCounted ==
  ASSUME NEW lengths \in [Masks -> Nat], NEW model, CountsLengths(model, lengths),
         NEW n \in 1..(Longest + 1)
  PROVE  CodesBelow(model, n) = Cardinality(ShorterThan(lengths, n))
<1> DEFINE B(k) == CodesBelow(model, k)
           C(k) == Cardinality(ShorterThan(lengths, k))
           Wrong == {k \in Nat : k \in 1..(Longest + 1) /\ B(k) # C(k)}
<1>0. Longest \in Nat \ {0} /\ TypedCounts(model)
  BY LengthRoom, CountsTyped
<1>1. SUFFICES ASSUME Wrong # {} PROVE FALSE
  BY <1>0
<1>2. PICK k \in Wrong : \A y \in Wrong : k <= y
  <2>1. Wrong \subseteq Nat
    OBVIOUS
  <2> HIDE DEF Wrong
  <2> QED
    BY <1>1, <2>1, LeastNatural
<1>3. k # 1
  <2>1. B(1) = 0
    BY <1>0, CodesBelowFacts
  <2>2. ShorterThan(lengths, 1) = {}
    <3>1. \A s \in Masks : lengths[s] \in Nat
      OBVIOUS
    <3> QED
      BY <3>1 DEF ShorterThan, Coded
  <2>3. C(1) = 0
    BY <2>2, FS_EmptySet
  <2> HIDE DEF B, C
  <2> QED
    BY <1>2, <2>1, <2>3
<1> DEFINE j == k - 1
<1>4. j \in 1..Longest /\ j \in 1..(Longest + 1) /\ j \in Nat \ {0} /\ ~ (k <= j) /\ k = j + 1
  BY <1>0, <1>3
<1> HIDE DEF j
<1>5. B(j) = C(j)
  <2> HIDE DEF B, C
  <2> QED
    BY <1>2, <1>4
<1>6. B(k) = B(j) + model.counts[j]
  BY <1>0, <1>4, CodesBelowFacts
<1>7. C(k) = C(j) + Cardinality(OfLength(lengths, j))
  BY <1>4, LengthClasses
<1>8. model.counts[j] = Cardinality(OfLength(lengths, j))
  BY <1>4 DEF CountsLengths
<1> HIDE DEF B, C
<1>9. B(k) = C(k)
  BY <1>5, <1>6, <1>7, <1>8
<1> QED
  BY <1>2, <1>9

\* The code space that the codes up to a length leave.
LEMMA SpaceLeft ==
  ASSUME NEW lengths \in [Masks -> Nat], \A s \in Masks : lengths[s] <= Longest,
         NEW model, CountsLengths(model, lengths), NEW n \in 0..Longest
  PROVE  AvailableCodes(model)[n] * 2 ^ (Longest - n)
           + SetSum(Weights(lengths), ShorterThan(lengths, n + 1)) = 2 ^ Longest
<1> DEFINE A(k) == AvailableCodes(model)[k]
           Space(T) == SetSum(Weights(lengths), T)
           T(k) == ShorterThan(lengths, k + 1)
           Wrong == {k \in Nat : k \in 0..Longest /\ A(k) * 2 ^ (Longest - k) + Space(T(k)) # 2 ^ Longest}
<1>0. /\ Longest \in Nat \ {0} /\ TypedCounts(model)
      /\ A(0) = 1 /\ \A k \in 0..Longest : A(k) \in Int
      /\ \A k \in 1..Longest : A(k) = 2 * A(k - 1) - model.counts[k]
  <2>1. Longest \in Nat \ {0} /\ TypedCounts(model)
    BY LengthRoom, CountsTyped
  <2>2. AvailableCodes(model) \in [0..Longest -> Int]
    BY <2>1, AvailableFacts
  <2> QED
    BY <2>1, <2>2, AvailableFacts
<1>1. SUFFICES ASSUME Wrong # {} PROVE FALSE
  <2>1. n \in Nat
    BY <1>0
  <2> QED
    BY <2>1
<1>2. PICK k \in Wrong : \A y \in Wrong : k <= y
  <2>1. Wrong \subseteq Nat
    OBVIOUS
  <2> HIDE DEF Wrong
  <2> QED
    BY <1>1, <2>1, LeastNatural
<1>3. k # 0
  <2>1. T(0) = {}
    <3>1. \A s \in Masks : lengths[s] \in Nat
      OBVIOUS
    <3> QED
      BY <3>1 DEF ShorterThan, Coded
  <2>2. Space(T(0)) = 0
    BY <2>1, SetSumEmpty
  <2> DEFINE full == 2 ^ Longest
  <2>3. full \in Nat /\ Longest - 0 = Longest
    BY <1>0, PowerNat
  <2>4. A(0) * 2 ^ (Longest - 0) + Space(T(0)) = full
    <3> HIDE DEF Space, T, A
    <3>1. A(0) * 2 ^ (Longest - 0) = 1 * full
      BY <1>0, <2>3
    <3> HIDE DEF full
    <3> QED
      BY <2>2, <2>3, <3>1
  <2> HIDE DEF Space, T, A
  <2> QED
    BY <1>2, <2>4
<1> DEFINE j == k - 1
<1>4. /\ j \in Nat /\ j \in 0..Longest /\ ~ (k <= j) /\ k = j + 1 /\ k \in 1..Longest
      /\ k \in Nat \ {0}
  BY <1>0, <1>3
<1> HIDE DEF j
<1> DEFINE c == Cardinality(OfLength(lengths, k))
           w == 2 ^ (Longest - k)
<1>5. A(j) * 2 ^ (Longest - j) + Space(T(j)) = 2 ^ Longest
  <2> HIDE DEF A, Space, T
  <2> QED
    BY <1>2, <1>4
<1>6. A(k) = 2 * A(j) - c /\ A(j) \in Int /\ c \in Nat
  <2>1. model.counts[k] = c
    BY <1>4 DEF CountsLengths
  <2>2. c \in Nat
    <3>1. OfLength(lengths, k) \in SUBSET Masks
      BY DEF OfLength
    <3> QED
      BY <3>1, LengthRoom
  <2>3. A(k) = 2 * A(k - 1) - model.counts[k] /\ k - 1 = j /\ A(j) \in Int
    BY <1>0, <1>4
  <2> QED
    BY <2>1, <2>2, <2>3
<1>7. w \in Nat /\ 2 ^ (Longest - j) = 2 * w
  <2> DEFINE i == Longest - k
  <2>1. i \in Nat /\ Longest - j = i + 1
    BY <1>0, <1>4
  <2> HIDE DEF i
  <2>2. 2 ^ (i + 1) = 2 * 2 ^ i /\ 2 ^ i \in Nat
    BY <2>1, PowerNext, PowerNat
  <2> QED
    BY <2>1, <2>2 DEF i
<1>8. Space(T(k)) = Space(T(j)) + Space(OfLength(lengths, k)) /\ Space(T(j)) \in Nat
  <2> DEFINE X == ShorterThan(lengths, k)
             Y == OfLength(lengths, k)
             f == Weights(lengths)
  <2>1. T(k) = X \union Y /\ X \intersect Y = {} /\ X \in SUBSET Masks /\ Y \in SUBSET Masks
    BY <1>4, LengthClasses
  <2>2. T(j) = X
    BY <1>4
  <2>3. IsFiniteSet(X) /\ IsFiniteSet(Y)
    BY <2>1, LengthRoom
  <2>4. \A s \in X \union Y : f[s] \in Nat
    BY <2>1, WeightFacts
  <2> HIDE DEF X, Y, f, T
  <2>5. SetSum(f, X \union Y) = SetSum(f, X) + SetSum(f, Y) /\ SetSum(f, X) \in Nat
    BY <2>1, <2>3, <2>4, SetSumUnion
  <2> QED
    BY <2>1, <2>2, <2>5 DEF f, Y
<1>9. Space(OfLength(lengths, k)) = c * w
  <2> DEFINE Y == OfLength(lengths, k)
             f == Weights(lengths)
  <2>1. Y \in SUBSET Masks /\ IsFiniteSet(Y)
    <3>1. Y \in SUBSET Masks
      BY DEF OfLength
    <3> QED
      BY <3>1, LengthRoom
  <2>2. \A s \in Y : f[s] = w
    BY <2>1 DEF OfLength, Weights
  <2> HIDE DEF Y, f, w
  <2>3. SetSum(f, Y) = Cardinality(Y) * w
    BY <1>7, <2>1, <2>2, SetSumConstant
  <2> QED
    BY <2>3 DEF Y, f
<1> DEFINE a == A(j)
           x == Space(T(j))
<1>10. /\ a \in Int /\ x \in Nat /\ a * (2 * w) + x = 2 ^ Longest
       /\ A(k) * w + Space(T(k)) = (2 * a - c) * w + (x + c * w)
  BY <1>5, <1>6, <1>7, <1>8, <1>9
<1> HIDE DEF a, x, c, w, A, Space, T
<1>11. (2 * a - c) * w + (x + c * w) = a * (2 * w) + x
  <2>1. (2 * a - c) * w = (2 * a) * w - c * w
    BY <1>6, <1>7, <1>10
  <2>2. (2 * a) * w = a * (2 * w)
    BY <1>7, <1>10
  <2> DEFINE p == a * (2 * w)
             q == c * w
  <2>3. p \in Int /\ q \in Int
    BY <1>6, <1>7, <1>10
  <2>4. (2 * a - c) * w = p - q
    BY <2>1, <2>2
  <2> HIDE DEF p, q
  <2>5. (p - q) + (x + q) = p + x
    BY <1>10, <2>3
  <2> QED
    BY <2>4, <2>5 DEF p, q
<1>12. A(k) * w + Space(T(k)) = 2 ^ Longest
  BY <1>10, <1>11
<1> QED
  BY <1>2, <1>12 DEF w

\* What append_serialized writes.
LEMMA SerializedIs ==
  ASSUME NEW c \in [Masks -> Nat]
  PROVE  LET present == PresentIn(c)
             lengths == CodeLengthsOf(c)
             order   == CanonicalOrder(lengths)
             t       == SerializedModel(c)
         IN  /\ t.flag = IF Cardinality(present) = 1 THEN 1 ELSE 0
             /\ \A n \in 1..MaxCodeLength : t.counts[n] = Cardinality(OfLength(lengths, n))
             /\ CountsLengths(t, lengths)
             /\ t = [flag    |-> t.flag,
                     counts  |-> [n \in 1..MaxCodeLength |-> t.counts[n]],
                     symbols |-> [i \in 0..(SymbolCount - 1) |-> t.symbols[i]]]
             /\ \A i \in 0..(SymbolCount - 1) :
                  t.symbols[i] = IF Cardinality(present) = 1 /\ i = 0
                                 THEN CHOOSE s \in present : TRUE
                                 ELSE IF i < Cardinality(Coded(lengths)) THEN order[i + 1] ELSE {}
<1> DEFINE present == PresentIn(c)
           lengths == CodeLengthsOf(c)
           order == CanonicalOrder(lengths)
           t == SerializedModel(c)
           counts1 == [n \in 1..MaxCodeLength |-> Cardinality({s \in Masks : lengths[s] = n})]
           symbols1 == [i \in 0..(SymbolCount - 1) |->
                         IF Sole(present) /\ i = 0 THEN CHOOSE s \in present : TRUE
                         ELSE IF i < Len(order) THEN order[i + 1] ELSE {}]
<1>1. lengths \in [Masks -> Nat]
  BY CodeLengthsAre
<1>2. t = [flag |-> IF Sole(present) THEN 1 ELSE 0, counts |-> Table(counts1),
           symbols |-> Table(symbols1)]
  BY DEF SerializedModel, SerializedFrom, PresentIn
<1>3. Table(counts1) = counts1 /\ Table(symbols1) = symbols1
  <2> HIDE DEF counts1, symbols1
  <2> QED
    BY TableIs
<1>4. t.flag = IF Sole(present) THEN 1 ELSE 0
  BY <1>2
<1>5. t.counts = counts1 /\ t.symbols = symbols1
  BY <1>2, <1>3
<1>11. t = [flag    |-> t.flag,
            counts  |-> [n \in 1..MaxCodeLength |-> t.counts[n]],
            symbols |-> [i \in 0..(SymbolCount - 1) |-> t.symbols[i]]]
  <2>1. counts1 = [n \in 1..MaxCodeLength |-> counts1[n]]
        /\ symbols1 = [i \in 0..(SymbolCount - 1) |-> symbols1[i]]
    OBVIOUS
  <2>2. t = [flag |-> t.flag, counts |-> counts1, symbols |-> symbols1]
    BY <1>2, <1>3, <1>4
  <2> HIDE DEF t, counts1, symbols1
  <2> QED
    BY <1>5, <2>1, <2>2
<1> HIDE DEF t, lengths, present
<1>6. \A n \in 1..MaxCodeLength : t.counts[n] = Cardinality(OfLength(lengths, n))
  BY <1>5 DEF OfLength
<1>7. Len(order) = Cardinality(Coded(lengths))
  BY <1>1, CanonicalOrderIs
<1> HIDE DEF order
<1>8. \A i \in 0..(SymbolCount - 1) :
         t.symbols[i] = IF Cardinality(present) = 1 /\ i = 0
                        THEN CHOOSE s \in present : TRUE
                        ELSE IF i < Cardinality(Coded(lengths)) THEN order[i + 1] ELSE {}
  BY <1>5, <1>7 DEF Sole
<1>9. t.flag = IF Cardinality(present) = 1 THEN 1 ELSE 0
  BY <1>4 DEF Sole
<1>10. CountsLengths(t, lengths)
  BY <1>6 DEF CountsLengths, Longest
<1> QED
  BY <1>6, <1>8, <1>9, <1>10, <1>11 DEF t, lengths, present, order

\* Every symbol with a code has successors to encode, unless there is one.
LEMMA CodedIs ==
  ASSUME NEW c \in [Masks -> Nat]
  PROVE  /\ Cardinality(PresentIn(c)) > 1 => Coded(CodeLengthsOf(c)) = PresentIn(c)
         /\ ~ (Cardinality(PresentIn(c)) > 1) => Coded(CodeLengthsOf(c)) = {}
         /\ PresentIn(c) \in SUBSET Masks /\ Cardinality(PresentIn(c)) \in Nat
<1> DEFINE present == PresentIn(c)
           lengths == CodeLengthsOf(c)
<1>1. present \in SUBSET Masks /\ Cardinality(present) \in Nat
  <2>1. present \in SUBSET Masks
    BY DEF PresentIn
  <2> QED
    BY <2>1, LengthRoom
<1>2. /\ \A s \in Masks \ present : lengths[s] = 0
      /\ Cardinality(present) <= 1 => \A s \in Masks : lengths[s] = 0
      /\ Cardinality(present) > 1 => \A s \in present : lengths[s] # 0
  BY CodeLengthsAre
<1> HIDE DEF present, lengths
<1>3. Cardinality(present) > 1 => Coded(lengths) = present
  BY <1>1, <1>2 DEF Coded
<1>4. ~ (Cardinality(present) > 1) => Coded(lengths) = {}
  BY <1>1, <1>2 DEF Coded
<1> QED
  BY <1>1, <1>3, <1>4 DEF present, lengths

\* The reader finds masks in the table, and counts.
LEMMA WrittenTyped ==
  ASSUME NEW c \in [Masks -> Nat]
  PROVE  TypedTable(SerializedModel(c))
<1> DEFINE present == PresentIn(c)
           lengths == CodeLengthsOf(c)
           order == CanonicalOrder(lengths)
           t == SerializedModel(c)
           n == Cardinality(Coded(lengths))
<1>1. lengths \in [Masks -> Nat]
  BY CodeLengthsAre
<1>2. /\ CountsLengths(t, lengths)
      /\ \A i \in 0..(SymbolCount - 1) :
           t.symbols[i] = IF Cardinality(present) = 1 /\ i = 0
                          THEN CHOOSE s \in present : TRUE
                          ELSE IF i < n THEN order[i + 1] ELSE {}
  BY SerializedIs
<1>3. order \in [1..n -> Coded(lengths)] /\ n \in Nat
  BY <1>1, CanonicalOrderIs
<1>4. present \in SUBSET Masks /\ Coded(lengths) \subseteq Masks /\ {} \in Masks
  BY CodedIs DEF Coded, Masks
<1> HIDE DEF present, order, t, n, lengths
<1>5. ASSUME NEW i \in 0..(SymbolCount - 1) PROVE t.symbols[i] \in Masks
  <2>1. CASE Cardinality(present) = 1 /\ i = 0
    <3>1. present # {}
      BY <2>1, FS_EmptySet
    <3>2. (CHOOSE s \in present : TRUE) \in present
      BY <3>1
    <3> QED
      BY <1>2, <1>4, <2>1, <3>2
  <2>2. CASE ~ (Cardinality(present) = 1 /\ i = 0) /\ i < n
    <3>1. i + 1 \in 1..n
      BY <1>3, <2>2
    <3>2. order[i + 1] \in Masks
      BY <1>3, <1>4, <3>1
    <3> QED
      BY <1>2, <2>2, <3>2
  <2>3. CASE ~ (Cardinality(present) = 1 /\ i = 0) /\ ~ (i < n)
    BY <1>2, <1>4, <2>3
  <2> QED
    BY <2>1, <2>2, <2>3
<1>6. TypedCounts(t)
  BY <1>2, CountsTyped
<1>7. TypedTable(t)
  BY <1>5, <1>6 DEF TypedTable
<1> QED
  BY <1>7 DEF t

\* The codes of an ordinary context's table, and the space they leave.
LEMMA WrittenCanonical ==
  ASSUME NEW c \in [Masks -> Nat], Cardinality(PresentIn(c)) > 1
  PROVE  LET t == SerializedModel(c)
         IN  /\ CodesBelow(t, Longest + 1) = Cardinality(PresentIn(c))
             /\ \A n \in 1..Longest : AvailableCodes(t)[n] >= 0
             /\ AvailableCodes(t)[Longest] = 0
<1> DEFINE present == PresentIn(c)
           lengths == CodeLengthsOf(c)
           t == SerializedModel(c)
           Space(T) == SetSum(Weights(lengths), T)
           full == 2 ^ Longest
<1>1. /\ lengths \in [Masks -> Nat] /\ \A s \in Masks : lengths[s] <= Longest
      /\ Space(present) = full
  BY CodeLengthsAre
<1>2. CountsLengths(t, lengths)
  BY SerializedIs
<1>3. Coded(lengths) = present /\ present \in SUBSET Masks
  BY CodedIs
<1>4. Longest \in Nat \ {0} /\ IsFiniteSet(present) /\ full \in Nat
  BY <1>3, LengthRoom, PowerNat
<1> HIDE DEF lengths, t, present
<1>5. ShorterThan(lengths, Longest + 1) = present
  <2>1. \A s \in Masks : lengths[s] < Longest + 1
    BY <1>1, <1>4
  <2> QED
    BY <1>3, <2>1 DEF ShorterThan
<1>6. CodesBelow(t, Longest + 1) = Cardinality(present)
  <2>1. Longest + 1 \in 1..(Longest + 1)
    BY <1>4
  <2> QED
    BY <1>1, <1>2, <1>5, <2>1, BelowCounted
<1>7. TypedCounts(t)
  BY <1>2, CountsTyped
<1>8. ASSUME NEW n \in 1..Longest
      PROVE  AvailableCodes(t)[n] >= 0 /\ (n = Longest => AvailableCodes(t)[n] = 0)
  <2> DEFINE a == AvailableCodes(t)[n]
             w == 2 ^ (Longest - n)
             T == ShorterThan(lengths, n + 1)
  <2>1. n \in 0..Longest /\ Longest - n \in Nat
    BY <1>4
  <2>2. a * w + Space(T) = full
    BY <1>1, <1>2, <2>1, SpaceLeft
  <2>3. a \in Int
    BY <1>7, <2>1, AvailableFacts
  <2>4. w \in Nat \ {0}
    <3> DEFINE i == Longest - n
    <3>1. i \in Nat
      BY <2>1
    <3> HIDE DEF i
    <3>2. 2 ^ i \in Nat \ {0}
      BY <3>1, PowerPositive
    <3> QED
      BY <3>2 DEF i
  <2>5. Space(T) <= full /\ Space(T) \in Nat
    <3> DEFINE f == Weights(lengths)
    <3>1. T \in SUBSET present
      BY <1>3 DEF ShorterThan
    <3>2. \A s \in present : f[s] \in Nat
      BY <1>1, <1>3, WeightFacts
    <3> HIDE DEF f, T
    <3>3. SetSum(f, T) <= SetSum(f, present) /\ SetSum(f, T) \in Nat
      BY <1>4, <3>1, <3>2, SetSumGrows
    <3> QED
      BY <1>1, <3>3 DEF f
  <2> HIDE DEF a, w, Space, full
  <2>6. a >= 0
    <3>1. SUFFICES ASSUME a <= 0 - 1 PROVE FALSE
      BY <2>3
    <3> DEFINE b == 0 - a
    <3>2. b \in Nat \ {0} /\ a = 0 - b
      BY <2>3, <3>1
    <3> HIDE DEF b
    <3>3. a * w = 0 - b * w
      BY <2>4, <3>2
    <3>4. b * w \in Nat \ {0}
      <4>1. 0 * w < b * w
        <5> DEFINE zero == 0
        <5>1. zero \in Nat /\ zero < b
          BY <3>2
        <5> HIDE DEF zero
        <5>2. zero * w < b * w
          BY <2>4, <3>2, <5>1, ProductStrict
        <5> QED
          BY <5>2 DEF zero
      <4>2. 0 * w = 0 /\ b * w \in Int
        BY <2>4, <3>2
      <4> DEFINE p == b * w
      <4>3. 0 < p /\ p \in Int
        BY <4>1, <4>2
      <4> HIDE DEF p
      <4>4. p \in Nat \ {0}
        BY <4>3
      <4> QED
        BY <4>4 DEF p
    <3> DEFINE p == b * w
    <3>5. (0 - p) + Space(T) = full /\ p \in Nat \ {0}
      BY <2>2, <3>3, <3>4
    <3> HIDE DEF p
    <3> QED
      BY <1>4, <2>5, <3>5
  <2>7. ASSUME n = Longest PROVE a = 0
    <3>1. T = present
      BY <1>5, <2>7
    <3>2. w = 1
      <4>1. Longest - n \in Nat /\ Longest - n = 0
        BY <2>1, <2>7, <1>4
      <4> DEFINE i == Longest - n
      <4>2. i \in Nat /\ i = 0
        BY <4>1
      <4> HIDE DEF i
      <4>3. 2 ^ i = 1
        BY <4>2, PowerZero
      <4> QED
        BY <4>3 DEF i, w
    <3>3. Space(T) = full
      BY <1>1, <3>1 DEF Space, full
    <3>4. a * 1 + full = full
      BY <2>2, <3>2, <3>3
    <3> QED
      BY <1>4, <2>3, <3>4
  <2> QED
    BY <2>6, <2>7 DEF a
<1>9. Longest \in 1..Longest
  BY <1>4
<1> QED
  BY <1>6, <1>8, <1>9 DEF t, present

\* The reader accepts what append_serialized writes.
LEMMA WrittenValid ==
  ASSUME NEW c \in [Masks -> Nat]
  PROVE  ModelFits(c) /\ ValidModel(SerializedModel(c))
<1> DEFINE present == PresentIn(c)
           P == Cardinality(present)
           lengths == CodeLengthsOf(c)
           order == CanonicalOrder(lengths)
           t == SerializedModel(c)
           total == CodesBelow(t, MaxCodeLength + 1)
           S == SymbolCount
           n == Cardinality(Coded(lengths))
<1>1. ModelFits(c)
  <2>1. \A s \in Masks : lengths[s] <= Longest
    BY CodeLengthsAre
  <2> QED
    BY <2>1 DEF ModelFits, Longest
<1>2. /\ t.flag = IF P = 1 THEN 1 ELSE 0
      /\ \A k \in 1..MaxCodeLength : t.counts[k] = Cardinality(OfLength(lengths, k))
      /\ CountsLengths(t, lengths)
      /\ \A i \in 0..(SymbolCount - 1) :
           t.symbols[i] = IF P = 1 /\ i = 0 THEN CHOOSE s \in present : TRUE
                          ELSE IF i < n THEN order[i + 1] ELSE {}
  BY SerializedIs
<1>3. /\ lengths \in [Masks -> Nat]
      /\ P <= 1 => \A s \in Masks : lengths[s] = 0
  BY CodeLengthsAre
<1>4. /\ P > 1 => Coded(lengths) = present
      /\ ~ (P > 1) => Coded(lengths) = {}
      /\ P \in Nat
  BY CodedIs
<1>5. /\ n \in Nat /\ n <= S /\ order \in [1..n -> Coded(lengths)]
      /\ \A i, j \in 1..n : order[i] = order[j] => i = j
  BY <1>3, CanonicalOrderIs
<1>6. Longest = MaxCodeLength /\ Longest \in Nat \ {0} /\ S \in Nat \ {0}
  BY LengthRoom, SymbolCountNat DEF Longest
<1>7. CASE P > 1
  <2>1. /\ total = P /\ AvailableCodes(t)[MaxCodeLength] = 0
        /\ \A k \in 1..MaxCodeLength : AvailableCodes(t)[k] >= 0
    BY <1>6, <1>7, WrittenCanonical
  <2>2. n = P
    BY <1>4, <1>7
  <2> HIDE DEF P, present, lengths, order, t, total, n, S
  <2>3. total \in 2..S
    BY <1>4, <1>5, <1>7, <2>1, <2>2
  <2>4. \A i \in 0..(S - 1) : t.symbols[i] = IF i < n THEN order[i + 1] ELSE {}
    <3>1. ~ (P = 1)
      BY <1>7, <1>4
    <3> QED
      BY <1>2, <3>1 DEF S
  <2>5. \A i, j \in 0..(total - 1) : t.symbols[i] = t.symbols[j] => i = j
    <3> TAKE i, j \in 0..(total - 1)
    <3>1. i \in 0..(S - 1) /\ j \in 0..(S - 1) /\ i < n /\ j < n
          /\ i + 1 \in 1..n /\ j + 1 \in 1..n /\ i \in Nat /\ j \in Nat
      BY <1>5, <1>6, <2>1, <2>2
    <3>2. t.symbols[i] = order[i + 1] /\ t.symbols[j] = order[j + 1]
      BY <2>4, <3>1
    <3>3. order[i + 1] = order[j + 1] => i + 1 = j + 1
      BY <1>5, <3>1
    <3> QED
      BY <3>1, <3>2, <3>3
  <2>6. \A i \in total..(S - 1) : t.symbols[i] = {}
    <3> TAKE i \in total..(S - 1)
    <3>1. i \in 0..(S - 1) /\ ~ (i < n)
      BY <1>4, <1>6, <2>1, <2>2
    <3> QED
      BY <2>4, <3>1
  <2>7. ValidCanonicalModel(t)
    BY <2>1, <2>3, <2>5, <2>6 DEF ValidCanonicalModel, total, S
  <2>8. t.flag = 0
    BY <1>2, <1>4, <1>7
  <2>9. ValidModel(t)
    BY <2>7, <2>8 DEF ValidModel
  <2> QED
    BY <1>1, <2>9 DEF t
<1>8. CASE ~ (P > 1)
  <2>1. n = 0 /\ \A s \in Masks : lengths[s] = 0
    <3>1. Coded(lengths) = {} /\ P <= 1
      BY <1>4, <1>8
    <3> HIDE DEF lengths, P
    <3> QED
      BY <1>3, <3>1, FS_EmptySet
  <2> HIDE DEF P, present, lengths, order, t, n
  <2>2. \A k \in 1..MaxCodeLength : t.counts[k] = 0
    <3> TAKE k \in 1..MaxCodeLength
    <3>1. OfLength(lengths, k) = {}
      BY <2>1 DEF OfLength
    <3> QED
      BY <1>2, <3>1, FS_EmptySet
  <2>3. \A i \in 0..(SymbolCount - 1) :
          t.symbols[i] = IF P = 1 /\ i = 0 THEN CHOOSE s \in present : TRUE ELSE {}
    <3> TAKE i \in 0..(SymbolCount - 1)
    <3>1. ~ (i < n)
      BY <2>1
    <3> QED
      BY <1>2, <3>1
  <2>4. CASE P = 1
    <3>1. t.flag = 1
      BY <1>2, <2>4
    <3>2. \A i \in 1..(SymbolCount - 1) : t.symbols[i] = {}
      <4> TAKE i \in 1..(SymbolCount - 1)
      <4>1. i \in 0..(SymbolCount - 1) /\ i # 0
        BY <1>6
      <4> QED
        BY <2>3, <4>1
    <3>3. ValidModel(t)
      BY <2>2, <3>1, <3>2 DEF ValidModel
    <3> QED
      BY <1>1, <3>3 DEF t
  <2>5. CASE P # 1
    <3>1. t.flag = 0
      BY <1>2, <2>5
    <3>2. \A i \in 0..(SymbolCount - 1) : t.symbols[i] = {}
      BY <2>3, <2>5
    <3>3. CodesBelow(t, MaxCodeLength + 1) = 0
      <4>1. ShorterThan(lengths, Longest + 1) = {}
        BY <2>1 DEF ShorterThan, Coded
      <4>2. Longest + 1 \in 1..(Longest + 1)
        BY <1>6
      <4>3. CodesBelow(t, Longest + 1) = Cardinality(ShorterThan(lengths, Longest + 1))
        BY <1>2, <1>3, <4>2, BelowCounted
      <4> QED
        BY <1>6, <4>1, <4>3, FS_EmptySet
    <3>4. ValidCanonicalModel(t)
      BY <3>2, <3>3 DEF ValidCanonicalModel
    <3>5. ValidModel(t)
      BY <3>1, <3>4 DEF ValidModel
    <3> QED
      BY <1>1, <3>5 DEF t
  <2> QED
    BY <2>4, <2>5
<1> QED
  BY <1>7, <1>8

-----------------------------------------------------------------------------
(* The life of a context *)

Tables == [flag    : Nat,
           counts  : [1..MaxCodeLength -> Nat],
           symbols : [0..(SymbolCount - 1) -> Masks]]

\* A written table is the one of the counts, whose codes are short enough.
ContextInv ==
  /\ phase \in {"counting", "refused", "written", "damaged"}
  /\ phase # "refused"
  /\ counts \in [Masks -> Nat]
  /\ table \in Tables
  /\ phase = "written" => table = SerializedModel(counts)

LEMMA WrittenTable ==
  ASSUME NEW c \in [Masks -> Nat]
  PROVE  SerializedModel(c) \in Tables
<1> DEFINE t == SerializedModel(c)
<1>1. /\ t = [flag    |-> t.flag,
              counts  |-> [n \in 1..MaxCodeLength |-> t.counts[n]],
              symbols |-> [i \in 0..(SymbolCount - 1) |-> t.symbols[i]]]
      /\ t.flag = IF Cardinality(PresentIn(c)) = 1 THEN 1 ELSE 0
  BY SerializedIs
<1>2. TypedTable(t) /\ Longest = MaxCodeLength
  BY WrittenTyped DEF Longest
<1> HIDE DEF t
<1>3. /\ \A n \in 1..MaxCodeLength : t.counts[n] \in Nat
      /\ \A i \in 0..(SymbolCount - 1) : t.symbols[i] \in Masks
  BY <1>2 DEF TypedTable, TypedCounts
<1>4. t.flag \in Nat
  BY <1>1
<1>5. t \in Tables
  BY <1>1, <1>3, <1>4 DEF Tables
<1> QED
  BY <1>5 DEF t

LEMMA TablesTyped ==
  ASSUME NEW t \in Tables
  PROVE  TypedTable(t)
BY DEF Tables, TypedTable, TypedCounts, Longest

LEMMA ContextStarts == ModelInit => ContextInv
<1> SUFFICES ASSUME ModelInit PROVE ContextInv
  OBVIOUS
<1>1. counts \in [Masks -> Nat] /\ phase = "counting"
  BY DEF ModelInit, NoCounts
<1>2. table \in Tables
  <2>1. {} \in Masks
    BY DEF Masks
  <2> QED
    BY <2>1 DEF ModelInit, ZeroTable, Tables
<1> QED
  BY <1>1, <1>2 DEF ContextInv

LEMMA DamageKeepsContext ==
  ASSUME ContextInv, NEW other \in Tables, Damaged(other)
  PROVE  ContextInv'
<1>1. phase' = "damaged" /\ table' = other /\ counts' = NoCounts
  BY DEF Damaged
<1>2. NoCounts \in [Masks -> Nat]
  BY DEF NoCounts
<1> QED
  BY <1>1, <1>2 DEF ContextInv

LEMMA ContextKept == ContextInv /\ [ModelNext]_modelVars => ContextInv'
<1> SUFFICES ASSUME ContextInv, [ModelNext]_modelVars PROVE ContextInv'
  OBVIOUS
<1>0. counts \in [Masks -> Nat] /\ table \in Tables /\ phase # "refused"
  BY DEF ContextInv
<1>1. ASSUME NEW s \in Masks, CountTransition(s) PROVE ContextInv'
  <2>1. /\ counts' = [counts EXCEPT ![s] = @ + 1] /\ table' = table /\ phase' = phase
        /\ phase = "counting"
    BY <1>1 DEF CountTransition
  <2>2. counts' \in [Masks -> Nat]
    BY <1>0, <2>1
  <2> QED
    BY <2>1, <2>2 DEF ContextInv
<1>2. ASSUME WriteModel PROVE ContextInv'
  <2>1. ModelFits(counts)
    BY <1>0, WrittenValid
  <2>2. phase' = "written" /\ table' = SerializedModel(counts) /\ counts' = counts
    BY <1>2, <2>1 DEF WriteModel
  <2>3. table' \in Tables
    BY <1>0, <2>2, WrittenTable
  <2> QED
    BY <1>0, <2>2, <2>3 DEF ContextInv
<1>3. ASSUME NEW value \in 0..2, SetFlag(value) PROVE ContextInv'
  <2>1. [table EXCEPT !.flag = value] \in Tables
    BY <1>0 DEF Tables
  <2> QED
    BY <1>3, <2>1, DamageKeepsContext DEF SetFlag
<1>4. ASSUME NEW n \in 1..MaxCodeLength, NEW value \in 0..SymbolCount, SetCount(n, value)
      PROVE  ContextInv'
  <2>1. value \in Nat
    BY SymbolCountNat
  <2>2. [table EXCEPT !.counts[n] = value] \in Tables
    BY <1>0, <2>1 DEF Tables
  <2> QED
    BY <1>4, <2>2, DamageKeepsContext DEF SetCount
<1>5. ASSUME NEW i \in 0..(SymbolCount - 1), NEW m \in Masks, SetSymbol(i, m)
      PROVE  ContextInv'
  <2>1. [table EXCEPT !.symbols[i] = m] \in Tables
    BY <1>0 DEF Tables
  <2> QED
    BY <1>5, <2>1, DamageKeepsContext DEF SetSymbol
<1>6. CASE UNCHANGED modelVars
  BY <1>6 DEF modelVars, ContextInv
<1> QED
  BY <1>1, <1>2, <1>3, <1>4, <1>5, <1>6 DEF ModelNext

LEMMA ContextAlways == ModelSpec => []ContextInv
BY ContextStarts, ContextKept, PTL DEF ModelSpec

\* No context is refused for a code that is too long, and the reader's checks
\* accept the table of every outcome of counting: the merge loop ends in one tree
\* over the symbols that occur, and its code lengths leave no code space.
THEOREM ModelAlwaysAccepted == ModelSpec => []ReaderAcceptsModel
<1>1. ContextInv => ReaderAcceptsModel
  BY WrittenValid DEF ContextInv, ReaderAcceptsModel
<1> QED
  BY <1>1, ContextAlways, PTL

\* Whatever a table's fields hold, once it passes validate_models every string of
\* bits decodes to one mask: decode_symbol never falls through past the longest
\* code, and every symbol that the table lists is the one of some bits.
THEOREM ValidTablesAlwaysDecode == ModelSpec => []ValidTablesDecode
<1>1. ContextInv => ValidTablesDecode
  <2> SUFFICES ASSUME ContextInv, ValidModel(table), ~ NeverOccurs
               PROVE  LET decoded == [tail \in Tails |->
                           {d \in CodeLengths \X Masks :
                              Decodes(table, Payload(tail), 0, MaxCodeLength, d[1], d[2])}]
                      IN  /\ \A tail \in Tails : Cardinality(decoded[tail]) = 1
                          /\ table.flag = 0 =>
                               \A i \in 0..(CodesBelow(table, MaxCodeLength + 1) - 1) :
                                 \E tail \in Tails : \E d \in decoded[tail] :
                                   d[2] = table.symbols[i]
    BY DEF ValidTablesDecode
  <2>1. TypedTable(table)
    BY TablesTyped DEF ContextInv
  <2>2. ~ (table.flag = 0 /\ \A n \in 1..MaxCodeLength : table.counts[n] = 0)
    BY DEF NeverOccurs
  <2> DEFINE t == table
  <2>3. TypedTable(t) /\ ValidModel(t) /\ ~ (t.flag = 0 /\ \A n \in 1..MaxCodeLength : t.counts[n] = 0)
    BY <2>1, <2>2
  <2> QED
    BY <2>3, ValidDecodes
<1> QED
  BY <1>1, ContextAlways, PTL

-----------------------------------------------------------------------------
(* The codes of the encoder *)

\* Fewer codes are shorter than a shorter length.
LEMMA BelowGrows ==
  ASSUME NEW model, TypedCounts(model), NEW m \in 1..(Longest + 1),
         NEW n \in 1..(Longest + 1), m <= n
  PROVE  CodesBelow(model, m) <= CodesBelow(model, n)
<1> DEFINE B(k) == CodesBelow(model, k)
           Wrong == {k \in Nat : k \in m..(Longest + 1) /\ ~ (B(m) <= B(k))}
<1>0. Longest \in Nat \ {0} /\ m \in Nat /\ \A k \in 1..(Longest + 1) : B(k) \in Nat
  BY LengthRoom, CodesBelowFacts
<1>1. SUFFICES ASSUME Wrong # {} PROVE FALSE
  BY <1>0
<1>2. PICK k \in Wrong : \A y \in Wrong : k <= y
  <2>1. Wrong \subseteq Nat
    OBVIOUS
  <2> HIDE DEF Wrong
  <2> QED
    BY <1>1, <2>1, LeastNatural
<1>3. k # m
  <2>1. B(m) <= B(m)
    BY <1>0
  <2> HIDE DEF B
  <2> QED
    BY <1>2, <2>1
<1> DEFINE j == k - 1
<1>4. j \in m..(Longest + 1) /\ j \in 1..Longest /\ j \in Nat /\ ~ (k <= j) /\ k = j + 1
      /\ j \in 1..(Longest + 1)
  BY <1>0, <1>3
<1> HIDE DEF j
<1>5. B(k) = B(j) + model.counts[j] /\ model.counts[j] \in Nat
  BY <1>4, CodesBelowFacts DEF TypedCounts
<1>6. B(m) \in Nat /\ B(j) \in Nat
  BY <1>0, <1>4
<1> HIDE DEF B
<1>7. B(m) <= B(j)
  BY <1>2, <1>4
<1>8. B(m) <= B(k)
  BY <1>5, <1>6, <1>7
<1> QED
  BY <1>2, <1>8

\* No codes are shorter than the first, which is zero.
LEMMA FirstOfAll ==
  ASSUME NEW model, TypedCounts(model), NEW n \in 1..Longest, CodesBelow(model, n) = 0
  PROVE  FirstCode(model, n) = 0
<1> DEFINE B(k) == CodesBelow(model, k)
           F(k) == FirstCode(model, k)
           Wrong == {k \in Nat : k \in 1..n /\ F(k) # 0}
<1>0. Longest \in Nat \ {0} /\ n \in Nat
  BY LengthRoom
<1>1. SUFFICES ASSUME Wrong # {} PROVE FALSE
  <2>1. n \in 1..n
    BY <1>0
  <2> QED
    BY <1>0, <2>1
<1>2. PICK k \in Wrong : \A y \in Wrong : k <= y
  <2>1. Wrong \subseteq Nat
    OBVIOUS
  <2> HIDE DEF Wrong
  <2> QED
    BY <1>1, <2>1, LeastNatural
<1>3. k # 1
  <2>1. F(1) = 0
    BY FirstCodeFacts
  <2> HIDE DEF F
  <2> QED
    BY <1>2, <2>1
<1> DEFINE j == k - 1
<1>4. /\ j \in 1..n /\ j \in 1..(Longest - 1) /\ j \in 1..Longest /\ j \in Nat /\ ~ (k <= j) /\ k = j + 1
      /\ j \in 1..(Longest + 1) /\ k \in 1..(Longest + 1) /\ k <= n /\ n \in 1..(Longest + 1)
  BY <1>0, <1>3
<1> HIDE DEF j
<1>5. F(k) = 2 * (F(j) + model.counts[j])
  BY <1>4, FirstCodeFacts
<1>6. B(k) = B(j) + model.counts[j] /\ model.counts[j] \in Nat /\ B(j) \in Nat /\ B(k) <= B(n)
      /\ B(k) \in Nat /\ B(n) = 0
  BY <1>4, CodesBelowFacts, BelowGrows DEF TypedCounts
<1> HIDE DEF B, F
<1>7. F(j) = 0
  BY <1>2, <1>4
<1>8. model.counts[j] = 0
  BY <1>6
<1>9. F(k) = 0
  BY <1>5, <1>7, <1>8
<1> QED
  BY <1>2, <1>9

\* Where no codes lie between two lengths, the first code of the longer one is the
\* end of the shorter one's with zero bits added.
LEMMA FirstAfterGap ==
  ASSUME NEW model, TypedCounts(model), NEW m \in 1..Longest, NEW n \in 1..Longest, m < n,
         CodesBelow(model, m + 1) = CodesBelow(model, n)
  PROVE  FirstCode(model, n) = (FirstCode(model, m) + model.counts[m]) * 2 ^ (n - m)
<1> DEFINE B(k) == CodesBelow(model, k)
           F(k) == FirstCode(model, k)
           e == F(m) + model.counts[m]
           Wrong == {k \in Nat : k \in (m + 1)..n /\ F(k) # e * 2 ^ (k - m)}
<1>0. Longest \in Nat \ {0} /\ n \in Nat /\ m \in Nat /\ e \in Nat
  BY LengthRoom, FirstCodeNat DEF TypedCounts
<1>1. SUFFICES ASSUME Wrong # {} PROVE FALSE
  <2>1. n \in (m + 1)..n
    BY <1>0
  <2> QED
    BY <1>0, <2>1
<1>2. PICK k \in Wrong : \A y \in Wrong : k <= y
  <2>1. Wrong \subseteq Nat
    OBVIOUS
  <2> HIDE DEF Wrong
  <2> QED
    BY <1>1, <2>1, LeastNatural
<1>3. k # m + 1
  <2>1. m \in 1..(Longest - 1)
    BY <1>0
  <2>2. F(m + 1) = 2 * e
    BY <2>1, FirstCodeFacts
  <2>3. 2 ^ ((m + 1) - m) = 2
    <3>1. (m + 1) - m = 0 + 1
      BY <1>0
    <3>2. 2 ^ (0 + 1) = 2 * 2 ^ 0 /\ 2 ^ 0 = 1
      BY PowerNext, PowerZero
    <3> QED
      BY <3>1, <3>2
  <2> HIDE DEF F, e
  <2>4. F(m + 1) = e * 2 ^ ((m + 1) - m)
    BY <1>0, <2>2, <2>3
  <2> QED
    BY <1>2, <2>4
<1> DEFINE j == k - 1
           w == 2 ^ (j - m)
<1>4. /\ j \in (m + 1)..n /\ j \in 1..(Longest - 1) /\ j \in 1..Longest /\ j \in Nat /\ ~ (k <= j)
      /\ k = j + 1 /\ j \in 1..(Longest + 1) /\ k \in 1..(Longest + 1) /\ k <= n
      /\ n \in 1..(Longest + 1) /\ m + 1 \in 1..(Longest + 1) /\ m + 1 <= j /\ j - m \in Nat
      /\ k - m = (j - m) + 1
  BY <1>0, <1>3
<1> HIDE DEF j
<1>5. F(k) = 2 * (F(j) + model.counts[j])
  BY <1>4, FirstCodeFacts
<1>6. B(k) = B(j) + model.counts[j] /\ model.counts[j] \in Nat /\ B(j) \in Nat /\ B(k) <= B(n)
      /\ B(k) \in Nat /\ B(n) \in Nat /\ B(m + 1) <= B(j) /\ B(m + 1) = B(n)
  BY <1>4, CodesBelowFacts, BelowGrows DEF TypedCounts
<1>7. w \in Nat /\ 2 ^ (k - m) = 2 * w
  BY <1>4, PowerNext, PowerNat
<1> HIDE DEF B, F, e
<1>8. F(j) = e * w
  BY <1>2, <1>4
<1> HIDE DEF w
<1>9. model.counts[j] = 0
  BY <1>6
<1>10. F(k) = e * (2 * w)
  <2>1. e * (2 * w) = 2 * (e * w) /\ e * w \in Nat
    BY <1>0, <1>7
  <2> DEFINE p == e * w
  <2>2. F(k) = 2 * (p + 0) /\ p \in Nat /\ e * (2 * w) = 2 * p
    BY <1>5, <1>8, <1>9, <2>1
  <2> HIDE DEF p
  <2> QED
    BY <2>2
<1>11. F(k) = e * 2 ^ (k - m)
  BY <1>7, <1>10
<1> QED
  BY <1>2, <1>11

\* The code that the decoder expects at an index.
CodeAt(model, l, i) == FirstCode(model, l) + i - CodesBelow(model, l)
AtLength(model, l, i) ==
  l \in 1..Longest /\ CodesBelow(model, l) <= i /\ i < CodesBelow(model, l) + model.counts[l]

\* The next index has the next code, with zero bits where it is longer.
LEMMA NextCode ==
  ASSUME NEW model, TypedCounts(model), NEW i \in Nat, NEW m, AtLength(model, m, i),
         NEW n, AtLength(model, n, i + 1)
  PROVE  m <= n /\ CodeAt(model, n, i + 1) = (CodeAt(model, m, i) + 1) * 2 ^ (n - m)
<1> DEFINE B(k) == CodesBelow(model, k)
           F(k) == FirstCode(model, k)
           c(k) == model.counts[k]
<1>0. /\ Longest \in Nat \ {0} /\ m \in 1..Longest /\ n \in 1..Longest
      /\ \A k \in 1..Longest : B(k + 1) = B(k) + c(k) /\ c(k) \in Nat /\ B(k) \in Nat /\ F(k) \in Nat
  <2>1. Longest \in Nat \ {0} /\ m \in 1..Longest /\ n \in 1..Longest
    BY LengthRoom DEF AtLength
  <2>2. \A k \in 1..Longest : k \in 1..(Longest + 1)
    BY <2>1
  <2> QED
    BY <2>1, <2>2, CodesBelowFacts, FirstCodeNat DEF TypedCounts
<1>1. B(m) <= i /\ i < B(m) + c(m) /\ B(n) <= i + 1 /\ i + 1 < B(n) + c(n)
  BY DEF AtLength
<1>2. m <= n
  <2>1. SUFFICES ASSUME n < m PROVE FALSE
    BY <1>0
  <2>2. n + 1 \in 1..(Longest + 1) /\ m \in 1..(Longest + 1) /\ n + 1 <= m
    BY <1>0, <2>1
  <2>3. B(n + 1) <= B(m)
    BY <2>2, BelowGrows
  <2>4. B(n + 1) = B(n) + c(n) /\ B(n) \in Nat /\ c(n) \in Nat /\ B(m) \in Nat
    BY <1>0
  <2> HIDE DEF B, c
  <2> QED
    BY <1>1, <2>3, <2>4
<1>3. CASE m = n
  <2> DEFINE v == CodeAt(model, m, i)
  <2>1. v = F(m) + i - B(m) /\ CodeAt(model, n, i + 1) = F(m) + (i + 1) - B(m)
    BY <1>3 DEF CodeAt
  <2>2. F(m) \in Nat /\ B(m) \in Nat
    BY <1>0
  <2>3. n - m = 0 /\ 2 ^ (n - m) = 1
    <3>1. n - m = 0
      BY <1>0, <1>3
    <3>2. 2 ^ 0 = 1
      BY PowerZero
    <3> QED
      BY <3>1, <3>2
  <2> HIDE DEF v, B, F
  <2>4. v \in Int /\ CodeAt(model, n, i + 1) = v + 1
    BY <2>1, <2>2
  <2>5. (v + 1) * 1 = v + 1
    BY <2>4
  <2> QED
    BY <1>2, <2>3, <2>4, <2>5 DEF v
<1>4. CASE m # n
  <2>1. /\ m < n /\ m + 1 \in 1..(Longest + 1) /\ n \in 1..(Longest + 1) /\ m + 1 <= n
    BY <1>0, <1>2, <1>4
  <2>2. B(m + 1) <= B(n)
    BY <2>1, BelowGrows
  <2>3. B(m + 1) = B(m) + c(m) /\ B(m) \in Nat /\ c(m) \in Nat /\ B(n) \in Nat /\ F(m) \in Nat /\ F(n) \in Nat
    BY <1>0
  <2>4. B(m + 1) = B(n) /\ B(n) = i + 1 /\ i - B(m) + 1 = c(m)
    <3> HIDE DEF B, c, F
    <3> QED
      BY <1>1, <2>2, <2>3
  <2>5. F(n) = (F(m) + c(m)) * 2 ^ (n - m)
    BY <1>0, <2>1, <2>4, FirstAfterGap
  <2>6. CodeAt(model, n, i + 1) = F(n)
    <3>1. CodeAt(model, n, i + 1) = F(n) + (i + 1) - B(n)
      BY DEF CodeAt
    <3> HIDE DEF F, B
    <3> QED
      BY <2>3, <2>4, <3>1
  <2>7. CodeAt(model, m, i) + 1 = F(m) + c(m)
    <3>1. CodeAt(model, m, i) = F(m) + i - B(m)
      BY DEF CodeAt
    <3> HIDE DEF F, B, c
    <3> QED
      BY <2>3, <2>4, <3>1
  <2> QED
    BY <1>2, <2>5, <2>6, <2>7
<1> QED
  BY <1>3, <1>4

\* A symbol's place in the canonical order is one of its length's.
LEMMA OrderAtLength ==
  ASSUME NEW lengths \in [Masks -> Nat], \A s \in Masks : lengths[s] <= Longest,
         NEW model, CountsLengths(model, lengths),
         NEW i \in 1..Cardinality(Coded(lengths))
  PROVE  AtLength(model, lengths[CanonicalOrder(lengths)[i]], i - 1)
<1> DEFINE S == Coded(lengths)
           order == CanonicalOrder(lengths)
           s == order[i]
           l == lengths[s]
           K == CanonicalKey(lengths)
           R == {y \in S : K[y] < K[s]}
           A == ShorterThan(lengths, l)
           C == ShorterThan(lengths, l + 1)
<1>0. Longest \in Nat \ {0} /\ TypedCounts(model)
  BY LengthRoom, CountsTyped
<1>1. /\ IsFiniteSet(S) /\ order \in [1..Cardinality(S) -> S]
      /\ KeyRank(S, K, order[i]) = i - 1
  BY CanonicalOrderIs
<1>2. s \in S /\ S \subseteq Masks
  BY <1>1 DEF Coded
<1>3. l \in Nat /\ l # 0 /\ l <= Longest
  BY <1>2 DEF Coded
<1>4. l \in 1..Longest /\ l \in 1..(Longest + 1) /\ l + 1 \in 1..(Longest + 1) /\ i \in Nat
  BY <1>0, <1>3
<1>5. Cardinality(R) = i - 1
  BY <1>1 DEF KeyRank
<1>6. CodesBelow(model, l) = Cardinality(A) /\ CodesBelow(model, l + 1) = Cardinality(C)
  <2> HIDE DEF l
  <2> QED
    BY <1>4, BelowCounted
<1>7. \A y \in S : /\ lengths[y] < l => K[y] < K[s]
                   /\ K[y] < K[s] => lengths[y] <= l /\ y # s
  <2> TAKE y \in S
  <2>1. y \in Masks /\ s \in Masks /\ lengths[y] \in Nat
    BY <1>2
  <2>2. K[y] < K[s] <=> \/ lengths[y] < l
                        \/ lengths[y] = l /\ SymbolValue(y) < SymbolValue(s)
    BY <2>1, CanonicalKeys
  <2>3. ~ (SymbolValue(s) < SymbolValue(s)) /\ ~ (l < l)
    BY <1>3, <2>1, SymbolValues
  <2> HIDE DEF K, l, s
  <2>4. lengths[y] < l => K[y] < K[s]
    BY <2>2
  <2>5. K[y] < K[s] => lengths[y] <= l
    BY <1>3, <2>1, <2>2
  <2>6. K[y] < K[s] => y # s
    BY <2>2, <2>3 DEF l
  <2> QED
    BY <2>4, <2>5, <2>6
<1>8. A \subseteq R /\ R \subseteq C /\ s \in C /\ s \notin R
  <2>1. A \subseteq R
    BY <1>7 DEF ShorterThan
  <2>2. R \subseteq C
    <3>1. ASSUME NEW y \in S, lengths[y] <= l PROVE lengths[y] < l + 1
      BY <1>2, <1>3, <3>1
    <3> QED
      BY <1>7, <3>1 DEF ShorterThan
  <2>3. s \in C
    BY <1>2, <1>3 DEF ShorterThan
  <2>4. s \notin R
    BY <1>7
  <2> QED
    BY <2>1, <2>2, <2>3, <2>4
<1>9. /\ Cardinality(A) <= Cardinality(R) /\ Cardinality(R) < Cardinality(C)
  <2>1. C \in SUBSET Masks /\ R \in SUBSET Masks
    BY <1>2 DEF ShorterThan
  <2> HIDE DEF A, C, R
  <2>2. IsFiniteSet(C) /\ Cardinality(C) \in Nat /\ IsFiniteSet(R) /\ Cardinality(R) \in Nat
    BY <2>1, LengthRoom
  <2>3. Cardinality(A) <= Cardinality(R)
    BY <1>8, <2>2, FS_Subset
  <2>4. Cardinality(R) <= Cardinality(C) /\ Cardinality(R) # Cardinality(C)
    BY <1>8, <2>2, FS_Subset
  <2> QED
    BY <2>2, <2>3, <2>4
<1>10. CodesBelow(model, l + 1) = CodesBelow(model, l) + model.counts[l]
  BY <1>0, <1>4, CodesBelowFacts
<1> HIDE DEF l
<1>11. AtLength(model, l, i - 1)
  BY <1>4, <1>5, <1>6, <1>9, <1>10 DEF AtLength
<1> QED
  BY <1>11 DEF l

\* The numbering of the encoder.
Numbering(h, order, lengths) ==
  h = [i \in 1..Len(order) |->
         IF i = 1 THEN 0
         ELSE (h[i - 1] + 1) * 2 ^ (lengths[order[i]] - lengths[order[i - 1]])]

\* The encoder's codes are those of the decoder's index.
LEMMA CodesAre ==
  ASSUME NEW lengths \in [Masks -> Nat], \A s \in Masks : lengths[s] <= Longest,
         NEW model, CountsLengths(model, lengths)
  PROVE  LET order == CanonicalOrder(lengths)
         IN  /\ \E h : Numbering(h, order, lengths)
             /\ \A h : Numbering(h, order, lengths) =>
                  \A i \in 1..Cardinality(Coded(lengths)) :
                    h[i] = CodeAt(model, lengths[order[i]], i - 1)
<1> DEFINE S == Coded(lengths)
           order == CanonicalOrder(lengths)
           n == Cardinality(S)
           l(i) == lengths[order[i]]
           code(i) == CodeAt(model, l(i), i - 1)
<1>0. TypedCounts(model) /\ n \in Nat /\ Len(order) = n
  BY CountsTyped, CanonicalOrderIs
<1>1. ASSUME NEW i \in 1..n PROVE AtLength(model, l(i), i - 1)
  BY OrderAtLength
<1> HIDE DEF order
<1>2. ASSUME NEW i \in 1..n, i = 1 PROVE code(i) = 0
  <2> DEFINE m == l(i)
  <2>1. AtLength(model, m, 0)
    <3>1. i - 1 = 0
      BY <1>2
    <3> QED
      BY <1>1, <3>1
  <2> HIDE DEF m
  <2>2. m \in 1..Longest /\ CodesBelow(model, m) <= 0 /\ m \in 1..(Longest + 1)
    BY <2>1, LengthRoom DEF AtLength
  <2>3. CodesBelow(model, m) \in Nat
    BY <1>0, <2>2, CodesBelowFacts
  <2>4. CodesBelow(model, m) = 0
    BY <2>2, <2>3
  <2>5. FirstCode(model, m) = 0
    BY <1>0, <2>2, <2>4, FirstOfAll
  <2>6. CodeAt(model, m, 0) = 0
    BY <2>4, <2>5 DEF CodeAt
  <2>7. i - 1 = 0
    BY <1>2
  <2> QED
    BY <2>6, <2>7 DEF m
<1>3. ASSUME NEW i \in 1..n, i # 1
      PROVE  code(i) = (code(i - 1) + 1) * 2 ^ (l(i) - l(i - 1))
  <2> DEFINE j == i - 1
             k == i - 2
  <2>1. j \in 1..n /\ k \in Nat /\ j - 1 = k /\ i - 1 = k + 1
    BY <1>0, <1>3
  <2>2. AtLength(model, l(j), k) /\ AtLength(model, l(i), k + 1)
    <3>1. AtLength(model, l(j), j - 1) /\ AtLength(model, l(i), i - 1)
      BY <1>1, <2>1
    <3> QED
      BY <2>1, <3>1
  <2> HIDE DEF j, k
  <2>3. CodeAt(model, l(i), k + 1) = (CodeAt(model, l(j), k) + 1) * 2 ^ (l(i) - l(j))
    BY <1>0, <2>1, <2>2, NextCode
  <2>4. code(j) = CodeAt(model, l(j), k) /\ code(i) = CodeAt(model, l(i), k + 1)
    BY <2>1
  <2> QED
    BY <2>3, <2>4 DEF j
<1>4. \E h : Numbering(h, order, lengths)
  <2> DEFINE h == [i \in 1..n |-> code(i)]
             Body(i) == IF i = 1 THEN 0
                        ELSE (h[i - 1] + 1) * 2 ^ (lengths[order[i]] - lengths[order[i - 1]])
  <2>1. \A i \in 1..n : h[i] = Body(i)
    <3> TAKE i \in 1..n
    <3>1. CASE i = 1
      BY <1>2, <3>1
    <3>2. CASE i # 1
      <4>1. i - 1 \in 1..n
        BY <1>0, <3>2
      <4>2. h[i - 1] = code(i - 1) /\ h[i] = code(i)
        BY <4>1
      <4> HIDE DEF h, code
      <4>3. h[i] = (h[i - 1] + 1) * 2 ^ (l(i) - l(i - 1))
        BY <1>3, <3>2, <4>2
      <4> QED
        BY <3>2, <4>3
    <3> QED
      BY <3>1, <3>2
  <2>2. h = [i \in 1..n |-> h[i]]
    OBVIOUS
  <2> HIDE DEF h, Body
  <2>3. h = [i \in 1..n |-> Body(i)]
    BY <2>1, <2>2
  <2>4. Numbering(h, order, lengths)
    BY <1>0, <2>3 DEF Numbering, Body
  <2> QED
    BY <2>4
<1>5. ASSUME NEW h, Numbering(h, order, lengths), NEW i \in 1..n
      PROVE  h[i] = code(i)
  <2> DEFINE Wrong == {j \in Nat : j \in 1..n /\ h[j] # code(j)}
  <2>1. SUFFICES ASSUME Wrong # {} PROVE FALSE
    BY <1>0
  <2>2. PICK j \in Wrong : \A y \in Wrong : j <= y
    <3>1. Wrong \subseteq Nat
      OBVIOUS
    <3> HIDE DEF Wrong
    <3> QED
      BY <2>1, <3>1, LeastNatural
  <2>3. \A y \in 1..n : h[y] = IF y = 1 THEN 0 ELSE (h[y - 1] + 1) * 2 ^ (l(y) - l(y - 1))
    BY <1>0, <1>5 DEF Numbering
  <2>4. CASE j = 1
    <3>1. h[j] = 0 /\ code(j) = 0
      BY <1>2, <2>3, <2>4
    <3> QED
      BY <2>2, <3>1
  <2>5. CASE j # 1
    <3>1. j - 1 \in Nat /\ j - 1 \in 1..n /\ ~ (j <= j - 1) /\ j \in 1..n
      BY <1>0, <2>5
    <3> HIDE DEF code
    <3>2. h[j - 1] = code(j - 1)
      BY <2>2, <3>1
    <3>3. h[j] = (h[j - 1] + 1) * 2 ^ (l(j) - l(j - 1))
      BY <2>3, <2>5, <3>1
    <3>4. code(j) = (code(j - 1) + 1) * 2 ^ (l(j) - l(j - 1))
      BY <1>3, <2>5, <3>1
    <3>5. h[j] = code(j)
      BY <3>2, <3>3, <3>4
    <3> QED
      BY <2>2, <3>5
  <2> QED
    BY <2>4, <2>5
<1> QED
  BY <1>4, <1>5 DEF order

\* The bits of a symbol with a code: its number in as many bits as its length.
LEMMA WordsAre ==
  ASSUME NEW c \in [Masks -> Nat], NEW s \in Coded(CodeLengthsOf(c))
  PROVE  \E i \in 1..Cardinality(Coded(CodeLengthsOf(c))) :
           /\ CanonicalOrder(CodeLengthsOf(c))[i] = s
           /\ AtLength(SerializedModel(c), CodeLengthsOf(c)[s], i - 1)
           /\ Codewords(c)[s] = WordOf(CodeAt(SerializedModel(c), CodeLengthsOf(c)[s], i - 1),
                                       CodeLengthsOf(c)[s])
<1> DEFINE lengths == CodeLengthsOf(c)
           t == SerializedModel(c)
           order == CanonicalOrder(lengths)
           S == Coded(lengths)
           n == Cardinality(S)
           h == CHOOSE x : Numbering(x, order, lengths)
           at(x) == CHOOSE i \in 1..Len(order) : order[i] = x
           words == [x \in Masks |-> IF lengths[x] = 0 THEN <<>>
                                     ELSE WordOf(h[at(x)], lengths[x])]
<1>1. lengths \in [Masks -> Nat] /\ \A x \in Masks : lengths[x] <= Longest
  BY CodeLengthsAre
<1>2. CountsLengths(t, lengths)
  BY SerializedIs
<1>3. Codewords(c) = Table(words)
  BY DEF Codewords, WordsIn, Numbering
<1>4. Table(words) = words
  <2> HIDE DEF words
  <2> QED
    BY TableIs
<1>5. /\ Len(order) = n
      /\ \E i \in 1..n : order[i] = s
  BY <1>1, CanonicalOrderIs
<1>6. /\ \E x : Numbering(x, order, lengths)
      /\ \A x : Numbering(x, order, lengths) =>
           \A i \in 1..n : x[i] = CodeAt(t, lengths[order[i]], i - 1)
  BY <1>1, <1>2, CodesAre
<1> DEFINE i == at(s)
<1>7. i \in 1..n /\ order[i] = s
  BY <1>5
<1>8. AtLength(t, lengths[order[i]], i - 1)
  <2> HIDE DEF i
  <2> QED
    BY <1>1, <1>2, <1>7, OrderAtLength
<1>9. s \in Masks /\ lengths[s] # 0
  BY DEF Coded
<1> HIDE DEF lengths, t, order, n, S
<1>10. Numbering(h, order, lengths)
  BY <1>6
<1>11. words[s] = WordOf(h[i], lengths[s])
  BY <1>9
<1> HIDE DEF h, i, words
<1>12. h[i] = CodeAt(t, lengths[s], i - 1)
  BY <1>6, <1>7, <1>10
<1>13. Codewords(c)[s] = WordOf(CodeAt(t, lengths[s], i - 1), lengths[s])
  BY <1>3, <1>4, <1>11, <1>12
<1> QED
  BY <1>7, <1>8, <1>13 DEF lengths, t, order, n, S

\* A value's bits, and the bits after them, as the decoder reads them.
LEMMA WordPayload ==
  ASSUME NEW l \in 1..Longest, NEW v \in Nat, v < 2 ^ l, NEW tail \in Tails
  PROVE  LET word == WordOf(v, l)
             p    == Payload(word \o tail)
         IN  Len(word) = l /\ BitsAt(p, 0) /\ PayloadCode(p, 0, l) = v
<1> DEFINE word == WordOf(v, l)
           bits == word \o tail
           p == Payload(bits)
           N == Longest
<1>0. N \in Nat \ {0} /\ l \in Nat /\ tail \in [1..N -> {0, 1}]
  BY LengthRoom DEF Tails, Longest
<1>1. word = [k \in 1..l |-> (v \div 2 ^ (l - k)) % 2]
  <2> DEFINE f == [k \in 1..l |-> (v \div 2 ^ (l - k)) % 2]
  <2>1. word = Table(f)
    BY DEF WordOf
  <2> HIDE DEF f, word
  <2>2. word = f
    BY <2>1, TableIs
  <2> QED
    BY <2>2 DEF f
<1> HIDE DEF word
<1>2. ASSUME NEW k \in 1..l
      PROVE  word[k] = (v \div 2 ^ (l - k)) % 2 /\ word[k] \in {0, 1}
  <2> DEFINE e == l - k
  <2>1. e \in Nat
    BY <1>0
  <2> HIDE DEF e
  <2>2. (v \div 2 ^ e) % 2 \in 0..1
    BY <2>1, BitStep
  <2>3. word[k] = (v \div 2 ^ (l - k)) % 2
    BY <1>1
  <2>4. word[k] \in 0..1
    BY <2>2, <2>3 DEF e
  <2> QED
    BY <2>3, <2>4
<1>3. word \in Seq({0, 1}) /\ Len(word) = l /\ tail \in Seq({0, 1}) /\ Len(tail) = N
  <2>1. word \in [1..l -> {0, 1}]
    BY <1>1, <1>2
  <2>2. word \in Seq({0, 1}) /\ tail \in Seq({0, 1})
    BY <1>0, <2>1, FunctionIsSequence
  <2> QED
    BY <1>0, <2>1, <2>2, LenProperties
<1>4. /\ bits \in Seq({0, 1}) /\ Len(bits) = l + N
      /\ \A k \in 1..l : bits[k] = word[k]
      /\ \A k \in 1..(l + N) : bits[k] \in {0, 1}
  <2>1. bits \in Seq({0, 1}) /\ Len(bits) = l + N
    BY <1>3, ConcatProperties
  <2>2. \A k \in 1..l : bits[k] = word[k]
    BY <1>0, <1>3, ConcatProperties
  <2>3. \A k \in 1..(l + N) : bits[k] \in {0, 1}
    BY <2>1, ElementOfSeq
  <2> QED
    BY <2>1, <2>2, <2>3
<1> HIDE DEF bits
<1>5. \A k \in 0..(Len(bits) - 1) : p[k] = bits[k + 1]
  BY DEF Payload
<1> HIDE DEF p
<1>6. \A k \in 1..(l + N) : p[0 + k - 1] = bits[k]
  <2> TAKE k \in 1..(l + N)
  <2> DEFINE position == 0 + k - 1
  <2>1. position \in 0..(Len(bits) - 1) /\ position + 1 = k
    BY <1>0, <1>4
  <2> HIDE DEF position
  <2>2. p[position] = bits[k]
    BY <1>5, <2>1
  <2> QED
    BY <2>2 DEF position
<1> HIDE DEF p
<1>7. BitsAt(p, 0)
  <2> SUFFICES ASSUME NEW k \in 1..N PROVE p[0 + k - 1] \in 0..1
    BY DEF BitsAt
  <2>1. k \in 1..(l + N)
    BY <1>0
  <2>2. bits[k] \in 0..1
    BY <1>4, <2>1
  <2> QED
    BY <1>6, <2>1, <2>2
<1>8. \A k \in 1..l : p[0 + k - 1] = (v \div 2 ^ (l - k)) % 2
  <2> TAKE k \in 1..l
  <2>1. k \in 1..(l + N)
    BY <1>0
  <2> QED
    BY <1>2, <1>4, <1>6, <2>1
<1>9. PayloadCode(p, 0, l) = v
  <2> DEFINE zero == 0
  <2>1. \A k \in 1..l : p[zero + k - 1] = (v \div 2 ^ (l - k)) % 2
    BY <1>8
  <2> HIDE DEF zero
  <2>2. \A k \in 0..l : PayloadCode(p, zero, k) = v \div 2 ^ (l - k)
    BY <1>0, <2>1, WordCode
  <2>3. PayloadCode(p, zero, l) = v \div 2 ^ (l - l)
    <3>1. l \in 0..l
      BY <1>0
    <3> QED
      BY <2>2, <3>1
  <2>4. v \div 2 ^ (l - l) = v
    <3>1. l - l = 0 /\ 2 ^ (l - l) = 1
      BY <1>0, PowerZero
    <3> QED
      BY <3>1
  <2> QED
    BY <2>3, <2>4 DEF zero
<1> QED
  BY <1>3, <1>7, <1>9 DEF word, p, bits

\* The reader finds every symbol of an ordinary context behind its bits.
LEMMA CodedRoundTrip ==
  ASSUME NEW c \in [Masks -> Nat], Cardinality(PresentIn(c)) > 1, NEW s \in PresentIn(c),
         NEW tail \in Tails, NEW n \in CodeLengths, NEW m \in Masks
  PROVE  LET word == Codewords(c)[s]
         IN  Decodes(SerializedModel(c), Payload(word \o tail), 0, Len(word) + MaxCodeLength, n, m)
               <=> n = Len(word) /\ m = s
<1> DEFINE lengths == CodeLengthsOf(c)
           t == SerializedModel(c)
           order == CanonicalOrder(lengths)
           S == Coded(lengths)
           l == lengths[s]
           word == Codewords(c)[s]
<1>0. Longest \in Nat \ {0} /\ Longest = MaxCodeLength /\ S = PresentIn(c) /\ s \in S
  BY LengthRoom, CodedIs DEF Longest
<1>1. TypedTable(t) /\ TypedCounts(t)
  BY WrittenTyped DEF TypedTable
<1>2. CompleteTable(t)
  <2>1. CodesBelow(t, Longest + 1) = Cardinality(S)
        /\ AvailableCodes(t)[Longest] = 0
        /\ \A k \in 1..Longest : AvailableCodes(t)[k] >= 0
    BY <1>0, WrittenCanonical
  <2>2. t.flag # 1
    <3>1. t.flag = IF Cardinality(PresentIn(c)) = 1 THEN 1 ELSE 0
      BY SerializedIs
    <3>2. Cardinality(PresentIn(c)) # 1
      BY CodedIs
    <3> QED
      BY <3>1, <3>2
  <2>3. Cardinality(S) <= SymbolCount
    BY CodeLengthsAre, CanonicalOrderIs
  <2> QED
    BY <1>1, <2>1, <2>2, <2>3 DEF CompleteTable, TypedTable
<1>3. PICK i \in 1..Cardinality(S) :
         /\ order[i] = s
         /\ AtLength(t, l, i - 1)
         /\ word = WordOf(CodeAt(t, l, i - 1), l)
  BY <1>0, WordsAre
<1>4. Cardinality(S) \in Nat /\ Cardinality(S) <= SymbolCount
  BY CodeLengthsAre, CanonicalOrderIs
<1>5. t.symbols[i - 1] = s
  <2>1. /\ i - 1 \in 0..(SymbolCount - 1) /\ i - 1 < Cardinality(S) /\ (i - 1) + 1 = i
        /\ Cardinality(PresentIn(c)) # 1
    BY <1>0, <1>4, CodedIs, SymbolCountNat
  <2>2. t.symbols[i - 1] = IF Cardinality(PresentIn(c)) = 1 /\ i - 1 = 0
                           THEN CHOOSE x \in PresentIn(c) : TRUE
                           ELSE IF i - 1 < Cardinality(S) THEN order[(i - 1) + 1] ELSE {}
    BY <2>1, SerializedIs
  <2> HIDE DEF t, order, S
  <2> QED
    BY <1>3, <2>1, <2>2
<1> HIDE DEF lengths, t, order, S, word
<1> DEFINE B == CodesBelow(t, l)
           F == FirstCode(t, l)
           k == t.counts[l]
           v == CodeAt(t, l, i - 1)
           A == AvailableCodes(t)[l]
<1>6. /\ l \in 1..Longest /\ B <= i - 1 /\ i - 1 < B + k /\ v = F + (i - 1) - B
      /\ F \in Nat /\ B \in Nat /\ k \in Nat /\ A \in Int /\ A >= 0 /\ F + k + A = 2 ^ l
  <2>1. l \in 1..Longest /\ B <= i - 1 /\ i - 1 < B + k
    BY <1>3 DEF AtLength
  <2>2. l \in 1..(Longest + 1) /\ l \in 0..Longest
    BY <1>0, <2>1
  <2>3. AvailableCodes(t) \in [0..Longest -> Int]
    BY <1>1, AvailableFacts
  <2>4. F \in Nat /\ B \in Nat /\ k \in Nat /\ F + k + A = 2 ^ l
    BY <1>1, <2>1, <2>2, FirstCodeNat, CodesBelowFacts, CodeSpace DEF TypedCounts
  <2>5. A >= 0 /\ A \in Int
    BY <1>2, <2>1, <2>2, <2>3 DEF CompleteTable
  <2> QED
    BY <2>1, <2>4, <2>5 DEF CodeAt
<1>7. v \in Nat /\ v >= F /\ v - F < k /\ v < 2 ^ l /\ B + v - F = i - 1
  <2> DEFINE w == 2 ^ l
  <2>1. F + k + A = w
    BY <1>6
  <2> HIDE DEF w, B, F, k, v, A, l
  <2>2. v \in Nat /\ v >= F /\ v - F < k /\ v < w /\ B + v - F = i - 1
    BY <1>6, <2>1
  <2> QED
    BY <2>2 DEF w
<1> DEFINE p == Payload(word \o tail)
           end == Len(word) + MaxCodeLength
<1>8. Len(word) = l /\ BitsAt(p, 0) /\ PayloadCode(p, 0, l) = v
  <2> HIDE DEF v, l
  <2> QED
    BY <1>3, <1>6, <1>7, WordPayload DEF v
<1> HIDE DEF p, l, v
<1>9. CodeMatches(t, p, 0, l)
  BY <1>7, <1>8 DEF CodeMatches
<1>10. PICK q \in 1..Longest, r \in Masks :
          /\ Decodes(t, p, 0, end, q, r)
          /\ CodeMatches(t, p, 0, q)
          /\ \A x \in CodeLengths, y \in Masks : Decodes(t, p, 0, end, x, y) => x = q /\ y = r
  <2> DEFINE zero == 0
  <2>1. zero \in Nat /\ end \in Nat /\ zero + Longest <= end /\ BitsAt(p, zero)
    <3>1. end = l + Longest
      BY <1>0, <1>8
    <3> QED
      BY <1>0, <1>6, <1>8, <3>1
  <2> HIDE DEF zero, end
  <2>2. \E q \in 1..Longest, r \in Masks :
          /\ Decodes(t, p, zero, end, q, r)
          /\ CodeMatches(t, p, zero, q)
          /\ \A x \in CodeLengths, y \in Masks : Decodes(t, p, zero, end, x, y) => x = q /\ y = r
    BY <1>2, <2>1, CompleteDecodes
  <2> QED
    BY <2>2 DEF zero
<1>11. q = l
  <2> DEFINE zero == 0
  <2>1. BitsAt(p, zero) /\ CodeMatches(t, p, zero, q) /\ CodeMatches(t, p, zero, l)
    BY <1>8, <1>9, <1>10
  <2> HIDE DEF zero
  <2> QED
    BY <1>1, <1>6, <2>1, OneMatch
<1>12. r = s
  <2>1. r = t.symbols[CodesBelow(t, q) + PayloadCode(p, 0, q) - FirstCode(t, q)]
    <3>1. t.flag # 1
      BY <1>2 DEF CompleteTable
    <3> QED
      BY <1>10, <3>1 DEF Decodes
  <2>2. r = t.symbols[i - 1]
    BY <1>7, <1>8, <1>11, <2>1
  <2> QED
    BY <1>5, <2>2
<1>13. Decodes(t, p, 0, end, n, m) <=> n = l /\ m = s
  <2>1. ASSUME Decodes(t, p, 0, end, n, m) PROVE n = l /\ m = s
    BY <1>10, <1>11, <1>12, <2>1
  <2>2. ASSUME n = l, m = s PROVE Decodes(t, p, 0, end, n, m)
    BY <1>10, <1>11, <1>12, <2>2
  <2> QED
    BY <2>1, <2>2
<1> QED
  BY <1>8, <1>13 DEF t, p, word

\* A context with one successor has no bits at all.
LEMMA SoleRoundTrip ==
  ASSUME NEW c \in [Masks -> Nat], ~ (Cardinality(PresentIn(c)) > 1), NEW s \in PresentIn(c),
         NEW tail \in Tails, NEW n \in CodeLengths, NEW m \in Masks
  PROVE  LET word == Codewords(c)[s]
         IN  Decodes(SerializedModel(c), Payload(word \o tail), 0, Len(word) + MaxCodeLength, n, m)
               <=> n = Len(word) /\ m = s
<1> DEFINE present == PresentIn(c)
           lengths == CodeLengthsOf(c)
           t == SerializedModel(c)
           word == Codewords(c)[s]
           order == CanonicalOrder(lengths)
           h == CHOOSE x : Numbering(x, order, lengths)
           words == [x \in Masks |-> IF lengths[x] = 0 THEN <<>>
                       ELSE WordOf(h[CHOOSE i \in 1..Len(order) : order[i] = x], lengths[x])]
<1>1. present \in SUBSET Masks /\ Cardinality(present) = 1
  <2>1. present \in SUBSET Masks /\ Cardinality(present) \in Nat
    BY CodedIs
  <2>2. IsFiniteSet(present) /\ Cardinality(present) # 0
    BY <2>1, LengthRoom, FS_EmptySet
  <2> HIDE DEF present
  <2> DEFINE k == Cardinality(present)
  <2>3. k \in Nat /\ k # 0 /\ ~ (k > 1)
    BY <2>1, <2>2 DEF present
  <2> HIDE DEF k
  <2>4. k = 1
    BY <2>3
  <2> QED
    BY <2>1, <2>4 DEF k
<1>2. present = {s}
  <2>1. IsFiniteSet(present)
    BY <1>1, LengthRoom
  <2>2. \E x : present = {x}
    BY <1>1, <2>1, FS_Singleton
  <2> QED
    BY <2>2
<1>3. lengths[s] = 0 /\ s \in Masks
  <2>1. \A x \in Masks : lengths[x] = 0
    BY <1>1, CodeLengthsAre
  <2> QED
    BY <1>1, <2>1
<1>4. word = <<>>
  <2>1. Codewords(c) = Table(words)
    BY DEF Codewords, WordsIn, Numbering
  <2>2. Table(words) = words
    <3> HIDE DEF words
    <3> QED
      BY TableIs
  <2>3. words[s] = <<>>
    BY <1>3
  <2> HIDE DEF words
  <2> QED
    BY <2>1, <2>2, <2>3
<1>5. t.flag = 1 /\ t.symbols[0] = s
  <2>1. 0 \in 0..(SymbolCount - 1)
    BY SymbolCountNat
  <2>2. t.symbols[0] = CHOOSE x \in present : TRUE
    BY <1>1, <2>1, SerializedIs
  <2>3. (CHOOSE x \in {s} : TRUE) = s
    OBVIOUS
  <2>4. t.flag = 1
    BY <1>1, SerializedIs
  <2> HIDE DEF t, present
  <2> QED
    BY <1>2, <2>2, <2>3, <2>4
<1>6. Len(word) = 0
  BY <1>4
<1> HIDE DEF t, word
<1> QED
  BY <1>5, <1>6 DEF Decodes, t, word

\* Written bits decode to the symbol they were written for, whatever bits follow
\* them, and the decoder has then read just those: the encoder numbers its codes
\* as the decoder counts them, in the order of the table's symbols.
THEOREM SymbolsAlwaysRoundTrip == ModelSpec => []SymbolsRoundTrip
<1>1. ContextInv => SymbolsRoundTrip
  <2> SUFFICES ASSUME ContextInv, phase = "written",
                      NEW s \in Present, NEW tail \in Tails, NEW n \in CodeLengths, NEW m \in Masks
               PROVE  Decodes(table, Payload(Codewords(counts)[s] \o tail), 0,
                              Len(Codewords(counts)[s]) + MaxCodeLength, n, m)
                        <=> n = Len(Codewords(counts)[s]) /\ m = s
    BY DEF SymbolsRoundTrip
  <2>1. counts \in [Masks -> Nat] /\ table = SerializedModel(counts)
    BY DEF ContextInv
  <2>2. s \in PresentIn(counts)
    BY DEF Present, PresentIn
  <2> DEFINE c == counts
  <2>3. c \in [Masks -> Nat] /\ table = SerializedModel(c) /\ s \in PresentIn(c)
    BY <2>1, <2>2
  <2> HIDE DEF c
  <2>4. Decodes(SerializedModel(c), Payload(Codewords(c)[s] \o tail), 0,
                Len(Codewords(c)[s]) + MaxCodeLength, n, m)
          <=> n = Len(Codewords(c)[s]) /\ m = s
    BY <2>3, CodedRoundTrip, SoleRoundTrip
  <2> QED
    BY <2>3, <2>4 DEF c
<1> QED
  BY <1>1, ContextAlways, PTL

\* One merge: the two lightest nodes are joined, and their symbols are one deeper.
Joins(f, g, left, right) ==
  LET both   == left.symbols \union right.symbols
      joined == [count |-> left.count + right.count, symbols |-> both]
  IN  /\ left # right
      /\ \A n \in f.active : left.count <= n.count
      /\ \A n \in f.active \ {left} : right.count <= n.count
      /\ left.symbols \intersect right.symbols = {}
      /\ joined \notin f.active \ {left, right}
      /\ g.active = (f.active \ {left, right}) \union {joined}
      /\ g.lengths = [s \in Masks |-> f.lengths[s] + IF s \in both THEN 1 ELSE 0]

LEMMA MergeIs ==
  ASSUME NEW present \in SUBSET Masks, NEW merges \in Nat, merges + 1 < Cardinality(present),
         NEW f, Forest(f, present, merges)
  PROVE  \E left, right \in f.active : Joins(f, MergeLightest(f), left, right)
<1> DEFINE A == f.active
           left == Lightest(A)
           right == Lightest(A \ {left})
           both == left.symbols \union right.symbols
           joined == [count |-> left.count + right.count, symbols |-> both]
           new == [s \in Masks |-> f.lengths[s] + IF s \in both THEN 1 ELSE 0]
           g == MergeLightest(f)
<1>1. /\ IsFiniteSet(A)
      /\ \A n \in A : n.count \in Nat /\ n.symbols \subseteq present /\ n.symbols # {}
      /\ \A n, m \in A : n.symbols \intersect m.symbols # {} => n = m
  BY DEF Forest, TreesOf
<1>2. Cardinality(A) \in Nat /\ Cardinality(A) > 1
  <2>1. Cardinality(present) \in Nat /\ Cardinality(A) = Cardinality(present) - merges
    BY LengthRoom DEF Forest
  <2> DEFINE p == Cardinality(present)
  <2> HIDE DEF p, A
  <2>2. p \in Nat /\ Cardinality(A) = p - merges /\ merges + 1 < p
    BY <2>1 DEF p, A
  <2> QED
    BY <2>2
<1>3. left \in A /\ \A n \in A : left.count <= n.count
  <2>1. A # {} /\ TreesOf(A, Masks)
    BY <1>1, <1>2, FS_EmptySet DEF TreesOf
  <2> HIDE DEF A
  <2> QED
    BY <2>1, LightestIs
<1> HIDE DEF left
<1>4. right \in A \ {left} /\ \A n \in A \ {left} : right.count <= n.count
  <2> DEFINE B == A \ {left}
  <2>1. IsFiniteSet(B) /\ Cardinality(B) = Cardinality(A) - 1
    BY <1>1, <1>3, FS_RemoveElement
  <2>2. B # {} /\ TreesOf(B, Masks)
    BY <1>1, <1>2, <2>1, FS_EmptySet DEF TreesOf
  <2>3. right = Lightest(B)
    OBVIOUS
  <2> HIDE DEF B, right
  <2>4. right \in B /\ \A n \in B : right.count <= n.count
    BY <2>2, <2>3, LightestIs
  <2> QED
    BY <2>4 DEF B
<1> HIDE DEF right
<1>5. left.symbols \intersect right.symbols = {}
  BY <1>1, <1>3, <1>4
<1>6. joined \notin A \ {left, right}
  <2>1. joined.symbols = both /\ left.symbols # {}
    BY <1>1, <1>3
  <2> HIDE DEF joined
  <2> QED
    BY <1>1, <1>3, <1>4, <2>1
<1>7. g.active = (A \ {left, right}) \union {joined} /\ g.lengths = new
  <2>1. g = [active |-> (A \ {left, right}) \union {joined}, lengths |-> Table(new)]
    BY DEF MergeLightest, left, right
  <2>2. Table(new) = new
    <3> HIDE DEF new
    <3> QED
      BY TableIs
  <2> QED
    BY <2>1, <2>2
<1>8. Joins(f, g, left, right)
  <2> HIDE DEF g
  <2> QED
    BY <1>3, <1>4, <1>5, <1>6, <1>7 DEF Joins
<1> QED
  BY <1>3, <1>4, <1>8

-----------------------------------------------------------------------------
(* The shortest code *)

\* Every node counts the transitions to its symbols.
Counted(f, c) == \A n \in f.active : n.count = SetSum(c, n.symbols)
CountOf(A) == [n \in A |-> n.count]
\* What the bits assigned so far and the best code for the nodes left cost together.
Within(f, c, present, K, limit) ==
  \E g : /\ Fills(g, f.active, K)
         /\ Spent(c, f.lengths, present) + Spent(CountOf(f.active), g, f.active) <= limit

LEMMA SymbolsSpent ==
  ASSUME NEW c \in [Masks -> Nat], NEW lengths \in [Masks -> Nat], NEW present \in SUBSET Masks
  PROVE  /\ \A s \in present : [t \in present |-> c[t] * lengths[t]][s] \in Nat
         /\ Spent(c, lengths, present) \in Nat
<1> DEFINE f == [t \in present |-> c[t] * lengths[t]]
<1>1. ASSUME NEW s \in present PROVE f[s] \in Nat
  <2> DEFINE a == c[s]
             b == lengths[s]
  <2>1. a \in Nat /\ b \in Nat /\ f[s] = a * b
    OBVIOUS
  <2> HIDE DEF a, b, f
  <2> QED
    BY <2>1
<1>2. IsFiniteSet(present)
  BY LengthRoom
<1> HIDE DEF f
<1>3. SetSum(f, present) \in Nat
  BY <1>1, <1>2, SetSumNat
<1> QED
  BY <1>1, <1>3 DEF f, Spent

\* Symbols one deeper cost one more bit for each of their uses.
LEMMA DeeperCosts ==
  ASSUME NEW c \in [Masks -> Nat], NEW old \in [Masks -> Nat], NEW present \in SUBSET Masks,
         NEW both \in SUBSET present, NEW new \in [Masks -> Nat],
         new = [s \in Masks |-> old[s] + IF s \in both THEN 1 ELSE 0]
  PROVE  /\ Spent(c, new, present) = Spent(c, old, present) + SetSum(c, both)
         /\ SetSum(c, both) \in Nat
<1> DEFINE f == [s \in present |-> c[s] * new[s]]
           g == [s \in present |-> c[s] * old[s]]
           h == [s \in present |-> IF s \in both THEN c[s] ELSE 0]
           rest == present \ both
<1>1. ASSUME NEW s \in present
      PROVE  g[s] \in Nat /\ h[s] \in Nat /\ f[s] = g[s] + h[s]
  <2> DEFINE a == c[s]
             b == old[s]
             i == new[s]
  <2>1. a \in Nat /\ b \in Nat /\ f[s] = a * i /\ g[s] = a * b /\ i = b + (IF s \in both THEN 1 ELSE 0)
        /\ h[s] = IF s \in both THEN a ELSE 0
    OBVIOUS
  <2> HIDE DEF a, b, i, f, g, h
  <2>2. a * b \in Nat /\ a * (b + 1) = a * b + a
    BY <2>1
  <2>3. CASE s \in both
    BY <2>1, <2>2, <2>3
  <2>4. CASE s \notin both
    BY <2>1, <2>2, <2>4
  <2> QED
    BY <2>3, <2>4
<1>2. IsFiniteSet(present) /\ IsFiniteSet(both) /\ IsFiniteSet(rest)
      /\ present = both \union rest /\ both \intersect rest = {}
  BY LengthRoom
<1>3. SetSum(h, both) = SetSum(c, both) /\ SetSum(c, both) \in Nat
  <2>1. \A s \in both : c[s] \in Nat /\ h[s] = c[s]
    OBVIOUS
  <2> HIDE DEF h
  <2> QED
    BY <1>2, <2>1, SetSumSame, SetSumNat
<1>4. SetSum(h, rest) = 0
  <2>1. \A s \in rest : h[s] \in Nat /\ h[s] = 0
    OBVIOUS
  <2> HIDE DEF h, rest
  <2> QED
    BY <1>2, <2>1, SetSumZero
<1>5. Spent(c, new, present) = SetSum(f, present) /\ Spent(c, old, present) = SetSum(g, present)
  BY DEF Spent
<1> HIDE DEF f, g, h, rest
<1>6. /\ SetSum(f, present) = SetSum(g, present) + SetSum(h, present)
      /\ SetSum(g, present) \in Nat
  BY <1>1, <1>2, SetSumPlus
<1>7. SetSum(h, present) = SetSum(h, both) + SetSum(h, rest)
  <2>1. \A s \in both \union rest : h[s] \in Nat
    BY <1>1, <1>2
  <2>2. SetSum(h, both \union rest) = SetSum(h, both) + SetSum(h, rest)
    BY <1>2, <2>1, SetSumUnion
  <2> QED
    BY <1>2, <2>2
<1> QED
  BY <1>3, <1>4, <1>5, <1>6, <1>7

\* A merge brings no code above what the best code for the nodes costs.
LEMMA MergeKeepsBest ==
  ASSUME NEW present \in SUBSET Masks, NEW merges \in Nat, merges + 1 < Cardinality(present),
         NEW f, Forest(f, present, merges), NEW c \in [Masks -> Nat], Counted(f, c),
         NEW K \in Nat, NEW limit \in Nat, Within(f, c, present, K, limit)
  PROVE  LET g == MergeLightest(f) IN Counted(g, c) /\ Within(g, c, present, K, limit)
<1> DEFINE A == f.active
           g == MergeLightest(f)
<1>1. PICK left, right \in f.active : Joins(f, g, left, right)
  BY MergeIs
<1> DEFINE both == left.symbols \union right.symbols
           joined == [count |-> left.count + right.count, symbols |-> both]
           rest == A \ {left, right}
           active == rest \union {joined}
           old == f.lengths
           new == g.lengths
           a == CountOf(A)
           d == CountOf(active)
<1>2. /\ joined \notin rest /\ g.active = active /\ left # right
      /\ left.symbols \intersect right.symbols = {}
      /\ new = [s \in Masks |-> old[s] + IF s \in both THEN 1 ELSE 0]
      /\ left \in A /\ right \in A
      /\ \A n \in A : left.count <= n.count
      /\ \A n \in A \ {left} : right.count <= n.count
  <2> HIDE DEF g
  <2> QED
    BY <1>1 DEF Joins
<1>3. /\ IsFiniteSet(A)
      /\ \A n \in A : n.count \in Nat /\ n.symbols \subseteq present /\ n.count = SetSum(c, n.symbols)
      /\ old \in [Masks -> Nat]
  BY DEF Forest, TreesOf, Counted
<1>4. joined.count = left.count + right.count /\ joined.symbols = both
  OBVIOUS
<1> HIDE DEF joined, g
<1>5. /\ SetSum(c, both) = joined.count /\ joined.count \in Nat /\ both \in SUBSET present
  <2>1. IsFiniteSet(left.symbols) /\ IsFiniteSet(right.symbols)
    BY <1>3, LengthRoom
  <2>2. \A s \in both : c[s] \in Nat
    BY <1>3
  <2>3. SetSum(c, both) = SetSum(c, left.symbols) + SetSum(c, right.symbols)
    BY <1>2, <2>1, <2>2, SetSumUnion
  <2> QED
    BY <1>3, <1>4, <2>3
<1>6. /\ a \in [A -> Nat] /\ d \in [active -> Nat] /\ d[joined] = joined.count
      /\ \A n \in A : a[n] = n.count
      /\ \A n \in rest : d[n] = a[n]
  <2>1. \A n \in A : n.count \in Nat
    BY <1>3
  <2>2. \A n \in active : n.count \in Nat
    BY <1>5, <2>1
  <2>3. a = [n \in A |-> n.count] /\ d = [n \in active |-> n.count]
    BY DEF CountOf
  <2> HIDE DEF a, d
  <2> QED
    BY <2>1, <2>2, <2>3
<1>7. Counted(g, c)
  <2>1. \A n \in active : n.count = SetSum(c, n.symbols)
    BY <1>3, <1>4, <1>5
  <2> QED
    BY <1>2, <2>1 DEF Counted
<1>8. PICK w : Fills(w, A, K) /\ Spent(c, old, present) + Spent(a, w, A) <= limit
  BY DEF Within
<1> HIDE DEF a, d, A, both
<1>9. PICK h : /\ Fills(h, A, K) /\ Spent(a, h, A) <= Spent(a, w, A)
               /\ h[left] \in 1..K /\ h[right] = h[left]
  <2>1. \A n \in A : a[left] <= a[n]
    BY <1>2, <1>6
  <2>2. \A n \in A \ {left} : a[right] <= a[n]
    BY <1>2, <1>6
  <2> QED
    BY <1>2, <1>3, <1>6, <1>8, <2>1, <2>2, CheapestDeepest
<1>10. PICK e : /\ Fills(e, active, K)
                /\ Spent(d, e, active) + d[joined] = Spent(a, h, A)
                /\ Spent(d, e, active) \in Nat /\ d[joined] \in Nat
  <2>1. d[joined] = a[left] + a[right]
    BY <1>2, <1>4, <1>6
  <2>2. joined \notin A \ {left, right} /\ d \in [active -> Nat]
        /\ active = (A \ {left, right}) \union {joined}
    BY <1>2, <1>6
  <2>3. \A n \in A \ {left, right} : d[n] = a[n]
    BY <1>6
  <2>4. IsFiniteSet(A) /\ a \in [A -> Nat] /\ left \in A /\ right \in A /\ left # right
    BY <1>2, <1>3, <1>6
  <2> HIDE DEF g, active
  <2>5. MayJoin(A, K, h, a, left, right, joined, active, d)
    BY <1>9, <2>1, <2>2, <2>3, <2>4 DEF MayJoin
  <2> QED
    BY <2>5, JoinedShorter
<1>11. Spent(c, new, present) = Spent(c, old, present) + joined.count
  <2>1. new \in [Masks -> Nat]
    BY <1>2, <1>3
  <2> HIDE DEF new, old
  <2> QED
    BY <1>2, <1>3, <1>5, <2>1, DeeperCosts DEF new, old
<1>12. Spent(c, new, present) + Spent(d, e, active) <= limit
  <2> DEFINE p == Spent(c, old, present)
             q == Spent(a, w, A)
             r == Spent(a, h, A)
             s == Spent(d, e, active)
             j == joined.count
  <2>1. p \in Nat /\ q \in Nat /\ r \in Nat /\ s \in Nat /\ j \in Nat
    BY <1>3, <1>5, <1>6, <1>8, <1>9, <1>10, SymbolsSpent, SpentNat
  <2>2. p + q <= limit /\ r <= q /\ s + j = r /\ Spent(c, new, present) = p + j
    BY <1>6, <1>8, <1>9, <1>10, <1>11
  <2> HIDE DEF p, q, r, s, j
  <2>3. (p + j) + s <= limit
    BY <2>1, <2>2
  <2> QED
    BY <2>2, <2>3 DEF s
<1>13. Within(g, c, present, K, limit)
  <2>1. \E x : /\ Fills(x, g.active, K)
               /\ Spent(c, g.lengths, present) + Spent(CountOf(g.active), x, g.active) <= limit
    BY <1>2, <1>10, <1>12 DEF d
  <2> QED
    BY <2>1 DEF Within
<1> QED
  BY <1>7, <1>13 DEF g

\* Before the first merge a code for the symbols is one for the nodes.
LEMMA FirstBest ==
  ASSUME NEW c \in [Masks -> Nat], NEW K \in Nat, NEW code, Fills(code, PresentIn(c), K)
  PROVE  LET f == FirstForest(c)
         IN  /\ Counted(f, c)
             /\ Within(f, c, PresentIn(c), K, Spent(c, code, PresentIn(c)))
<1> DEFINE present == PresentIn(c)
           f == FirstForest(c)
           A == f.active
           tree == [s \in present |-> [count |-> c[s], symbols |-> {s}]]
           g == [n \in A |-> code[CHOOSE s \in present : n.symbols = {s}]]
           a == CountOf(A)
           limit == Spent(c, code, present)
<1>1. present \in SUBSET Masks /\ IsFiniteSet(present)
  <2>1. present \in SUBSET Masks
    BY DEF PresentIn
  <2> QED
    BY <2>1, LengthRoom
<1>2. A = {tree[s] : s \in present} /\ f.lengths = [s \in Masks |-> 0]
  BY DEF FirstForest, SingleTrees, NoLengths
<1>3. code \in [present -> 0..K] /\ SetSum(CodeShares(code, K), present) = 2 ^ K
  BY DEF Fills
<1> HIDE DEF present, f
<1>4. ASSUME NEW s \in present
      PROVE  /\ tree[s] \in A /\ tree[s].count = c[s] /\ tree[s].symbols = {s} /\ c[s] \in Nat
             /\ a[tree[s]] = c[s]
  <2>1. tree[s] \in A /\ tree[s].count = c[s] /\ tree[s].symbols = {s} /\ c[s] \in Nat
    BY <1>1, <1>2
  <2> HIDE DEF tree, A
  <2>2. a[tree[s]] = tree[s].count
    BY <2>1 DEF CountOf
  <2> QED
    BY <2>1, <2>2
<1>5. \A s, t \in present : tree[s] = tree[t] => s = t
  <2> TAKE s, t \in present
  <2> HAVE tree[s] = tree[t]
  <2>1. {s} = {t}
    BY <1>4
  <2> QED
    BY <2>1
<1> HIDE DEF tree, a
<1>6. ASSUME NEW s \in present PROVE g[tree[s]] = code[s]
  <2> DEFINE t == CHOOSE t \in present : tree[s].symbols = {t}
  <2>1. t \in present /\ tree[s].symbols = {t}
    BY <1>4
  <2>2. g[tree[s]] = code[t]
    BY <1>4
  <2> HIDE DEF t, g
  <2>3. t = s
    BY <1>4, <2>1
  <2> QED
    BY <2>2, <2>3
<1>7. Counted(f, c)
  <2> SUFFICES ASSUME NEW n \in A PROVE n.count = SetSum(c, n.symbols)
    BY DEF Counted
  <2>1. PICK s \in present : n = tree[s]
    BY <1>2
  <2>2. SetSum(c, {s}) = c[s]
    BY <1>4, SetSumOne
  <2> QED
    BY <1>4, <2>1, <2>2
<1>8. g \in [A -> 0..K]
  <2>1. \A n \in A : g[n] \in 0..K
    <3> TAKE n \in A
    <3>1. PICK s \in present : n = tree[s]
      BY <1>2
    <3> HIDE DEF g
    <3> QED
      BY <1>3, <1>6, <3>1
  <2> QED
    BY <2>1
<1> HIDE DEF g, A
<1>9. SetSum(CodeShares(g, K), A) = 2 ^ K
  <2> DEFINE r == CodeShares(code, K)
             q == CodeShares(g, K)
  <2>1. \A s \in present : r[s] = 2 ^ (K - code[s]) /\ r[s] \in Nat
    BY <1>3, SharesAre
  <2>2. \A n \in A : q[n] = 2 ^ (K - g[n])
    BY <1>8, SharesAre
  <2> HIDE DEF r, q
  <2>3. \A s \in present : r[s] \in Nat /\ q[tree[s]] = r[s]
    BY <1>4, <1>6, <2>1, <2>2
  <2>4. SetSum(q, {tree[s] : s \in present}) = SetSum(r, present)
    BY <1>1, <1>5, <2>3, SetSumImage
  <2> QED
    BY <1>2, <1>3, <2>4 DEF r, q
<1>10. Spent(a, g, A) = limit
  <2> DEFINE r == [s \in present |-> c[s] * code[s]]
             q == [n \in A |-> a[n] * g[n]]
  <2>1. \A s \in present : r[s] = c[s] * code[s] /\ r[s] \in Nat
    <3> TAKE s \in present
    <3> DEFINE i == c[s]
               j == code[s]
    <3>1. i \in Nat /\ j \in Nat /\ r[s] = i * j
      BY <1>3, <1>4
    <3> HIDE DEF i, j, r
    <3>2. r[s] \in Nat
      BY <3>1
    <3> QED
      BY <3>1, <3>2 DEF i, j
  <2>2. \A n \in A : q[n] = a[n] * g[n]
    OBVIOUS
  <2>3. Spent(a, g, A) = SetSum(q, A) /\ limit = SetSum(r, present)
    BY DEF Spent
  <2> HIDE DEF r, q, limit
  <2>4. \A s \in present : r[s] \in Nat /\ q[tree[s]] = r[s]
    BY <1>4, <1>6, <2>1, <2>2
  <2>5. SetSum(q, {tree[s] : s \in present}) = SetSum(r, present)
    BY <1>1, <1>5, <2>4, SetSumImage
  <2> QED
    BY <1>2, <2>3, <2>5
<1>11. Spent(c, f.lengths, present) = 0
  <2> DEFINE r == [s \in present |-> c[s] * f.lengths[s]]
  <2>1. \A s \in present : r[s] \in Nat /\ r[s] = 0
    <3> TAKE s \in present
    <3>1. f.lengths[s] = 0 /\ c[s] \in Nat
      BY <1>1, <1>2
    <3> QED
      BY <3>1
  <2>2. Spent(c, f.lengths, present) = SetSum(r, present)
    BY DEF Spent
  <2> HIDE DEF r
  <2> QED
    BY <1>1, <2>1, <2>2, SetSumZero
<1>12. limit \in Nat
  <2>1. Fills(g, A, K)
    BY <1>8, <1>9 DEF Fills
  <2>2. a \in [A -> Nat] /\ IsFiniteSet(A)
    <3>1. \A n \in A : n.count \in Nat
      BY <1>2, <1>4
    <3>2. IsFiniteSet(A)
      BY FirstIsForest DEF Forest, TreesOf, A, f
    <3> QED
      BY <3>1, <3>2 DEF a, CountOf
  <2>3. Spent(a, g, A) \in Nat
    BY <2>1, <2>2, SpentNat
  <2> QED
    BY <1>10, <2>3
<1>13. Within(f, c, present, K, limit)
  <2>1. Fills(g, A, K)
    BY <1>8, <1>9 DEF Fills
  <2>2. Spent(c, f.lengths, present) + Spent(a, g, A) <= limit
    <3> HIDE DEF limit
    <3> QED
      BY <1>10, <1>11, <1>12
  <2> HIDE DEF limit
  <2> QED
    BY <2>1, <2>2 DEF Within, A, a
<1> QED
  BY <1>7, <1>13 DEF present, f

\* Nor do the later merges.
LEMMA BestKept ==
  ASSUME NEW c \in [Masks -> Nat], NEW N \in Nat, NEW h, Merges(h, c, N),
         NEW K \in Nat, NEW code, Fills(code, PresentIn(c), K),
         NEW k \in 0..N, k < Cardinality(PresentIn(c))
  PROVE  Counted(h[k], c) /\ Within(h[k], c, PresentIn(c), K, Spent(c, code, PresentIn(c)))
<1> DEFINE present == PresentIn(c)
           limit == Spent(c, code, present)
           Best(i) == Counted(h[i], c) /\ Within(h[i], c, present, K, limit)
           Wrong == {i \in Nat : i \in 0..N /\ i < Cardinality(present) /\ ~ Best(i)}
<1>0. present \in SUBSET Masks /\ Cardinality(present) \in Nat /\ IsFiniteSet(present)
  <2>1. present \in SUBSET Masks
    BY DEF PresentIn
  <2> QED
    BY <2>1, LengthRoom
<1>1. SUFFICES ASSUME Wrong # {} PROVE FALSE
  OBVIOUS
<1>2. PICK i \in Wrong : \A y \in Wrong : i <= y
  <2>1. Wrong \subseteq Nat
    OBVIOUS
  <2> HIDE DEF Wrong
  <2> QED
    BY <1>1, <2>1, LeastNatural
<1>3. i # 0
  <2>1. h[0] = FirstForest(c)
    BY DEF Merges
  <2>2. Best(0)
    BY <2>1, FirstBest
  <2> QED
    BY <1>2, <2>2
<1> DEFINE j == i - 1
<1>4. i \in 0..N /\ j \in Nat /\ j \in 0..N /\ j < Cardinality(present) /\ ~ (i <= j) /\ i = j + 1
      /\ i < Cardinality(present)
  BY <1>0, <1>3
<1>5. h[i] = MergeLightest(h[j])
  BY <1>3, <1>4 DEF Merges
<1>6. limit \in Nat
  <2> DEFINE b == [s \in present |-> c[s]]
             r == [s \in present |-> c[s] * code[s]]
  <2>1. b \in [present -> Nat]
    BY <1>0
  <2>2. Spent(b, code, present) \in Nat
    <3> HIDE DEF b, present
    <3> QED
      BY <1>0, <2>1, SpentNat DEF present
  <2>3. Spent(b, code, present) = Spent(c, code, present)
    BY DEF Spent
  <2> QED
    BY <2>2, <2>3
<1>7. Best(j)
  <2>1. j \notin Wrong
    BY <1>2, <1>4
  <2> HIDE DEF Best, j, present
  <2> QED
    BY <1>4, <2>1
<1> HIDE DEF limit, j
<1>8. Forest(h[j], present, j)
  BY <1>4, ForestsAre
<1> HIDE DEF present
<1>9. Best(i)
  BY <1>0, <1>4, <1>5, <1>6, <1>7, <1>8, MergeKeepsBest
<1> QED
  BY <1>2, <1>9

\* No code lengths that fill the code space cost less than those of the merge loop.
LEMMA MergedIsBest ==
  ASSUME NEW c \in [Masks -> Nat], PresentIn(c) # {},
         NEW K \in Nat, NEW code, Fills(code, PresentIn(c), K)
  PROVE  Spent(c, CodeLengthsOf(c), PresentIn(c)) <= Spent(c, code, PresentIn(c))
<1> DEFINE present == PresentIn(c)
           P == Cardinality(present)
           h == CHOOSE x : Merges(x, c, P)
           k == P - 1
           f == h[k]
           limit == Spent(c, code, present)
<1>1. present \in SUBSET Masks /\ P \in Nat /\ P # 0 /\ IsFiniteSet(present)
  <2>1. present \in SUBSET Masks
    BY DEF PresentIn
  <2> QED
    BY <2>1, LengthRoom, FS_EmptySet
<1>2. CodeLengthsOf(c) = f.lengths
  BY DEF CodeLengthsOf, Merges, PresentIn, FirstForest, SingleTrees
<1>3. Merges(h, c, P)
  <2>1. \E x : Merges(x, c, P)
    BY <1>1, MergesExist
  <2> QED
    BY <2>1
<1> HIDE DEF h
<1>4. k \in 0..P /\ k < P
  BY <1>1
<1> HIDE DEF k
<1>5. Forest(f, present, k)
  BY <1>1, <1>3, <1>4, ForestsAre
<1>6. Counted(f, c) /\ Within(f, c, present, K, limit)
  BY <1>1, <1>3, <1>4, BestKept
<1> HIDE DEF f, limit, present
<1>7. PICK g : /\ Fills(g, f.active, K)
               /\ Spent(c, f.lengths, present) + Spent(CountOf(f.active), g, f.active) <= limit
  BY <1>6 DEF Within
<1>8. IsFiniteSet(f.active) /\ CountOf(f.active) \in [f.active -> Nat] /\ f.lengths \in [Masks -> Nat]
  BY <1>5 DEF Forest, TreesOf, CountOf
<1> DEFINE x == Spent(c, f.lengths, present)
           y == Spent(CountOf(f.active), g, f.active)
<1>9. x \in Nat /\ y \in Nat
  BY <1>1, <1>7, <1>8, SymbolsSpent, SpentNat
<1>10. limit \in Nat
  <2> DEFINE b == [s \in present |-> c[s]]
  <2>1. b \in [present -> Nat] /\ Fills(code, present, K)
    BY <1>1 DEF present
  <2>2. Spent(b, code, present) = Spent(c, code, present)
    BY DEF Spent
  <2> HIDE DEF b
  <2>3. Spent(b, code, present) \in Nat
    BY <1>1, <2>1, SpentNat
  <2> QED
    BY <2>2, <2>3 DEF limit
<1>11. x + y <= limit
  BY <1>7
<1> HIDE DEF x, y
<1>12. x <= limit
  BY <1>9, <1>10, <1>11
<1> QED
  BY <1>2, <1>12 DEF x, limit, present

\* Merging the two lightest nodes is optimal: whatever the counts, no assignment
\* of code lengths that fills the code space writes the context's transitions in
\* fewer bits than the one of ContextModel::new.
THEOREM LengthsAlwaysOptimal == ModelSpec => []LengthsOptimal
<1>1. ContextInv => LengthsOptimal
  <2> SUFFICES ASSUME ContextInv, Cardinality(Present) > 1, NEW f \in CompleteLengths
               PROVE  Cost(CodeLengthsOf(counts)) <= Cost(f)
    BY DEF LengthsOptimal
  <2> DEFINE K == Cardinality(Present)
  <2>1. counts \in [Masks -> Nat] /\ Present = PresentIn(counts) /\ Present \in SUBSET Masks
    BY DEF ContextInv, Present, PresentIn
  <2>2. K \in Nat /\ Present # {}
    BY <2>1, LengthRoom, FS_EmptySet
  <2>3. /\ f \in [Present -> 1..K]
        /\ SetSum([s \in Present |-> 2 ^ (K - f[s])], Present) = 2 ^ K
    BY DEF CompleteLengths
  <2> HIDE DEF K
  <2>4. Fills(f, Present, K)
    <3>1. DOMAIN f = Present /\ f \in [Present -> 0..K]
      BY <2>2, <2>3
    <3>2. CodeShares(f, K) = [s \in Present |-> 2 ^ (K - f[s])]
      BY <3>1 DEF CodeShares
    <3> QED
      BY <2>3, <3>1, <3>2 DEF Fills
  <2>5. Spent(counts, CodeLengthsOf(counts), Present) <= Spent(counts, f, Present)
    BY <2>1, <2>2, <2>4, MergedIsBest
  <2> QED
    BY <2>5 DEF Cost, Spent
<1> QED
  BY <1>1, ContextAlways, PTL

-----------------------------------------------------------------------------
(* Numbers and their bytes *)

LEMMA ByteConstants ==
  ByteBits \in Nat \ {0} /\ ByteBase \in Nat \ {0} /\ ByteBase = 2 ^ ByteBits
BY HeaderAssumption

LEMMA BytePowers ==
  /\ 2 ^ (ByteBits * 0) = 1
  /\ \A n \in Nat : /\ ByteBits * n \in Nat /\ 2 ^ (ByteBits * n) \in Nat \ {0}
                    /\ 2 ^ (ByteBits * (n + 1)) = ByteBase * 2 ^ (ByteBits * n)
<1>1. ByteBits * 0 = 0 /\ ByteBits * 0 \in Nat
  BY ByteConstants
<1>2. 2 ^ (ByteBits * 0) = 1
  BY <1>1, PowerZero
<1>3. ASSUME NEW n \in Nat
      PROVE  /\ ByteBits * n \in Nat /\ 2 ^ (ByteBits * n) \in Nat \ {0}
             /\ 2 ^ (ByteBits * (n + 1)) = ByteBase * 2 ^ (ByteBits * n)
  <2>1. ByteBits * n \in Nat /\ ByteBits * (n + 1) = ByteBits + ByteBits * n
    BY ByteConstants
  <2>2. 2 ^ (ByteBits * n) \in Nat \ {0}
    BY <2>1, PowerPositive
  <2>3. 2 ^ (ByteBits + ByteBits * n) = 2 ^ ByteBits * 2 ^ (ByteBits * n)
    BY <2>1, ByteConstants, PowerSum
  <2> QED
    BY <2>1, <2>2, <2>3, ByteConstants
<1> QED
  BY <1>2, <1>3

\* The lowest byte, and the bytes above it.
LEMMA ByteShift ==
  ASSUME NEW v \in Nat
  PROVE  /\ ByteOf(v, 0) \in 0..(ByteBase - 1)
         /\ v \div ByteBase \in Nat
         /\ v = ByteOf(v, 0) + ByteBase * (v \div ByteBase)
         /\ \A n \in Nat : ByteOf(v, n + 1) = ByteOf(v \div ByteBase, n)
<1>0. PICK B \in Nat \ {0} : B = ByteBase
  BY ByteConstants
<1>1. v \div 1 = v
  <2>1. v * 1 = v /\ (v + 1) * 1 = v + 1
    OBVIOUS
  <2> QED
    BY <2>1, QuotientUnique
<1>2. ByteOf(v, 0) = v % B
  BY <1>0, <1>1, BytePowers DEF ByteOf
<1>3. v \div B \in Nat
  BY Quotient
<1>4. v % B \in 0..(B - 1) /\ v = (v \div B) * B + (v % B)
  BY Remainder
<1>5. ASSUME NEW n \in Nat PROVE ByteOf(v, n + 1) = ByteOf(v \div B, n)
  <2>1. PICK e \in Nat \ {0} : e = 2 ^ (ByteBits * n)
    BY BytePowers
  <2>2. PICK p \in Nat \ {0} : p = 2 ^ (ByteBits * (n + 1)) /\ p = B * e
    BY <1>0, <2>1, BytePowers
  <2>3. PICK q \in Nat : q = v \div B
    BY <1>3
  <2>4. PICK r \in Nat : r = q \div e
    BY Quotient
  <2>5. r * e <= q /\ q < (r + 1) * e /\ q * B <= v /\ v < (q + 1) * B
    BY <2>3, <2>4, Quotient
  <2>6. r * p <= v /\ v < (r + 1) * p
    <3>1. (r * e) * B <= q * B /\ (q + 1) * B <= ((r + 1) * e) * B
      BY <2>5, ProductGrows
    <3>2. (r * e) * B = r * p /\ ((r + 1) * e) * B = (r + 1) * p
      BY <2>2
    <3>3. r * p \in Nat /\ (r + 1) * p \in Nat /\ q * B \in Nat /\ (q + 1) * B \in Nat
      OBVIOUS
    <3> QED
      BY <2>5, <3>1, <3>2, <3>3
  <2>7. v \div p = r
    BY <2>6, QuotientUnique
  <2> QED
    BY <2>1, <2>2, <2>3, <2>4, <2>7 DEF ByteOf
<1>6. (v \div B) * B = B * (v \div B) /\ B * (v \div B) \in Nat
  BY <1>3
<1>7. v = ByteOf(v, 0) + B * (v \div B)
  <2>1. PICK x \in Nat : x = B * (v \div B)
    BY <1>6
  <2> QED
    BY <1>2, <1>4, <1>6, <2>1
<1> QED
  BY <1>0, <1>2, <1>3, <1>4, <1>5, <1>7

\* A number made of a byte and of what is above it.
LEMMA ByteSplit ==
  ASSUME NEW b \in 0..(ByteBase - 1), NEW r \in Nat
  PROVE  /\ b + ByteBase * r \in Nat
         /\ ByteOf(b + ByteBase * r, 0) = b
         /\ \A n \in Nat : ByteOf(b + ByteBase * r, n + 1) = ByteOf(r, n)
<1>0. PICK B \in Nat \ {0} : B = ByteBase
  BY ByteConstants
<1>1. B * r \in Nat /\ r * B = B * r /\ (r + 1) * B = B * r + B /\ b \in 0..(B - 1)
  BY <1>0
<1>2. PICK v \in Nat : v = b + B * r
  BY <1>1
<1>3. v \div B = r
  BY <1>1, <1>2, QuotientUnique
<1>4. v = ByteOf(v, 0) + B * (v \div B) /\ ByteOf(v, 0) \in Nat
  BY <1>0, ByteShift
<1>5. ByteOf(v, 0) = b
  <2>1. PICK x \in Nat : x = B * r
    BY <1>1
  <2>2. v = b + x /\ v = ByteOf(v, 0) + x
    BY <1>2, <1>3, <1>4, <2>1
  <2> QED
    BY <1>1, <1>4, <2>1, <2>2
<1>6. \A n \in Nat : ByteOf(v, n + 1) = ByteOf(r, n)
  BY <1>0, <1>3, ByteShift
<1> QED
  BY <1>0, <1>2, <1>5, <1>6

\* What remains of a number that fits w + 1 bytes fits w.
LEMMA FewerBytes ==
  ASSUME NEW v \in Nat, NEW w \in Nat, v < 2 ^ (ByteBits * (w + 1))
  PROVE  v \div ByteBase < 2 ^ (ByteBits * w)
<1>0. PICK B \in Nat \ {0} : B = ByteBase
  BY ByteConstants
<1>1. PICK e \in Nat \ {0} : e = 2 ^ (ByteBits * w)
  BY BytePowers
<1>2. v < B * e
  BY <1>0, <1>1, BytePowers
<1>3. v \div B \in Nat /\ (v \div B) * B <= v
  BY Quotient
<1>4. B * e = e * B /\ B * e \in Nat /\ (v \div B) * B \in Nat
  BY <1>3
<1>5. (v \div B) * B < e * B
  BY <1>2, <1>3, <1>4
<1> QED
  BY <1>0, <1>1, <1>3, <1>5, ProductStrict

\* A byte below a number that fits w bytes makes one that fits w + 1.
LEMMA MoreBytes ==
  ASSUME NEW b \in 0..(ByteBase - 1), NEW r \in Nat, NEW w \in Nat,
         r < 2 ^ (ByteBits * w)
  PROVE  b + ByteBase * r < 2 ^ (ByteBits * (w + 1))
<1>0. PICK B \in Nat \ {0} : B = ByteBase
  BY ByteConstants
<1>1. PICK e \in Nat \ {0} : e = 2 ^ (ByteBits * w)
  BY BytePowers
<1>2. (r + 1) * B <= e * B /\ (r + 1) * B \in Nat /\ e * B \in Nat
  BY <1>1, ProductGrows
<1>3. (r + 1) * B = B * r + B /\ e * B = B * e /\ B * r \in Nat /\ b \in 0..(B - 1)
  BY <1>0
<1>4. b + B * r < B * e
  BY <1>2, <1>3
<1> QED
  BY <1>0, <1>1, <1>4, BytePowers

LEMMA SmallByte ==
  ASSUME NEW v \in Nat, v < 2 ^ (ByteBits * 1)
  PROVE  v = ByteOf(v, 0)
<1>0. 1 = 0 + 1
  OBVIOUS
<1>1. v \div ByteBase < 2 ^ (ByteBits * 0)
  BY <1>0, FewerBytes
<1>2. PICK r \in Nat : r = v \div ByteBase
  BY ByteShift
<1>3. r = 0
  BY <1>1, <1>2, BytePowers
<1>4. v = ByteOf(v, 0) + ByteBase * r /\ ByteOf(v, 0) \in 0..(ByteBase - 1)
  BY <1>2, ByteShift, Zenon
<1>5. ByteBase * r = 0 /\ ByteOf(v, 0) \in Nat
  BY <1>3, <1>4, ByteConstants
<1> QED
  BY <1>4, <1>5

Bytewise(bytes, at, width, v) ==
  \A n \in 0..(width - 1) : bytes[at + n] = ByteOf(v, n)

\* What is written to a field is what is read from it.
LEMMA WrittenIsRead ==
  ASSUME NEW bytes, NEW at \in Nat, NEW width \in {1, 2, 4}, NEW v \in Nat,
         v < 2 ^ (ByteBits * width), Bytewise(bytes, at, width, v)
  PROVE  Field(bytes, Located(at, width)) = v
<1> DEFINE r == v \div ByteBase
           q == r \div ByteBase
           p == q \div ByteBase
<1>1. /\ r \in Nat /\ q \in Nat /\ p \in Nat
      /\ v = ByteOf(v, 0) + ByteBase * r
      /\ r = ByteOf(r, 0) + ByteBase * q
      /\ q = ByteOf(q, 0) + ByteBase * p
  BY ByteShift
<1>2. /\ ByteOf(v, 1) = ByteOf(r, 0)
      /\ ByteOf(v, 2) = ByteOf(q, 0)
      /\ ByteOf(v, 3) = ByteOf(p, 0)
  <2>1. \A x \in Nat, n \in Nat : ByteOf(x, n + 1) = ByteOf(x \div ByteBase, n)
    BY ByteShift
  <2>2. 1 = 0 + 1 /\ 2 = 1 + 1 /\ 3 = 2 + 1
    OBVIOUS
  <2>3. ByteOf(v, 0 + 1) = ByteOf(r, 0) /\ ByteOf(r, 0 + 1) = ByteOf(q, 0)
        /\ ByteOf(q, 0 + 1) = ByteOf(p, 0)
    BY <1>1, <2>1
  <2>4. ByteOf(v, 1 + 1) = ByteOf(r, 1) /\ ByteOf(v, 2 + 1) = ByteOf(r, 2)
        /\ ByteOf(r, 1 + 1) = ByteOf(q, 1)
    BY <1>1, <2>1
  <2> HIDE DEF r, q, p
  <2> QED
    BY <2>2, <2>3, <2>4
<1> HIDE DEF r, q, p
<1>3. CASE width = 1
  <2>1. v = ByteOf(v, 0)
    BY <1>3, SmallByte
  <2>2. bytes[at] = ByteOf(v, 0)
    <3>1. 0 \in 0..(width - 1) /\ at + 0 = at
      BY <1>3
    <3> QED
      BY <3>1 DEF Bytewise
  <2> QED
    BY <1>3, <2>1, <2>2 DEF Field, Located
<1>4. CASE width = 2
  <2>1. r < 2 ^ (ByteBits * 1)
    BY <1>4, FewerBytes DEF r
  <2>2. r = ByteOf(r, 0)
    BY <1>1, <2>1, SmallByte
  <2>3. bytes[at] = ByteOf(v, 0) /\ bytes[at + 1] = ByteOf(v, 1)
    <3>1. 0 \in 0..(width - 1) /\ at + 0 = at /\ 1 \in 0..(width - 1)
      BY <1>4
    <3> QED
      BY <3>1 DEF Bytewise
  <2>4. Field(bytes, Located(at, width)) = ByteOf(v, 0) + ByteBase * ByteOf(r, 0)
    BY <1>2, <1>4, <2>3 DEF Field, Located, ReadU16
  <2> QED
    BY <1>1, <2>2, <2>4
<1>5. CASE width = 4
  <2>1. p < 2 ^ (ByteBits * 1)
    <3>1. 4 = 3 + 1 /\ 3 = 2 + 1 /\ 2 = 1 + 1
      OBVIOUS
    <3>2. r < 2 ^ (ByteBits * 3)
      <4>1. v < 2 ^ (ByteBits * (3 + 1))
        BY <1>5, <3>1
      <4> QED
        BY <4>1, FewerBytes DEF r
    <3>3. q < 2 ^ (ByteBits * 2)
      <4>1. r < 2 ^ (ByteBits * (2 + 1))
        BY <3>1, <3>2
      <4> QED
        BY <1>1, <4>1, FewerBytes DEF q
    <3>4. q < 2 ^ (ByteBits * (1 + 1))
      BY <3>1, <3>3
    <3> QED
      BY <1>1, <3>4, FewerBytes DEF p
  <2>2. p = ByteOf(p, 0)
    BY <1>1, <2>1, SmallByte
  <2>3. bytes[at] = ByteOf(v, 0) /\ bytes[at + 1] = ByteOf(v, 1)
        /\ bytes[at + 2] = ByteOf(v, 2) /\ bytes[at + 3] = ByteOf(v, 3)
    <3>1. 0 \in 0..(width - 1) /\ at + 0 = at /\ 1 \in 0..(width - 1)
          /\ 2 \in 0..(width - 1) /\ 3 \in 0..(width - 1)
      BY <1>5
    <3> QED
      BY <3>1 DEF Bytewise
  <2>4. at + 1 + 1 = at + 2 /\ at + 1 + 1 + 1 = at + 3
    OBVIOUS
  <2>5. Field(bytes, Located(at, width)) =
          ByteOf(v, 0) + ByteBase * (ByteOf(r, 0) + ByteBase * (ByteOf(q, 0) + ByteBase * ByteOf(p, 0)))
    BY <1>2, <1>5, <2>3, <2>4 DEF Field, Located, ReadU16, ReadU24, ReadU32
  <2> QED
    BY <1>1, <2>2, <2>5
<1> QED
  BY <1>3, <1>4, <1>5

\* What is read from a field is what writing it again would leave there, and fits.
LEMMA ReadIsWritten ==
  ASSUME NEW bytes, NEW at \in Nat, NEW width \in {1, 2, 4},
         \A n \in 0..(width - 1) : bytes[at + n] \in 0..(ByteBase - 1)
  PROVE  /\ Field(bytes, Located(at, width)) \in Nat
         /\ Field(bytes, Located(at, width)) < 2 ^ (ByteBits * width)
         /\ Bytewise(bytes, at, width, Field(bytes, Located(at, width)))
<1> DEFINE b(n) == bytes[at + n]
<1>0. at + 0 = at /\ at + 1 + 1 = at + 2 /\ at + 1 + 1 + 1 = at + 3
  OBVIOUS
<1>1. b(0) \in 0..(ByteBase - 1) /\ bytes[at] = b(0)
  <2>1. 0 \in 0..(width - 1)
    OBVIOUS
  <2> QED
    BY <1>0, <2>1
<1>2. ASSUME NEW x \in 0..(ByteBase - 1)
      PROVE  /\ x \in Nat /\ ByteOf(x, 0) = x /\ x < 2 ^ (ByteBits * 1)
  <2>1. x + ByteBase * 0 = x
    BY ByteConstants
  <2>2. ByteOf(x + ByteBase * 0, 0) = x /\ x + ByteBase * 0 \in Nat
    BY ByteSplit
  <2>3. x + ByteBase * 0 < 2 ^ (ByteBits * (0 + 1))
    <3>1. 0 < 2 ^ (ByteBits * 0)
      BY BytePowers
    <3> QED
      BY <3>1, MoreBytes
  <2>4. 0 + 1 = 1
    OBVIOUS
  <2> QED
    BY <2>1, <2>2, <2>3, <2>4
<1>3. CASE width = 1
  <2>1. Field(bytes, Located(at, width)) = b(0)
    BY <1>1, <1>3 DEF Field, Located
  <2>2. 0..(width - 1) = {0}
    BY <1>3
  <2> QED
    BY <1>1, <1>2, <1>3, <2>1, <2>2 DEF Bytewise
<1>4. CASE width = 2
  <2>1. b(1) \in 0..(ByteBase - 1)
    <3>1. 1 \in 0..(width - 1)
      BY <1>4
    <3> QED
      BY <3>1
  <2> DEFINE v == b(0) + ByteBase * b(1)
  <2>2. Field(bytes, Located(at, width)) = v
    BY <1>1, <1>4 DEF Field, Located, ReadU16
  <2>3. b(1) \in Nat /\ ByteOf(b(1), 0) = b(1) /\ b(1) < 2 ^ (ByteBits * 1)
    BY <1>2, <2>1
  <2> HIDE DEF b
  <2>4. v \in Nat /\ ByteOf(v, 0) = b(0) /\ ByteOf(v, 0 + 1) = b(1)
    BY <1>1, <2>3, ByteSplit
  <2>5. v < 2 ^ (ByteBits * (1 + 1))
    BY <1>1, <2>3, MoreBytes
  <2>6. 0 + 1 = 1 /\ 1 + 1 = 2
    OBVIOUS
  <2> HIDE DEF v
  <2>7. \A n \in 0..(width - 1) : ByteOf(v, n) = b(n)
    <3>1. \A n \in 0..(width - 1) : n = 0 \/ n = 1
      BY <1>4
    <3> QED
      BY <2>4, <2>6, <3>1
  <2>8. Bytewise(bytes, at, width, v)
    BY <2>7 DEF Bytewise, b
  <2> QED
    BY <1>4, <2>2, <2>4, <2>5, <2>6, <2>8
<1>5. CASE width = 4
  <2>1. \A n \in {1, 2, 3} : b(n) \in 0..(ByteBase - 1)
    BY <1>5
  <2> DEFINE r3 == b(3)
             r2 == b(2) + ByteBase * r3
             r1 == b(1) + ByteBase * r2
             v == b(0) + ByteBase * r1
  <2>2. Field(bytes, Located(at, width)) = v
    BY <1>0, <1>1, <1>5 DEF Field, Located, ReadU16, ReadU24, ReadU32
  <2>3. r3 \in Nat /\ ByteOf(r3, 0) = b(3) /\ r3 < 2 ^ (ByteBits * 1)
    BY <1>2, <2>1
  <2> HIDE DEF b
  <2>4. b(1) \in 0..(ByteBase - 1) /\ b(2) \in 0..(ByteBase - 1)
    BY <2>1
  <2> HIDE DEF r3
  <2>5. r2 \in Nat /\ ByteOf(r2, 0) = b(2) /\ ByteOf(r2, 0 + 1) = b(3)
        /\ r2 < 2 ^ (ByteBits * (1 + 1))
    BY <2>3, <2>4, ByteSplit, MoreBytes
  <2> HIDE DEF r2
  <2>6. 0 + 1 = 1 /\ 1 + 1 = 2 /\ 2 + 1 = 3 /\ 3 + 1 = 4
    OBVIOUS
  <2>7. r2 < 2 ^ (ByteBits * 2)
    BY <2>5, <2>6
  <2>8. /\ r1 \in Nat /\ ByteOf(r1, 0) = b(1) /\ r1 < 2 ^ (ByteBits * (2 + 1))
        /\ ByteOf(r1, 0 + 1) = b(2) /\ ByteOf(r1, 1 + 1) = ByteOf(r2, 1)
    BY <2>4, <2>5, <2>7, ByteSplit, MoreBytes
  <2>9. ByteOf(r2, 1) = b(3)
    BY <2>5, <2>6
  <2> HIDE DEF r1
  <2>10. r1 < 2 ^ (ByteBits * 3)
    BY <2>6, <2>8
  <2>11. /\ v \in Nat /\ ByteOf(v, 0) = b(0) /\ v < 2 ^ (ByteBits * (3 + 1))
         /\ ByteOf(v, 0 + 1) = b(1) /\ ByteOf(v, 1 + 1) = ByteOf(r1, 1)
         /\ ByteOf(v, 2 + 1) = ByteOf(r1, 2)
    BY <1>1, <2>8, <2>10, ByteSplit, MoreBytes
  <2> HIDE DEF v
  <2>12. /\ ByteOf(v, 1) = b(1) /\ ByteOf(v, 2) = b(2) /\ ByteOf(v, 3) = b(3)
         /\ v < 2 ^ (ByteBits * 4)
    BY <2>6, <2>8, <2>9, <2>11
  <2>13. \A n \in 0..(width - 1) : ByteOf(v, n) = b(n)
    <3>1. \A n \in 0..(width - 1) : n = 0 \/ n = 1 \/ n = 2 \/ n = 3
      BY <1>5
    <3> QED
      BY <2>11, <2>12, <3>1
  <2>14. Bytewise(bytes, at, width, v)
    BY <2>13 DEF Bytewise, b
  <2> QED
    BY <1>5, <2>2, <2>11, <2>12, <2>14
<1> QED
  BY <1>3, <1>4, <1>5

-----------------------------------------------------------------------------
(* The fields of a header are disjoint and cover it *)

FixedNames == {"magic", "version", "headerSize", "fileSize", "payloadBits", "rawMasks",
  "rawRanks", "models", "groupBits", "groupRanks", "blockLengths", "blockKids", "payload",
  "restartInterval", "rawRankInterval", "levelCount", "rawLevelCount", "maxDatabaseLevel",
  "blocksPerGroup", "leaves", "terminal"}

PartNames == {"nodes", "start", "length", "encoding", "lengthWidth", "childWidth", "flags"}

LEMMA FixedShape ==
  /\ DOMAIN FixedField = FixedNames
  /\ \A x \in FixedNames :
       /\ FixedField[x].at \in 0..63 /\ FixedField[x].width \in {1, 2, 4}
       /\ FixedField[x].at + FixedField[x].width <= 64
       /\ FixedField[x] = Located(FixedField[x].at, FixedField[x].width)
BY DEF FixedField, FixedNames, Located, U16, U32

LEMMA FixedDisjoint ==
  \A x, y \in FixedNames :
    x # y => \/ FixedField[x].at + FixedField[x].width <= FixedField[y].at
             \/ FixedField[y].at + FixedField[y].width <= FixedField[x].at
BY SMTT(60) DEF FixedField, FixedNames, Located, U16, U32

LEMMA FixedCovers ==
  \A p \in 0..63 : \E x \in FixedNames : p \in Span(FixedField[x])
BY SMTT(60) DEF FixedField, FixedNames, Located, U16, U32, Span

LEMMA PartShape ==
  /\ DOMAIN EntryField = PartNames
  /\ \A x \in PartNames :
       /\ EntryField[x].at \in 0..15 /\ EntryField[x].width \in {1, 2, 4}
       /\ EntryField[x].at + EntryField[x].width <= 16
BY DEF EntryField, PartNames, Located, U32

LEMMA PartDisjoint ==
  \A x, y \in PartNames :
    x # y => \/ EntryField[x].at + EntryField[x].width <= EntryField[y].at
             \/ EntryField[y].at + EntryField[y].width <= EntryField[x].at
BY DEF EntryField, PartNames, Located, U32

LEMMA PartCovers ==
  \A p \in 0..15 : \E x \in PartNames :
    EntryField[x].at <= p /\ p < EntryField[x].at + EntryField[x].width
BY DEF EntryField, PartNames, Located, U32

\* The fields of the entries, within their entry.
LEMMA EntryShape ==
  ASSUME NEW l \in Levels, NEW x \in PartNames
  PROVE  /\ l \in Nat /\ HeaderSize \in Nat /\ 64 + l * 16 + 16 <= HeaderSize
         /\ EntryAt(l, EntryField[x]) =
              Located(64 + l * 16 + EntryField[x].at, EntryField[x].width)
         /\ EntryAt(l, EntryField[x]).at = 64 + l * 16 + EntryField[x].at
         /\ EntryAt(l, EntryField[x]).width = EntryField[x].width
BY FormatAssumption DEF EntryAt, Located, HeaderSize, FixedHeaderSize, LevelEntrySize, Levels

LEMMA SpanIs ==
  ASSUME NEW f, NEW at \in Nat, NEW width \in Nat, f.at = at, f.width = width
  PROVE  \A p : p \in Span(f) <=> (p \in Nat /\ at <= p /\ p < at + width)
BY DEF Span

\* A fixed field lies in the first 64 bytes, an entry's field in the entry.
LEMMA FixedPlace ==
  ASSUME NEW x \in FixedNames
  PROVE  \E at \in Nat, width \in {1, 2, 4} :
           /\ FixedField[x].at = at /\ FixedField[x].width = width /\ at + width <= 64
           /\ FixedField[x] = Located(at, width)
           /\ \A p : p \in Span(FixedField[x]) <=> (p \in Nat /\ at <= p /\ p < at + width)
<1>1. PICK at \in Nat, width \in {1, 2, 4} :
        /\ FixedField[x].at = at /\ FixedField[x].width = width
        /\ FixedField[x].at + FixedField[x].width <= 64
        /\ FixedField[x] = Located(at, width)
  BY FixedShape
<1>2. at + width <= 64 /\ width \in Nat
  BY <1>1
<1>3. \A p : p \in Span(FixedField[x]) <=> (p \in Nat /\ at <= p /\ p < at + width)
  BY <1>1, <1>2, SpanIs
<1> QED
  BY <1>1, <1>2, <1>3

LEMMA EntryPlace ==
  ASSUME NEW l \in Levels, NEW x \in PartNames
  PROVE  \E at \in Nat, width \in {1, 2, 4} :
           /\ EntryField[x].at = at /\ EntryField[x].width = width /\ at + width <= 16
           /\ l \in Nat /\ HeaderSize \in Nat /\ 64 + l * 16 + 16 <= HeaderSize
           /\ EntryAt(l, EntryField[x]).at = 64 + l * 16 + at
           /\ EntryAt(l, EntryField[x]).width = width
           /\ EntryAt(l, EntryField[x]) = Located(64 + l * 16 + at, width)
           /\ \A p : p \in Span(EntryAt(l, EntryField[x])) <=>
                (p \in Nat /\ 64 + l * 16 + at <= p /\ p < 64 + l * 16 + at + width)
<1>1. PICK at \in Nat, width \in {1, 2, 4} :
        /\ EntryField[x].at = at /\ EntryField[x].width = width
        /\ EntryField[x].at + EntryField[x].width <= 16
  BY PartShape
<1>2. at + width <= 16 /\ width \in Nat
  BY <1>1
<1>3. /\ l \in Nat /\ HeaderSize \in Nat /\ 64 + l * 16 + 16 <= HeaderSize
      /\ EntryAt(l, EntryField[x]).at = 64 + l * 16 + at
      /\ EntryAt(l, EntryField[x]).width = width
      /\ EntryAt(l, EntryField[x]) = Located(64 + l * 16 + at, width)
  BY <1>1, EntryShape
<1>4. PICK start \in Nat : start = 64 + l * 16 + at
  BY <1>3
<1>5. \A p : p \in Span(EntryAt(l, EntryField[x])) <=>
        (p \in Nat /\ start <= p /\ p < start + width)
  BY <1>2, <1>3, <1>4, SpanIs
<1> QED
  BY <1>1, <1>2, <1>3, <1>4, <1>5

LEMMA WrittenByte ==
  ASSUME NEW bytes, NEW fields, NEW values, NEW name \in DOMAIN fields,
         NEW p \in DOMAIN bytes, p \in Span(fields[name]),
         \A x \in DOMAIN fields : p \in Span(fields[x]) => x = name
  PROVE  WrittenFields(bytes, fields, values)[p] = ByteOf(values[name], p - fields[name].at)
<1> DEFINE chosen == CHOOSE x \in DOMAIN fields : p \in Span(fields[x])
<1>1. chosen = name
  OBVIOUS
<1>2. WrittenFields(bytes, fields, values)[p] = ByteOf(values[chosen], p - fields[chosen].at)
  BY DEF WrittenFields
<1> QED
  BY <1>1, <1>2

LEMMA UnwrittenByte ==
  ASSUME NEW bytes, NEW fields, NEW values, NEW p \in DOMAIN bytes,
         \A x \in DOMAIN fields : p \notin Span(fields[x])
  PROVE  WrittenFields(bytes, fields, values)[p] = bytes[p]
BY DEF WrittenFields

\* Which byte of which value each byte of a written header is.
LEMMA HeaderBytes ==
  ASSUME NEW fixed, NEW entry
  PROVE  /\ WrittenHeader(fixed, entry) =
              [p \in 0..(HeaderSize - 1) |-> WrittenHeader(fixed, entry)[p]]
         /\ \A x \in FixedNames : \A p \in Span(FixedField[x]) :
              /\ p \in 0..(HeaderSize - 1)
              /\ WrittenHeader(fixed, entry)[p] = ByteOf(fixed[x], p - FixedField[x].at)
         /\ \A l \in Levels : \A x \in PartNames : \A p \in Span(EntryAt(l, EntryField[x])) :
              /\ p \in 0..(HeaderSize - 1)
              /\ WrittenHeader(fixed, entry)[p] =
                   ByteOf(entry[l][x], p - EntryAt(l, EntryField[x]).at)
<1> DEFINE zeros == [p \in 0..(HeaderSize - 1) |-> 0]
           inner == WrittenFields(zeros, FixedField, fixed)
           parts == [x \in DOMAIN EntryFields |-> entry[x[1]][x[2]]]
           whole == WrittenFields(inner, EntryFields, parts)
<1>1. WrittenHeader(fixed, entry) = whole
  BY DEF WrittenHeader
<1>2. /\ inner = [p \in 0..(HeaderSize - 1) |-> inner[p]]
      /\ whole = [p \in 0..(HeaderSize - 1) |-> whole[p]]
      /\ DOMAIN zeros = 0..(HeaderSize - 1) /\ DOMAIN inner = 0..(HeaderSize - 1)
  BY DEF WrittenFields
<1>3. /\ DOMAIN EntryFields = Levels \X PartNames
      /\ \A l \in Levels : \A x \in PartNames :
           EntryFields[<<l, x>>] = EntryAt(l, EntryField[x]) /\ parts[<<l, x>>] = entry[l][x]
  BY PartShape DEF EntryFields
<1>4. HeaderSize \in Nat /\ 64 <= HeaderSize /\ Levels \subseteq Nat
  BY FormatAssumption DEF HeaderSize, FixedHeaderSize, LevelEntrySize, Levels
<1> HIDE DEF zeros, inner, parts, whole
<1>5. ASSUME NEW x \in FixedNames, NEW p \in Span(FixedField[x])
      PROVE  /\ p \in 0..(HeaderSize - 1)
             /\ whole[p] = ByteOf(fixed[x], p - FixedField[x].at)
  <2>0. PICK at \in Nat, width \in {1, 2, 4} :
          /\ FixedField[x].at = at /\ FixedField[x].width = width /\ at + width <= 64
          /\ p \in Nat /\ at <= p /\ p < at + width
    BY FixedPlace
  <2>1. p \in 0..63 /\ at <= p /\ p < at + width
    BY <2>0
  <2>2. p \in 0..(HeaderSize - 1)
    BY <1>4, <2>1
  <2>3. \A y \in DOMAIN FixedField : p \in Span(FixedField[y]) => y = x
    <3>1. TAKE y \in DOMAIN FixedField
    <3>2. HAVE p \in Span(FixedField[y])
    <3>3. y \in FixedNames
      BY FixedShape
    <3>4. PICK b \in Nat, w \in {1, 2, 4} :
            FixedField[y].at = b /\ FixedField[y].width = w /\ b <= p /\ p < b + w
      BY <3>2, <3>3, FixedPlace
    <3>5. x # y => at + width <= b \/ b + w <= at
      BY <2>0, <3>3, <3>4, FixedDisjoint
    <3> QED
      BY <2>1, <3>4, <3>5
  <2>4. inner[p] = ByteOf(fixed[x], p - FixedField[x].at)
    <3>1. p \in DOMAIN zeros /\ x \in DOMAIN FixedField
      BY <1>2, <2>2, FixedShape
    <3> QED
      BY <3>1, <2>3, WrittenByte DEF inner
  <2>5. \A e \in DOMAIN EntryFields : p \notin Span(EntryFields[e])
    <3>1. TAKE e \in DOMAIN EntryFields
    <3>2. PICK l \in Levels, y \in PartNames : e = <<l, y>>
      BY <1>3
    <3>3. EntryFields[e] = EntryAt(l, EntryField[y])
      BY <1>3, <3>2
    <3>4. p \in Span(EntryAt(l, EntryField[y])) => 64 <= p
      BY EntryPlace
    <3> QED
      BY <2>1, <3>3, <3>4
  <2>6. whole[p] = inner[p]
    <3>1. p \in DOMAIN inner
      BY <1>2, <2>2
    <3> QED
      BY <3>1, <2>5, UnwrittenByte DEF whole
  <2> QED
    BY <2>2, <2>4, <2>6
<1>6. ASSUME NEW l \in Levels, NEW x \in PartNames, NEW p \in Span(EntryAt(l, EntryField[x]))
      PROVE  /\ p \in 0..(HeaderSize - 1)
             /\ whole[p] = ByteOf(entry[l][x], p - EntryAt(l, EntryField[x]).at)
  <2> DEFINE at == EntryField[x].at
             width == EntryField[x].width
  <2>1. at \in Nat /\ width \in Nat /\ at + width <= 16 /\ l \in Nat
        /\ 64 + l * 16 + 16 <= HeaderSize
        /\ EntryAt(l, EntryField[x]).at = 64 + l * 16 + at
        /\ EntryAt(l, EntryField[x]).width = width
    BY PartShape, EntryShape
  <2> HIDE DEF at, width
  <2>2. p \in Nat /\ 64 + l * 16 + at <= p /\ p < 64 + l * 16 + at + width
    BY <2>1 DEF Span
  <2>3. p \in 0..(HeaderSize - 1)
    BY <1>4, <2>1, <2>2
  <2>4. \A e \in DOMAIN EntryFields : p \in Span(EntryFields[e]) => e = <<l, x>>
    <3>1. TAKE e \in DOMAIN EntryFields
    <3>2. HAVE p \in Span(EntryFields[e])
    <3>3. PICK k \in Levels, y \in PartNames : e = <<k, y>>
      BY <1>3
    <3>4. EntryField[y].at \in Nat /\ EntryField[y].width \in Nat /\ k \in Nat
          /\ EntryField[y].at + EntryField[y].width <= 16
      BY PartShape, EntryShape
    <3>5. EntryFields[e].at = 64 + k * 16 + EntryField[y].at
          /\ EntryFields[e].width = EntryField[y].width
      BY <1>3, <3>3, EntryShape
    <3>6. 64 + k * 16 + EntryField[y].at <= p
          /\ p < 64 + k * 16 + EntryField[y].at + EntryField[y].width
      BY <2>2, <3>2, <3>4, <3>5 DEF Span
    <3>7. k = l
      BY <2>1, <2>2, <3>4, <3>6
    <3>8. x = y
      BY <2>1, <2>2, <3>4, <3>6, <3>7, PartDisjoint DEF at, width
    <3> QED
      BY <3>3, <3>7, <3>8
  <2>5. <<l, x>> \in DOMAIN EntryFields /\ EntryFields[<<l, x>>] = EntryAt(l, EntryField[x])
        /\ parts[<<l, x>>] = entry[l][x]
    BY <1>3
  <2>6. whole[p] = ByteOf(parts[<<l, x>>], p - EntryFields[<<l, x>>].at)
    <3>1. PICK e : e = <<l, x>>
      OBVIOUS
    <3>2. e \in DOMAIN EntryFields /\ p \in Span(EntryFields[e]) /\ p \in DOMAIN inner
          /\ \A y \in DOMAIN EntryFields : p \in Span(EntryFields[y]) => y = e
      BY <1>2, <2>3, <2>4, <2>5, <3>1
    <3>3. whole[p] = ByteOf(parts[e], p - EntryFields[e].at)
      BY <3>2, WrittenByte DEF whole
    <3> QED
      BY <3>1, <3>3
  <2> QED
    BY <2>3, <2>5, <2>6
<1> QED
  BY <1>1, <1>2, <1>5, <1>6

\* An encoder's header is read as it was written.
LEMMA HeaderRead ==
  ASSUME NEW fixed, NEW entry,
         \A x \in FixedNames : fixed[x] \in Nat /\ FitsField(FixedField[x], fixed[x]),
         \A l \in Levels : \A x \in PartNames :
           entry[l][x] \in Nat /\ FitsField(EntryField[x], entry[l][x])
  PROVE  /\ \A x \in FixedNames : Fixed(WrittenHeader(fixed, entry), x) = fixed[x]
         /\ \A l \in Levels : \A x \in PartNames :
              EntryValue(WrittenHeader(fixed, entry), l, x) = entry[l][x]
<1> DEFINE W == WrittenHeader(fixed, entry)
<1>1. ASSUME NEW x \in FixedNames PROVE Fixed(W, x) = fixed[x]
  <2>1. PICK at \in Nat, width \in {1, 2, 4} : at = FixedField[x].at /\ width = FixedField[x].width
        /\ FixedField[x] = Located(at, width)
    BY FixedShape
  <2>2. Bytewise(W, at, width, fixed[x])
    <3>1. ASSUME NEW n \in 0..(width - 1) PROVE W[at + n] = ByteOf(fixed[x], n)
      <4>1. at + n \in Span(FixedField[x]) /\ (at + n) - FixedField[x].at = n
        BY <2>1 DEF Span
      <4> QED
        BY <4>1, HeaderBytes
    <3> QED
      BY <3>1 DEF Bytewise
  <2>3. fixed[x] < 2 ^ (ByteBits * width)
    BY <2>1 DEF FitsField
  <2> HIDE DEF W
  <2>4. Field(W, Located(at, width)) = fixed[x]
    BY <2>2, <2>3, WrittenIsRead
  <2> QED
    BY <2>1, <2>4 DEF Fixed
<1>2. ASSUME NEW l \in Levels, NEW x \in PartNames PROVE EntryValue(W, l, x) = entry[l][x]
  <2>1. PICK at \in Nat, width \in {1, 2, 4} :
          /\ EntryAt(l, EntryField[x]) = Located(at, width)
          /\ at = EntryAt(l, EntryField[x]).at
          /\ width = EntryAt(l, EntryField[x]).width /\ width = EntryField[x].width
    <3>1. 64 + l * 16 + EntryField[x].at \in Nat /\ EntryField[x].width \in {1, 2, 4}
      BY EntryShape, PartShape
    <3> QED
      BY <3>1, EntryShape
  <2>2. Bytewise(W, at, width, entry[l][x])
    <3>1. ASSUME NEW n \in 0..(width - 1) PROVE W[at + n] = ByteOf(entry[l][x], n)
      <4>1. at + n \in Span(EntryAt(l, EntryField[x]))
            /\ (at + n) - EntryAt(l, EntryField[x]).at = n
        BY <2>1 DEF Span
      <4> QED
        BY <4>1, HeaderBytes
    <3> QED
      BY <3>1 DEF Bytewise
  <2>3. entry[l][x] < 2 ^ (ByteBits * width)
    BY <2>1 DEF FitsField
  <2> HIDE DEF W
  <2>4. Field(W, Located(at, width)) = entry[l][x]
    BY <2>2, <2>3, WrittenIsRead
  <2> QED
    BY <2>1, <2>4 DEF EntryValue
<1> QED
  BY <1>1, <1>2

\* A header is determined by the values its fields are read as, and these fit.
LEMMA HeaderDetermined ==
  ASSUME NEW bytes \in [0..(HeaderSize - 1) -> 0..(ByteBase - 1)], NEW fixed, NEW entry,
         \A x \in FixedNames : fixed[x] = Fixed(bytes, x),
         \A l \in Levels : \A x \in PartNames : entry[l][x] = EntryValue(bytes, l, x)
  PROVE  /\ bytes = WrittenHeader(fixed, entry)
         /\ \A x \in FixedNames : FitsField(FixedField[x], fixed[x])
         /\ \A l \in Levels : \A x \in PartNames : FitsField(EntryField[x], entry[l][x])
<1> DEFINE W == WrittenHeader(fixed, entry)
<1>0. HeaderSize \in Nat /\ 64 <= HeaderSize /\ Levels \subseteq Nat
      /\ HeaderSize = 64 + LevelCount * 16 /\ LevelCount \in Nat
  BY FormatAssumption DEF HeaderSize, FixedHeaderSize, LevelEntrySize, Levels
<1>1. ASSUME NEW x \in FixedNames
      PROVE  /\ FitsField(FixedField[x], fixed[x])
             /\ \A p \in Span(FixedField[x]) : bytes[p] = W[p]
  <2>1. PICK at \in Nat, width \in {1, 2, 4} :
          /\ FixedField[x].at = at /\ FixedField[x].width = width /\ at + width <= 64
          /\ FixedField[x] = Located(at, width)
          /\ \A p : p \in Span(FixedField[x]) <=> (p \in Nat /\ at <= p /\ p < at + width)
    BY FixedPlace
  <2>2. ASSUME NEW n \in 0..(width - 1) PROVE bytes[at + n] \in 0..(ByteBase - 1)
    <3>1. at + n \in 0..(HeaderSize - 1)
      BY SMTT(30), <1>0, <2>1
    <3> QED
      BY <3>1
  <2>3. fixed[x] = Field(bytes, Located(at, width))
    BY <2>1 DEF Fixed
  <2>4. fixed[x] < 2 ^ (ByteBits * width) /\ Bytewise(bytes, at, width, fixed[x])
    BY <2>2, <2>3, ReadIsWritten
  <2>5. ASSUME NEW p \in Span(FixedField[x]) PROVE bytes[p] = W[p]
    <3>1. p - at \in 0..(width - 1) /\ at + (p - at) = p
      BY <2>1 DEF Span
    <3>2. bytes[p] = ByteOf(fixed[x], p - at)
      BY <2>4, <3>1 DEF Bytewise
    <3> QED
      BY <2>1, <3>2, HeaderBytes
  <2> QED
    BY <2>1, <2>4, <2>5 DEF FitsField
<1>2. ASSUME NEW l \in Levels, NEW x \in PartNames
      PROVE  /\ FitsField(EntryField[x], entry[l][x])
             /\ \A p \in Span(EntryAt(l, EntryField[x])) : bytes[p] = W[p]
  <2>1. PICK at \in Nat, width \in {1, 2, 4} :
          /\ EntryAt(l, EntryField[x]) = Located(at, width)
          /\ EntryAt(l, EntryField[x]).at = at
          /\ EntryAt(l, EntryField[x]).width = width /\ EntryField[x].width = width
          /\ at + width <= HeaderSize
          /\ \A p : p \in Span(EntryAt(l, EntryField[x])) <=>
               (p \in Nat /\ at <= p /\ p < at + width)
    <3>1. PICK rel \in Nat, width \in {1, 2, 4} :
           /\ EntryField[x].at = rel /\ EntryField[x].width = width /\ rel + width <= 16
           /\ l \in Nat /\ HeaderSize \in Nat /\ 64 + l * 16 + 16 <= HeaderSize
           /\ EntryAt(l, EntryField[x]).at = 64 + l * 16 + rel
           /\ EntryAt(l, EntryField[x]).width = width
           /\ EntryAt(l, EntryField[x]) = Located(64 + l * 16 + rel, width)
           /\ \A p : p \in Span(EntryAt(l, EntryField[x])) <=>
                (p \in Nat /\ 64 + l * 16 + rel <= p /\ p < 64 + l * 16 + rel + width)
      BY EntryPlace
    <3>2. PICK at \in Nat : at = 64 + l * 16 + rel
      BY <3>1
    <3>3. at + width <= HeaderSize
      BY <3>1, <3>2
    <3> QED
      BY SMTT(30), <3>1, <3>2, <3>3
  <2>2. ASSUME NEW n \in 0..(width - 1) PROVE bytes[at + n] \in 0..(ByteBase - 1)
    <3>1. at + n \in 0..(HeaderSize - 1)
      BY <1>0, <2>1
    <3> QED
      BY <3>1
  <2>3. entry[l][x] = Field(bytes, Located(at, width))
    BY <2>1 DEF EntryValue
  <2>4. entry[l][x] < 2 ^ (ByteBits * width) /\ Bytewise(bytes, at, width, entry[l][x])
    BY <2>2, <2>3, ReadIsWritten
  <2>5. ASSUME NEW p \in Span(EntryAt(l, EntryField[x])) PROVE bytes[p] = W[p]
    <3>1. p - at \in 0..(width - 1) /\ at + (p - at) = p
      BY <2>1 DEF Span
    <3>2. bytes[p] = ByteOf(entry[l][x], p - at)
      BY <2>4, <3>1 DEF Bytewise
    <3> QED
      BY <2>1, <3>2, HeaderBytes
  <2> QED
    BY <2>1, <2>4, <2>5 DEF FitsField
<1>3. ASSUME NEW p \in 0..(HeaderSize - 1) PROVE bytes[p] = W[p]
  <2>1. CASE p < 64
    <3>0. p \in 0..63
      BY <1>0, <2>1
    <3>1. PICK x \in FixedNames : p \in Span(FixedField[x])
      BY <3>0, FixedCovers
    <3> QED
      BY <1>1, <3>1
  <2>2. CASE ~(p < 64)
    <3>0. p - 64 \in Nat /\ (p - 64) \div 16 \in Nat /\ (p - 64) % 16 \in 0..15
          /\ p = 64 + ((p - 64) \div 16) * 16 + ((p - 64) % 16)
      BY <1>0, <2>2
    <3>1. PICK k \in Nat, r \in 0..15 : p = 64 + k * 16 + r
      BY <3>0
    <3>2. k \in Levels
      BY <1>0, <3>1 DEF Levels
    <3>3. PICK l \in Levels : l = k
      BY <3>2
    <3>4. PICK x \in PartNames : EntryField[x].at <= r /\ r < EntryField[x].at + EntryField[x].width
      BY <3>1, PartCovers
    <3>5. PICK at \in Nat, width \in {1, 2, 4} :
           /\ EntryField[x].at = at /\ EntryField[x].width = width /\ at + width <= 16
           /\ l \in Nat /\ HeaderSize \in Nat /\ 64 + l * 16 + 16 <= HeaderSize
           /\ EntryAt(l, EntryField[x]).at = 64 + l * 16 + at
           /\ EntryAt(l, EntryField[x]).width = width
           /\ EntryAt(l, EntryField[x]) = Located(64 + l * 16 + at, width)
           /\ \A q : q \in Span(EntryAt(l, EntryField[x])) <=>
                (q \in Nat /\ 64 + l * 16 + at <= q /\ q < 64 + l * 16 + at + width)
      BY EntryPlace
    <3>6. p \in Span(EntryAt(l, EntryField[x]))
      <4>1. at <= r /\ r < at + width
        BY <3>4, <3>5
      <4>2. p = 64 + l * 16 + r /\ l \in Nat /\ p \in Nat
        BY <3>1, <3>3
      <4>3. 64 + l * 16 + at <= p /\ p < 64 + l * 16 + at + width
        BY <4>1, <4>2
      <4> QED
        BY <3>5, <4>2, <4>3
    <3> QED
      BY <1>2, <3>6
  <2> QED
    BY <2>1, <2>2
<1>4. W = [p \in 0..(HeaderSize - 1) |-> W[p]]
  BY HeaderBytes
<1>5. bytes = W
  <2> HIDE DEF W
  <2> QED
    BY <1>3, <1>4
<1> QED
  BY <1>1, <1>2, <1>5

-----------------------------------------------------------------------------
(* The walk *)

USE FormatAssumption, HeaderAssumption, LayoutAssumption

-----------------------------------------------------------------------------
(* Numbers *)

LEMMA DivisionNat ==
  ASSUME NEW a \in Nat, NEW d \in Nat \ {0}
  PROVE  a \div d \in Nat
OBVIOUS

LEMMA CeilDivNat ==
  ASSUME NEW a \in Nat, NEW d \in Nat \ {0}
  PROVE  CeilDiv(a, d) \in Nat
<1>1. a + d - 1 \in Nat
  OBVIOUS
<1> QED
  BY <1>1, DivisionNat DEF CeilDiv

LEMMA ProductNat ==
  ASSUME NEW a \in Nat, NEW b \in Nat
  PROVE  a * b \in Nat
OBVIOUS

\* One more digit in front of a number below limit.
LEMMA DigitBound ==
  ASSUME NEW base \in Nat \ {0}, NEW limit \in Nat \ {0},
         NEW digit \in 0..(base - 1), NEW rest \in 0..(limit - 1)
  PROVE  digit + base * rest \in 0..(base * limit - 1)
<1>1. base * rest \in Nat /\ base * (limit - 1 - rest) \in Nat
  BY ProductNat
<1>2. base * (limit - 1 - rest) = base * limit - base - base * rest
  OBVIOUS
<1>3. base * limit \in Nat
  BY ProductNat
<1> QED
  BY <1>1, <1>2, <1>3

\* What a field of a header holds fits a usize.
LEMMA FieldValue ==
  ASSUME NEW bytes, \A p \in 0..(HeaderSize - 1) : bytes[p] \in 0..(ByteBase - 1),
         NEW at \in Nat, NEW width \in {1, 2, 4}, at + width <= HeaderSize
  PROVE  Field(bytes, Located(at, width)) \in 0..MaxUsize
<1> DEFINE B == ByteBase
<1>1. B \in Nat \ {0} /\ HeaderSize \in Nat
  BY DEF HeaderSize, FixedHeaderSize, LevelEntrySize
<1>2. /\ bytes[at] \in 0..(B - 1)
      /\ width # 1 => bytes[at + 1] \in 0..(B - 1)
      /\ width = 4 => bytes[at + 2] \in 0..(B - 1) /\ bytes[at + 3] \in 0..(B - 1)
  BY <1>1
<1>3. /\ B * B \in Nat \ {0} /\ B <= B * B
      /\ B * (B * B) \in Nat \ {0} /\ B * B <= B * (B * B)
      /\ B * (B * (B * B)) \in Nat \ {0} /\ B * (B * B) <= B * (B * (B * B))
  <2>1. \A n \in Nat \ {0} : B * n \in Nat \ {0} /\ n <= B * n
    <3>1. TAKE n \in Nat \ {0}
    <3>2. (B - 1) * n \in Nat /\ B * n = (B - 1) * n + n
      BY <1>1
    <3> QED
      BY <3>2
  <2> QED
    BY <1>1, <2>1
<1>4. B * (B * (B * B)) - 1 <= MaxUsize
  BY DEF U32Values
<1>5. CASE width = 1
  BY <1>1, <1>2, <1>3, <1>4, <1>5 DEF Field, Located
<1>6. CASE width = 2
  <2>1. ReadU16(bytes, at) \in 0..(B * B - 1)
    BY <1>1, <1>2, <1>6, DigitBound DEF ReadU16
  <2>2. Field(bytes, Located(at, width)) = ReadU16(bytes, at)
    BY <1>6 DEF Field, Located
  <2> QED
    BY <1>1, <1>3, <1>4, <2>1, <2>2
<1>7. CASE width = 4
  <2>1. ReadU16(bytes, at + 1 + 1) \in 0..(B * B - 1)
    <3>1. at + 1 + 1 = at + 2 /\ at + 1 + 1 + 1 = at + 3
      OBVIOUS
    <3>2. bytes[at + 1 + 1] \in 0..(B - 1) /\ bytes[at + 1 + 1 + 1] \in 0..(B - 1)
      BY <1>2, <1>7, <3>1
    <3> QED
      BY <1>1, <3>2, DigitBound DEF ReadU16
  <2>2. ReadU24(bytes, at + 1) \in 0..(B * (B * B) - 1)
    <3>1. B * B \in Nat \ {0} /\ bytes[at + 1] \in 0..(B - 1)
      BY <1>2, <1>3, <1>7
    <3> QED
      BY <1>1, <2>1, <3>1, DigitBound DEF ReadU24
  <2>3. ReadU32(bytes, at) \in 0..(B * (B * (B * B)) - 1)
    <3>1. B * (B * B) \in Nat \ {0} /\ bytes[at] \in 0..(B - 1)
      BY <1>2, <1>3, <1>7
    <3> QED
      BY <1>1, <2>2, <3>1, DigitBound DEF ReadU32
  <2>4. Field(bytes, Located(at, width)) = ReadU32(bytes, at)
    BY <1>7 DEF Field, Located
  <2> QED
    BY <1>1, <1>3, <1>4, <2>3, <2>4
<1> QED
  BY <1>5, <1>6, <1>7

\* What the walk reads of a file that has a whole header.
HeaderNames == Sections \cup {"payload", "payloadBits", "fileSize"}
EntryNames == {"nodes", "start", "length", "lengthWidth", "childWidth"}

HeaderTyped ==
  /\ \A name \in HeaderNames : Header(name) \in 0..MaxUsize
  /\ \A l \in Levels : \A name \in EntryNames : Entry(l, name) \in Nat

LEMMA HeaderIsTyped ==
  ASSUME file \in Files, file.size >= HeaderSize
  PROVE  HeaderTyped
<1>1. \A p \in 0..(HeaderSize - 1) : file.header[p] \in 0..(ByteBase - 1)
  BY DEF FileType
<1>2. MaxUsize \in Nat /\ LevelCount \in Nat
  OBVIOUS
<1>3. ASSUME NEW name \in HeaderNames
      PROVE  Header(name) \in 0..MaxUsize
  <2>1. \E at \in 0..60 : FixedField[name] = Located(at, 4)
    BY DEF HeaderNames, Sections, FixedField, U16, U32
  <2>2. PICK at \in 0..60 : FixedField[name] = Located(at, 4)
    BY <2>1
  <2>3. at \in Nat /\ at + 4 <= HeaderSize
    BY <1>2 DEF HeaderSize, FixedHeaderSize, LevelEntrySize
  <2>4. Field(file.header, Located(at, 4)) \in 0..MaxUsize
    BY <1>1, <2>3, FieldValue
  <2> QED
    BY <2>2, <2>4 DEF Header, Fixed
<1>4. ASSUME NEW l \in Levels, NEW name \in EntryNames
      PROVE  Entry(l, name) \in Nat
  <2>1. \E at \in 0..14, width \in {1, 2, 4} :
          at + width <= 16 /\ EntryField[name] = Located(at, width)
    BY DEF EntryNames, EntryField, U32
  <2>2. PICK at \in 0..14, width \in {1, 2, 4} :
          at + width <= 16 /\ EntryField[name] = Located(at, width)
    BY <2>1
  <2> DEFINE from == FixedHeaderSize + l * LevelEntrySize + at
  <2>3. from \in Nat /\ from + width <= HeaderSize
    BY <1>2, <2>2 DEF HeaderSize, FixedHeaderSize, LevelEntrySize, Levels
  <2>4. EntryAt(l, EntryField[name]) = Located(from, width)
    BY <2>2 DEF EntryAt, Located
  <2>5. Field(file.header, Located(from, width)) \in 0..MaxUsize
    <3> HIDE DEF from
    <3> QED
      BY <1>1, <2>3, FieldValue
  <2> QED
    BY <1>2, <2>4, <2>5 DEF Entry, EntryValue
<1> QED
  BY <1>3, <1>4 DEF HeaderTyped

\* The sizes of the levels are numbers.
LEMMA BytesNat ==
  ASSUME HeaderTyped, NEW l \in Levels, NEW s \in Sections
  PROVE  /\ Bytes(l, s) \in Nat
         /\ RawMaskBytes(Nodes(l)) \in Nat
         /\ RawRankBytes(Nodes(l)) \in Nat
         /\ LevelModelSize \in Nat
<1>1. /\ Nodes(l) \in Nat
      /\ Entry(l, "lengthWidth") \in Nat /\ Entry(l, "childWidth") \in Nat
  BY DEF HeaderTyped, EntryNames, Nodes
<1>2. BlockCount(Nodes(l)) \in Nat
  BY <1>1, CeilDivNat DEF BlockCount
<1>3. GroupBytes(Nodes(l)) \in Nat
  BY <1>2, CeilDivNat DEF GroupBytes, GroupCount, U24
<1>4. RawMaskBytes(Nodes(l)) \in Nat
  BY <1>1, CeilDivNat DEF RawMaskBytes
<1>5. RawRankBytes(Nodes(l)) \in Nat
  BY <1>1, CeilDivNat DEF RawRankBytes, U24
<1>6. LevelModelSize \in Nat
  BY DEF LevelModelSize
<1>7. ASSUME NEW width \in Nat
      PROVE  PackedByteCount(BlockCount(Nodes(l)), width) \in Nat
  <2>1. PackedBits(BlockCount(Nodes(l)), width) \in Nat
    BY <1>2, ProductNat DEF PackedBits
  <2> QED
    BY <2>1, CeilDivNat DEF PackedByteCount
<1>8. /\ PackedByteCount(BlockCount(Nodes(l)), Entry(l, "lengthWidth")) \in Nat
      /\ PackedByteCount(BlockCount(Nodes(l)), Entry(l, "childWidth")) \in Nat
  BY <1>1, <1>7
<1> QED
  BY <1>3, <1>4, <1>5, <1>6, <1>8 DEF Bytes, Sections

-----------------------------------------------------------------------------
(* Where the levels passed so far end *)

LEMMA LastExists ==
  ASSUME NEW n \in Nat, NEW S, S \subseteq 0..n, S # {}
  PROVE  Max(S) \in S
<1> DEFINE T == {n - k : k \in S}
<1>1. T \subseteq Nat /\ T # {}
  <2>1. \A k \in S : n - k \in Nat
    OBVIOUS
  <2> QED
    BY <2>1
<1>2. PICK x \in T : \A y \in T : x <= y
  <2> HIDE DEF T
  <2> QED
    BY <1>1, LeastNatural
<1>3. PICK k \in S : x = n - k
  BY <1>2
<1>4. ASSUME NEW j \in S PROVE k >= j
  <2>1. n - j \in T
    OBVIOUS
  <2> HIDE DEF T
  <2>2. n - k <= n - j
    BY <1>2, <1>3, <2>1
  <2> QED
    BY <2>2
<1> QED
  BY <1>3, <1>4 DEF Max

LEMMA LastIs ==
  ASSUME NEW n \in Nat, NEW S, S \subseteq 0..n, n \in S
  PROVE  Max(S) = n
<1>1. Max(S) \in S /\ \A j \in S : Max(S) >= j
  <2>1. \E x \in S : \A j \in S : x >= j
    OBVIOUS
  <2> QED
    BY <2>1 DEF Max
<1>2. Max(S) \in 0..n /\ Max(S) >= n
  BY <1>1
<1> QED
  BY <1>2

LEMMA BytesOutside ==
  ASSUME NEW l \in Levels, NEW s \in Sections, s \notin SectionsOf(l)
  PROVE  Bytes(l, s) = 0
<1>1. l \in RawLevels \/ l \in HuffmanLevels
  BY DEF Levels, RawLevels, HuffmanLevels
<1>2. ~(l \in RawLevels /\ l \in HuffmanLevels)
  BY DEF RawLevels, HuffmanLevels
<1> QED
  BY <1>1, <1>2 DEF SectionsOf, Bytes, Sections

\* Nothing but the place of a level changes when the level is placed.
LEMMA PlacingKeeps ==
  ASSUME place \in [Levels -> [Sections -> 0..MaxUsize]], file' = file,
         NEW n \in Levels, NEW q, place' = [place EXCEPT ![n] = q],
         NEW s \in Sections, NEW l \in 0..n
  PROVE  EndBefore(l, s)' = EndBefore(l, s)
<1>1. Holders(l, s)' = Holders(l, s)
  BY DEF Holders, SectionsOf, HasChildRanks, Entry
<1>2. Header(s)' = Header(s)
  BY DEF Header
<1>3. CASE Holders(l, s) = {}
  BY <1>1, <1>2, <1>3 DEF EndBefore
<1>4. CASE Holders(l, s) # {}
  <2>1. n \in Nat /\ Levels \subseteq Nat
    BY DEF Levels
  <2>2. l - 1 \in Nat /\ Holders(l, s) \subseteq 0..(l - 1)
    BY <1>4, <2>1 DEF Holders
  <2>3. PICK last \in 0..(l - 1) : last = Max(Holders(l, s))
    BY <1>4, <2>2, LastExists
  <2>4. last # n /\ place'[last] = place[last]
    BY <2>1, <2>3 DEF Levels
  <2>5. Bytes(last, s)' = Bytes(last, s)
    BY DEF Bytes, Nodes, HasChildRanks, Entry
  <2>6. EndBefore(l, s)' = place'[last][s] + Bytes(last, s)'
    <3>1. Max(Holders(l, s)') = last
      BY <1>1, <2>3
    <3> QED
      BY <1>1, <1>4, <3>1 DEF EndBefore
  <2>7. EndBefore(l, s) = place[last][s] + Bytes(last, s)
    BY <1>4, <2>3 DEF EndBefore
  <2> QED
    BY <2>4, <2>5, <2>6, <2>7
<1> QED
  BY <1>3, <1>4

LEMMA PlacingAdds ==
  ASSUME place \in [Levels -> [Sections -> 0..MaxUsize]], file' = file,
         NEW n \in Levels, NEW q, place' = [place EXCEPT ![n] = q],
         NEW s \in Sections
  PROVE  EndBefore(n + 1, s)' =
           IF s \in SectionsOf(n) THEN q[s] + Bytes(n, s) ELSE EndBefore(n, s)
<1>1. /\ Holders(n + 1, s)' = Holders(n + 1, s)
      /\ Bytes(n, s)' = Bytes(n, s)
  BY DEF Holders, SectionsOf, HasChildRanks, Entry, Bytes, Nodes
<1>2. n \in Nat /\ n + 1 - 1 = n
  BY DEF Levels
<1>3. CASE s \in SectionsOf(n)
  <2>1. n \in Holders(n + 1, s) /\ Holders(n + 1, s) \subseteq 0..n
    BY <1>2, <1>3 DEF Holders
  <2>2. Max(Holders(n + 1, s)) = n
    BY <1>2, <2>1, LastIs
  <2>3. Max(Holders(n + 1, s)') = n
    BY <1>1, <2>2
  <2>4. Holders(n + 1, s)' # {}
    BY <1>1, <2>1
  <2>5. EndBefore(n + 1, s)' = place'[n][s] + Bytes(n, s)'
    BY <2>3, <2>4 DEF EndBefore
  <2> QED
    BY <1>1, <1>3, <2>5
<1>4. CASE s \notin SectionsOf(n)
  <2>1. Holders(n + 1, s) = Holders(n, s)
    <3>1. /\ \A k \in 0..n : k \in 0..(n - 1) \/ k = n
          /\ \A k \in 0..(n - 1) : k \in 0..n
      BY <1>2
    <3>2. Holders(n + 1, s) = {k \in 0..n : s \in SectionsOf(k)}
      BY <1>2 DEF Holders
    <3>3. \A k : k \in Holders(n + 1, s) <=> k \in Holders(n, s)
      BY <1>4, <3>1, <3>2 DEF Holders
    <3> QED
      BY <3>2, <3>3 DEF Holders
  <2>2. EndBefore(n + 1, s)' = EndBefore(n, s)'
    <3>1. Holders(n + 1, s)' = Holders(n, s)'
      BY <1>1, <2>1 DEF Holders, SectionsOf, HasChildRanks, Entry
    <3> QED
      BY <3>1 DEF EndBefore
  <2>3. EndBefore(n, s)' = EndBefore(n, s)
    <3>1. n \in 0..n
      BY <1>2
    <3> QED
      BY <3>1, PlacingKeeps
  <2> QED
    BY <1>4, <2>2, <2>3
<1> QED
  BY <1>3, <1>4

-----------------------------------------------------------------------------
(* The invariant *)

MinOf(l, bound) == IF l <= bound THEN l ELSE bound

\* Where the masks of raw level l have to start, or of all when l is past them.
MasksBefore(l) ==
  IF l = 0 THEN 0 ELSE Entry(l - 1, "start") + RawMaskBytes(Nodes(l - 1))

ModelsBefore(l) == (l - MinOf(l, RawLevelCount)) * LevelModelSize

RankSizes == [l \in RawLevels |-> RawRankBytes(Nodes(l))]

Fresh == pc = "open" => level = 0 /\ masksEnd = 0

HeaderKept ==
  pc \in {"directory", "levels", "located"} =>
    file.size >= HeaderSize /\ Header("fileSize") = file.size

\* The walk of the directory.
Chained ==
  pc \in {"directory", "levels", "located"} =>
    /\ \A l \in RawLevels :
         l < level \/ pc # "directory" => Entry(l, "start") = MasksBefore(l)
    /\ masksEnd = MasksBefore(IF pc = "directory" THEN MinOf(level, RawLevelCount)
                                                ELSE RawLevelCount)

\* The walk of the levels.
Reached ==
  pc \in {"levels", "located"} =>
    /\ FirstSectionsOk
    /\ \A s \in Cursors : EndBefore(level, s) = cursor[s]
    /\ EndBefore(level, "rawMasks") =
         Header("rawMasks") + MasksBefore(MinOf(level, RawLevelCount))
    /\ EndBefore(level, "models") = Header("models") + ModelsBefore(level)
    /\ cursor["rawRanks"] =
         Header("rawRanks") + PrefixSum(RankSizes, MinOf(level, RawLevelCount))

Placed ==
  pc \in {"levels", "located"} =>
    \A l \in Levels : \A s \in Sections :
      l < level /\ s \in SectionsOf(l) => place[l][s] = EndBefore(l, s)

Arrived == pc = "located" => level = LevelCount /\ LastSectionsOk

IInv == TypeOK /\ Fresh /\ HeaderKept /\ Chained /\ Reached /\ Placed /\ Arrived

LEMMA FileKept ==
  ASSUME file' = file
  PROVE  /\ \A name : Header(name)' = Header(name)
         /\ \A l, name : Entry(l, name)' = Entry(l, name)
         /\ \A l : MasksBefore(l)' = MasksBefore(l)
         /\ \A l : SectionsOf(l)' = SectionsOf(l)
         /\ RankSizes' = RankSizes
         /\ FirstSectionsOk /\ masksEnd' = masksEnd => FirstSectionsOk'
<1>1. \A name : Header(name)' = Header(name)
  BY DEF Header
<1>2. \A l, name : Entry(l, name)' = Entry(l, name)
  BY DEF Entry
<1>3. \A l : MasksBefore(l)' = MasksBefore(l)
  BY DEF MasksBefore, Nodes, Entry
<1>4. \A l : SectionsOf(l)' = SectionsOf(l)
  BY DEF SectionsOf, HasChildRanks, Entry
<1>5. RankSizes' = RankSizes
  BY DEF RankSizes, Nodes, Entry
<1>6. RawRankSize' = RawRankSize
  BY DEF RawRankSize, Nodes, Entry
<1>7. FirstSectionsOk /\ masksEnd' = masksEnd => FirstSectionsOk'
  BY <1>6 DEF FirstSectionsOk, Header
<1> QED
  BY <1>1, <1>2, <1>3, <1>4, <1>5, <1>7

LEMMA InitInv == Init => IInv
<1> SUFFICES ASSUME Init PROVE IInv
  OBVIOUS
<1>1. TypeOK
  <2>1. NoOffset \in 0..MaxUsize
    BY DEF NoOffset
  <2> QED
    BY <2>1 DEF Init, TypeOK
<1> QED
  BY <1>1 DEF Init, IInv, Fresh, HeaderKept, Chained, Reached, Placed, Arrived

LEMMA OpenKeeps ==
  ASSUME IInv, Open
  PROVE  IInv'
<1> USE DEF IInv
<1>1. /\ file' = file /\ level' = 0 /\ masksEnd' = 0
      /\ pc' = "directory" \/ pc' = "rejected"
  BY DEF Open, Proceed, Fresh
<1>2. TypeOK' /\ Fresh' /\ Reached' /\ Placed' /\ Arrived'
  BY <1>1 DEF Open, TypeOK, Fresh, Reached, Placed, Arrived
<1>3. HeaderKept'
  BY <1>1, FileKept DEF Open, Proceed, HeaderKept
<1>4. Chained'
  <2>1. pc' # "levels" /\ pc' # "located"
    BY <1>1
  <2>2. MinOf(0, RawLevelCount) = 0 /\ MasksBefore(0)' = 0
    BY DEF MinOf, MasksBefore
  <2>3. \A l \in RawLevels : ~(l < 0)
    BY DEF RawLevels
  <2> QED
    BY <1>1, <2>1, <2>2, <2>3 DEF Chained
<1> QED
  BY <1>2, <1>3, <1>4

LEMMA CheckEntryKeeps ==
  ASSUME IInv, CheckEntry
  PROVE  IInv'
<1> USE DEF IInv
<1>1. /\ file' = file /\ level \in Levels /\ level' = level + 1
      /\ pc = "directory" /\ pc' \in {"directory", "rejected"}
      /\ UNCHANGED <<cursor, place>>
  BY DEF CheckEntry, Proceed, TypeOK, Levels
<1>2. HeaderTyped
  BY <1>1, HeaderIsTyped DEF TypeOK, HeaderKept
<1>3. TypeOK'
  <2>1. Entry(level, "length") \in Nat
    BY <1>1, <1>2 DEF HeaderTyped, EntryNames
  <2>2. level + 1 \in 0..LevelCount
    BY <1>1 DEF Levels
  <2> QED
    BY <1>1, <2>1, <2>2 DEF CheckEntry, TypeOK
<1>4. Fresh' /\ Reached' /\ Placed' /\ Arrived'
  BY <1>1 DEF Fresh, Reached, Placed, Arrived
<1>5. HeaderKept'
  BY <1>1, FileKept DEF HeaderKept
<1>6. Chained'
  <2>1. SUFFICES ASSUME pc' = "directory" PROVE Chained'
    BY <1>1 DEF Chained
  <2>2. EntryOk(level)
    BY <2>1 DEF CheckEntry, Proceed
  <2>3. /\ masksEnd = MasksBefore(MinOf(level, RawLevelCount))
        /\ \A l \in RawLevels : l < level => Entry(l, "start") = MasksBefore(l)
    BY <1>1 DEF Chained
  <2>4. level \in Nat /\ RawLevelCount \in Nat
    BY <1>1 DEF Levels
  <2>5. CASE level \in RawLevels
    <3>1. MinOf(level, RawLevelCount) = level /\ MinOf(level + 1, RawLevelCount) = level + 1
      BY <2>4, <2>5 DEF MinOf, RawLevels
    <3>2. /\ Entry(level, "start") = MasksBefore(level)
          /\ Entry(level, "length") = RawMaskBytes(Nodes(level))
      BY <2>2, <2>3, <2>5, <3>1 DEF EntryOk, RawEntryOk
    <3>3. masksEnd' = MasksBefore(level + 1)
      <4>1. masksEnd' = masksEnd + Entry(level, "length")
        BY <2>5 DEF CheckEntry
      <4>2. MasksBefore(level + 1) = Entry(level, "start") + RawMaskBytes(Nodes(level))
        BY <2>4 DEF MasksBefore
      <4> QED
        BY <2>3, <3>1, <3>2, <4>1, <4>2
    <3>4. \A l \in RawLevels : l < level + 1 => l < level \/ l = level
      BY <2>4 DEF RawLevels
    <3> QED
      BY <1>1, <2>1, <2>3, <3>1, <3>2, <3>3, <3>4, FileKept DEF Chained
  <2>6. CASE level \notin RawLevels
    <3>1. /\ MinOf(level, RawLevelCount) = RawLevelCount
          /\ MinOf(level + 1, RawLevelCount) = RawLevelCount
      BY <2>4, <2>6 DEF MinOf, RawLevels
    <3>2. \A l \in RawLevels : l < level
      BY <2>4, <2>6 DEF RawLevels
    <3>3. masksEnd' = masksEnd
      BY <2>6 DEF CheckEntry
    <3> QED
      BY <1>1, <2>1, <2>3, <3>1, <3>2, <3>3, FileKept DEF Chained
  <2> QED
    BY <2>5, <2>6
<1> QED
  BY <1>3, <1>4, <1>5, <1>6

LEMMA CheckFirstSectionsKeeps ==
  ASSUME IInv, CheckFirstSections
  PROVE  IInv'
<1> USE DEF IInv
<1>1. /\ file' = file /\ level = LevelCount /\ level' = 0
      /\ pc = "directory" /\ pc' \in {"levels", "rejected"}
      /\ UNCHANGED <<masksEnd, bitsEnd, place>>
      /\ cursor' = [s \in Cursors |-> Header(s)]
  BY DEF CheckFirstSections, Proceed
<1>2. HeaderTyped
  BY <1>1, HeaderIsTyped DEF TypeOK, HeaderKept
<1>3. TypeOK'
  <2>1. \A s \in Cursors : Header(s) \in 0..MaxUsize
    BY <1>2 DEF HeaderTyped, HeaderNames, Cursors, Sections
  <2> QED
    BY <1>1, <2>1 DEF TypeOK
<1>4. Fresh' /\ Arrived'
  BY <1>1 DEF Fresh, Arrived
<1>5. HeaderKept'
  BY <1>1, FileKept DEF HeaderKept
<1>6. Chained'
  <2>1. MinOf(LevelCount, RawLevelCount) = RawLevelCount
    BY DEF MinOf
  <2>2. \A l \in RawLevels : l < LevelCount
    BY DEF RawLevels
  <2> QED
    BY <1>1, <2>1, <2>2, FileKept DEF Chained
<1>7. Placed'
  <2>1. \A l \in Levels : ~(l < 0)
    BY DEF Levels
  <2> QED
    BY <1>1, <2>1 DEF Placed
<1>8. Reached'
  <2>1. SUFFICES ASSUME pc' = "levels" PROVE Reached'
    BY <1>1 DEF Reached
  <2>2. FirstSectionsOk'
    BY <1>1, <2>1, FileKept DEF CheckFirstSections, Proceed
  <2>3. \A s : EndBefore(0, s)' = Header(s)
    <3>1. \A s : Holders(0, s)' = {}
      BY DEF Holders
    <3> QED
      BY <1>1, <3>1, FileKept DEF EndBefore
  <2>4. /\ MinOf(0, RawLevelCount) = 0 /\ MasksBefore(0)' = 0
        /\ PrefixSum(RankSizes, 0) = 0
    BY PrefixSumZero DEF MinOf, MasksBefore
  <2>5. ModelsBefore(0) = 0
    BY <2>4 DEF ModelsBefore, LevelModelSize
  <2>6. /\ Header("rawMasks") \in Nat /\ Header("models") \in Nat
        /\ Header("rawRanks") \in Nat
    BY <1>2 DEF HeaderTyped, HeaderNames, Sections
  <2>7. "rawRanks" \in Cursors
    BY DEF Cursors
  <2> HIDE DEF IInv
  <2> QED
    BY <1>1, <2>1, <2>2, <2>3, <2>4, <2>5, <2>6, <2>7, FileKept DEF Reached
<1> QED
  BY <1>3, <1>4, <1>5, <1>6, <1>7, <1>8

\* Where a level is placed: at the end of the levels before it.
LEMMA PlaceIsEnd ==
  ASSUME IInv, pc = "levels", level \in Levels, NEW s \in Sections, s \in SectionsOf(level)
  PROVE  PlaceOf(level, s) = EndBefore(level, s)
<1> USE DEF IInv
<1>1. CASE s = "rawMasks"
  <2>1. level \in RawLevels
    BY <1>1 DEF SectionsOf
  <2>2. MinOf(level, RawLevelCount) = level
    BY <2>1 DEF MinOf, RawLevels
  <2>3. Entry(level, "start") = MasksBefore(level)
    BY <2>1 DEF Chained
  <2> QED
    BY <1>1, <2>2, <2>3 DEF PlaceOf, Reached
<1>2. CASE s = "models"
  <2>1. level \notin RawLevels
    BY <1>2 DEF SectionsOf
  <2>2. MinOf(level, RawLevelCount) = RawLevelCount
    BY <2>1 DEF MinOf, RawLevels, Levels
  <2> QED
    BY <1>2, <2>2 DEF PlaceOf, Reached, ModelsBefore
<1>3. CASE s \in Cursors
  BY <1>3 DEF PlaceOf, Reached, Cursors
<1> QED
  BY <1>1, <1>2, <1>3 DEF Sections, Cursors

LEMMA PlaceTyped ==
  ASSUME IInv, pc = "levels", level \in Levels, PlaceFits(level), NEW s \in Sections
  PROVE  PlaceOf(level, s) \in 0..MaxUsize
<1> USE DEF IInv
<1>1. HeaderTyped
  BY HeaderIsTyped DEF TypeOK, HeaderKept
<1>2. level \in Nat /\ LevelModelSize \in Nat /\ LevelCount \in Nat /\ RawLevelCount \in Nat
  BY BytesNat, <1>1 DEF Levels
<1>3. CASE s \notin SectionsOf(level)
  BY <1>3 DEF PlaceOf, NoOffset
<1>4. CASE s \in SectionsOf(level) /\ s = "rawMasks"
  <2>1. Header("rawMasks") \in Nat /\ Entry(level, "start") \in Nat
    BY <1>1 DEF HeaderTyped, HeaderNames, EntryNames, Sections
  <2>2. level \in RawLevels
    BY <1>4 DEF SectionsOf
  <2> QED
    BY <1>4, <2>1, <2>2 DEF PlaceOf, PlaceFits, Fits
<1>5. CASE s \in SectionsOf(level) /\ s = "models"
  <2> DEFINE passed == level - RawLevelCount
             left == LevelCount - level
  <2>1. passed \in Nat /\ left \in Nat
    BY <1>2, <1>5 DEF SectionsOf, RawLevels, Levels
  <2>2. passed * LevelModelSize \in Nat /\ left * LevelModelSize \in Nat
    BY <1>2, <2>1, ProductNat
  <2>3. ModelSize = passed * LevelModelSize + left * LevelModelSize
    <3>1. LevelCount - RawLevelCount = passed + left
      BY <1>2
    <3> HIDE DEF passed, left
    <3> QED
      BY <1>2, <2>1, <3>1 DEF ModelSize
  <2>4. Header("models") \in Nat /\ Header("models") + ModelSize <= MaxUsize
    BY <1>1 DEF HeaderTyped, HeaderNames, Sections, Reached, FirstSectionsOk, Fits
  <2>5. PlaceOf(level, s) = Header("models") + passed * LevelModelSize
    BY <1>5 DEF PlaceOf
  <2> HIDE DEF passed, left
  <2> QED
    BY <2>2, <2>3, <2>4, <2>5
<1>6. CASE s \in SectionsOf(level) /\ s \in Cursors
  BY <1>6 DEF PlaceOf, TypeOK, Cursors
<1> QED
  BY <1>3, <1>4, <1>5, <1>6 DEF Sections, Cursors

\* Where the levels end after one more of them.
LEMMA NextEnd ==
  ASSUME IInv, PlaceLevel, pc' = "levels", NEW s \in Sections,
         NEW next, next = level + 1
  PROVE  /\ EndBefore(next, s)' = EndBefore(level, s) + Bytes(level, s)
         /\ \A l \in 0..level : EndBefore(l, s)' = EndBefore(l, s)
<1> USE DEF IInv
<1> DEFINE q == [x \in Sections |-> PlaceOf(level, x)]
<1>1. /\ file' = file /\ level \in Levels /\ pc = "levels" /\ PlaceFits(level)
      /\ place' = [place EXCEPT ![level] = q]
      /\ place \in [Levels -> [Sections -> 0..MaxUsize]]
  BY DEF PlaceLevel, Proceed, TypeOK, Levels
<1>2. q[s] = PlaceOf(level, s)
  OBVIOUS
<1>3. s \in SectionsOf(level) => PlaceOf(level, s) = EndBefore(level, s)
  BY <1>1, PlaceIsEnd
<1>4. s \notin SectionsOf(level) => Bytes(level, s) = 0
  BY <1>1, BytesOutside
<1>5. EndBefore(level, s) \in Nat
  <2>1. HeaderTyped
    BY <1>1, HeaderIsTyped DEF TypeOK, HeaderKept
  <2>2. Header(s) \in Nat
    BY <2>1 DEF HeaderTyped, HeaderNames
  <2>3. \A l \in Levels : Bytes(l, s) \in Nat
    BY <2>1, BytesNat
  <2>4. CASE Holders(level, s) = {}
    BY <2>2, <2>4 DEF EndBefore
  <2>5. CASE Holders(level, s) # {}
    <3>1. level - 1 \in Nat /\ Holders(level, s) \subseteq 0..(level - 1)
      BY <1>1, <2>5 DEF Holders, Levels
    <3>2. PICK last \in 0..(level - 1) : last = Max(Holders(level, s))
      BY <2>5, <3>1, LastExists
    <3>3. last \in Levels
      BY <1>1, <3>2 DEF Levels
    <3>4. place[last][s] \in Nat
      BY <1>1, <3>3
    <3>5. EndBefore(level, s) = place[last][s] + Bytes(last, s)
      BY <2>5, <3>2 DEF EndBefore
    <3> QED
      BY <2>3, <3>3, <3>4, <3>5
  <2> QED
    BY <2>4, <2>5
<1> HIDE DEF q, IInv
<1>6. \A l \in 0..level : EndBefore(l, s)' = EndBefore(l, s)
  BY <1>1, PlacingKeeps
<1>7. EndBefore(next, s)' =
        IF s \in SectionsOf(level) THEN q[s] + Bytes(level, s) ELSE EndBefore(level, s)
  <2>1. PICK n \in Levels : n = level
    BY <1>1
  <2>2. place' = [place EXCEPT ![n] = q] /\ next = n + 1
    BY <1>1, <2>1
  <2>3. EndBefore(n + 1, s)' =
          IF s \in SectionsOf(n) THEN q[s] + Bytes(n, s) ELSE EndBefore(n, s)
    BY <1>1, <2>2, PlacingAdds
  <2> QED
    BY <2>1, <2>2, <2>3
<1> QED
  BY <1>2, <1>3, <1>4, <1>5, <1>6, <1>7

LEMMA PlaceLevelKeeps ==
  ASSUME IInv, PlaceLevel
  PROVE  IInv'
<1> USE DEF IInv
<1>1. /\ file' = file /\ level \in Levels /\ level' = level + 1
      /\ pc = "levels" /\ pc' \in {"levels", "rejected"}
      /\ UNCHANGED <<masksEnd, bitsEnd>>
      /\ pc' = "levels" <=> PlaceFits(level)
  BY DEF PlaceLevel, Proceed, TypeOK, Levels
<1>2. HeaderTyped
  BY <1>1, HeaderIsTyped DEF TypeOK, HeaderKept
<1>3. level \in Nat /\ RawLevelCount \in Nat /\ level + 1 \in 0..LevelCount
  BY <1>1 DEF Levels
<1>4. TypeOK'
  <2>1. CASE PlaceFits(level)
    <3>1. \A s \in Sections : PlaceOf(level, s) \in 0..MaxUsize
      BY <1>1, <2>1, PlaceTyped
    <3>2. \A s \in Cursors : cursor[s] + Bytes(level, s) \in 0..MaxUsize
      <4>1. TAKE s \in Cursors
      <4>2. s \in Sections /\ cursor[s] \in 0..MaxUsize
        BY DEF TypeOK, Cursors, Sections
      <4>3. Bytes(level, s) \in Nat
        BY <1>1, <1>2, <4>2, BytesNat
      <4>4. CASE s \in SectionsOf(level)
        BY <2>1, <4>2, <4>3, <4>4 DEF PlaceFits, Fits
      <4>5. CASE s \notin SectionsOf(level)
        <5>1. Bytes(level, s) = 0
          BY <1>1, <4>2, <4>5, BytesOutside
        <5> QED
          BY <4>2, <5>1
      <4> QED
        BY <4>4, <4>5
    <3>3. /\ place' = [place EXCEPT ![level] = [s \in Sections |-> PlaceOf(level, s)]]
          /\ cursor' = [s \in Cursors |-> cursor[s] + Bytes(level, s)]
      BY <2>1 DEF PlaceLevel
    <3>4. place' \in [Levels -> [Sections -> 0..MaxUsize]]
      <4>1. [s \in Sections |-> PlaceOf(level, s)] \in [Sections -> 0..MaxUsize]
        BY <3>1
      <4> QED
        BY <1>1, <3>3, <4>1 DEF TypeOK
    <3>5. cursor' \in [Cursors -> 0..MaxUsize]
      BY <3>2, <3>3
    <3> QED
      BY <1>1, <1>3, <3>4, <3>5 DEF TypeOK
  <2>2. CASE ~PlaceFits(level)
    BY <1>1, <1>3, <2>2 DEF TypeOK, PlaceLevel
  <2> QED
    BY <2>1, <2>2
<1>5. Fresh' /\ Arrived' /\ HeaderKept'
  BY <1>1, FileKept DEF Fresh, Arrived, HeaderKept
<1>6. Chained'
  BY <1>1, FileKept DEF Chained
<1>7. Placed'
  <2>1. SUFFICES ASSUME pc' = "levels", NEW l \in Levels, NEW s \in Sections,
                        l < level + 1, s \in SectionsOf(l)
                 PROVE  place'[l][s] = EndBefore(l, s)'
    BY <1>1, FileKept DEF Placed
  <2>2. l \in 0..level
    BY <1>3, <2>1 DEF Levels
  <2>3. EndBefore(l, s)' = EndBefore(l, s)
    BY <2>1, <2>2, NextEnd
  <2>4. place' = [place EXCEPT ![level] = [x \in Sections |-> PlaceOf(level, x)]]
    BY <1>1, <2>1 DEF PlaceLevel
  <2>5. CASE l = level
    <3>1. place'[l][s] = PlaceOf(level, s)
      BY <1>1, <2>4, <2>5 DEF TypeOK
    <3> QED
      BY <1>1, <2>1, <2>3, <2>5, <3>1, PlaceIsEnd
  <2>6. CASE l # level
    <3>1. place'[l][s] = place[l][s] /\ l < level
      BY <1>1, <1>3, <2>2, <2>4, <2>6 DEF TypeOK, Levels
    <3> QED
      BY <1>1, <2>1, <2>3, <3>1 DEF Placed
  <2> QED
    BY <2>5, <2>6
<1>8. Reached'
  <2>1. SUFFICES ASSUME pc' = "levels" PROVE Reached'
    BY <1>1 DEF Reached
  <2>0. PICK next \in 0..LevelCount : next = level + 1
    BY <1>3
  <2>2. cursor' = [s \in Cursors |-> cursor[s] + Bytes(level, s)]
    BY <1>1, <2>1 DEF PlaceLevel
  <2>3. \A s \in Sections : EndBefore(next, s)' = EndBefore(level, s) + Bytes(level, s)
    BY <2>0, <2>1, NextEnd
  <2>4. FirstSectionsOk'
    BY <1>1, FileKept DEF Reached
  <2>5. \A s \in Cursors : EndBefore(next, s)' = cursor'[s]
    BY <1>1, <2>2, <2>3 DEF Reached, Cursors, Sections
  <2>6. /\ EndBefore(level, "rawMasks") =
              Header("rawMasks") + MasksBefore(MinOf(level, RawLevelCount))
        /\ EndBefore(level, "models") =
              Header("models") + (level - MinOf(level, RawLevelCount)) * LevelModelSize
        /\ cursor["rawRanks"] =
              Header("rawRanks") + PrefixSum(RankSizes, MinOf(level, RawLevelCount))
    BY <1>1 DEF Reached, ModelsBefore
  <2>7. /\ Header("rawMasks") \in Nat /\ Header("models") \in Nat
        /\ Header("rawRanks") \in Nat
    BY <1>2 DEF HeaderTyped, HeaderNames, Sections
  <2>8. /\ LevelModelSize \in Nat
        /\ RawMaskBytes(Nodes(level)) \in Nat /\ RawRankBytes(Nodes(level)) \in Nat
    BY <1>1, <1>2, BytesNat DEF Sections
  <2>9. CASE level \in RawLevels
    <3>1. MinOf(level, RawLevelCount) = level /\ MinOf(level + 1, RawLevelCount) = level + 1
      BY <1>3, <2>9 DEF MinOf, RawLevels
    <3>2. /\ Bytes(level, "rawMasks") = RawMaskBytes(Nodes(level))
          /\ Bytes(level, "rawRanks") = RawRankBytes(Nodes(level))
          /\ Bytes(level, "models") = 0
      BY <2>9 DEF Bytes, RawLevels, HuffmanLevels
    <3>3. EndBefore(next, "rawMasks")' = Header("rawMasks") + MasksBefore(level + 1)
      <4>1. MasksBefore(level + 1) = MasksBefore(level) + RawMaskBytes(Nodes(level))
        <5>1. Entry(level, "start") = MasksBefore(level)
          BY <1>1, <2>9 DEF Chained
        <5> QED
          BY <1>3, <5>1 DEF MasksBefore
      <4>2. MasksBefore(level) \in Nat
        <5>1. Entry(level, "start") = MasksBefore(level)
          BY <1>1, <2>9 DEF Chained
        <5> QED
          BY <1>1, <1>2, <5>1 DEF HeaderTyped, EntryNames
      <4> QED
        BY <2>3, <2>6, <2>7, <2>8, <3>1, <3>2, <4>1, <4>2 DEF Sections
    <3>4. EndBefore(next, "models")' = Header("models") + (level + 1 - (level + 1)) * LevelModelSize
      <4>1. (level - level) * LevelModelSize = 0 /\ (level + 1 - (level + 1)) * LevelModelSize = 0
        BY <1>3, <2>8
      <4> QED
        BY <2>3, <2>6, <2>7, <3>1, <3>2, <4>1 DEF Sections
    <3>5. cursor'["rawRanks"] = Header("rawRanks") + PrefixSum(RankSizes, level + 1)
      <4>1. PrefixSum(RankSizes, level + 1) = PrefixSum(RankSizes, level) + RawRankBytes(Nodes(level))
        BY <1>3, <2>9, PrefixSumNext DEF RankSizes
      <4>2. PrefixSum(RankSizes, level) \in Nat
        <5>1. \A k \in 0..(RawLevelCount - 1) : RankSizes[k] \in Nat
          BY <1>2, BytesNat DEF RankSizes, RawLevels, Levels, Sections
        <5>2. level \in 0..RawLevelCount
          BY <1>3, <2>9 DEF RawLevels
        <5> QED
          BY <1>3, <5>1, <5>2, PrefixSumNat
      <4> QED
        BY <2>2, <2>6, <2>7, <2>8, <3>1, <3>2, <4>1, <4>2 DEF Cursors
    <3>6. /\ \A s \in Cursors : EndBefore(level, s)' = cursor'[s]
          /\ EndBefore(level, "rawMasks")' = EndBefore(next, "rawMasks")'
          /\ EndBefore(level, "models")' = EndBefore(next, "models")'
      BY <1>1, <2>0, <2>5
    <3>7. level' = next /\ MinOf(level, RawLevelCount)' = level + 1
      BY <1>1, <2>0, <3>1 DEF MinOf
    <3>8. /\ MasksBefore(MinOf(level, RawLevelCount))' = MasksBefore(level + 1)
          /\ PrefixSum(RankSizes, MinOf(level, RawLevelCount))' = PrefixSum(RankSizes, level + 1)
      BY <1>1, <2>0, <3>7, FileKept
    <3>9. (Header("rawMasks") + MasksBefore(MinOf(level, RawLevelCount)))' =
                 Header("rawMasks") + MasksBefore(level + 1)
      BY <1>1, <3>8, FileKept
    <3>10. (Header("models") + ModelsBefore(level))' =
              Header("models") + (level + 1 - (level + 1)) * LevelModelSize
      <4>1. ModelsBefore(next) = (level + 1 - (level + 1)) * LevelModelSize
        <5>1. next - MinOf(next, RawLevelCount) = level + 1 - (level + 1)
          BY <1>3, <2>0, <3>1 DEF MinOf
        <5> QED
          BY <5>1 DEF ModelsBefore
      <4> QED
        BY <1>1, <3>7, <4>1, FileKept
    <3>11. (Header("rawRanks") + PrefixSum(RankSizes, MinOf(level, RawLevelCount)))' =
              Header("rawRanks") + PrefixSum(RankSizes, level + 1)
      BY <1>1, <3>8, FileKept
    <3> HIDE DEF IInv
    <3> QED
      BY <2>4, <3>3, <3>4, <3>5, <3>6, <3>9, <3>10, <3>11 DEF Reached
  <2>10. CASE level \notin RawLevels
    <3>1. /\ MinOf(level, RawLevelCount) = RawLevelCount
          /\ MinOf(level + 1, RawLevelCount) = RawLevelCount
          /\ level \in HuffmanLevels /\ level - RawLevelCount \in Nat
      BY <1>1, <1>3, <2>10 DEF MinOf, RawLevels, HuffmanLevels, Levels
    <3>2. /\ Bytes(level, "rawMasks") = 0 /\ Bytes(level, "rawRanks") = 0
          /\ Bytes(level, "models") = LevelModelSize
      BY <2>10, <3>1 DEF Bytes
    <3>3. EndBefore(next, "rawMasks")' = Header("rawMasks") + MasksBefore(RawLevelCount)
      <4>1. MasksBefore(RawLevelCount) = masksEnd
        BY <1>1 DEF Chained
      <4> QED
        BY <2>3, <2>6, <2>7, <3>1, <3>2, <4>1 DEF Sections, TypeOK
    <3>4. EndBefore(next, "models")' =
            Header("models") + (level + 1 - RawLevelCount) * LevelModelSize
      <4> DEFINE n == level - RawLevelCount
      <4>1. n \in Nat /\ level + 1 - RawLevelCount = n + 1
        BY <1>3, <3>1
      <4>2. n * LevelModelSize \in Nat /\ (n + 1) * LevelModelSize = n * LevelModelSize + LevelModelSize
        <5> HIDE DEF n
        <5> QED
          BY <2>8, <4>1
      <4>3. EndBefore(next, "models")' = Header("models") + n * LevelModelSize + LevelModelSize
        BY <2>3, <2>6, <3>1, <3>2 DEF Sections
      <4> HIDE DEF n
      <4> QED
        BY <2>7, <2>8, <4>1, <4>2, <4>3
    <3>5. cursor'["rawRanks"] = Header("rawRanks") + PrefixSum(RankSizes, RawLevelCount)
      <4>1. cursor'["rawRanks"] = cursor["rawRanks"] + 0
        BY <2>2, <3>2 DEF Cursors
      <4> QED
        BY <2>6, <3>1, <4>1 DEF TypeOK, Cursors
    <3>6. /\ \A s \in Cursors : EndBefore(level, s)' = cursor'[s]
          /\ EndBefore(level, "rawMasks")' = EndBefore(next, "rawMasks")'
          /\ EndBefore(level, "models")' = EndBefore(next, "models")'
      BY <1>1, <2>0, <2>5
    <3>7. level' = next /\ MinOf(level, RawLevelCount)' = RawLevelCount
      BY <1>1, <2>0, <3>1 DEF MinOf
    <3>8. /\ MasksBefore(MinOf(level, RawLevelCount))' = MasksBefore(RawLevelCount)
          /\ PrefixSum(RankSizes, MinOf(level, RawLevelCount))' = PrefixSum(RankSizes, RawLevelCount)
      BY <1>1, <2>0, <3>7, FileKept
    <3>9. (Header("rawMasks") + MasksBefore(MinOf(level, RawLevelCount)))' =
                 Header("rawMasks") + MasksBefore(RawLevelCount)
      BY <1>1, <3>8, FileKept
    <3>10. (Header("models") + ModelsBefore(level))' =
              Header("models") + (level + 1 - (RawLevelCount)) * LevelModelSize
      <4>1. ModelsBefore(next) = (level + 1 - (RawLevelCount)) * LevelModelSize
        <5>1. next - MinOf(next, RawLevelCount) = level + 1 - (RawLevelCount)
          BY <1>3, <2>0, <3>1 DEF MinOf
        <5> QED
          BY <5>1 DEF ModelsBefore
      <4> QED
        BY <1>1, <3>7, <4>1, FileKept
    <3>11. (Header("rawRanks") + PrefixSum(RankSizes, MinOf(level, RawLevelCount)))' =
              Header("rawRanks") + PrefixSum(RankSizes, RawLevelCount)
      BY <1>1, <3>8, FileKept
    <3> HIDE DEF IInv
    <3> QED
      BY <2>4, <3>3, <3>4, <3>5, <3>6, <3>9, <3>10, <3>11 DEF Reached
  <2> QED
    BY <2>9, <2>10
<1> QED
  BY <1>4, <1>5, <1>6, <1>7, <1>8

LEMMA CheckLastSectionsKeeps ==
  ASSUME IInv, CheckLastSections
  PROVE  IInv'
<1> USE DEF IInv
<1>1. /\ UNCHANGED <<file, level, masksEnd, bitsEnd, cursor, place>>
      /\ level = LevelCount /\ pc = "levels"
      /\ (pc' = "located" /\ LastSectionsOk) \/ pc' = "rejected"
  BY DEF CheckLastSections, Proceed
<1>2. TypeOK' /\ Fresh' /\ HeaderKept'
  BY <1>1, FileKept DEF TypeOK, Fresh, HeaderKept
<1>3. Chained'
  BY <1>1, FileKept DEF Chained
<1>4. \A l, s : EndBefore(l, s)' = EndBefore(l, s)
  <2>1. \A l, s : Bytes(l, s)' = Bytes(l, s) /\ Holders(l, s)' = Holders(l, s)
    BY <1>1 DEF Bytes, Nodes, HasChildRanks, Entry, Holders, SectionsOf
  <2> QED
    BY <1>1, <2>1 DEF EndBefore, Header
<1>5. Placed'
  BY <1>1, <1>4, FileKept DEF Placed
<1>6. Reached'
  BY <1>1, <1>4, FileKept DEF Reached, MinOf, ModelsBefore
<1>7. Arrived'
  BY <1>1, FileKept DEF Arrived, LastSectionsOk
<1> QED
  BY <1>2, <1>3, <1>5, <1>6, <1>7

LEMMA StutterKeeps ==
  ASSUME IInv, UNCHANGED vars
  PROVE  IInv'
<1> USE DEF IInv
<1>1. UNCHANGED <<file, pc, level, masksEnd, bitsEnd, cursor, place>>
  BY DEF vars
<1>2. TypeOK' /\ Fresh' /\ HeaderKept' /\ Chained' /\ Arrived'
  BY <1>1, FileKept DEF TypeOK, Fresh, HeaderKept, Chained, Arrived, LastSectionsOk
<1>3. \A l, s : EndBefore(l, s)' = EndBefore(l, s)
  <2>1. \A l, s : Bytes(l, s)' = Bytes(l, s) /\ Holders(l, s)' = Holders(l, s)
    BY <1>1 DEF Bytes, Nodes, HasChildRanks, Entry, Holders, SectionsOf
  <2> QED
    BY <1>1, <2>1 DEF EndBefore, Header
<1>4. Placed' /\ Reached'
  BY <1>1, <1>3, FileKept DEF Placed, Reached, MinOf, ModelsBefore
<1> QED
  BY <1>2, <1>4

LEMMA Inductive == IInv /\ [Next]_vars => IInv'
BY OpenKeeps, CheckEntryKeeps, CheckFirstSectionsKeeps, PlaceLevelKeeps,
   CheckLastSectionsKeeps, StutterKeeps DEF Next

LEMMA InvariantTiles ==
  ASSUME IInv
  PROVE  SectionsTile
<1> USE DEF IInv
<1> SUFFICES ASSUME pc = "located" PROVE SectionsTile
  BY DEF SectionsTile
<1>1. /\ level = LevelCount /\ LastSectionsOk /\ FirstSectionsOk
      /\ Header("fileSize") = file.size
  BY DEF Arrived, Reached, HeaderKept
<1>2. \A l \in Levels : l < LevelCount
  BY DEF Levels
<1>3. \A s \in Sections : \A l \in Levels : s \in SectionsOf(l) => place[l][s] = EndBefore(l, s)
  BY <1>1, <1>2 DEF Placed
<1>4. MinOf(LevelCount, RawLevelCount) = RawLevelCount
  BY DEF MinOf
<1>5. EndBefore(LevelCount, "rawMasks") = Header("rawRanks")
  BY <1>1, <1>4 DEF Reached, FirstSectionsOk, Chained
<1>6. EndBefore(LevelCount, "rawRanks") = Header("models")
  BY <1>1, <1>4 DEF Reached, FirstSectionsOk, RawRankSize, RankSizes, Cursors
<1>7. EndBefore(LevelCount, "models") = Header("groupBits")
  BY <1>1, <1>4 DEF Reached, FirstSectionsOk, ModelSize, ModelsBefore
<1>8. /\ EndBefore(LevelCount, "groupBits") = Header("groupRanks")
      /\ EndBefore(LevelCount, "groupRanks") = Header("blockLengths")
      /\ EndBefore(LevelCount, "blockLengths") = Header("blockKids")
      /\ EndBefore(LevelCount, "blockKids") = Header("payload")
  BY <1>1 DEF Reached, LastSectionsOk, Cursors
<1>9. \A s \in Sections : EndBefore(LevelCount, s) = Header(NextSection[s])
  BY <1>5, <1>6, <1>7, <1>8 DEF Sections, NextSection
<1> QED
  BY <1>1, <1>3, <1>9 DEF SectionsTile, FirstSectionsOk, LastSectionsOk

-----------------------------------------------------------------------------

\* Every offset the engine computes while it locates the sections of a file,
\* whatever the header says, is one a usize can hold.
THEOREM TypeCorrect == Spec => []TypeOK
<1>1. IInv => TypeOK
  BY DEF IInv
<1> QED
  BY <1>1, InitInv, Inductive, PTL DEF Spec

\* Whatever the file: once the engine has located the sections they tile it,
\* each level of each section where the one before ends.
THEOREM SectionsAlwaysTile == Spec => []SectionsTile
BY InitInv, Inductive, InvariantTiles, PTL DEF Spec

-----------------------------------------------------------------------------
(* The sizes the engine and the encoder compute *)

\* The bytes of the levels before l in a section, from the entries of the file.
Ahead(l, s) == PrefixSum([k \in Levels |-> Bytes(k, s)], l)

\* What the bytes of the levels depend on is the same in the file and in d.
SameLevels(d) ==
  \A l \in Levels :
    /\ Nodes(l) = d.nodes[l]
    /\ l \in HuffmanLevels =>
         /\ Entry(l, "lengthWidth") = d.lengthWidth[l]
         /\ Entry(l, "childWidth") = d.childWidth[l]
         /\ Entry(l, "length") = d.bits[l]
         /\ HasChildRanks(l) <=> ~FinalLevel(l)

LEMMA EveryIs ==
  ASSUME NEW n \in Nat, NEW d \in Nat \ {0}
  PROVE  Every(d, n) = CeilDiv(n, d)
BY MultiplesCounted DEF Every, CeilDiv

LEMMA LevelBytes ==
  ASSUME HeaderTyped, NEW d, SameLevels(d), NEW l \in Levels, NEW s \in Sections
  PROVE  AppendedBytes(d, l, s) = Bytes(l, s)
<1>1. PICK n \in Nat : n = Nodes(l) /\ n = d.nodes[l]
  BY DEF HeaderTyped, EntryNames, Nodes, SameLevels
<1>2. PICK b \in Nat : b = BlockCount(Nodes(l)) /\ b = EncodedBlocks(d, l)
  BY <1>1, CeilDivNat DEF BlockCount, EncodedBlocks
<1>3. /\ Every(2, n) = RawMaskBytes(n)
      /\ Every(RawRankInterval, n) = CeilDiv(n, RawRankInterval)
      /\ Every(BlocksPerGroup, b) = CeilDiv(b, BlocksPerGroup)
  BY <1>1, <1>2, EveryIs DEF RawMaskBytes
<1>4. GroupBytes(Nodes(l)) = U24 * Every(BlocksPerGroup, EncodedBlocks(d, l))
  BY <1>2, <1>3 DEF GroupBytes, GroupCount
<1>5. RawRankBytes(Nodes(l)) = U24 * Every(RawRankInterval, d.nodes[l])
  BY <1>1, <1>3 DEF RawRankBytes
<1>6. l \in HuffmanLevels =>
        /\ PackedByteCount(BlockCount(Nodes(l)), Entry(l, "lengthWidth")) =
             CeilDiv(PackedValueBits(d, l, d.lengthWidth), ByteBits)
        /\ PackedByteCount(BlockCount(Nodes(l)), Entry(l, "childWidth")) =
             CeilDiv(PackedValueBits(d, l, d.childWidth), ByteBits)
        /\ HasChildRanks(l) <=> ~FinalLevel(l)
  BY <1>2 DEF PackedByteCount, PackedBits, PackedValueBits, SameLevels
<1>7. RawMaskBytes(Nodes(l)) = Every(2, d.nodes[l])
  BY <1>1, <1>3
<1> HIDE FormatAssumption, HeaderAssumption, LayoutAssumption
<1>8. CASE s = "rawMasks"
  BY <1>7, <1>8 DEF AppendedBytes, Bytes
<1>9. CASE s = "rawRanks"
  BY <1>5, <1>9 DEF AppendedBytes, Bytes
<1>10. CASE s = "models"
  BY <1>10 DEF AppendedBytes, Bytes, LevelModelSize
<1>11. CASE s = "groupBits"
  BY <1>4, <1>11 DEF AppendedBytes, Bytes
<1>12. CASE s = "groupRanks"
  BY <1>4, <1>6, <1>12 DEF AppendedBytes, Bytes
<1>13. CASE s = "blockLengths"
  BY <1>6, <1>13 DEF AppendedBytes, Bytes
<1>14. CASE s = "blockKids"
  BY <1>6, <1>14 DEF AppendedBytes, Bytes
<1> QED
  BY <1>8, <1>9, <1>10, <1>11, <1>12, <1>13, <1>14 DEF Sections

LEMMA BeforeIsAhead ==
  ASSUME HeaderTyped, NEW d, SameLevels(d), NEW l \in 0..LevelCount, NEW s \in Sections
  PROVE  Before(d, l, s) = Ahead(l, s)
<1> DEFINE f == [k \in Levels |-> AppendedBytes(d, k, s)]
           g == [k \in Levels |-> Bytes(k, s)]
<1>1. l \in Nat /\ \A k \in 0..(l - 1) : k \in Levels
  BY DEF Levels
<1>2. \A k \in 0..(l - 1) : f[k] = g[k]
  BY <1>1, LevelBytes
<1> HIDE DEF f, g
<1>3. PrefixSum(f, l) = PrefixSum(g, l)
  BY <1>1, <1>2, PrefixSumSame
<1> QED
  BY <1>3 DEF Before, Ahead, f, g

LEMMA AheadGrows ==
  ASSUME HeaderTyped, NEW s \in Sections
  PROVE  /\ Ahead(0, s) = 0
         /\ \A l \in 0..LevelCount : Ahead(l, s) \in Nat /\ Ahead(l, s) <= Ahead(LevelCount, s)
         /\ \A l \in Levels : /\ l + 1 \in 0..LevelCount
                              /\ Ahead(l + 1, s) = Ahead(l, s) + Bytes(l, s)
<1> DEFINE g == [k \in Levels |-> Bytes(k, s)]
<1>1. LevelCount \in Nat /\ 0..(LevelCount - 1) = Levels /\ Levels \subseteq Nat
  BY DEF Levels
<1>2. \A k \in 0..(LevelCount - 1) : g[k] \in Nat
  BY <1>1, BytesNat
<1>3. \A l \in Levels : g[l] = Bytes(l, s)
  OBVIOUS
<1>4. \A l : Ahead(l, s) = PrefixSum(g, l)
  BY DEF Ahead
<1> HIDE DEF g
<1>5. \A l \in 0..LevelCount : PrefixSum(g, l) \in Nat
  BY <1>1, <1>2, PrefixSumNat
<1>6. ASSUME NEW l \in 0..LevelCount PROVE PrefixSum(g, l) <= PrefixSum(g, LevelCount)
  <2>1. LevelCount \in l..LevelCount
    BY <1>1
  <2> QED
    BY <1>1, <1>2, <2>1, PrefixSumGrows
<1>7. \A l \in Levels : PrefixSum(g, l + 1) = PrefixSum(g, l) + g[l]
  BY <1>1, PrefixSumNext
<1>8. PrefixSum(g, 0) = 0
  BY PrefixSumZero
<1>9. \A l \in Levels : l + 1 \in 0..LevelCount
  BY <1>1 DEF Levels
<1> QED
  BY <1>3, <1>4, <1>5, <1>6, <1>7, <1>8, <1>9

\* The sums of RawRankSize and ModelSize are those of all levels.
LEMMA WholeSections ==
  ASSUME HeaderTyped
  PROVE  /\ Ahead(LevelCount, "rawRanks") = RawRankSize
         /\ Ahead(LevelCount, "models") = ModelSize
<1>1. LevelCount \in Nat /\ RawLevelCount \in Nat /\ RawLevelCount <= LevelCount
      /\ LevelModelSize \in Nat /\ LevelCount - RawLevelCount \in Nat
  BY DEF LevelModelSize
<1>2. /\ "rawRanks" \in Sections /\ "models" \in Sections
      /\ RawLevelCount \in 0..LevelCount
  BY <1>1 DEF Sections
<1>3. \A k \in Levels : /\ k \in RawLevels => Bytes(k, "rawRanks") = RawRankBytes(Nodes(k))
                                           /\ Bytes(k, "models") = 0
                        /\ k \in HuffmanLevels => Bytes(k, "rawRanks") = 0
                                               /\ Bytes(k, "models") = LevelModelSize
  BY DEF Bytes, RawLevels, HuffmanLevels
<1>4. /\ \A k \in 0..(RawLevelCount - 1) : k \in RawLevels /\ k \in Levels
      /\ \A k \in RawLevelCount..(LevelCount - 1) : k \in HuffmanLevels /\ k \in Levels
  BY <1>1 DEF RawLevels, HuffmanLevels, Levels
<1>5. Ahead(LevelCount, "rawRanks") = RawRankSize
  <2> DEFINE f == [k \in Levels |-> Bytes(k, "rawRanks")]
             g == [l \in RawLevels |-> RawRankBytes(Nodes(l))]
  <2>1. /\ \A k \in 0..(RawLevelCount - 1) : f[k] = g[k]
        /\ \A k \in RawLevelCount..(LevelCount - 1) : f[k] = 0
    BY <1>3, <1>4
  <2>2. /\ Ahead(LevelCount, "rawRanks") = PrefixSum(f, LevelCount)
        /\ Ahead(RawLevelCount, "rawRanks") = PrefixSum(f, RawLevelCount)
        /\ RawRankSize = PrefixSum(g, RawLevelCount)
    BY DEF Ahead, RawRankSize
  <2> HIDE DEF f, g
  <2>3. PrefixSum(f, RawLevelCount) = PrefixSum(g, RawLevelCount)
    BY <1>1, <2>1, PrefixSumSame
  <2>4. PrefixSum(f, RawLevelCount) \in Nat
    BY <1>2, <2>2, AheadGrows
  <2>5. PrefixSum(f, LevelCount) = PrefixSum(f, RawLevelCount) + (LevelCount - RawLevelCount) * 0
    BY <1>1, <2>1, <2>4, PrefixSumEven
  <2> QED
    BY <1>1, <2>2, <2>3, <2>4, <2>5
<1>6. Ahead(LevelCount, "models") = ModelSize
  <2> DEFINE f == [k \in Levels |-> Bytes(k, "models")]
  <2>1. /\ \A k \in 0..(RawLevelCount - 1) : f[k] = 0
        /\ \A k \in RawLevelCount..(LevelCount - 1) : f[k] = LevelModelSize
    BY <1>3, <1>4
  <2>2. /\ Ahead(LevelCount, "models") = PrefixSum(f, LevelCount)
    BY DEF Ahead
  <2> HIDE DEF f
  <2>3. PrefixSum(f, RawLevelCount) = 0
    <3>1. PrefixSum(f, 0) = 0
      BY PrefixSumZero
    <3>2. PrefixSum(f, RawLevelCount) = PrefixSum(f, 0) + (RawLevelCount - 0) * 0
      BY <1>1, <2>1, <3>1, PrefixSumEven
    <3> QED
      BY <1>1, <3>1, <3>2
  <2>4. PrefixSum(f, LevelCount) =
          PrefixSum(f, RawLevelCount) + (LevelCount - RawLevelCount) * LevelModelSize
    <3>1. PrefixSum(f, RawLevelCount) \in Nat
      BY <2>3
    <3> QED
      BY <1>1, <2>1, <3>1, PrefixSumEven
  <2>5. ModelSize \in Nat /\ ModelSize = (LevelCount - RawLevelCount) * LevelModelSize
    BY <1>1, ProductNat DEF ModelSize
  <2> QED
    BY <2>2, <2>3, <2>4, <2>5
<1> QED
  BY <1>5, <1>6

-----------------------------------------------------------------------------
(* Where the encoder starts its sections *)

LEMMA SectionStarts ==
  ASSUME NEW d, \A s \in Sections : SectionLength(d, s) \in Nat
  PROVE  /\ SectionStart(d, 1) = HeaderSize
         /\ \A i \in 1..7 : /\ SectionStart(d, i + 1) =
                                 SectionStart(d, i) + SectionLength(d, SectionOrder[i])
                            /\ SectionStart(d, i) \in Nat /\ SectionStart(d, i + 1) \in Nat
<1> DEFINE f == [k \in 0..6 |-> SectionLength(d, SectionOrder[k + 1])]
<1>1. \A i \in 1..7 : SectionOrder[i] \in Sections
  BY DEF SectionOrder, Sections
<1>2. \A k \in 0..6 : f[k] \in Nat /\ f[k] = SectionLength(d, SectionOrder[k + 1])
  BY <1>1
<1>3. \A i \in 1..8 : SectionStart(d, i) = HeaderSize + PrefixSum(f, i - 1)
  BY DEF SectionStart
<1>4. HeaderSize \in Nat
  BY DEF HeaderSize, FixedHeaderSize, LevelEntrySize
<1> HIDE DEF f
<1>5. PrefixSum(f, 0) = 0
  BY PrefixSumZero
<1>6. \A n \in 0..7 : PrefixSum(f, n) \in Nat
  BY <1>2, PrefixSumNat
<1>7. \A n \in 0..6 : PrefixSum(f, n + 1) = PrefixSum(f, n) + f[n]
  BY PrefixSumNext
<1>8. ASSUME NEW i \in 1..7
      PROVE  /\ SectionStart(d, i + 1) = SectionStart(d, i) + SectionLength(d, SectionOrder[i])
             /\ SectionStart(d, i) \in Nat /\ SectionStart(d, i + 1) \in Nat
  <2>1. PICK n \in 0..6 : i = n + 1
    <3>1. i - 1 \in 0..6 /\ i = (i - 1) + 1
      OBVIOUS
    <3> QED
      BY <3>1
  <2>2. PrefixSum(f, n + 1) = PrefixSum(f, n) + f[n] /\ f[n] \in Nat
        /\ PrefixSum(f, n) \in Nat /\ PrefixSum(f, n + 1) \in Nat
        /\ f[n] = SectionLength(d, SectionOrder[i])
    BY <1>2, <1>6, <1>7, <2>1
  <2>3. SectionStart(d, i + 1) = HeaderSize + PrefixSum(f, n + 1)
        /\ SectionStart(d, i) = HeaderSize + PrefixSum(f, n)
    <3>1. i + 1 \in 1..8 /\ i \in 1..8 /\ i + 1 - 1 = n + 1 /\ i - 1 = n
      BY <2>1
    <3> QED
      BY <1>3, <3>1
  <2> QED
    BY <1>4, <2>2, <2>3
<1> QED
  BY <1>3, <1>4, <1>5, <1>8

LEMMA StartIs ==
  ASSUME NEW d
  PROVE  /\ Start(d, "rawMasks") = SectionStart(d, 1)
         /\ Start(d, "rawRanks") = SectionStart(d, 2)
         /\ Start(d, "models") = SectionStart(d, 3)
         /\ Start(d, "groupBits") = SectionStart(d, 4)
         /\ Start(d, "groupRanks") = SectionStart(d, 5)
         /\ Start(d, "blockLengths") = SectionStart(d, 6)
         /\ Start(d, "blockKids") = SectionStart(d, 7)
<1>1. ASSUME NEW n \in 1..7
      PROVE  (CHOOSE i \in 1..7 : SectionOrder[i] = SectionOrder[n]) = n
  BY DEF SectionOrder
<1>2. /\ SectionOrder[1] = "rawMasks" /\ SectionOrder[2] = "rawRanks"
      /\ SectionOrder[3] = "models" /\ SectionOrder[4] = "groupBits"
      /\ SectionOrder[5] = "groupRanks" /\ SectionOrder[6] = "blockLengths"
      /\ SectionOrder[7] = "blockKids"
  BY DEF SectionOrder
<1>3. \A n \in 1..7 : Start(d, SectionOrder[n]) = SectionStart(d, n)
  BY <1>1 DEF Start
<1> QED
  BY <1>2, <1>3

-----------------------------------------------------------------------------
(* The payload *)

\* The bits of the Huffman levels before l, from the entries of the file.
BitsAhead(l) ==
  PrefixSum([k \in Levels |-> IF k \in RawLevels THEN 0 ELSE Entry(k, "length")], l)

LEMMA RunningBits ==
  ASSUME NEW bits, \A k \in HuffmanLevels : bits[k] \in Nat,
         NEW f, f = [k \in Levels |-> IF k \in RawLevels THEN 0 ELSE bits[k]]
  PROVE  /\ PrefixSum(f, 0) = 0
         /\ \A l \in 0..LevelCount :
              PrefixSum(f, l) \in Nat /\ PrefixSum(f, l) <= PrefixSum(f, LevelCount)
         /\ \A l \in Levels : PrefixSum(f, l + 1) =
              PrefixSum(f, l) + (IF l \in RawLevels THEN 0 ELSE bits[l])
<1>1. LevelCount \in Nat /\ 0..(LevelCount - 1) = Levels /\ Levels \subseteq Nat
  BY DEF Levels
<1>2. \A k \in 0..(LevelCount - 1) : f[k] \in Nat
  BY <1>1 DEF Levels, RawLevels, HuffmanLevels
<1>3. \A l \in 0..LevelCount : PrefixSum(f, l) \in Nat
  BY <1>1, <1>2, PrefixSumNat
<1>4. ASSUME NEW l \in 0..LevelCount PROVE PrefixSum(f, l) <= PrefixSum(f, LevelCount)
  <2>1. LevelCount \in l..LevelCount
    BY <1>1
  <2> QED
    BY <1>1, <1>2, <2>1, PrefixSumGrows
<1>5. \A l \in Levels : PrefixSum(f, l + 1) = PrefixSum(f, l) + f[l]
  BY <1>1, PrefixSumNext
<1>6. PrefixSum(f, 0) = 0
  BY PrefixSumZero
<1> QED
  BY <1>3, <1>4, <1>5, <1>6

LEMMA BitsAheadGrow ==
  ASSUME HeaderTyped
  PROVE  /\ BitsAhead(0) = 0
         /\ \A l \in 0..LevelCount :
              BitsAhead(l) \in Nat /\ BitsAhead(l) <= BitsAhead(LevelCount)
         /\ \A l \in Levels : BitsAhead(l + 1) =
              BitsAhead(l) + (IF l \in RawLevels THEN 0 ELSE Entry(l, "length"))
<1> DEFINE f == [k \in Levels |-> IF k \in RawLevels THEN 0 ELSE Entry(k, "length")]
           bits == [k \in Levels |-> Entry(k, "length")]
<1>1. \A k \in HuffmanLevels : bits[k] \in Nat
  BY SMTT(30) DEF HeaderTyped, EntryNames, HuffmanLevels, Levels
<1>2. f = [k \in Levels |-> IF k \in RawLevels THEN 0 ELSE bits[k]]
  OBVIOUS
<1>3. \A l : BitsAhead(l) = PrefixSum(f, l)
  BY DEF BitsAhead
<1>4. \A l \in Levels : bits[l] = Entry(l, "length")
  OBVIOUS
<1> HIDE DEF f, bits
<1>5. /\ PrefixSum(f, 0) = 0
      /\ \A l \in 0..LevelCount :
           PrefixSum(f, l) \in Nat /\ PrefixSum(f, l) <= PrefixSum(f, LevelCount)
      /\ \A l \in Levels : PrefixSum(f, l + 1) =
           PrefixSum(f, l) + (IF l \in RawLevels THEN 0 ELSE bits[l])
  BY <1>1, <1>2, RunningBits
<1> QED
  BY <1>3, <1>4, <1>5

LEMMA BitsBeforeIsAhead ==
  ASSUME NEW d, SameLevels(d), NEW l \in 0..LevelCount
  PROVE  BitsBefore(d, l) = BitsAhead(l)
<1> DEFINE f == [k \in Levels |-> IF k \in RawLevels THEN 0 ELSE d.bits[k]]
           g == [k \in Levels |-> IF k \in RawLevels THEN 0 ELSE Entry(k, "length")]
<1>1. l \in Nat /\ \A k \in 0..(l - 1) : k \in Levels
  BY DEF Levels
<1>2. \A k \in Levels : k \in RawLevels \/ k \in HuffmanLevels
  BY DEF RawLevels, HuffmanLevels, Levels
<1>3. \A k \in Levels : f[k] = g[k]
  BY <1>2 DEF SameLevels
<1> HIDE DEF f, g
<1>4. PrefixSum(f, l) = PrefixSum(g, l)
  BY <1>1, <1>3, PrefixSumSame
<1> QED
  BY <1>4 DEF BitsBefore, BitsAhead, f, g

-----------------------------------------------------------------------------
(* What the engine reads of a file the encoder wrote *)

LEMMA AppendedNat ==
  ASSUME NEW d, DirectoryType(d), NEW l \in Levels, NEW s \in Sections
  PROVE  AppendedBytes(d, l, s) \in Nat
<1>1. d.nodes[l] \in Nat
  BY DEF DirectoryType
<1>2. EncodedBlocks(d, l) \in Nat
  BY <1>1, CeilDivNat DEF EncodedBlocks
<1>3. /\ Every(2, d.nodes[l]) \in Nat
      /\ Every(RawRankInterval, d.nodes[l]) \in Nat
      /\ Every(BlocksPerGroup, EncodedBlocks(d, l)) \in Nat
  BY <1>1, <1>2, EveryIs, CeilDivNat
<1>4. l \in HuffmanLevels =>
        /\ PackedValueBits(d, l, d.lengthWidth) \in Nat
        /\ PackedValueBits(d, l, d.childWidth) \in Nat
  <2>1. l \in HuffmanLevels => d.lengthWidth[l] \in Nat /\ d.childWidth[l] \in Nat
    BY DEF DirectoryType
  <2> QED
    BY <1>2, <2>1, ProductNat DEF PackedValueBits
<1>5. l \in HuffmanLevels =>
        /\ CeilDiv(PackedValueBits(d, l, d.lengthWidth), ByteBits) \in Nat
        /\ CeilDiv(PackedValueBits(d, l, d.childWidth), ByteBits) \in Nat
  BY <1>4, CeilDivNat
<1>6. SymbolCount * ContextSize \in Nat
  BY ProductNat
<1> QED
  BY <1>3, <1>5, <1>6 DEF AppendedBytes, Sections, U24

LEMMA EncodedNat ==
  ASSUME NEW d, DirectoryType(d)
  PROVE  /\ \A s \in Sections : SectionLength(d, s) \in Nat
         /\ \A s \in Sections, l \in Levels : Before(d, l, s) \in Nat
         /\ \A l \in 0..LevelCount : BitsBefore(d, l) \in Nat
         /\ PayloadBits(d) \in Nat /\ FileSize(d) \in Nat
<1>1. LevelCount \in Nat /\ 0..(LevelCount - 1) = Levels /\ Levels \subseteq 0..LevelCount
      /\ LevelCount \in 0..LevelCount
  BY DEF Levels
<1>2. \A s \in Sections, l \in 0..LevelCount : Before(d, l, s) \in Nat
  <2>1. TAKE s \in Sections, l \in 0..LevelCount
  <2> DEFINE f == [k \in Levels |-> AppendedBytes(d, k, s)]
  <2>2. \A k \in 0..(LevelCount - 1) : f[k] \in Nat
    BY <1>1, AppendedNat
  <2>3. Before(d, l, s) = PrefixSum(f, l)
    BY DEF Before
  <2> HIDE DEF f
  <2> QED
    BY <1>1, <2>2, <2>3, PrefixSumNat
<1>3. \A l \in 0..LevelCount : BitsBefore(d, l) \in Nat
  <2>1. \A k \in HuffmanLevels : d.bits[k] \in Nat
    BY DEF DirectoryType
  <2>2. PICK bits, f : bits = d.bits
                 /\ f = [k \in Levels |-> IF k \in RawLevels THEN 0 ELSE bits[k]]
    OBVIOUS
  <2>3. \A l : BitsBefore(d, l) = PrefixSum(f, l)
    BY <2>2 DEF BitsBefore
  <2>4. \A l \in 0..LevelCount : PrefixSum(f, l) \in Nat
    BY <2>1, <2>2, RunningBits
  <2> QED
    BY <2>3, <2>4
<1>4. \A s \in Sections : SectionLength(d, s) \in Nat
  BY <1>1, <1>2 DEF SectionLength
<1>5. PayloadBits(d) \in Nat
  BY <1>1, <1>3 DEF PayloadBits
<1>6. FileSize(d) \in Nat
  <2>1. SectionStart(d, 7 + 1) \in Nat
    BY <1>4, SectionStarts
  <2>2. CeilDiv(PayloadBits(d), ByteBits) \in Nat
    BY <1>5, CeilDivNat
  <2> QED
    BY <2>1, <2>2 DEF FileSize, PayloadStart
<1> QED
  BY <1>1, <1>2, <1>3, <1>4, <1>5, <1>6

LEMMA ValuesNat ==
  ASSUME NEW d, DirectoryType(d)
  PROVE  /\ \A x \in FixedNames : FixedValues(d)[x] \in Nat
         /\ \A l \in Levels : \A x \in PartNames : EntryValues(d)[l][x] \in Nat
<1>1. \A s \in Sections : Start(d, s) \in Nat
  <2>1. \A i \in 1..7 : SectionStart(d, i) \in Nat
    BY EncodedNat, SectionStarts
  <2> QED
    BY <2>1, StartIs DEF Sections
<1>2. PayloadStart(d) \in Nat
  <2>1. SectionStart(d, 7 + 1) \in Nat
    BY EncodedNat, SectionStarts
  <2> QED
    BY <2>1 DEF PayloadStart
<1>3. HeaderSize \in Nat
  BY DEF HeaderSize, FixedHeaderSize, LevelEntrySize
<1>4. FileSize(d) \in Nat /\ PayloadBits(d) \in Nat
  BY EncodedNat
<1>5. /\ Magic \in Nat /\ Version \in Nat /\ MaxDatabaseLevel \in Nat
      /\ RestartInterval \in Nat /\ RawRankInterval \in Nat /\ LevelCount \in Nat
      /\ RawLevelCount \in Nat /\ BlocksPerGroup \in Nat
      /\ d.leaves \in Nat /\ d.terminal \in Nat
  BY IdentityAssumption DEF DirectoryType
<1>6. \A x \in FixedNames : FixedValues(d)[x] \in Nat
  <2> HIDE FormatAssumption, HeaderAssumption, LayoutAssumption
  <2>1. /\ Start(d, "rawMasks") \in Nat /\ Start(d, "rawRanks") \in Nat
        /\ Start(d, "models") \in Nat /\ Start(d, "groupBits") \in Nat
        /\ Start(d, "groupRanks") \in Nat /\ Start(d, "blockLengths") \in Nat
        /\ Start(d, "blockKids") \in Nat
    BY <1>1 DEF Sections
  <2> QED
    BY <2>1, <1>2, <1>3, <1>4, <1>5 DEF FixedValues, FixedNames
<1>7. ASSUME NEW l \in Levels, NEW x \in PartNames
      PROVE  EntryValues(d)[l][x] \in Nat
  <2>1. /\ d.nodes[l] \in Nat
        /\ Before(d, l, "rawMasks") \in Nat
        /\ AppendedBytes(d, l, "rawMasks") \in Nat
        /\ BitsBefore(d, l) \in Nat
    <3>1. "rawMasks" \in Sections /\ l \in 0..LevelCount
      BY DEF Sections, Levels
    <3> QED
      BY SMTT(30), <3>1, EncodedNat, AppendedNat DEF DirectoryType
  <2>2. l \notin RawLevels =>
          d.bits[l] \in Nat /\ d.lengthWidth[l] \in Nat /\ d.childWidth[l] \in Nat
    <3>1. l \notin RawLevels => l \in HuffmanLevels
      BY DEF RawLevels, HuffmanLevels, Levels
    <3>2. l \in HuffmanLevels =>
            d.bits[l] \in Nat /\ d.lengthWidth[l] \in Nat /\ d.childWidth[l] \in Nat
      BY SMTT(30) DEF DirectoryType
    <3> QED
      BY <3>1, <3>2
  <2> HIDE FormatAssumption, HeaderAssumption, LayoutAssumption
  <2>3. CASE l \in RawLevels
    <3>1. EntryValues(d)[l] = RawEntryValues(d, l)
      BY <2>3 DEF EntryValues
    <3>2. RawEntryValues(d, l)[x] \in Nat
      BY <2>1 DEF RawEntryValues, PartNames, EncodingRaw, ChildRankFlag
    <3> QED
      BY <3>1, <3>2
  <2>4. CASE l \notin RawLevels
    <3>1. EntryValues(d)[l] = HuffmanEntryValues(d, l)
      BY <2>4 DEF EntryValues
    <3>2. HuffmanEntryValues(d, l)[x] \in Nat
      BY <2>1, <2>2, <2>4 DEF HuffmanEntryValues, PartNames, EncodingHuffman, ChildRankFlag
    <3> QED
      BY <3>1, <3>2
  <2> QED
    BY <2>3, <2>4
<1> QED
  BY <1>6, <1>7

LEMMA EncodedRead ==
  ASSUME NEW d, DirectoryType(d), Encodable(d), file = EncodedFile(d)
  PROVE  /\ file.size = FileSize(d)
         /\ \A x \in FixedNames : Header(x) = FixedValues(d)[x]
         /\ \A l \in Levels : \A x \in PartNames : Entry(l, x) = EntryValues(d)[l][x]
<1>1. PICK fixed, entry : fixed = FixedValues(d) /\ entry = EntryValues(d)
  OBVIOUS
<1>2. \A x \in FixedNames : fixed[x] \in Nat /\ FitsField(FixedField[x], fixed[x])
  BY <1>1, ValuesNat, FixedShape DEF Encodable
<1>3. \A l \in Levels : \A x \in PartNames :
        entry[l][x] \in Nat /\ FitsField(EntryField[x], entry[l][x])
  BY <1>1, ValuesNat, PartShape DEF Encodable
<1>4. file.size = FileSize(d) /\ file.header = WrittenHeader(fixed, entry)
  BY <1>1 DEF EncodedFile
<1>5. /\ \A x \in FixedNames : Fixed(WrittenHeader(fixed, entry), x) = fixed[x]
      /\ \A l \in Levels : \A x \in PartNames :
           EntryValue(WrittenHeader(fixed, entry), l, x) = entry[l][x]
  BY <1>2, <1>3, HeaderRead
<1> QED
  BY <1>1, <1>4, <1>5 DEF Header, Entry

\* What is read of the file is what the encoder gives it for d.
Canonical(d) ==
  /\ file.size = FileSize(d)
  /\ \A x \in FixedNames : Header(x) = FixedValues(d)[x]
  /\ \A l \in Levels : \A x \in PartNames : Entry(l, x) = EntryValues(d)[l][x]

LEMMA CanonicalHeader ==
  ASSUME NEW d, Canonical(d)
  PROVE  /\ Supported
         /\ Header("fileSize") = file.size /\ file.size = FileSize(d)
         /\ Header("payloadBits") = PayloadBits(d)
         /\ \A s \in Sections : Header(s) = Start(d, s)
         /\ Header("payload") = PayloadStart(d)
         /\ Header("leaves") = d.leaves /\ Header("terminal") = d.terminal
<1> HIDE FormatAssumption, HeaderAssumption, LayoutAssumption
<1>1. /\ file.size = FileSize(d)
      /\ \A x \in FixedNames : Header(x) = FixedValues(d)[x]
  BY DEF Canonical
<1>2. Supported
  BY <1>1 DEF FixedNames, FixedValues, Supported
<1>3. \A s \in Sections : Header(s) = Start(d, s)
  BY <1>1 DEF FixedNames, FixedValues, Sections
<1>4. /\ Header("fileSize") = file.size
      /\ Header("payloadBits") = PayloadBits(d)
      /\ Header("payload") = PayloadStart(d)
      /\ Header("leaves") = d.leaves /\ Header("terminal") = d.terminal
  BY <1>1 DEF FixedNames, FixedValues
<1> QED
  BY <1>1, <1>2, <1>3, <1>4

LEMMA CanonicalRaw ==
  ASSUME NEW d, Canonical(d), NEW l \in Levels, l \in RawLevels
  PROVE  /\ Nodes(l) = d.nodes[l]
         /\ Entry(l, "start") = Before(d, l, "rawMasks")
         /\ Entry(l, "length") = AppendedBytes(d, l, "rawMasks")
         /\ Entry(l, "encoding") = EncodingRaw
         /\ Entry(l, "lengthWidth") = 0 /\ Entry(l, "childWidth") = 0
         /\ Entry(l, "flags") = ChildRankFlag
<1> HIDE FormatAssumption, HeaderAssumption, LayoutAssumption
<1>1. EntryValues(d)[l] = RawEntryValues(d, l)
  BY DEF EntryValues
<1>2. \A x \in PartNames : Entry(l, x) = RawEntryValues(d, l)[x]
  BY <1>1 DEF Canonical
<1> QED
  BY <1>2 DEF PartNames, RawEntryValues, Nodes

LEMMA CanonicalHuffman ==
  ASSUME NEW d, Canonical(d), NEW l \in Levels, l \notin RawLevels
  PROVE  /\ Nodes(l) = d.nodes[l]
         /\ Entry(l, "start") = BitsBefore(d, l)
         /\ Entry(l, "length") = d.bits[l]
         /\ Entry(l, "encoding") = EncodingHuffman
         /\ Entry(l, "lengthWidth") = d.lengthWidth[l]
         /\ Entry(l, "childWidth") = d.childWidth[l]
         /\ Entry(l, "flags") = IF FinalLevel(l) THEN 0 ELSE ChildRankFlag
<1> HIDE FormatAssumption, HeaderAssumption, LayoutAssumption
<1>1. EntryValues(d)[l] = HuffmanEntryValues(d, l)
  BY DEF EntryValues
<1>2. \A x \in PartNames : Entry(l, x) = HuffmanEntryValues(d, l)[x]
  BY <1>1 DEF Canonical
<1> QED
  BY <1>2 DEF PartNames, HuffmanEntryValues, Nodes

LEMMA RankFlag ==
  ASSUME NEW l, Entry(l, "flags") = IF FinalLevel(l) THEN 0 ELSE ChildRankFlag
  PROVE  HasChildRanks(l) <=> ~FinalLevel(l)
<1>1. 0 % 2 = 0 /\ 1 % 2 = 1
  OBVIOUS
<1> QED
  BY <1>1 DEF HasChildRanks, ChildRankFlag

LEMMA CanonicalSame ==
  ASSUME NEW d, Canonical(d)
  PROVE  SameLevels(d)
<1>1. ASSUME NEW l \in Levels
      PROVE  /\ Nodes(l) = d.nodes[l]
             /\ l \in HuffmanLevels =>
                  /\ Entry(l, "lengthWidth") = d.lengthWidth[l]
                  /\ Entry(l, "childWidth") = d.childWidth[l]
                  /\ Entry(l, "length") = d.bits[l]
                  /\ HasChildRanks(l) <=> ~FinalLevel(l)
  <2>1. l \in HuffmanLevels => l \notin RawLevels
    BY DEF HuffmanLevels, RawLevels
  <2>2. CASE l \in RawLevels
    BY <2>1, <2>2, CanonicalRaw
  <2>3. CASE l \notin RawLevels
    BY <2>3, CanonicalHuffman, RankFlag
  <2> QED
    BY <2>2, <2>3
<1> QED
  BY <1>1 DEF SameLevels

\* The encoder's section starts, in terms of what the engine computes.
LEMMA StartsTile ==
  ASSUME HeaderTyped, NEW d, SameLevels(d)
  PROVE  /\ Start(d, "rawMasks") = HeaderSize
         /\ Start(d, "rawRanks") = Start(d, "rawMasks") + Ahead(LevelCount, "rawMasks")
         /\ Start(d, "models") = Start(d, "rawRanks") + Ahead(LevelCount, "rawRanks")
         /\ Start(d, "groupBits") = Start(d, "models") + Ahead(LevelCount, "models")
         /\ Start(d, "groupRanks") = Start(d, "groupBits") + Ahead(LevelCount, "groupBits")
         /\ Start(d, "blockLengths") = Start(d, "groupRanks") + Ahead(LevelCount, "groupRanks")
         /\ Start(d, "blockKids") = Start(d, "blockLengths") + Ahead(LevelCount, "blockLengths")
         /\ PayloadStart(d) = Start(d, "blockKids") + Ahead(LevelCount, "blockKids")
<1>1. LevelCount \in 0..LevelCount
  OBVIOUS
<1>2. \A s \in Sections : SectionLength(d, s) = Ahead(LevelCount, s)
  BY <1>1, BeforeIsAhead DEF SectionLength
<1>3. \A s \in Sections : SectionLength(d, s) \in Nat
  BY <1>1, <1>2, AheadGrows
<1>4. /\ SectionStart(d, 1) = HeaderSize
      /\ \A i \in 1..7 : SectionStart(d, i + 1) =
                            SectionStart(d, i) + SectionLength(d, SectionOrder[i])
  BY <1>3, SectionStarts
<1>5. /\ SectionOrder[1] = "rawMasks" /\ SectionOrder[2] = "rawRanks"
      /\ SectionOrder[3] = "models" /\ SectionOrder[4] = "groupBits"
      /\ SectionOrder[5] = "groupRanks" /\ SectionOrder[6] = "blockLengths"
      /\ SectionOrder[7] = "blockKids"
  BY DEF SectionOrder
<1>6. /\ SectionStart(d, 1 + 1) = SectionStart(d, 1) + SectionLength(d, "rawMasks")
      /\ SectionStart(d, 2 + 1) = SectionStart(d, 2) + SectionLength(d, "rawRanks")
      /\ SectionStart(d, 3 + 1) = SectionStart(d, 3) + SectionLength(d, "models")
      /\ SectionStart(d, 4 + 1) = SectionStart(d, 4) + SectionLength(d, "groupBits")
      /\ SectionStart(d, 5 + 1) = SectionStart(d, 5) + SectionLength(d, "groupRanks")
      /\ SectionStart(d, 6 + 1) = SectionStart(d, 6) + SectionLength(d, "blockLengths")
      /\ SectionStart(d, 7 + 1) = SectionStart(d, 7) + SectionLength(d, "blockKids")
  <2>1. 1 \in 1..7 /\ 2 \in 1..7 /\ 3 \in 1..7 /\ 4 \in 1..7 /\ 5 \in 1..7 /\ 6 \in 1..7
        /\ 7 \in 1..7
    OBVIOUS
  <2> QED
    BY <1>4, <1>5, <2>1, Zenon
<1>7. 1 + 1 = 2 /\ 2 + 1 = 3 /\ 3 + 1 = 4 /\ 4 + 1 = 5 /\ 5 + 1 = 6 /\ 6 + 1 = 7 /\ 7 + 1 = 8
  OBVIOUS
<1>8. /\ "rawMasks" \in Sections /\ "rawRanks" \in Sections /\ "models" \in Sections
      /\ "groupBits" \in Sections /\ "groupRanks" \in Sections
      /\ "blockLengths" \in Sections /\ "blockKids" \in Sections
  BY DEF Sections
<1> HIDE FormatAssumption, HeaderAssumption, LayoutAssumption
<1> QED
  BY <1>2, <1>4, <1>6, <1>7, <1>8, StartIs DEF PayloadStart

\* The sections of a canonical file: each ends where the next begins.
LEMMA CanonicalTiles ==
  ASSUME HeaderTyped, NEW d, Canonical(d)
  PROVE  /\ Header("rawMasks") = HeaderSize
         /\ Header("rawRanks") = Header("rawMasks") + Ahead(LevelCount, "rawMasks")
         /\ Header("models") = Header("rawRanks") + Ahead(LevelCount, "rawRanks")
         /\ Header("groupBits") = Header("models") + Ahead(LevelCount, "models")
         /\ Header("groupRanks") = Header("groupBits") + Ahead(LevelCount, "groupBits")
         /\ Header("blockLengths") = Header("groupRanks") + Ahead(LevelCount, "groupRanks")
         /\ Header("blockKids") = Header("blockLengths") + Ahead(LevelCount, "blockLengths")
         /\ Header("payload") = Header("blockKids") + Ahead(LevelCount, "blockKids")
<1> HIDE FormatAssumption, HeaderAssumption, LayoutAssumption
<1>1. /\ "rawMasks" \in Sections /\ "rawRanks" \in Sections /\ "models" \in Sections
      /\ "groupBits" \in Sections /\ "groupRanks" \in Sections
      /\ "blockLengths" \in Sections /\ "blockKids" \in Sections
  BY DEF Sections
<1>2. \A s \in Sections : Header(s) = Start(d, s)
  BY CanonicalHeader
<1>3. Header("payload") = PayloadStart(d)
  BY CanonicalHeader
<1> QED
  BY <1>1, <1>2, <1>3, CanonicalSame, StartsTile

\* What the encoder writes reads as canonical.
LEMMA OutputCanonical ==
  ASSUME file \in Files, file \in EncoderOutput
  PROVE  \E d : DirectoryType(d) /\ Encodable(d) /\ Canonical(d) /\ HeaderTyped
                /\ file.size >= HeaderSize /\ file.size \in 0..MaxUsize
<1>1. PICK d \in Directories : Encodable(d) /\ file = EncodedFile(d)
  BY DEF EncoderOutput
<1>2. DirectoryType(d)
  BY DirectoriesAssumption
<1>3. Canonical(d)
  BY <1>1, <1>2, EncodedRead DEF Canonical
<1>4. file.size \in 0..MaxUsize
  BY DEF FileType
<1>5. file.size >= HeaderSize
  <2>1. HeaderSize \in Nat
    BY DEF HeaderSize, FixedHeaderSize, LevelEntrySize
  <2>2. CeilDiv(PayloadBits(d), ByteBits) \in Nat
    BY <1>2, EncodedNat, CeilDivNat
  <2>3. PayloadStart(d) \in Nat /\ PayloadStart(d) >= HeaderSize
    <3>1. \A s \in Sections : SectionLength(d, s) \in Nat
      BY <1>2, EncodedNat
    <3>2. /\ SectionStart(d, 1) = HeaderSize
          /\ \A i \in 1..7 : /\ SectionStart(d, i + 1) =
                                   SectionStart(d, i) + SectionLength(d, SectionOrder[i])
                              /\ SectionStart(d, i) \in Nat /\ SectionStart(d, i + 1) \in Nat
      BY <3>1, SectionStarts
    <3>3. \A i \in 1..7 : SectionLength(d, SectionOrder[i]) \in Nat
      BY <3>1 DEF SectionOrder, Sections
    <3>4. \A i \in 1..7 : SectionStart(d, i + 1) >= SectionStart(d, i)
      BY <3>2, <3>3
    <3>5. /\ SectionStart(d, 1 + 1) >= SectionStart(d, 1)
          /\ SectionStart(d, 2 + 1) >= SectionStart(d, 2)
          /\ SectionStart(d, 3 + 1) >= SectionStart(d, 3)
          /\ SectionStart(d, 4 + 1) >= SectionStart(d, 4)
          /\ SectionStart(d, 5 + 1) >= SectionStart(d, 5)
          /\ SectionStart(d, 6 + 1) >= SectionStart(d, 6)
          /\ SectionStart(d, 7 + 1) >= SectionStart(d, 7)
      BY <3>4
    <3>6. /\ SectionStart(d, 2) \in Nat /\ SectionStart(d, 3) \in Nat
          /\ SectionStart(d, 4) \in Nat /\ SectionStart(d, 5) \in Nat
          /\ SectionStart(d, 6) \in Nat /\ SectionStart(d, 7) \in Nat
          /\ SectionStart(d, 7 + 1) \in Nat
      BY <3>2
    <3> QED
      BY <3>2, <3>5, <3>6, <2>1 DEF PayloadStart
  <2> QED
    BY <1>3, <2>1, <2>2, <2>3 DEF Canonical, FileSize
<1>6. HeaderTyped
  BY <1>5, HeaderIsTyped
<1> QED
  BY <1>1, <1>2, <1>3, <1>4, <1>5, <1>6

-----------------------------------------------------------------------------
(* The second invariant *)

Opened == {"directory", "levels", "located"}
Placing == {"levels", "located"}

\* What the walk of the directory has established of a level.
EntryRead(l) ==
  IF l \in RawLevels
  THEN /\ Entry(l, "encoding") = EncodingRaw
       /\ Entry(l, "start") = Ahead(l, "rawMasks")
       /\ Entry(l, "length") = RawMaskBytes(Nodes(l))
       /\ Entry(l, "lengthWidth") = 0 /\ Entry(l, "childWidth") = 0
       /\ Entry(l, "flags") = ChildRankFlag
  ELSE /\ Entry(l, "encoding") = EncodingHuffman
       /\ Entry(l, "start") = BitsAhead(l)
       /\ Entry(l, "flags") = IF FinalLevel(l) THEN 0 ELSE ChildRankFlag
       /\ FinalLevel(l) => Entry(l, "childWidth") = 0

\* The bits of the packed values of a level fit a usize.
PackedFits(l) ==
  /\ Fits(PackedBits(BlockCount(Nodes(l)), Entry(l, "lengthWidth")))
  /\ HasChildRanks(l) => Fits(PackedBits(BlockCount(Nodes(l)), Entry(l, "childWidth")))

WalkedTo == IF pc = "directory" THEN level ELSE LevelCount

BitsFresh == pc = "open" => bitsEnd = 0

Identified == pc \in Opened => Supported

Walked ==
  pc \in Opened =>
    /\ \A l \in Levels : l < WalkedTo => EntryRead(l)
    /\ masksEnd = Ahead(WalkedTo, "rawMasks")
    /\ bitsEnd = BitsAhead(WalkedTo)

Totalled == pc \in Placing => bitsEnd = Header("payloadBits")

Ends ==
  pc \in Placing =>
    \A l \in 0..level : \A s \in Sections : EndBefore(l, s) = Header(s) + Ahead(l, s)

WidthsFit == pc \in Placing => \A l \in HuffmanLevels : l < level => PackedFits(l)

NoneRefused == pc = "rejected" => file \notin EncoderOutput

JInv == BitsFresh /\ Identified /\ Walked /\ Totalled /\ Ends /\ WidthsFit /\ NoneRefused

LEMMA ReadKept ==
  ASSUME file' = file
  PROVE  /\ \A l, s : Ahead(l, s)' = Ahead(l, s)
         /\ \A l : BitsAhead(l)' = BitsAhead(l)
         /\ \A l : EntryRead(l)' <=> EntryRead(l)
         /\ \A l : PackedFits(l)' <=> PackedFits(l)
         /\ Supported' <=> Supported
<1>1. \A l, s : Bytes(l, s)' = Bytes(l, s)
  BY DEF Bytes, Nodes, HasChildRanks, Entry
<1>2. \A l, s : Ahead(l, s)' = Ahead(l, s)
  BY <1>1 DEF Ahead
<1>3. \A l : BitsAhead(l)' = BitsAhead(l)
  BY DEF BitsAhead, Entry
<1>4. \A l : EntryRead(l)' <=> EntryRead(l)
  BY <1>2, <1>3 DEF EntryRead, Nodes, Entry
<1>5. \A l : PackedFits(l)' <=> PackedFits(l)
  BY DEF PackedFits, Nodes, HasChildRanks, Entry
<1>6. Supported' <=> Supported
  BY DEF Supported, Header
<1> QED
  BY <1>2, <1>3, <1>4, <1>5, <1>6

LEMMA OpenAccepts ==
  ASSUME IInv, Open, pc' = "rejected", file \in EncoderOutput
  PROVE  FALSE
<1>1. PICK d : /\ DirectoryType(d) /\ Encodable(d) /\ Canonical(d) /\ HeaderTyped
               /\ file.size >= HeaderSize
  BY OutputCanonical DEF IInv, TypeOK
<1>2. Supported /\ Header("fileSize") = file.size
      /\ Header("leaves") # 0 /\ Header("terminal") # 0
  BY <1>1, CanonicalHeader DEF DirectoryType
<1>3. Header("payloadBits") # 0
  <2>1. PICK bits, f : bits = d.bits
                 /\ f = [k \in Levels |-> IF k \in RawLevels THEN 0 ELSE bits[k]]
    OBVIOUS
  <2>2. \A k \in HuffmanLevels : bits[k] \in Nat \ {0}
    BY <1>1, <2>1 DEF DirectoryType
  <2>3. PICK last \in Levels : last = LevelCount - 1 /\ last + 1 = LevelCount
                               /\ last \in HuffmanLevels /\ last \notin RawLevels
                               /\ last \in 0..LevelCount
    BY DEF Levels, HuffmanLevels, RawLevels
  <2>4. /\ \A l \in 0..LevelCount : PrefixSum(f, l) \in Nat
        /\ \A l \in Levels : PrefixSum(f, l + 1) =
             PrefixSum(f, l) + (IF l \in RawLevels THEN 0 ELSE bits[l])
    BY <2>1, <2>2, RunningBits
  <2>5. PrefixSum(f, last + 1) = PrefixSum(f, last) + bits[last] /\ PrefixSum(f, last) \in Nat
    BY <2>3, <2>4
  <2>6. PrefixSum(f, LevelCount) # 0
    BY <2>2, <2>3, <2>5
  <2>7. PayloadBits(d) = PrefixSum(f, LevelCount)
    BY <2>1 DEF PayloadBits, BitsBefore
  <2> QED
    BY <1>1, <2>6, <2>7, CanonicalHeader
<1> QED
  BY <1>1, <1>2, <1>3 DEF Open, Proceed

LEMMA EntryAccepts ==
  ASSUME IInv, JInv, CheckEntry, pc' = "rejected", file \in EncoderOutput
  PROVE  FALSE
<1>1. PICK d : /\ DirectoryType(d) /\ Encodable(d) /\ Canonical(d) /\ HeaderTyped
               /\ file.size >= HeaderSize /\ file.size \in 0..MaxUsize
  BY OutputCanonical DEF IInv, TypeOK
<1>2. PICK l \in Levels : l = level /\ pc = "directory" /\ l \in 0..LevelCount
  BY DEF CheckEntry, IInv, TypeOK, Levels
<1>3. masksEnd = Ahead(l, "rawMasks") /\ bitsEnd = BitsAhead(l)
  BY <1>2 DEF JInv, Walked, WalkedTo, Opened
<1>4. SameLevels(d)
  BY <1>1, CanonicalSame
<1>5. "rawMasks" \in Sections
  BY DEF Sections
<1>6. Before(d, l, "rawMasks") = Ahead(l, "rawMasks") /\ BitsBefore(d, l) = BitsAhead(l)
  BY <1>1, <1>2, <1>4, <1>5, BeforeIsAhead, BitsBeforeIsAhead
<1>7. /\ Ahead(l + 1, "rawMasks") = Ahead(l, "rawMasks") + Bytes(l, "rawMasks")
      /\ Ahead(l + 1, "rawMasks") \in Nat
      /\ Ahead(l + 1, "rawMasks") <= Ahead(LevelCount, "rawMasks")
      /\ Ahead(LevelCount, "rawMasks") \in Nat /\ l + 1 \in 0..LevelCount
  <2>1. l + 1 \in 0..LevelCount /\ LevelCount \in 0..LevelCount
    BY <1>2 DEF Levels
  <2> QED
    BY <1>1, <1>2, <1>5, <2>1, AheadGrows
<1>8. Nodes(l) \in 1..MaximumNodeCount(l)
  <2>1. Nodes(l) = d.nodes[l]
    BY <1>4 DEF SameLevels
  <2> QED
    BY <1>1, <2>1 DEF DirectoryType
<1>9. CASE l \in RawLevels
  <2>1. /\ Entry(l, "start") = Before(d, l, "rawMasks")
        /\ Entry(l, "length") = AppendedBytes(d, l, "rawMasks")
        /\ Entry(l, "encoding") = EncodingRaw
        /\ Entry(l, "lengthWidth") = 0 /\ Entry(l, "childWidth") = 0
        /\ Entry(l, "flags") = ChildRankFlag
    BY <1>1, <1>9, CanonicalRaw
  <2>2. /\ AppendedBytes(d, l, "rawMasks") = Bytes(l, "rawMasks")
        /\ Bytes(l, "rawMasks") = RawMaskBytes(Nodes(l))
    <3>1. Bytes(l, "rawMasks") = RawMaskBytes(Nodes(l))
      BY <1>9 DEF Bytes
    <3> QED
      BY <1>1, <1>4, <1>5, <3>1, LevelBytes
  <2>3. Ahead(LevelCount, "rawMasks") <= MaxUsize
    <3>1. Header("rawRanks") = Header("rawMasks") + Ahead(LevelCount, "rawMasks")
      BY <1>1, CanonicalTiles
    <3>2. Header("rawRanks") \in 0..MaxUsize /\ Header("rawMasks") \in Nat
      BY <1>1 DEF HeaderTyped, HeaderNames, Sections
    <3> QED
      BY <1>7, <3>1, <3>2
  <2>4. Fits(masksEnd + Entry(l, "length"))
    BY <1>3, <1>7, <2>1, <2>2, <2>3 DEF Fits
  <2>5. RawEntryOk(l)
    BY <1>3, <1>6, <2>1, <2>2 DEF RawEntryOk
  <2> QED
    BY <1>2, <1>8, <1>9, <2>4, <2>5 DEF CheckEntry, Proceed, EntryOk
<1>10. CASE l \notin RawLevels
  <2>1. l \in HuffmanLevels
    BY <1>10 DEF HuffmanLevels, RawLevels, Levels
  <2>2. /\ Entry(l, "start") = BitsBefore(d, l)
        /\ Entry(l, "length") = d.bits[l]
        /\ Entry(l, "encoding") = EncodingHuffman
        /\ Entry(l, "lengthWidth") = d.lengthWidth[l]
        /\ Entry(l, "childWidth") = d.childWidth[l]
        /\ Entry(l, "flags") = IF FinalLevel(l) THEN 0 ELSE ChildRankFlag
    BY <1>1, <1>10, CanonicalHuffman
  <2>3. /\ d.bits[l] \in Nat \ {0} /\ d.lengthWidth[l] \in 1..MaxLengthWidth
        /\ d.childWidth[l] \in IF FinalLevel(l) THEN {0} ELSE 1..MaxChildWidth
    BY <1>1, <2>1 DEF DirectoryType
  <2>4. HuffmanEntryOk(l)
    BY <1>3, <1>6, <2>2, <2>3 DEF HuffmanEntryOk
  <2>5. BitsAhead(l + 1) = BitsAhead(l) + Entry(l, "length") /\ BitsAhead(l + 1) \in Nat
        /\ BitsAhead(l + 1) <= BitsAhead(LevelCount) /\ BitsAhead(LevelCount) \in Nat
    BY <1>1, <1>2, <1>7, <1>10, BitsAheadGrow
  <2>6. BitsAhead(LevelCount) \in 0..MaxUsize
    <3>1. LevelCount \in 0..LevelCount
      OBVIOUS
    <3>2. BitsAhead(LevelCount) = PayloadBits(d)
      BY <1>4, <3>1, BitsBeforeIsAhead DEF PayloadBits
    <3>3. Header("payloadBits") = PayloadBits(d)
      BY <1>1, CanonicalHeader
    <3> QED
      BY <1>1, <3>2, <3>3 DEF HeaderTyped, HeaderNames
  <2>7. Fits(bitsEnd + Entry(l, "length"))
    BY <1>3, <2>5, <2>6 DEF Fits
  <2> QED
    BY <1>2, <1>8, <1>10, <2>4, <2>7 DEF CheckEntry, Proceed, EntryOk
<1> QED
  BY <1>9, <1>10

LEMMA FirstSectionsAccept ==
  ASSUME IInv, JInv, CheckFirstSections, pc' = "rejected", file \in EncoderOutput
  PROVE  FALSE
<1>1. PICK d : /\ DirectoryType(d) /\ Encodable(d) /\ Canonical(d) /\ HeaderTyped
               /\ file.size >= HeaderSize /\ file.size \in 0..MaxUsize
  BY OutputCanonical DEF IInv, TypeOK
<1>2. pc = "directory" /\ level = LevelCount /\ LevelCount \in 0..LevelCount
  BY DEF CheckFirstSections
<1>3. masksEnd = Ahead(LevelCount, "rawMasks") /\ bitsEnd = BitsAhead(LevelCount)
  BY <1>2 DEF JInv, Walked, WalkedTo, Opened
<1>4. SameLevels(d)
  BY <1>1, CanonicalSame
<1>5. TotalsOk
  <2>1. 0 \in Levels
    BY DEF Levels
  <2>2. Nodes(0) = RootFaceCount
    <3>1. Nodes(0) = d.nodes[0]
      BY <1>4, <2>1 DEF SameLevels
    <3> QED
      BY <1>1, <3>1 DEF DirectoryType
  <2>3. Header("terminal") <= MaximumNodeCount(LevelCount)
        /\ Header("leaves") <= MaximumNodeCount(LevelCount)
    <3>1. Header("leaves") = d.leaves /\ Header("terminal") = d.terminal
      BY <1>1, CanonicalHeader
    <3> QED
      BY <1>1, <3>1 DEF DirectoryType
  <2>4. bitsEnd = Header("payloadBits")
    <3>1. BitsBefore(d, LevelCount) = BitsAhead(LevelCount)
      BY <1>2, <1>4, BitsBeforeIsAhead
    <3>2. Header("payloadBits") = PayloadBits(d)
      BY <1>1, CanonicalHeader
    <3> QED
      BY <1>3, <3>1, <3>2 DEF PayloadBits
  <2> QED
    BY <2>2, <2>3, <2>4 DEF TotalsOk
<1>6. FirstSectionsOk
  <2>1. /\ Header("rawMasks") = HeaderSize
        /\ Header("rawRanks") = Header("rawMasks") + Ahead(LevelCount, "rawMasks")
        /\ Header("models") = Header("rawRanks") + Ahead(LevelCount, "rawRanks")
        /\ Header("groupBits") = Header("models") + Ahead(LevelCount, "models")
    BY <1>1, CanonicalTiles
  <2>2. /\ Header("rawRanks") <= MaxUsize /\ Header("models") <= MaxUsize
        /\ Header("groupBits") <= MaxUsize
    BY <1>1 DEF HeaderTyped, HeaderNames, Sections
  <2>3. /\ Ahead(LevelCount, "rawRanks") = RawRankSize
        /\ Ahead(LevelCount, "models") = ModelSize
    BY <1>1, WholeSections
  <2> HIDE FormatAssumption, HeaderAssumption, LayoutAssumption
  <2> QED
    BY <1>3, <2>1, <2>2, <2>3 DEF FirstSectionsOk, Fits
<1> QED
  BY <1>5, <1>6 DEF CheckFirstSections, Proceed

\* Where a cursor stands, and that the level placed next ends in its section.
LEMMA CursorAhead ==
  ASSUME IInv, JInv, pc = "levels", NEW s \in Cursors
  PROVE  /\ s \in Sections /\ cursor[s] = Header(s) + Ahead(level, s)
<1>1. s \in Sections /\ level \in 0..level
  BY DEF Cursors, Sections, IInv, TypeOK
<1>2. EndBefore(level, s) = cursor[s]
  BY DEF IInv, Reached
<1>3. EndBefore(level, s) = Header(s) + Ahead(level, s)
  BY <1>1 DEF JInv, Ends, Placing
<1> QED
  BY <1>1, <1>2, <1>3

\* No level of a canonical file reaches past the address space.
LEMMA CanonicalFits ==
  ASSUME HeaderTyped, NEW d, Canonical(d), NEW l \in Levels, NEW s \in Sections
  PROVE  Fits(Header(s) + Ahead(l, s)) /\ Fits(Header(s) + (Ahead(l, s) + Bytes(l, s)))
<1>1. /\ Ahead(l, s) \in Nat /\ Bytes(l, s) \in Nat
      /\ Ahead(l + 1, s) = Ahead(l, s) + Bytes(l, s)
      /\ Ahead(l + 1, s) <= Ahead(LevelCount, s) /\ Ahead(LevelCount, s) \in Nat
  <2>1. l \in 0..LevelCount /\ l + 1 \in 0..LevelCount /\ LevelCount \in 0..LevelCount
    BY DEF Levels
  <2> QED
    BY <2>1, AheadGrows, BytesNat
<1>2. Header(s) \in Nat
  BY DEF HeaderTyped, HeaderNames
<1>3. Header(s) + Ahead(LevelCount, s) <= MaxUsize
  <2>1. \A name \in HeaderNames : Header(name) <= MaxUsize
    BY DEF HeaderTyped
  <2>2. /\ "rawRanks" \in HeaderNames /\ "models" \in HeaderNames
        /\ "groupBits" \in HeaderNames /\ "groupRanks" \in HeaderNames
        /\ "blockLengths" \in HeaderNames /\ "blockKids" \in HeaderNames
        /\ "payload" \in HeaderNames
    BY DEF HeaderNames, Sections
  <2> HIDE FormatAssumption, HeaderAssumption, LayoutAssumption
  <2> QED
    BY <2>1, <2>2, CanonicalTiles DEF Sections
<1> QED
  BY <1>1, <1>2, <1>3 DEF Fits

LEMMA PlaceAccepts ==
  ASSUME IInv, JInv, PlaceLevel, pc' = "rejected", file \in EncoderOutput
  PROVE  FALSE
<1>1. PICK d : /\ DirectoryType(d) /\ Encodable(d) /\ Canonical(d) /\ HeaderTyped
               /\ file.size >= HeaderSize /\ file.size \in 0..MaxUsize
  BY OutputCanonical DEF IInv, TypeOK
<1>2. PICK l \in Levels : l = level /\ pc = "levels" /\ l \in 0..LevelCount
  BY DEF PlaceLevel, IInv, TypeOK, Levels
<1>3. SameLevels(d)
  BY <1>1, CanonicalSame
<1>4. l \in RawLevels => Fits(Header("rawMasks") + Entry(l, "start"))
  <2>1. "rawMasks" \in Sections
    BY DEF Sections
  <2>2. l \in RawLevels => Entry(l, "start") = Ahead(l, "rawMasks")
    BY <1>1, <1>2, <1>3, <2>1, CanonicalRaw, BeforeIsAhead
  <2> QED
    BY <1>1, <2>1, <2>2, CanonicalFits
<1>5. l \in HuffmanLevels => PackedFits(l)
  <2>1. SUFFICES ASSUME l \in HuffmanLevels PROVE PackedFits(l)
    OBVIOUS
  <2>2. /\ Nodes(l) = d.nodes[l]
        /\ Entry(l, "lengthWidth") = d.lengthWidth[l]
        /\ Entry(l, "childWidth") = d.childWidth[l]
    BY <1>3, <2>1 DEF SameLevels
  <2>3. /\ PackedValueBits(d, l, d.lengthWidth) <= MaxUsize
        /\ PackedValueBits(d, l, d.childWidth) <= MaxUsize
    BY <1>1, <2>1 DEF Encodable
  <2> QED
    BY <2>2, <2>3
       DEF PackedFits, Fits, PackedBits, PackedValueBits, BlockCount, EncodedBlocks
<1>6. ASSUME NEW s \in Cursors PROVE Fits(cursor[s] + Bytes(l, s))
  <2>1. s \in Sections /\ cursor[s] = Header(s) + Ahead(l, s)
    BY <1>2, CursorAhead
  <2>2. Fits(Header(s) + (Ahead(l, s) + Bytes(l, s)))
    BY <1>1, <2>1, CanonicalFits
  <2>3. Header(s) \in Nat /\ Ahead(l, s) \in Nat /\ Bytes(l, s) \in Nat
    BY <1>1, <1>2, <2>1, AheadGrows, BytesNat DEF HeaderTyped, HeaderNames
  <2> QED
    BY <2>1, <2>2, <2>3
<1>7. PlaceFits(l)
  BY <1>4, <1>5, <1>6 DEF PlaceFits, PackedFits
<1> QED
  BY <1>2, <1>7 DEF PlaceLevel, Proceed

LEMMA LastSectionsAccept ==
  ASSUME IInv, JInv, CheckLastSections, pc' = "rejected", file \in EncoderOutput
  PROVE  FALSE
<1>1. PICK d : /\ DirectoryType(d) /\ Encodable(d) /\ Canonical(d) /\ HeaderTyped
               /\ file.size >= HeaderSize /\ file.size \in 0..MaxUsize
  BY OutputCanonical DEF IInv, TypeOK
<1>2. pc = "levels" /\ level = LevelCount
  BY DEF CheckLastSections
<1>3. /\ cursor["groupBits"] = Header("groupRanks")
      /\ cursor["groupRanks"] = Header("blockLengths")
      /\ cursor["blockLengths"] = Header("blockKids")
      /\ cursor["blockKids"] = Header("payload")
  <2>1. \A s \in Cursors : cursor[s] = Header(s) + Ahead(LevelCount, s)
    BY <1>2, CursorAhead
  <2>2. /\ "groupBits" \in Cursors /\ "groupRanks" \in Cursors
        /\ "blockLengths" \in Cursors /\ "blockKids" \in Cursors
    BY DEF Cursors
  <2> HIDE FormatAssumption, HeaderAssumption, LayoutAssumption
  <2> QED
    BY <1>1, <2>1, <2>2, CanonicalTiles
<1>4. Header("fileSize") = Header("payload") + CeilDiv(Header("payloadBits"), ByteBits)
      /\ Header("fileSize") <= MaxUsize
  <2>1. /\ Header("fileSize") = FileSize(d) /\ Header("payloadBits") = PayloadBits(d)
        /\ Header("payload") = PayloadStart(d)
    BY <1>1, CanonicalHeader
  <2>2. Header("fileSize") <= MaxUsize
    BY <1>1 DEF HeaderTyped, HeaderNames
  <2> QED
    BY <2>1, <2>2 DEF FileSize
<1>5. LastSectionsOk
  <2> HIDE FormatAssumption, HeaderAssumption, LayoutAssumption
  <2> QED
    BY <1>3, <1>4 DEF LastSectionsOk, Fits
<1> QED
  BY <1>5 DEF CheckLastSections, Proceed

-----------------------------------------------------------------------------
(* Its steps *)

LEMMA InitJ == Init => JInv
BY DEF Init, JInv, BitsFresh, Identified, Walked, Totalled, Ends, WidthsFit, NoneRefused,
       Opened, Placing

LEMMA OpenJ ==
  ASSUME IInv, JInv, Open
  PROVE  JInv'
<1>1. /\ pc = "open" /\ file' = file /\ level' = 0 /\ masksEnd' = 0 /\ bitsEnd' = 0
      /\ pc' \in {"directory", "rejected"}
  BY DEF Open, Proceed, IInv, Fresh, JInv, BitsFresh
<1>2. BitsFresh' /\ Totalled' /\ Ends' /\ WidthsFit'
  BY <1>1 DEF BitsFresh, Totalled, Ends, WidthsFit, Placing
<1>3. Identified'
  BY <1>1, ReadKept DEF Identified, Open, Proceed, Opened
<1>4. Walked'
  <2>1. SUFFICES ASSUME pc' = "directory" PROVE Walked'
    BY <1>1 DEF Walked, Opened
  <2>2. WalkedTo' = 0
    BY <1>1, <2>1 DEF WalkedTo
  <2>3. \A l \in Levels : ~(l < 0)
    BY DEF Levels
  <2>4. Ahead(0, "rawMasks") = 0 /\ BitsAhead(0) = 0
    BY PrefixSumZero DEF Ahead, BitsAhead
  <2> QED
    BY <1>1, <2>2, <2>3, <2>4, ReadKept DEF Walked
<1>5. NoneRefused'
  <2>1. SUFFICES ASSUME pc' = "rejected", file' \in EncoderOutput PROVE FALSE
    BY DEF NoneRefused
  <2> QED
    BY <1>1, <2>1, OpenAccepts
<1> QED
  BY <1>2, <1>3, <1>4, <1>5 DEF JInv

LEMMA CheckEntryJ ==
  ASSUME IInv, JInv, CheckEntry
  PROVE  JInv'
<1>1. /\ pc = "directory" /\ file' = file /\ level \in Levels /\ level' = level + 1
      /\ pc' \in {"directory", "rejected"}
  BY DEF CheckEntry, Proceed, IInv, TypeOK, Levels
<1>2. HeaderTyped
  BY <1>1, HeaderIsTyped DEF IInv, TypeOK, HeaderKept
<1>3. BitsFresh' /\ Totalled' /\ Ends' /\ WidthsFit'
  BY <1>1 DEF BitsFresh, Totalled, Ends, WidthsFit, Placing
<1>4. Identified'
  BY <1>1, ReadKept DEF JInv, Identified, Opened
<1>5. Walked'
  <2>1. SUFFICES ASSUME pc' = "directory" PROVE Walked'
    BY <1>1 DEF Walked, Opened
  <2>2. PICK l \in Levels : l = level
    BY <1>1
  <2>3. EntryOk(l) /\ WalkedTo' = l + 1
    BY <1>1, <2>1, <2>2 DEF CheckEntry, Proceed, WalkedTo
  <2>4. /\ \A k \in Levels : k < l => EntryRead(k)
        /\ masksEnd = Ahead(l, "rawMasks") /\ bitsEnd = BitsAhead(l)
    BY <1>1, <2>2 DEF JInv, Walked, WalkedTo, Opened
  <2>5. /\ Ahead(l + 1, "rawMasks") = Ahead(l, "rawMasks") + Bytes(l, "rawMasks")
        /\ Ahead(l, "rawMasks") \in Nat
        /\ BitsAhead(l + 1) = BitsAhead(l) + (IF l \in RawLevels THEN 0 ELSE Entry(l, "length"))
        /\ BitsAhead(l) \in Nat
    <3>1. "rawMasks" \in Sections /\ l \in 0..LevelCount
      BY DEF Sections, Levels
    <3> QED
      BY <1>2, <3>1, AheadGrows, BitsAheadGrow
  <2>6. Bytes(l, "rawMasks") = IF l \in RawLevels THEN RawMaskBytes(Nodes(l)) ELSE 0
    BY DEF Bytes
  <2>7. EntryRead(l)
    BY <2>3, <2>4 DEF EntryOk, EntryRead, RawEntryOk, HuffmanEntryOk
  <2>8. masksEnd' = Ahead(l + 1, "rawMasks") /\ bitsEnd' = BitsAhead(l + 1)
    <3>1. CASE l \in RawLevels
      <4>1. masksEnd' = masksEnd + Entry(l, "length") /\ bitsEnd' = bitsEnd
        BY <2>2, <3>1 DEF CheckEntry
      <4>2. Entry(l, "length") = RawMaskBytes(Nodes(l))
        BY <2>7, <3>1 DEF EntryRead
      <4> QED
        BY <2>4, <2>5, <2>6, <3>1, <4>1, <4>2
    <3>2. CASE l \notin RawLevels
      <4>1. masksEnd' = masksEnd /\ bitsEnd' = bitsEnd + Entry(l, "length")
        BY <2>2, <3>2 DEF CheckEntry
      <4> QED
        BY <2>4, <2>5, <2>6, <3>2, <4>1
    <3> QED
      BY <3>1, <3>2
  <2>9. \A k \in Levels : k < l + 1 => k < l \/ k = l
    BY DEF Levels
  <2>10. \A k \in Levels : k < WalkedTo' => EntryRead(k)'
    BY <1>1, <2>3, <2>4, <2>7, <2>9, ReadKept
  <2> QED
    BY <1>1, <2>3, <2>8, <2>10, ReadKept DEF Walked
<1>6. NoneRefused'
  <2>1. SUFFICES ASSUME pc' = "rejected", file' \in EncoderOutput PROVE FALSE
    BY DEF NoneRefused
  <2> QED
    BY <1>1, <2>1, EntryAccepts
<1> QED
  BY <1>3, <1>4, <1>5, <1>6 DEF JInv

LEMMA CheckFirstSectionsJ ==
  ASSUME IInv, JInv, CheckFirstSections
  PROVE  JInv'
<1>1. /\ pc = "directory" /\ file' = file /\ level = LevelCount /\ level' = 0
      /\ pc' \in {"levels", "rejected"} /\ UNCHANGED <<masksEnd, bitsEnd, place>>
  BY DEF CheckFirstSections, Proceed
<1>2. HeaderTyped
  BY <1>1, HeaderIsTyped DEF IInv, TypeOK, HeaderKept
<1>3. BitsFresh'
  BY <1>1 DEF BitsFresh
<1>4. Identified'
  BY <1>1, ReadKept DEF JInv, Identified, Opened
<1>5. Walked'
  <2>1. SUFFICES ASSUME pc' = "levels" PROVE Walked'
    BY <1>1 DEF Walked, Opened
  <2>2. WalkedTo' = LevelCount /\ WalkedTo = LevelCount
    BY <1>1, <2>1 DEF WalkedTo
  <2> QED
    BY <1>1, <2>2, ReadKept DEF JInv, Walked, Opened
<1>6. Totalled'
  BY <1>1, FileKept DEF Totalled, CheckFirstSections, Proceed, TotalsOk, Placing
<1>7. Ends'
  <2>1. SUFFICES ASSUME NEW l \in 0..0, NEW s \in Sections
                 PROVE  EndBefore(l, s)' = (Header(s) + Ahead(l, s))'
    BY <1>1 DEF Ends
  <2>2. l = 0
    OBVIOUS
  <2>3. Holders(l, s)' = {}
    BY <2>2 DEF Holders
  <2>4. EndBefore(l, s)' = Header(s)
    BY <1>1, <2>3, FileKept DEF EndBefore
  <2>5. Ahead(l, s) = 0 /\ Header(s) \in Nat
    BY <1>2, <2>2, AheadGrows DEF HeaderTyped, HeaderNames
  <2>6. Ahead(l, s)' = 0 /\ Header(s)' = Header(s)
    BY <1>1, <2>5, ReadKept, FileKept
  <2> QED
    BY <2>4, <2>5, <2>6
<1>8. WidthsFit'
  BY <1>1 DEF WidthsFit, HuffmanLevels
<1>9. NoneRefused'
  <2>1. SUFFICES ASSUME pc' = "rejected", file' \in EncoderOutput PROVE FALSE
    BY DEF NoneRefused
  <2> QED
    BY <1>1, <2>1, FirstSectionsAccept
<1> QED
  BY <1>3, <1>4, <1>5, <1>6, <1>7, <1>8, <1>9 DEF JInv

LEMMA PlaceLevelJ ==
  ASSUME IInv, JInv, PlaceLevel
  PROVE  JInv'
<1>1. /\ pc = "levels" /\ file' = file /\ level \in Levels /\ level' = level + 1
      /\ pc' \in {"levels", "rejected"} /\ UNCHANGED <<masksEnd, bitsEnd>>
  BY DEF PlaceLevel, Proceed, IInv, TypeOK, Levels
<1>2. HeaderTyped
  BY <1>1, HeaderIsTyped DEF IInv, TypeOK, HeaderKept
<1>3. BitsFresh'
  BY <1>1 DEF BitsFresh
<1>4. Identified'
  BY <1>1, ReadKept DEF JInv, Identified, Opened
<1>5. Walked'
  <2>1. SUFFICES ASSUME pc' = "levels" PROVE Walked'
    BY <1>1 DEF Walked, Opened
  <2>2. WalkedTo' = LevelCount /\ WalkedTo = LevelCount
    BY <1>1, <2>1 DEF WalkedTo
  <2> QED
    BY <1>1, <2>2, ReadKept DEF JInv, Walked, Opened
<1>6. Totalled'
  BY <1>1, FileKept DEF JInv, Totalled, Placing
<1>7. Ends'
  <2>1. SUFFICES ASSUME pc' = "levels", NEW l \in 0..(level + 1), NEW s \in Sections
                 PROVE  EndBefore(l, s)' = (Header(s) + Ahead(l, s))'
    BY <1>1 DEF Ends, Placing
  <2>2. Ahead(l, s)' = Ahead(l, s) /\ Header(s)' = Header(s)
    BY <1>1, ReadKept, FileKept
  <2>3. PICK next \in 0..LevelCount : next = level + 1
    BY <1>1 DEF Levels
  <2>4. /\ EndBefore(next, s)' = EndBefore(level, s) + Bytes(level, s)
        /\ \A k \in 0..level : EndBefore(k, s)' = EndBefore(k, s)
    BY <2>1, <2>3, NextEnd
  <2>5. \A k \in 0..level : EndBefore(k, s) = Header(s) + Ahead(k, s)
    BY <1>1 DEF JInv, Ends, Placing
  <2>6. CASE l \in 0..level
    BY <2>2, <2>4, <2>5, <2>6
  <2>7. CASE l = level + 1
    <3>1. PICK n \in Levels : n = level /\ n \in 0..level /\ n \in 0..LevelCount
      BY <1>1 DEF Levels
    <3>2. /\ Ahead(n + 1, s) = Ahead(n, s) + Bytes(n, s)
          /\ Ahead(n, s) \in Nat /\ Bytes(n, s) \in Nat /\ Header(s) \in Nat
      BY <1>2, <3>1, AheadGrows, BytesNat DEF HeaderTyped, HeaderNames
    <3>3. EndBefore(l, s)' = Header(s) + Ahead(n, s) + Bytes(n, s)
      BY <2>3, <2>4, <2>5, <2>7, <3>1
    <3>4. l = n + 1
      BY <2>7, <3>1
    <3> QED
      BY <2>2, <3>2, <3>3, <3>4
  <2> QED
    BY <1>1, <2>6, <2>7 DEF Levels
<1>8. WidthsFit'
  <2>1. SUFFICES ASSUME pc' = "levels", NEW l \in HuffmanLevels, l < level + 1
                 PROVE  PackedFits(l)
    BY <1>1, ReadKept DEF WidthsFit, Placing
  <2>2. l < level \/ l = level
    BY <1>1, <2>1 DEF Levels, HuffmanLevels
  <2>3. l < level => PackedFits(l)
    BY <1>1 DEF JInv, WidthsFit, Placing
  <2>4. l = level => PackedFits(l)
    BY <2>1 DEF PlaceLevel, Proceed, PlaceFits, PackedFits
  <2> QED
    BY <2>2, <2>3, <2>4
<1>9. NoneRefused'
  <2>1. SUFFICES ASSUME pc' = "rejected", file' \in EncoderOutput PROVE FALSE
    BY DEF NoneRefused
  <2> QED
    BY <1>1, <2>1, PlaceAccepts
<1> QED
  BY <1>3, <1>4, <1>5, <1>6, <1>7, <1>8, <1>9 DEF JInv

\* A step that leaves the file, the walk and the places alone.
LEMMA PlacesKept ==
  ASSUME UNCHANGED <<file, place>>
  PROVE  \A l, s : EndBefore(l, s)' = EndBefore(l, s)
<1>1. \A l, s : Bytes(l, s)' = Bytes(l, s) /\ Holders(l, s)' = Holders(l, s)
  BY DEF Bytes, Nodes, HasChildRanks, Entry, Holders, SectionsOf
<1> QED
  BY <1>1 DEF EndBefore, Header

LEMMA KeptJ ==
  ASSUME JInv, UNCHANGED <<file, level, masksEnd, bitsEnd, cursor, place>>,
         \/ pc' = pc
         \/ pc = "levels" /\ pc' = "located"
         \/ pc = "levels" /\ pc' = "rejected" /\ file \notin EncoderOutput
  PROVE  JInv'
<1>1. BitsFresh' /\ Identified'
  BY ReadKept DEF JInv, BitsFresh, Identified, Opened
<1>2. Walked'
  <2>1. SUFFICES ASSUME pc' \in Opened PROVE Walked'
    BY DEF Walked
  <2>2. pc \in Opened /\ WalkedTo' = WalkedTo
    BY <2>1 DEF Opened, WalkedTo
  <2> QED
    BY <2>2, ReadKept DEF JInv, Walked
<1>3. Totalled'
  BY FileKept DEF JInv, Totalled, Placing
<1>4. Ends'
  <2>1. SUFFICES ASSUME pc' \in Placing, NEW l \in 0..level, NEW s \in Sections
                 PROVE  EndBefore(l, s)' = (Header(s) + Ahead(l, s))'
    BY DEF Ends
  <2>2. pc \in Placing
    BY <2>1 DEF Placing
  <2>3. EndBefore(l, s) = Header(s) + Ahead(l, s)
    BY <2>2 DEF JInv, Ends
  <2>4. EndBefore(l, s)' = EndBefore(l, s)
    BY PlacesKept
  <2>5. Header(s)' = Header(s) /\ Ahead(l, s)' = Ahead(l, s)
    BY ReadKept, FileKept
  <2> QED
    BY <2>3, <2>4, <2>5
<1>5. WidthsFit'
  BY ReadKept DEF JInv, WidthsFit, Placing
<1>6. NoneRefused'
  BY DEF JInv, NoneRefused
<1> QED
  BY <1>1, <1>2, <1>3, <1>4, <1>5, <1>6 DEF JInv

LEMMA CheckLastSectionsJ ==
  ASSUME IInv, JInv, CheckLastSections
  PROVE  JInv'
<1>1. /\ UNCHANGED <<file, level, masksEnd, bitsEnd, cursor, place>>
      /\ pc = "levels" /\ pc' \in {"located", "rejected"}
  BY DEF CheckLastSections, Proceed
<1>2. pc' = "rejected" => file \notin EncoderOutput
  BY LastSectionsAccept
<1> QED
  BY <1>1, <1>2, KeptJ

LEMMA InductiveJ == IInv /\ JInv /\ [Next]_vars => JInv'
<1>1. ASSUME IInv, JInv, UNCHANGED vars PROVE JInv'
  BY <1>1, KeptJ DEF vars
<1> QED
  BY <1>1, OpenJ, CheckEntryJ, CheckFirstSectionsJ, PlaceLevelJ, CheckLastSectionsJ DEF Next

-----------------------------------------------------------------------------
(* A located file is the encoder's *)

LEMMA ReadSame ==
  ASSUME \A l \in Levels : EntryRead(l)
  PROVE  SameLevels(ReadDirectory)
<1>1. PICK d : d = ReadDirectory
  OBVIOUS
<1>2. \A l \in Levels : Nodes(l) = d.nodes[l]
  BY <1>1 DEF ReadDirectory
<1>3. \A l \in HuffmanLevels :
        /\ Entry(l, "lengthWidth") = d.lengthWidth[l]
        /\ Entry(l, "childWidth") = d.childWidth[l]
        /\ Entry(l, "length") = d.bits[l]
  BY <1>1 DEF ReadDirectory
<1>4. ASSUME NEW l \in Levels, l \in HuffmanLevels PROVE HasChildRanks(l) <=> ~FinalLevel(l)
  <2>1. l \notin RawLevels
    BY <1>4 DEF HuffmanLevels, RawLevels
  <2>2. Entry(l, "flags") = IF FinalLevel(l) THEN 0 ELSE ChildRankFlag
    BY <2>1 DEF EntryRead
  <2> QED
    BY <2>2, RankFlag
<1> QED
  BY <1>1, <1>2, <1>3, <1>4 DEF SameLevels

\* At the end of the walk every field has the value the encoder gives it.
LEMMA LocatedCanonical ==
  ASSUME IInv, JInv, pc = "located"
  PROVE  HeaderTyped /\ SameLevels(ReadDirectory) /\ Canonical(ReadDirectory)
<1>1. PICK d : d = ReadDirectory
  OBVIOUS
<1>2. HeaderTyped
  BY HeaderIsTyped DEF IInv, TypeOK, HeaderKept
<1>3. /\ \A l \in Levels : EntryRead(l)
      /\ bitsEnd = BitsAhead(LevelCount) /\ bitsEnd = Header("payloadBits")
  <2>1. WalkedTo = LevelCount /\ \A l \in Levels : l < LevelCount
    BY DEF WalkedTo, Levels
  <2> QED
    BY <2>1 DEF JInv, Walked, Totalled, Opened, Placing
<1>4. SameLevels(d)
  BY <1>1, <1>3, ReadSame
<1>5. level = LevelCount /\ LevelCount \in 0..LevelCount
  BY DEF IInv, Arrived
<1>6. \A s \in Sections : Header(NextSection[s]) = Header(s) + Ahead(LevelCount, s)
  <2>1. \A s \in Sections : EndBefore(LevelCount, s) = Header(NextSection[s])
    BY InvariantTiles DEF SectionsTile
  <2>2. \A s \in Sections : EndBefore(LevelCount, s) = Header(s) + Ahead(LevelCount, s)
    BY <1>5 DEF JInv, Ends, Placing
  <2> QED
    BY <2>1, <2>2
<1>7. /\ Header("rawMasks") = HeaderSize
      /\ file.size = Header("payload") + CeilDiv(Header("payloadBits"), ByteBits)
      /\ Header("fileSize") = file.size /\ Supported
  BY InvariantTiles DEF SectionsTile, IInv, HeaderKept, JInv, Identified, Opened
<1>8. /\ Header("rawRanks") = Header("rawMasks") + Ahead(LevelCount, "rawMasks")
      /\ Header("models") = Header("rawRanks") + Ahead(LevelCount, "rawRanks")
      /\ Header("groupBits") = Header("models") + Ahead(LevelCount, "models")
      /\ Header("groupRanks") = Header("groupBits") + Ahead(LevelCount, "groupBits")
      /\ Header("blockLengths") = Header("groupRanks") + Ahead(LevelCount, "groupRanks")
      /\ Header("blockKids") = Header("blockLengths") + Ahead(LevelCount, "blockLengths")
      /\ Header("payload") = Header("blockKids") + Ahead(LevelCount, "blockKids")
  <2> HIDE FormatAssumption, HeaderAssumption, LayoutAssumption
  <2> QED
    BY <1>6 DEF Sections, NextSection
<1>9. /\ \A s \in Sections : Header(s) = Start(d, s)
      /\ Header("payload") = PayloadStart(d)
  <2>1. /\ Start(d, "rawMasks") = HeaderSize
        /\ Start(d, "rawRanks") = Start(d, "rawMasks") + Ahead(LevelCount, "rawMasks")
        /\ Start(d, "models") = Start(d, "rawRanks") + Ahead(LevelCount, "rawRanks")
        /\ Start(d, "groupBits") = Start(d, "models") + Ahead(LevelCount, "models")
        /\ Start(d, "groupRanks") = Start(d, "groupBits") + Ahead(LevelCount, "groupBits")
        /\ Start(d, "blockLengths") = Start(d, "groupRanks") + Ahead(LevelCount, "groupRanks")
        /\ Start(d, "blockKids") = Start(d, "blockLengths") + Ahead(LevelCount, "blockLengths")
        /\ PayloadStart(d) = Start(d, "blockKids") + Ahead(LevelCount, "blockKids")
    BY <1>2, <1>4, StartsTile
  <2> HIDE FormatAssumption, HeaderAssumption, LayoutAssumption
  <2> QED
    BY <1>7, <1>8, <2>1 DEF Sections
<1>10. Header("payloadBits") = PayloadBits(d) /\ file.size = FileSize(d)
  <2>1. BitsBefore(d, LevelCount) = BitsAhead(LevelCount)
    BY <1>4, <1>5, BitsBeforeIsAhead
  <2> QED
    BY <1>3, <1>7, <1>9, <2>1 DEF PayloadBits, FileSize
<1>11. Header("leaves") = d.leaves /\ Header("terminal") = d.terminal
  BY <1>1 DEF ReadDirectory
<1>12. \A x \in FixedNames : Header(x) = FixedValues(d)[x]
  <2> HIDE FormatAssumption, HeaderAssumption, LayoutAssumption
  <2>1. /\ Header("rawMasks") = Start(d, "rawMasks") /\ Header("rawRanks") = Start(d, "rawRanks")
        /\ Header("models") = Start(d, "models") /\ Header("groupBits") = Start(d, "groupBits")
        /\ Header("groupRanks") = Start(d, "groupRanks")
        /\ Header("blockLengths") = Start(d, "blockLengths")
        /\ Header("blockKids") = Start(d, "blockKids")
    BY <1>9 DEF Sections
  <2>2. /\ Header("payload") = PayloadStart(d)
        /\ Header("fileSize") = FileSize(d)
    BY <1>7, <1>9, <1>10
  <2>3. /\ Header("magic") = Magic
        /\ Header("version") = Version
        /\ Header("headerSize") = HeaderSize
        /\ Header("restartInterval") = RestartInterval
        /\ Header("rawRankInterval") = RawRankInterval
        /\ Header("levelCount") = LevelCount
        /\ Header("rawLevelCount") = RawLevelCount
        /\ Header("maxDatabaseLevel") = MaxDatabaseLevel
        /\ Header("blocksPerGroup") = BlocksPerGroup
    BY <1>7 DEF Supported
  <2> QED
    BY <1>10, <1>11, <2>1, <2>2, <2>3 DEF FixedNames, FixedValues
<1>13. ASSUME NEW l \in Levels, NEW x \in PartNames PROVE Entry(l, x) = EntryValues(d)[l][x]
  <2>1. l \in 0..LevelCount /\ "rawMasks" \in Sections
    BY DEF Levels, Sections
  <2>2. EntryRead(l)
    BY <1>3
  <2>3. Nodes(l) = d.nodes[l]
    BY <1>4 DEF SameLevels
  <2>4. CASE l \in RawLevels
    <3>1. /\ Entry(l, "nodes") = d.nodes[l]
          /\ Entry(l, "start") = Before(d, l, "rawMasks")
          /\ Entry(l, "length") = AppendedBytes(d, l, "rawMasks")
      <4>1. Bytes(l, "rawMasks") = RawMaskBytes(Nodes(l))
        BY <2>4 DEF Bytes
      <4>2. /\ Before(d, l, "rawMasks") = Ahead(l, "rawMasks")
            /\ AppendedBytes(d, l, "rawMasks") = Bytes(l, "rawMasks")
        BY <1>2, <1>4, <2>1, BeforeIsAhead, LevelBytes
      <4> QED
        BY <2>2, <2>3, <2>4, <4>1, <4>2 DEF EntryRead, Nodes
    <3>2. /\ Entry(l, "encoding") = EncodingRaw
          /\ Entry(l, "lengthWidth") = 0 /\ Entry(l, "childWidth") = 0
          /\ Entry(l, "flags") = ChildRankFlag
      BY <2>2, <2>4 DEF EntryRead
    <3>3. EntryValues(d)[l] = RawEntryValues(d, l)
      BY <2>4 DEF EntryValues
    <3> HIDE FormatAssumption, HeaderAssumption, LayoutAssumption
    <3>4. Entry(l, x) = RawEntryValues(d, l)[x]
      BY <3>1, <3>2 DEF RawEntryValues, PartNames
    <3> QED
      BY <3>3, <3>4
  <2>5. CASE l \notin RawLevels
    <3>1. l \in HuffmanLevels
      BY <2>5 DEF RawLevels, HuffmanLevels, Levels
    <3>2. /\ Entry(l, "nodes") = d.nodes[l]
          /\ Entry(l, "start") = BitsBefore(d, l)
          /\ Entry(l, "length") = d.bits[l]
          /\ Entry(l, "lengthWidth") = d.lengthWidth[l]
          /\ Entry(l, "childWidth") = d.childWidth[l]
      <4>1. BitsBefore(d, l) = BitsAhead(l)
        BY <1>4, <2>1, BitsBeforeIsAhead
      <4>2. Entry(l, "start") = BitsAhead(l)
        BY <2>2, <2>5 DEF EntryRead
      <4> QED
        BY <1>4, <2>3, <3>1, <4>1, <4>2 DEF SameLevels, Nodes
    <3>3. /\ Entry(l, "encoding") = EncodingHuffman
          /\ Entry(l, "flags") = IF FinalLevel(l) THEN 0 ELSE ChildRankFlag
      BY <2>2, <2>5 DEF EntryRead
    <3>4. EntryValues(d)[l] = HuffmanEntryValues(d, l)
      BY <2>5 DEF EntryValues
    <3> HIDE FormatAssumption, HeaderAssumption, LayoutAssumption
    <3>5. Entry(l, x) = HuffmanEntryValues(d, l)[x]
      BY <3>2, <3>3 DEF HuffmanEntryValues, PartNames
    <3> QED
      BY <3>4, <3>5
  <2> QED
    BY <2>4, <2>5
<1>14. Canonical(d)
  BY <1>10, <1>12, <1>13 DEF Canonical
<1> QED
  BY <1>1, <1>2, <1>4, <1>14

LEMMA LocatedEncodable ==
  ASSUME IInv, JInv, pc = "located"
  PROVE  Encodable(ReadDirectory) /\ file = EncodedFile(ReadDirectory)
<1>1. PICK d : d = ReadDirectory /\ HeaderTyped /\ SameLevels(d) /\ Canonical(d)
  BY LocatedCanonical
<1>2. /\ file.size \in 0..MaxUsize
      /\ file.header \in [0..(HeaderSize - 1) -> 0..(ByteBase - 1)]
      /\ file = [size |-> file.size, header |-> file.header]
  BY DEF IInv, TypeOK, HeaderKept, FileType
<1>3. PICK bytes, fixed, entry : /\ bytes = file.header
                                /\ fixed = FixedValues(d) /\ entry = EntryValues(d)
  OBVIOUS
<1>4. /\ \A x \in FixedNames : fixed[x] = Fixed(bytes, x)
      /\ \A l \in Levels : \A x \in PartNames : entry[l][x] = EntryValue(bytes, l, x)
  BY <1>1, <1>3 DEF Canonical, Header, Entry
<1>5. /\ bytes = WrittenHeader(fixed, entry)
      /\ \A x \in FixedNames : FitsField(FixedField[x], fixed[x])
      /\ \A l \in Levels : \A x \in PartNames : FitsField(EntryField[x], entry[l][x])
  <2>1. bytes \in [0..(HeaderSize - 1) -> 0..(ByteBase - 1)]
    BY <1>2, <1>3
  <2> HIDE FormatAssumption, HeaderAssumption, LayoutAssumption
  <2> QED
    BY ZenonT(30), <1>4, <2>1, HeaderDetermined
<1>6. file = EncodedFile(d)
  BY <1>1, <1>2, <1>3, <1>5 DEF EncodedFile, Canonical
<1>7. FileSize(d) <= MaxUsize
  BY <1>1, <1>2 DEF Canonical
<1>8. ASSUME NEW l \in HuffmanLevels
      PROVE  /\ PackedValueBits(d, l, d.lengthWidth) <= MaxUsize
             /\ PackedValueBits(d, l, d.childWidth) <= MaxUsize
  <2>1. l \in Levels /\ l < LevelCount /\ l \notin RawLevels
    BY DEF HuffmanLevels, RawLevels, Levels
  <2>2. PackedFits(l)
    BY <2>1 DEF JInv, WidthsFit, Placing, IInv, Arrived
  <2>3. /\ PackedBits(BlockCount(Nodes(l)), Entry(l, "lengthWidth")) =
              PackedValueBits(d, l, d.lengthWidth)
        /\ PackedBits(BlockCount(Nodes(l)), Entry(l, "childWidth")) =
              PackedValueBits(d, l, d.childWidth)
        /\ HasChildRanks(l) <=> ~FinalLevel(l)
    BY <1>1, <2>1 DEF SameLevels, PackedBits, PackedValueBits, BlockCount, EncodedBlocks
  <2>4. CASE HasChildRanks(l)
    BY <2>2, <2>3, <2>4 DEF PackedFits, Fits
  <2>5. CASE ~HasChildRanks(l)
    <3>1. FinalLevel(l)
      BY <2>3, <2>5
    <3>2. EntryRead(l)
      BY <2>1 DEF JInv, Walked, WalkedTo, Opened
    <3>3. Entry(l, "childWidth") = 0
      BY <2>1, <3>1, <3>2 DEF EntryRead
    <3>4. BlockCount(Nodes(l)) \in Nat
      BY <1>1, <2>1, CeilDivNat DEF BlockCount, HeaderTyped, EntryNames, Nodes
    <3>5. PackedBits(BlockCount(Nodes(l)), Entry(l, "childWidth")) = 0
      BY <3>3, <3>4 DEF PackedBits
    <3> QED
      BY <2>2, <2>3, <3>5 DEF PackedFits, Fits
  <2> QED
    BY <2>4, <2>5
<1>9. Encodable(d)
  BY <1>3, <1>5, <1>7, <1>8, FixedShape, PartShape DEF Encodable
<1> QED
  BY <1>1, <1>6, <1>9

LEMMA InvariantEncoded ==
  ASSUME IInv, JInv
  PROVE  LocatedAsEncoded
<1>1. pc = "rejected" => file \notin EncoderOutput
  BY DEF JInv, NoneRefused
<1>2. ASSUME pc = "located", NEW l \in Levels, NEW s \in SectionsOf(l)
      PROVE  place[l][s] = Start(ReadDirectory, s) + Before(ReadDirectory, l, s)
  <2>1. PICK d : d = ReadDirectory /\ HeaderTyped /\ SameLevels(d) /\ Canonical(d)
    BY <1>2, LocatedCanonical
  <2>2. s \in Sections /\ l \in 0..LevelCount
    BY DEF SectionsOf, Sections, Levels
  <2>3. place[l][s] = EndBefore(l, s)
    BY <1>2, <2>2, InvariantTiles DEF SectionsTile
  <2>4. EndBefore(l, s) = Header(s) + Ahead(l, s)
    BY <1>2, <2>2 DEF JInv, Ends, Placing, IInv, Arrived
  <2>5. Header(s) = Start(d, s)
    BY <2>1, <2>2, CanonicalHeader
  <2>6. Before(d, l, s) = Ahead(l, s)
    BY <2>1, <2>2, BeforeIsAhead
  <2> QED
    BY <2>1, <2>3, <2>4, <2>5, <2>6
<1> QED
  BY <1>1, <1>2, LocatedEncodable DEF LocatedAsEncoded

\* Whatever the file: the engine locates it only if its header is, byte for
\* byte, the one the encoder writes for the directory read of it, with every
\* level where the encoder put it; and no file the encoder writes is refused.
THEOREM LocatedAlwaysAsEncoded == Spec => []LocatedAsEncoded
<1>1. Init => IInv /\ JInv
  BY InitInv, InitJ
<1>2. (IInv /\ JInv) /\ [Next]_vars => (IInv /\ JInv)'
  BY Inductive, InductiveJ
<1>3. IInv /\ JInv => LocatedAsEncoded
  BY InvariantEncoded
<1> QED
  BY <1>1, <1>2, <1>3, PTL DEF Spec

=============================================================================
