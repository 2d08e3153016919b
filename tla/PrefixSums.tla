----------------------------- MODULE PrefixSums -----------------------------
(***************************************************************************)
(* Running totals, the quantity the restart indexes of the topology format *)
(* store and the aggregation of pixels computes.                           *)
(***************************************************************************)
EXTENDS Integers

\* The sum of the first n values of f, a function on 0, 1, 2, ...
PrefixSum(f, n) ==
  LET sum[k \in 0..n] == IF k = 0 THEN 0 ELSE sum[k - 1] + f[k - 1]
  IN  sum[n]

\* The sum of f over the members of a finite set.
SetSum(f, S) ==
  LET sum[T \in SUBSET S] ==
        IF T = {} THEN 0
        ELSE LET x == CHOOSE y \in T : TRUE IN f[x] + sum[T \ {x}]
  IN  sum[S]
=============================================================================
