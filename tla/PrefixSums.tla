----------------------------- MODULE PrefixSums -----------------------------
(* Running totals of a sequence of numbers: PrefixSum(a)[k] is the sum of its *)
(* first k members.  A recursive function, so that it can be proved about.    *)
EXTENDS Integers, Sequences

PrefixSum(a) ==
  LET sum[k \in 0..Len(a)] == IF k = 0 THEN 0 ELSE sum[k - 1] + a[k]
  IN  sum
=============================================================================
