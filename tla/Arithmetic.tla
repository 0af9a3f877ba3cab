-------------------------------- MODULE Arithmetic --------------------------------
(* The powers of ten by which decimals are brought to another scale, and sums. *)
EXTENDS Integers, Sequences

TenTo(n) ==
  LET power[k \in 0..n] == IF k = 0 THEN 1 ELSE 10 * power[k - 1] IN power[n]

(* What has been added up after each term. *)
Sums(terms) ==
  LET sum[k \in 0..Len(terms)] == IF k = 0 THEN 0 ELSE sum[k - 1] + terms[k] IN sum
Total(terms) == Sums(terms)[Len(terms)]
================================================================================
