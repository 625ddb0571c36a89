-------------------------------- MODULE Sums --------------------------------
(***************************************************************************)
(* Sums of natural numbers indexed by 1..n: order ids are handed out from  *)
(* 1 upwards by the broker, so what a set of orders holds is such a sum.   *)
(* PartialSums is a recursive function, not a RECURSIVE operator, so that  *)
(* module SumsProofs can prove the laws the other proofs cite.             *)
(***************************************************************************)
EXTENDS Naturals

\* The function that maps m \in 0..n to f[1] + ... + f[m].
PartialSums(f, n) ==
  LET s[m \in 0 .. n] == IF m = 0 THEN 0 ELSE s[m - 1] + f[m]
  IN  s

\* f[1] + ... + f[n].
Total(f, n) == PartialSums(f, n)[n]
=============================================================================
