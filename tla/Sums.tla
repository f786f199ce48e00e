-------------------------------- MODULE Sums --------------------------------
(***************************************************************************)
(* Sums of finite tables of numbers, as the loops of the pallets and of    *)
(* the contracts accumulate them.  Sum is a recursive function, not a      *)
(* RECURSIVE operator, so that SumsProofs can reason about it.             *)
(***************************************************************************)
EXTENDS Integers

\* d[1] + d[2] + ... + d[n], added from left to right.
Sum(d, n) ==
  LET s[i \in 0 .. n] == IF i = 0 THEN 0 ELSE s[i-1] + d[i]
  IN  s[n]
=============================================================================
