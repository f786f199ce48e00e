------------------------------ MODULE MCMining ------------------------------
(***************************************************************************)
(* Constants for checking Mining: three headers, four bits of hash and of  *)
(* nonce counter cut to four values, and a hash function with, at either   *)
(* difficulty, a header that the first nonce solves, one that a later      *)
(* nonce does and one that has two solutions or, at the higher difficulty, *)
(* only one the miner never tries.                                         *)
(***************************************************************************)
EXTENDS Mining

MCPreHashes == 1 .. 3

\* A hash of at most 3 is good enough at difficulty 5, of at most 7 at 2.
MCDifficulties == {2, 5}

MCSha3(d, p, n) ==
  CASE p = 1 -> IF n = 0 THEN d - 2 ELSE 9 + n
    [] p = 2 -> IF n = d % 3 THEN 1 ELSE 8 + n
    [] OTHER -> IF n = NONCE_MAX THEN 0 ELSE IF d = 2 /\ n # 1 THEN 6 ELSE 12 + n
=============================================================================
