------------------------------ MODULE MCNetwork ------------------------------
(***************************************************************************)
(* Constants for checking Network: two branches on a common first block.   *)
(* Their second blocks weigh the same, so that the seals decide between    *)
(* them.  Then the quick branch gets harder and, with three blocks, weighs *)
(* more (4 + 5 + 9) than the slow one with four (4 + 5 + 2 + 2).           *)
(***************************************************************************)
EXTENDS Network

MCBlocks == 1 .. 6

MCHeader ==
  LET H(p, n, t) == [parent |-> p, number |-> n, timestamp |-> t]
  IN  <<H(0, 1, 1), H(1, 2, 40), H(1, 2, 2), H(2, 3, 80), H(3, 3, 3), H(4, 4, 120)>>
=============================================================================
