---------------------------- MODULE MCForkChoice ----------------------------
(***************************************************************************)
(* Constants for checking ForkChoice: four blocks, enough for two branches *)
(* of two blocks, with difficulties that let a short branch be as heavy as *)
(* a long one, and one that adds nothing.                                  *)
(***************************************************************************)
EXTENDS ForkChoice

MCBlocks == 1 .. 4
=============================================================================
