------------------------------- MODULE MCErc20 -------------------------------
(***************************************************************************)
(* Constants for checking Erc20: three accounts, so that a spender can pay *)
(* a third one, and a supply that fills the width of a balance.            *)
(***************************************************************************)
EXTENDS Erc20

MCAmounts == 0 .. 2
=============================================================================
