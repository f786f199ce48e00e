----------------------------- MODULE MCMoneybag -----------------------------
(***************************************************************************)
(* Constants for checking Moneybag: a game of three among four accounts.   *)
(* Three bids of 4 overflow a Balance, bids may be funded with less or     *)
(* with more than their amount, and the words make every position of the   *)
(* range come up.                                                          *)
(***************************************************************************)
EXTENDS Moneybag

MCAccounts == 1 .. 4
MCAmounts == {0, 1, 2, 4}
MCValues == {0, 2, 3}
MCWords == 0 .. 3
=============================================================================
