------------------------------- MODULE MCRuntime -------------------------------
(***************************************************************************)
(* Constants for checking Runtime: two accounts, one of them new; a block  *)
(* that one heavy call fills; hashes kept for five blocks, so that the     *)
(* period of the benchmark is four and ends within the chain.              *)
(***************************************************************************)
EXTENDS Runtime

MCCalls ==
  {[name |-> "transfer", class |-> "Normal", weight |-> 1],
   [name |-> "remark", class |-> "Normal", weight |-> 7],
   [name |-> "set_code", class |-> "Operational", weight |-> 2]}
=============================================================================
