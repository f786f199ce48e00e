------------------------------- MODULE MCNode -------------------------------
(***************************************************************************)
(* Constants for checking Node: two keys, so that a node can generate one  *)
(* after another has been lost, and two accounts, so that an author of an  *)
(* earlier run can be told from the one of this run.                       *)
(***************************************************************************)
EXTENDS Node

MCKeys == {"k1", "k2"}
MCAccounts == {"alice", "bob"}
=============================================================================
