------------------------------- MODULE Lottery -------------------------------
(***************************************************************************)
(* What the moneybag contract promises: accounts enter one after the       *)
(* other, once each and with no bid far below an earlier one; the entry    *)
(* that fills the game also ends it, with one of those who entered winning *)
(* all the bids.                                                           *)
(*                                                                         *)
(* There is no counter, no maximum, no map of bids and no position that is *)
(* drawn here, and entering cannot fail half-way: Moneybag shows that the  *)
(* contract implements this.                                               *)
(***************************************************************************)
EXTENDS Integers, Sequences, Sums

CONSTANTS
  AccountId,  \* accounts that may enter
  SIZE,       \* number of entries of a full game
  Amounts,    \* values of bids
  None        \* the game has no result yet

VARIABLES
  entries,    \* who entered with which bid, in order
  result      \* who won how much

vars == <<entries, result>>

AllBids(es) == Sum([i \in 1 .. Len(es) |-> es[i].bid], Len(es))

Init ==
  /\ \E a \in AccountId, bid \in Amounts : entries = <<[member |-> a, bid |-> bid]>>
  /\ result = None

Enter(a, bid) ==
  /\ Len(entries) < SIZE
  /\ \A i \in 1 .. Len(entries) : entries[i].member # a /\ bid >= entries[i].bid \div 2
  /\ entries' = Append(entries, [member |-> a, bid |-> bid])
  /\ IF Len(entries') = SIZE
     THEN \E i \in 1 .. SIZE :
             result' = [winner |-> entries'[i].member, amount |-> AllBids(entries')]
     ELSE UNCHANGED result

Next == \E a \in AccountId, bid \in Amounts : Enter(a, bid)

Spec == Init /\ [][Next]_vars
=============================================================================
