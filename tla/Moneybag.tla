------------------------------ MODULE Moneybag ------------------------------
(***************************************************************************)
(* The moneybag contract: contracts/moneybag.                              *)
(*                                                                         *)
(* The members bid; the bid that makes the game complete pays everything   *)
(* out to a member drawn at random.  A message of the contract is executed *)
(* as a whole: when it returns an error or traps, what it changed, the     *)
(* events it emitted and the tokens sent along with it are taken back, so  *)
(* that the call leaves only its outcome behind.                           *)
(*                                                                         *)
(* The native tokens are the balances pallet's (external): a call moves    *)
(* the tokens sent with it before the message runs, and a transfer by the  *)
(* contract must leave it the existential deposit.                         *)
(***************************************************************************)
EXTENDS Integers, Sequences, FiniteSets, Sums

CONSTANTS
  AccountId,           \* accounts that may play
  SIZE,                \* number of members: five
  Amounts,             \* values of the amount argument
  Values,              \* tokens that may be sent with a call
  Endowments,          \* tokens the contract may be instantiated with
  Wallet,              \* tokens of every account at the start
  BALANCE_MAX,         \* largest Balance
  ExistentialDeposit,  \* what an account must keep to exist
  Words,               \* values of the first word of the random generator
  None

ASSUME GameAssumption ==
  /\ SIZE \in Nat /\ SIZE >= 2
  /\ BALANCE_MAX \in Nat
  /\ Amounts \subseteq 0 .. BALANCE_MAX
  /\ Values \subseteq 0 .. BALANCE_MAX
  /\ Words \subseteq Nat
  /\ None \notin AccountId \cup Nat \cup [winner : AccountId, amount : Nat]

ASSUME NativeAssumption ==
  /\ ExistentialDeposit \in Nat
  /\ Endowments \subseteq {e \in Nat : e >= ExistentialDeposit}
  /\ Wallet \in Nat

VARIABLES
  bids_made, members, bids, max_bid,  \* the contract's storage, but for size
  pot,      \* free balance of the contract
  wallets,  \* free balance of the accounts
  prize,    \* what has been paid to whom
  log,      \* the contract's events
  outcome   \* of the last call

game == <<bids_made, members, bids, max_bid>>
native == <<pot, wallets, prize>>
vars == <<game, native, log, outcome>>

BidMade(a, amount) == [event |-> "BidMade", from |-> a, value |-> amount]
MaxBidsReached == [event |-> "MaxBidsReached"]
PrizeTransfered == [event |-> "PrizeTransfered"]

Event == {BidMade(a, amount) : a \in AccountId, amount \in Amounts}
           \cup {MaxBidsReached, PrizeTransfered}

\* What a caller can ask the contract.
get_my_bid(caller) == bids[caller]
get_bids_made == bids_made
get_max_bid == max_bid

SeqToSet(s) == {s[i] : i \in DOMAIN s}
-----------------------------------------------------------------------------
(***************************************************************************)
(* The random choice.                                                      *)
(***************************************************************************)
\* word is the first 64 bits a generator draws that is seeded with the
\* random value of the block and the caller.
gen_range(min, max, word) == (word % (max - min + 1)) + min

winner_pos(word) == gen_range(0, SIZE, word)

\* Mutant: without the last bid.
sum_before_last(ms, bs) == Sum([i \in 1 .. Len(ms) |-> bs[ms[i]]], Len(ms) - 1)

\* Sum of the bids of ms; the loop adds them up in the order of the bids.
get_total_sum(ms, bs) == Sum([i \in 1 .. Len(ms) |-> bs[ms[i]]], Len(ms))
-----------------------------------------------------------------------------
\* Instantiation by caller, whose first bid is an argument.
new(caller, first_bid, endowment) ==
  /\ bids_made = 1
  /\ members = <<caller>>
  /\ bids = [a \in AccountId |-> IF a = caller THEN first_bid ELSE None]
  /\ max_bid = first_bid
  /\ pot = endowment

Init ==
  /\ \E caller \in AccountId, first_bid \in Amounts, endowment \in Endowments :
        new(caller, first_bid, endowment)
  /\ wallets = [a \in AccountId |-> Wallet]
  /\ prize = None
  /\ log = <<>>
  /\ outcome = "Ok"

\* A call that returns an error or traps.
Fails(error) == outcome' = error /\ UNCHANGED <<game, native, log>>

\* Mutant: the game is not closed.
RejectionUnlimited(caller, amount) ==
  IF amount < max_bid \div 2 THEN "BidTooLow"
  ELSE IF caller \in SeqToSet(members) THEN "DuplicateMember"
  ELSE "none"

\* Mutant: a quarter of the maximum is enough.
RejectionBelowQuarter(caller, amount) ==
  IF bids_made >= SIZE THEN "MaxBids"
  ELSE IF amount < max_bid \div 4 THEN "BidTooLow"
  ELSE IF caller \in SeqToSet(members) THEN "DuplicateMember"
  ELSE "none"

\* The conditions of add_bid, in its order.
Rejection(caller, amount) ==
  IF bids_made >= SIZE THEN "MaxBids"
  ELSE IF amount < max_bid \div 2 THEN "BidTooLow"
  ELSE IF caller \in SeqToSet(members) THEN "DuplicateMember"
  ELSE "none"

\* Mutant: the last bid becomes the maximum.
RecordBidAsMax(caller, amount) ==
  /\ bids' = [bids EXCEPT ![caller] = amount]
  /\ members' = Append(members, caller)
  /\ bids_made' = bids_made + 1
  /\ max_bid' = amount

RecordBid(caller, amount) ==
  /\ bids' = [bids EXCEPT ![caller] = amount]
  /\ members' = Append(members, caller)
  /\ bids_made' = bids_made + 1
  /\ max_bid' = IF amount > max_bid THEN amount ELSE max_bid

\* The last bid, when nothing traps.
PayPrize(caller, amount, value, winner, total) ==
  /\ RecordBid(caller, amount)
  /\ pot' = pot + value - total
  /\ wallets' = [[wallets EXCEPT ![caller] = @ - value] EXCEPT ![winner] = @ + total]
  /\ prize' = [winner |-> winner, amount |-> total]
  /\ log' = log \o <<MaxBidsReached, PrizeTransfered, BidMade(caller, amount)>>
  /\ outcome' = "Ok"

\* The last bid: give_prize, on the storage the bid has been recorded in.
\* Each of its three steps may trap; indices of a vector count from 0.
give_prize(caller, amount, value, word) ==
  LET ms == Append(members, caller)
      total == get_total_sum(ms, [bids EXCEPT ![caller] = amount])
      found == winner_pos(word) < Len(ms)
      funded == pot + value >= total + ExistentialDeposit
  IN  \/ total > BALANCE_MAX /\ Fails("overflow")
      \/ total <= BALANCE_MAX /\ ~found /\ Fails("no winner")
      \/ total <= BALANCE_MAX /\ found /\ ~funded /\ Fails("Prize transfer failed!")
      \/ /\ total <= BALANCE_MAX /\ found /\ funded
         /\ PayPrize(caller, amount, value, ms[winner_pos(word) + 1], total)

\* Mutant: the event carries the tokens sent, not the bid.
PlaceBidLoggedByValue(caller, amount, value) ==
  /\ RecordBid(caller, amount)
  /\ pot' = pot + value
  /\ wallets' = [wallets EXCEPT ![caller] = @ - value]
  /\ log' = Append(log, BidMade(caller, value))
  /\ outcome' = "Ok"
  /\ UNCHANGED prize

\* A bid before the last: the tokens sent stay in the pot, whatever amount
\* says.
PlaceBid(caller, amount, value) ==
  /\ RecordBid(caller, amount)
  /\ pot' = pot + value
  /\ wallets' = [wallets EXCEPT ![caller] = @ - value]
  /\ log' = Append(log, BidMade(caller, amount))
  /\ outcome' = "Ok"
  /\ UNCHANGED prize

add_bid(caller, amount, value, word) ==
  /\ value <= wallets[caller]
  /\ IF Rejection(caller, amount) # "none"
     THEN Fails(Rejection(caller, amount))
     ELSE IF bids_made + 1 = SIZE
          THEN give_prize(caller, amount, value, word)
          ELSE PlaceBid(caller, amount, value)

Next == \E caller \in AccountId, amount \in Amounts, value \in Values, word \in Words :
  add_bid(caller, amount, value, word)

Spec == Init /\ [][Next]_vars
-----------------------------------------------------------------------------
(***************************************************************************)
(* Properties.                                                             *)
(***************************************************************************)
Outcomes == {"Ok", "MaxBids", "BidTooLow", "DuplicateMember",
             "overflow", "no winner", "Prize transfer failed!"}

\* Every variable has its type, and the game never has more members than it
\* is for.
TypeOK ==
  /\ bids_made \in 1 .. SIZE
  /\ members \in Seq(AccountId) /\ Len(members) <= SIZE
  /\ bids \in [AccountId -> (0 .. BALANCE_MAX) \cup {None}]
  /\ max_bid \in 0 .. BALANCE_MAX
  /\ pot \in Nat /\ pot >= ExistentialDeposit
  /\ wallets \in [AccountId -> Nat]
  /\ prize \in [winner : AccountId, amount : 0 .. BALANCE_MAX] \cup {None}
  /\ log \in Seq(Event)
  /\ outcome \in Outcomes

\* The four storage items agree: the counter counts the members, no member
\* is there twice, exactly the members have a bid (so that the unwrap of
\* line 125 never fails), and max_bid is their largest bid (lines 102 to
\* 107).
GameConsistent ==
  /\ get_bids_made = Len(members)
  /\ \A i, j \in 1 .. Len(members) : members[i] = members[j] => i = j
  /\ \A a \in AccountId : get_my_bid(a) # None <=> a \in SeqToSet(members)
  /\ \A a \in SeqToSet(members) : get_my_bid(a) <= get_max_bid
  /\ \E a \in SeqToSet(members) : get_my_bid(a) = get_max_bid

\* The game is complete exactly when the prize has been paid: to one of the
\* members, and of all the bids, the last one included (lines 108 to 112
\* and 132 to 149).  There is no complete game without a prize, because the
\* last bid is undone when the prize cannot be paid.
CompleteIffPaid ==
  /\ bids_made = SIZE <=> prize # None
  /\ prize # None =>
       /\ prize.winner \in SeqToSet(members)
       /\ prize.amount = Sum([i \in 1 .. SIZE |-> bids[members[i]]], SIZE)

\* The contract is a Lottery, whatever its messages reject or undo on the
\* way: the bids in the order of the members are the entries, the prize is
\* the result.
L == INSTANCE Lottery WITH
  entries <- [i \in 1 .. Len(members) |-> [member |-> members[i], bid |-> bids[members[i]]]],
  result <- prize

ImplementsLottery == L!Spec

\* The events of the bids from the second to the n-th member's.
BidEvents(n) == [i \in 1 .. n - 1 |-> BidMade(members[i + 1], bids[members[i + 1]])]

\* The log tells the game: it shows every bid but the constructor's, as it
\* is recorded and in order, and nothing else before the last bid; when the
\* prize is paid, the end of the game and the prize are shown before the bid
\* that led to them (lines 108 to 116).
LogTellsGame ==
  log = IF prize = None
        THEN BidEvents(Len(members))
        ELSE BidEvents(SIZE - 1) \o
               <<MaxBidsReached, PrizeTransfered, BidMade(members[SIZE], bids[members[SIZE]])>>

\* The contract's description (line 7): each next bid should be not less
\* than the current highest bid.
NextBidNotBelowHighest ==
  [][\A a \in AccountId : bids[a] = None /\ bids'[a] # None => bids'[a] >= max_bid]_vars

\* The contract's description (lines 6 and 10): bids are made with native
\* tokens, and all the funds from bids go to the winner.  Once the prize has
\* been paid the contract has no more than what it was instantiated with.
AllFundsToWinner ==
  prize # None => \E e \in Endowments : pot <= e

\* The test of gen_range (lines 294 and 295): the number drawn is below the
\* upper bound it is called with, so that a winner is always found.
WinnerAlwaysFound == outcome # "no winner"
=============================================================================
