---------------------------- MODULE MoneybagProofs ----------------------------
(***************************************************************************)
(* The storage of the contract, for any number of accounts, any size of    *)
(* the game and any amounts, and that the contract implements a lottery.   *)
(***************************************************************************)
EXTENDS Moneybag, SumsProofs, SequenceTheorems

IInv == TypeOK /\ GameConsistent /\ CompleteIffPaid /\ LogTellsGame

LEMMA InitEstablishes ==
  ASSUME Init PROVE IInv
<1>1. PICK caller \in AccountId, first_bid \in Amounts, endowment \in Endowments :
        new(caller, first_bid, endowment)
  BY DEF Init
<1>2. /\ bids_made = 1 /\ members = <<caller>> /\ max_bid = first_bid /\ pot = endowment
      /\ bids = [a \in AccountId |-> IF a = caller THEN first_bid ELSE None]
  BY <1>1 DEF new
<1>3. /\ wallets = [a \in AccountId |-> Wallet] /\ prize = None /\ log = << >> /\ outcome = "Ok"
  BY DEF Init
<1>4. first_bid \in 0 .. BALANCE_MAX /\ endowment \in Nat /\ endowment >= ExistentialDeposit
  BY GameAssumption, NativeAssumption
<1>5. TypeOK
  <2>1. bids_made \in 1 .. SIZE /\ members \in Seq(AccountId) /\ Len(members) = 1 /\ 1 <= SIZE
    BY <1>2, GameAssumption
  <2>2. bids \in [AccountId -> (0 .. BALANCE_MAX) \cup {None}]
    BY <1>2, <1>4
  <2>. QED BY <1>2, <1>3, <1>4, <2>1, <2>2, NativeAssumption DEF TypeOK, Outcomes
<1>6. GameConsistent
  <2>1. SeqToSet(members) = {caller} /\ Len(members) = 1
    BY <1>2 DEF SeqToSet
  <2>2. first_bid # None
    BY <1>4, GameAssumption
  <2>. QED BY <1>2, <1>4, <2>1, <2>2 DEF GameConsistent, get_my_bid, get_bids_made, get_max_bid
<1>7. CompleteIffPaid
  BY <1>2, <1>3, GameAssumption DEF CompleteIffPaid
<1>8. LogTellsGame
  <2>1. Len(members) = 1 /\ 1 .. Len(members) - 1 = {}
    BY <1>2
  <2>2. BidEvents(Len(members)) = << >>
    BY <2>1 DEF BidEvents
  <2>. QED BY <1>3, <2>2 DEF LogTellsGame
<1>. QED BY <1>5, <1>6, <1>7, <1>8 DEF IInv

(***************************************************************************)
(* What a bid that is not rejected does to the storage.                    *)
(***************************************************************************)
LEMMA RecordStep ==
  ASSUME TypeOK, GameConsistent,
         NEW caller \in AccountId, NEW amount \in Amounts,
         Rejection(caller, amount) = "none", RecordBid(caller, amount)
  PROVE  /\ GameConsistent'
         /\ bids_made < SIZE /\ bids_made' = bids_made + 1
         /\ members' = Append(members, caller) /\ Len(members') = Len(members) + 1
         /\ members' \in Seq(AccountId) /\ Len(members') <= SIZE
         /\ bids' = [bids EXCEPT ![caller] = amount]
         /\ bids' \in [AccountId -> (0 .. BALANCE_MAX) \cup {None}]
         /\ max_bid' \in 0 .. BALANCE_MAX
         /\ \A i \in 1 .. Len(members) :
              /\ members'[i] = members[i] /\ members[i] # caller
              /\ bids'[members[i]] = bids[members[i]]
              /\ bids[members[i]] \in 0 .. BALANCE_MAX
              /\ amount >= bids[members[i]] \div 2
         /\ members'[Len(members) + 1] = caller /\ bids'[caller] = amount
<1>1. ~(bids_made >= SIZE) /\ ~(amount < max_bid \div 2) /\ caller \notin SeqToSet(members)
  BY DEF Rejection
<1>2. amount \in 0 .. BALANCE_MAX /\ amount # None
  BY GameAssumption
<1>3. /\ bids_made \in Nat /\ bids_made = Len(members) /\ SIZE \in Nat /\ max_bid \in Nat
      /\ members \in Seq(AccountId) /\ Len(members) \in Nat
  BY GameAssumption DEF TypeOK, GameConsistent, get_bids_made
<1>4. /\ members' = Append(members, caller) /\ members' \in Seq(AccountId)
      /\ Len(members') = Len(members) + 1 /\ members'[Len(members) + 1] = caller
      /\ \A i \in 1 .. Len(members) : members'[i] = members[i] /\ members[i] \in AccountId
  BY <1>3 DEF RecordBid
<1>5. /\ bids' = [bids EXCEPT ![caller] = amount] /\ bids'[caller] = amount
      /\ \A a \in AccountId \ {caller} : bids'[a] = bids[a]
      /\ bids' \in [AccountId -> (0 .. BALANCE_MAX) \cup {None}]
  BY <1>2 DEF RecordBid, TypeOK
<1>6. SeqToSet(members) = {members[i] : i \in 1 .. Len(members)}
  BY <1>3 DEF SeqToSet
<1>7. SeqToSet(members)' = SeqToSet(members) \cup {caller}
  <2>1. SeqToSet(members)' = {members'[i] : i \in 1 .. Len(members) + 1}
    BY <1>4 DEF SeqToSet
  <2>2. 1 .. Len(members) + 1 = (1 .. Len(members)) \cup {Len(members) + 1}
    BY <1>3
  <2>. QED BY <1>4, <1>6, <2>1, <2>2
<1>8. \A a \in SeqToSet(members) :
        /\ a \in AccountId \ {caller}
        /\ bids[a] \in 0 .. BALANCE_MAX /\ bids[a] <= max_bid
  <2>. SUFFICES ASSUME NEW a \in SeqToSet(members)
                PROVE  /\ a \in AccountId \ {caller}
                       /\ bids[a] \in 0 .. BALANCE_MAX /\ bids[a] <= max_bid
    OBVIOUS
  <2>1. a \in AccountId \ {caller}
    BY <1>1, <1>4, <1>6
  <2>2. bids[a] # None /\ bids[a] <= max_bid
    BY <2>1 DEF GameConsistent, get_my_bid, get_max_bid
  <2>. QED BY <2>1, <2>2 DEF TypeOK
<1>9. /\ max_bid' \in 0 .. BALANCE_MAX /\ max_bid <= max_bid' /\ amount <= max_bid'
      /\ max_bid' = max_bid \/ max_bid' = amount
  BY <1>2 DEF RecordBid, TypeOK
<1>10. \A a \in SeqToSet(members) : amount >= bids[a] \div 2
  <2>. SUFFICES ASSUME NEW a \in SeqToSet(members) PROVE amount >= bids[a] \div 2
    OBVIOUS
  <2>1. bids[a] \in Nat /\ bids[a] <= max_bid
    BY <1>8
  <2>2. amount \in Nat /\ amount >= max_bid \div 2
    BY <1>1, <1>2, <1>3
  <2>3. bids[a] \div 2 <= max_bid \div 2
    BY <1>3, <2>1
  <2>. QED BY <1>3, <2>1, <2>2, <2>3
<1>11. GameConsistent'
  <2>1. bids_made' = Len(members')
    BY <1>3, <1>4 DEF RecordBid
  <2>2. \A i, j \in 1 .. Len(members') : members'[i] = members'[j] => i = j
    <3>. SUFFICES ASSUME NEW i \in 1 .. Len(members'), NEW j \in 1 .. Len(members'),
                         members'[i] = members'[j], i < j
                  PROVE  FALSE
      BY <1>3, <1>4
    <3>1. i \in 1 .. Len(members)
      BY <1>3, <1>4
    <3>2. CASE j \in 1 .. Len(members)
      BY <1>3, <1>4, <3>1, <3>2 DEF GameConsistent
    <3>3. CASE j = Len(members) + 1
      BY <1>1, <1>4, <1>6, <3>1, <3>3
    <3>. QED BY <1>3, <1>4, <3>2, <3>3
  <2>3. \A a \in AccountId : bids'[a] # None <=> a \in SeqToSet(members)'
    BY <1>2, <1>5, <1>7 DEF GameConsistent, get_my_bid
  <2>4. \A a \in SeqToSet(members)' : bids'[a] <= max_bid'
    <3>. SUFFICES ASSUME NEW a \in SeqToSet(members)' PROVE bids'[a] <= max_bid'
      OBVIOUS
    <3>1. CASE a = caller
      BY <1>5, <1>9, <3>1
    <3>2. CASE a \in SeqToSet(members)
      <4>1. bids'[a] = bids[a] /\ bids[a] \in Nat /\ bids[a] <= max_bid
        BY <1>5, <1>8, <3>2
      <4>. QED BY <1>3, <1>9, <4>1
    <3>. QED BY <1>7, <3>1, <3>2
  <2>5. \E a \in SeqToSet(members)' : bids'[a] = max_bid'
    <3>1. CASE max_bid' = amount
      BY <1>5, <1>7, <3>1
    <3>2. CASE max_bid' = max_bid
      <4>1. PICK a \in SeqToSet(members) : bids[a] = max_bid
        BY DEF GameConsistent, get_my_bid, get_max_bid
      <4>. QED BY <1>5, <1>7, <1>8, <3>2, <4>1
    <3>. QED BY <1>9, <3>1, <3>2
  <2>. QED BY <2>1, <2>2, <2>3, <2>4, <2>5 DEF GameConsistent, get_bids_made, get_my_bid, get_max_bid
<1>12. \A i \in 1 .. Len(members) :
         /\ members'[i] = members[i] /\ members[i] # caller
         /\ bids'[members[i]] = bids[members[i]]
         /\ bids[members[i]] \in 0 .. BALANCE_MAX
         /\ amount >= bids[members[i]] \div 2
  <2>. SUFFICES ASSUME NEW i \in 1 .. Len(members)
                PROVE  /\ members'[i] = members[i] /\ members[i] # caller
                       /\ bids'[members[i]] = bids[members[i]]
                       /\ bids[members[i]] \in 0 .. BALANCE_MAX
                       /\ amount >= bids[members[i]] \div 2
    OBVIOUS
  <2>1. members[i] \in SeqToSet(members)
    BY <1>6
  <2>. QED BY <1>4, <1>5, <1>8, <1>10, <2>1
<1>13. bids_made < SIZE /\ bids_made' = bids_made + 1 /\ Len(members') <= SIZE
  BY <1>1, <1>3, <1>4 DEF RecordBid
<1>. QED BY <1>4, <1>5, <1>9, <1>11, <1>12, <1>13

(***************************************************************************)
(* Recording a bid leaves the events of the bids before it what they are   *)
(* and adds one.                                                           *)
(***************************************************************************)
LEMMA BidEventsGrow ==
  ASSUME TypeOK, GameConsistent,
         NEW caller \in AccountId, NEW amount \in Amounts,
         Rejection(caller, amount) = "none", RecordBid(caller, amount),
         log = BidEvents(Len(members))
  PROVE  /\ log = [i \in 1 .. Len(members) - 1 |-> BidMade(members'[i + 1], bids'[members'[i + 1]])]
         /\ Append(log, BidMade(caller, amount)) = BidEvents(Len(members))'
<1> DEFINE n == Len(members)
           event(i) == BidMade(members'[i + 1], bids'[members'[i + 1]])
           s == Append(log, BidMade(caller, amount))
           t == [i \in 1 .. n |-> event(i)]
<1>1. /\ Len(members') = n + 1 /\ members'[n + 1] = caller /\ bids'[caller] = amount
      /\ \A i \in 1 .. n : members'[i] = members[i] /\ bids'[members[i]] = bids[members[i]]
  BY RecordStep
<1>2. n \in Nat /\ n >= 1
  BY DEF TypeOK, GameConsistent, get_bids_made
<1>3. \A i \in 1 .. n - 1 : i + 1 \in 1 .. n /\ i \in 1 .. n
  BY <1>2
<1>4. \A i \in 1 .. n - 1 : event(i) = BidMade(members[i + 1], bids[members[i + 1]])
  BY <1>1, <1>3
<1>5. log = [i \in 1 .. n - 1 |-> event(i)]
  BY <1>4 DEF BidEvents
<1>6. event(n) = BidMade(caller, amount) /\ event(n) \in Event
  BY <1>1 DEF Event
<1>7. log \in Seq(Event) /\ Len(log) = n - 1
  <2>1. DOMAIN log = 1 .. n - 1 /\ log \in Seq(Event)
    BY <1>5 DEF TypeOK
  <2>. QED BY <1>2, <2>1
<1>8. s \in Seq(Event) /\ Len(s) = n /\ \A i \in 1 .. n : s[i] = event(i)
  <2>1. s \in Seq(Event) /\ Len(s) = n /\ s[n] = event(n)
    BY <1>2, <1>6, <1>7
  <2>2. \A i \in 1 .. n - 1 : s[i] = log[i] /\ log[i] = event(i)
    BY <1>2, <1>5, <1>7
  <2>3. \A i \in 1 .. n : i = n \/ i \in 1 .. n - 1
    BY <1>2
  <2> HIDE DEF s, event
  <2>. QED BY <2>1, <2>2, <2>3
<1>9. t \in Seq(Event) /\ Len(t) = n /\ \A i \in 1 .. n : t[i] = event(i)
  <2>1. \A i \in 1 .. n : event(i) \in Event
    BY <1>2, <1>8
  <2> HIDE DEF event
  <2>. QED BY <1>2, <2>1
<1>10. s = t
  <2> HIDE DEF s, t, event
  <2>. QED BY <1>8, <1>9, SeqEqual
<1>11. t = BidEvents(Len(members))'
  BY <1>1, <1>2 DEF BidEvents
<1>. QED BY <1>5, <1>10, <1>11

(***************************************************************************)
(* The prize of a full game, and what give_prize computes for the caller   *)
(* of the last bid.                                                        *)
(***************************************************************************)
AllBids == Sum([i \in 1 .. SIZE |-> bids[members[i]]], SIZE)

TotalWith(caller, amount) ==
  get_total_sum(Append(members, caller), [bids EXCEPT ![caller] = amount])

WinnerFor(caller, word) == Append(members, caller)[winner_pos(word) + 1]

(***************************************************************************)
(* A bid that is recorded, be it the last or one before, keeps the tokens  *)
(* the caller has left natural.                                            *)
(***************************************************************************)
LEMMA TokensSent ==
  ASSUME TypeOK, NEW caller \in AccountId, NEW value \in Values, value <= wallets[caller]
  PROVE  /\ value \in Nat /\ pot + value \in Nat /\ pot + value >= ExistentialDeposit
         /\ [wallets EXCEPT ![caller] = @ - value] \in [AccountId -> Nat]
<1>1. value \in Nat /\ wallets[caller] \in Nat /\ wallets \in [AccountId -> Nat]
  BY GameAssumption DEF TypeOK
<1>2. wallets[caller] - value \in Nat
  BY <1>1
<1>. QED BY <1>1, <1>2, NativeAssumption DEF TypeOK

LEMMA PlaceBidStep ==
  ASSUME IInv, NEW caller \in AccountId, NEW amount \in Amounts, NEW value \in Values,
         value <= wallets[caller], Rejection(caller, amount) = "none",
         bids_made + 1 # SIZE, PlaceBid(caller, amount, value)
  PROVE  IInv'
<1>1. TypeOK /\ GameConsistent /\ CompleteIffPaid /\ RecordBid(caller, amount)
  BY DEF IInv, PlaceBid
<1>2. /\ GameConsistent'
      /\ bids_made < SIZE /\ bids_made' = bids_made + 1
      /\ members' \in Seq(AccountId) /\ Len(members') <= SIZE
      /\ bids' \in [AccountId -> (0 .. BALANCE_MAX) \cup {None}]
      /\ max_bid' \in 0 .. BALANCE_MAX
  BY <1>1, RecordStep
<1>3. prize = None /\ prize' = None
  BY <1>1, <1>2, GameAssumption DEF CompleteIffPaid, PlaceBid, TypeOK
<1>4. bids_made' \in 1 .. SIZE /\ bids_made' # SIZE
  BY <1>1, <1>2, GameAssumption DEF TypeOK
<1>5. pot' \in Nat /\ pot' >= ExistentialDeposit /\ wallets' \in [AccountId -> Nat]
  BY <1>1, TokensSent DEF PlaceBid
<1>6. log' \in Seq(Event) /\ outcome' \in Outcomes
  <2>1. BidMade(caller, amount) \in Event
    BY DEF Event
  <2>2. log \in Seq(Event) /\ log' = Append(log, BidMade(caller, amount)) /\ outcome' = "Ok"
    BY <1>1 DEF PlaceBid, TypeOK
  <2>. QED BY <2>1, <2>2 DEF Outcomes
<1>7. TypeOK'
  BY <1>2, <1>3, <1>4, <1>5, <1>6 DEF TypeOK
<1>8. CompleteIffPaid'
  BY <1>3, <1>4 DEF CompleteIffPaid
<1>9. LogTellsGame'
  <2>1. log = BidEvents(Len(members))
    BY <1>3 DEF IInv, LogTellsGame
  <2>2. log' = Append(log, BidMade(caller, amount))
    BY DEF PlaceBid
  <2>3. log' = BidEvents(Len(members))'
    BY <1>1, <2>1, <2>2, BidEventsGrow
  <2>. QED BY <1>3, <2>3 DEF LogTellsGame
<1>. QED BY <1>2, <1>7, <1>8, <1>9 DEF IInv

LEMMA PositionIsNatural ==
  ASSUME NEW word \in Words
  PROVE  winner_pos(word) \in Nat
<1>. QED BY GameAssumption DEF winner_pos, gen_range

(***************************************************************************)
(* The members' bids and their sum, once the last bid is recorded.         *)
(***************************************************************************)
LEMMA PrizeIsAllBids ==
  ASSUME TypeOK, GameConsistent,
         NEW caller \in AccountId, NEW amount \in Amounts,
         Rejection(caller, amount) = "none", RecordBid(caller, amount),
         bids_made + 1 = SIZE
  PROVE  TotalWith(caller, amount) \in Nat /\ TotalWith(caller, amount) = AllBids'
         /\ Len(members') = SIZE
<1> DEFINE d == [i \in 1 .. SIZE |-> bids'[members'[i]]]
<1>1. /\ members' = Append(members, caller) /\ Len(members') = Len(members) + 1
      /\ bids' = [bids EXCEPT ![caller] = amount]
      /\ \A i \in 1 .. Len(members) :
           members'[i] = members[i] /\ bids'[members[i]] = bids[members[i]]
             /\ bids[members[i]] \in 0 .. BALANCE_MAX
      /\ members'[Len(members) + 1] = caller /\ bids'[caller] = amount
  BY RecordStep
<1>2. Len(members) + 1 = SIZE /\ SIZE \in Nat /\ Len(members) \in Nat
  BY GameAssumption DEF GameConsistent, get_bids_made, TypeOK
<1>3. amount \in Nat /\ BALANCE_MAX \in Nat
  BY GameAssumption
<1>4. \A i \in 1 .. SIZE : d[i] \in Int /\ 0 <= d[i]
  <2>. SUFFICES ASSUME NEW i \in 1 .. SIZE PROVE d[i] \in Nat
    OBVIOUS
  <2>1. CASE i = SIZE
    BY <1>1, <1>2, <1>3, <2>1
  <2>2. CASE i \in 1 .. Len(members)
    BY <1>1, <1>2, <1>3, <2>2
  <2>. QED BY <1>2, <2>1, <2>2
<1>5. Sum(d, SIZE) \in Nat
  <2> DEFINE z == [i \in 1 .. SIZE |-> 0]
  <2>1. Sum(z, SIZE) = SIZE * 0
    <3>1. \A i \in 1 .. SIZE : z[i] = 0
      OBVIOUS
    <3> HIDE DEF z
    <3>. QED BY <1>2, <3>1, SumConstant
  <2>2. \A i \in 1 .. SIZE : z[i] \in Int /\ d[i] \in Int /\ z[i] <= d[i]
    BY <1>4
  <2>3. Sum(z, SIZE) <= Sum(d, SIZE) /\ Sum(d, SIZE) \in Int
    <3> HIDE DEF z, d
    <3>. QED BY <1>2, <1>4, <2>2, SumMonotone, SumInt
  <2> HIDE DEF z, d
  <2>. QED BY <1>2, <2>1, <2>3
<1>6. get_total_sum(Append(members, caller), [bids EXCEPT ![caller] = amount]) = Sum(d, SIZE)
  <2>1. get_total_sum(Append(members, caller), [bids EXCEPT ![caller] = amount])
          = get_total_sum(members', bids')
    BY <1>1
  <2>. QED BY <1>1, <1>2, <2>1 DEF get_total_sum
<1>. QED BY <1>1, <1>2, <1>5, <1>6 DEF TotalWith, AllBids

(***************************************************************************)
(* The last bid, when it is not undone.                                    *)
(***************************************************************************)
LEMMA PayPrizeStep ==
  ASSUME IInv, NEW caller \in AccountId, NEW amount \in Amounts, NEW value \in Values,
         NEW word \in Words, NEW winner, NEW total,
         total = TotalWith(caller, amount), winner = WinnerFor(caller, word),
         value <= wallets[caller], Rejection(caller, amount) = "none",
         bids_made + 1 = SIZE,
         total <= BALANCE_MAX, winner_pos(word) < Len(Append(members, caller)),
         pot + value >= total + ExistentialDeposit,
         PayPrize(caller, amount, value, winner, total)
  PROVE  /\ IInv'
         /\ total = AllBids' /\ \E i \in 1 .. SIZE : winner = members'[i]
<1>1. TypeOK /\ GameConsistent /\ CompleteIffPaid /\ RecordBid(caller, amount)
  BY DEF IInv, PayPrize
<1>2. /\ GameConsistent'
      /\ bids_made' = bids_made + 1 /\ members' = Append(members, caller)
      /\ members' \in Seq(AccountId) /\ Len(members') <= SIZE
      /\ bids' \in [AccountId -> (0 .. BALANCE_MAX) \cup {None}]
      /\ max_bid' \in 0 .. BALANCE_MAX
  BY <1>1, RecordStep
<1>3. total \in Nat /\ Len(members') = SIZE /\ total = AllBids'
  BY <1>1, PrizeIsAllBids
<1>4. /\ winner_pos(word) + 1 \in 1 .. SIZE /\ winner = members'[winner_pos(word) + 1]
      /\ winner \in AccountId /\ winner \in SeqToSet(members)'
  <2>1. winner_pos(word) + 1 \in 1 .. SIZE
    BY <1>2, <1>3, PositionIsNatural, GameAssumption
  <2>2. winner = members'[winner_pos(word) + 1]
    BY <1>2 DEF WinnerFor
  <2>3. SeqToSet(members)' = {members'[i] : i \in 1 .. SIZE}
    BY <1>2, <1>3 DEF SeqToSet
  <2>4. winner \in AccountId
    BY <1>2, <1>3, <2>1, <2>2
  <2>. QED BY <2>1, <2>2, <2>3, <2>4
<1>5. /\ pot + value \in Nat
      /\ [wallets EXCEPT ![caller] = @ - value] \in [AccountId -> Nat]
  BY <1>1, TokensSent
<1>6. pot' \in Nat /\ pot' >= ExistentialDeposit
  <2>1. pot \in Nat /\ value \in Nat /\ ExistentialDeposit \in Nat
    BY <1>1, GameAssumption, NativeAssumption DEF TypeOK
  <2>2. pot' = pot + value - total /\ total \in Nat
    BY <1>3 DEF PayPrize
  <2>3. pot + value - total >= ExistentialDeposit
    BY <2>1, <2>2
  <2>. QED BY <2>1, <2>2, <2>3
<1>7. wallets' \in [AccountId -> Nat]
  <2> DEFINE paid == [wallets EXCEPT ![caller] = @ - value]
  <2>1. paid \in [AccountId -> Nat] /\ paid[winner] + total \in Nat
    BY <1>3, <1>4, <1>5
  <2>2. wallets' = [paid EXCEPT ![winner] = paid[winner] + total]
    BY DEF PayPrize
  <2> HIDE DEF paid
  <2>. QED BY <2>1, <2>2
<1>8. /\ prize' = [winner |-> winner, amount |-> total]
      /\ prize' \in [winner : AccountId, amount : 0 .. BALANCE_MAX]
  BY <1>3, <1>4, GameAssumption DEF PayPrize
<1>9. prize' # None
  <2>1. prize' \in [winner : AccountId, amount : Nat]
    BY <1>3, <1>4, <1>8
  <2>. QED BY <2>1, GameAssumption
<1>10. log' \in Seq(Event) /\ outcome' \in Outcomes
  <2>1. BidMade(caller, amount) \in Event /\ MaxBidsReached \in Event /\ PrizeTransfered \in Event
    BY DEF Event
  <2>2. <<MaxBidsReached, PrizeTransfered, BidMade(caller, amount)>> \in Seq(Event)
    BY <2>1
  <2>3. /\ log \in Seq(Event) /\ outcome' = "Ok"
        /\ log' = log \o <<MaxBidsReached, PrizeTransfered, BidMade(caller, amount)>>
    BY <1>1 DEF PayPrize, TypeOK
  <2>. QED BY <2>2, <2>3 DEF Outcomes
<1>11. TypeOK'
  <2>1. bids_made' \in 1 .. SIZE
    BY <1>1, <1>2, GameAssumption DEF TypeOK
  <2>. QED BY <1>2, <1>6, <1>7, <1>8, <1>10, <2>1 DEF TypeOK
<1>12. CompleteIffPaid'
  BY <1>2, <1>3, <1>4, <1>8, <1>9 DEF CompleteIffPaid, AllBids
<1>13. LogTellsGame'
  <2>1. prize = None
    BY <1>1, GameAssumption DEF CompleteIffPaid, TypeOK
  <2>2. log = BidEvents(Len(members))
    BY <2>1 DEF IInv, LogTellsGame
  <2>3. log = [i \in 1 .. Len(members) - 1 |-> BidMade(members'[i + 1], bids'[members'[i + 1]])]
    BY <1>1, <2>2, BidEventsGrow
  <2>4. Len(members) = SIZE - 1 /\ SIZE \in Nat
    BY <1>1, GameAssumption DEF GameConsistent, get_bids_made
  <2>5. log = BidEvents(SIZE - 1)'
    BY <2>3, <2>4 DEF BidEvents
  <2>6. members'[SIZE] = caller /\ bids'[members'[SIZE]] = amount
    BY <1>1, <2>4, RecordStep
  <2>7. log' = log \o <<MaxBidsReached, PrizeTransfered, BidMade(caller, amount)>>
    BY DEF PayPrize
  <2>. QED BY <1>9, <2>5, <2>6, <2>7 DEF LogTellsGame
<1>. QED BY <1>2, <1>3, <1>4, <1>11, <1>12, <1>13 DEF IInv

(***************************************************************************)
(* A call fails, or it records a bid that was not rejected: as PlaceBid    *)
(* does, or as PayPrize does.                                              *)
(***************************************************************************)
LEMMA FailureStep ==
  ASSUME IInv, NEW error \in Outcomes, Fails(error)
  PROVE  IInv'
<1>1. /\ UNCHANGED <<bids_made, members, bids, max_bid, pot, wallets, prize, log>>
      /\ outcome' \in Outcomes
  BY DEF Fails, game, native
<1>2. TypeOK'
  BY <1>1 DEF IInv, TypeOK
<1>3. GameConsistent'
  BY <1>1 DEF IInv, GameConsistent, get_bids_made, get_my_bid, get_max_bid, SeqToSet
<1>4. CompleteIffPaid'
  BY <1>1 DEF IInv, CompleteIffPaid, SeqToSet
<1>5. LogTellsGame'
  BY <1>1 DEF IInv, LogTellsGame, BidEvents
<1>. QED BY <1>2, <1>3, <1>4, <1>5 DEF IInv

LEMMA CallStep ==
  ASSUME IInv, NEW caller \in AccountId, NEW amount \in Amounts, NEW value \in Values,
         NEW word \in Words, add_bid(caller, amount, value, word)
  PROVE  /\ IInv'
         /\ \/ \E error \in Outcomes : Fails(error)
            \/ /\ Rejection(caller, amount) = "none" /\ RecordBid(caller, amount)
               /\ \/ bids_made + 1 # SIZE /\ UNCHANGED prize
                  \/ /\ bids_made + 1 = SIZE
                     /\ \E i \in 1 .. SIZE :
                          prize' = [winner |-> members'[i], amount |-> AllBids']
<1>0. value <= wallets[caller]
  BY DEF add_bid
<1>1. CASE Rejection(caller, amount) # "none"
  <2>1. Rejection(caller, amount) \in Outcomes
    BY <1>1 DEF Rejection, Outcomes
  <2>2. Fails(Rejection(caller, amount))
    BY <1>1 DEF add_bid
  <2>. QED BY <2>1, <2>2, FailureStep
<1>2. CASE Rejection(caller, amount) = "none" /\ bids_made + 1 # SIZE
  <2>1. PlaceBid(caller, amount, value)
    BY <1>2 DEF add_bid
  <2>. QED BY <1>0, <1>2, <2>1, PlaceBidStep DEF PlaceBid
<1>3. CASE Rejection(caller, amount) = "none" /\ bids_made + 1 = SIZE
  <2> DEFINE total == TotalWith(caller, amount)
             winner == WinnerFor(caller, word)
  <2>1. give_prize(caller, amount, value, word)
    BY <1>3 DEF add_bid
  <2>2. CASE \E error \in Outcomes : Fails(error)
    BY <2>2, FailureStep
  <2>3. CASE /\ total <= BALANCE_MAX /\ winner_pos(word) < Len(Append(members, caller))
             /\ pot + value >= total + ExistentialDeposit
             /\ PayPrize(caller, amount, value, winner, total)
    <3>1. IInv' /\ total = AllBids' /\ \E i \in 1 .. SIZE : winner = members'[i]
      BY <1>0, <1>3, <2>3, PayPrizeStep
    <3>2. RecordBid(caller, amount) /\ prize' = [winner |-> winner, amount |-> total]
      BY <2>3 DEF PayPrize
    <3> HIDE DEF total, winner
    <3>. QED BY <1>3, <3>1, <3>2
  <2>4. \/ \E error \in Outcomes : Fails(error)
        \/ /\ total <= BALANCE_MAX /\ winner_pos(word) < Len(Append(members, caller))
           /\ pot + value >= total + ExistentialDeposit
           /\ PayPrize(caller, amount, value, winner, total)
    <3>1. {"overflow", "no winner", "Prize transfer failed!"} \subseteq Outcomes
      BY DEF Outcomes
    <3>. QED BY <2>1, <3>1 DEF give_prize, TotalWith, WinnerFor
  <2>. QED BY <2>2, <2>3, <2>4
<1>. QED BY <1>1, <1>2, <1>3

LEMMA NextPreserves == IInv /\ [Next]_vars => IInv'
<1>. SUFFICES ASSUME IInv, [Next]_vars PROVE IInv'
  OBVIOUS
<1>1. CASE Next
  BY <1>1, CallStep DEF Next
<1>2. CASE UNCHANGED vars
  <2>1. UNCHANGED <<bids_made, members, bids, max_bid, pot, wallets, prize, log, outcome>>
    BY <1>2 DEF vars, game, native
  <2>2. TypeOK'
    BY <2>1 DEF IInv, TypeOK
  <2>3. GameConsistent'
    BY <2>1 DEF IInv, GameConsistent, get_bids_made, get_my_bid, get_max_bid, SeqToSet
  <2>4. CompleteIffPaid'
    BY <2>1 DEF IInv, CompleteIffPaid, SeqToSet
  <2>5. LogTellsGame'
    BY <2>1 DEF IInv, LogTellsGame, BidEvents
  <2>. QED BY <2>2, <2>3, <2>4, <2>5 DEF IInv
<1>. QED BY <1>1, <1>2

LEMMA Invariance == Spec => []IInv
<1>. QED BY InitEstablishes, NextPreserves, PTL DEF Spec

\* In every reachable state the storage, the tokens and the events have
\* their types, and no more members than the game is for.
THEOREM TypeCorrect == Spec => []TypeOK
<1>1. IInv => TypeOK
  BY DEF IInv
<1>. QED BY <1>1, Invariance, PTL

\* In every reachable state the four storage items agree (lines 102 to
\* 107), whatever was bid, rejected and undone.
THEOREM StorageAgrees == Spec => []GameConsistent
<1>1. IInv => GameConsistent
  BY DEF IInv
<1>. QED BY <1>1, Invariance, PTL

\* In every reachable state the game is complete exactly if its prize, the
\* sum of all bids, has been paid to a member (lines 108 to 149).
THEOREM CompleteOnlyIfPaid == Spec => []CompleteIffPaid
<1>1. IInv => CompleteIffPaid
  BY DEF IInv
<1>. QED BY <1>1, Invariance, PTL

\* In every reachable state the events of the contract, in their order, are
\* those of the bids after the first, with the end of the game and the prize
\* before the last of them once there is one (lines 108 to 116).
THEOREM EventsTellTheGame == Spec => []LogTellsGame
<1>1. IInv => LogTellsGame
  BY DEF IInv
<1>. QED BY <1>1, Invariance, PTL
-----------------------------------------------------------------------------
(***************************************************************************)
(* The refinement of Lottery.                                              *)
(***************************************************************************)
EntriesOf(ms, bs) == [i \in 1 .. Len(ms) |-> [member |-> ms[i], bid |-> bs[ms[i]]]]

Entries == EntriesOf(members, bids)

Entry == [member : AccountId, bid : (0 .. BALANCE_MAX) \cup {None}]

LEMMA EntriesAreEntries ==
  ASSUME NEW ms \in Seq(AccountId),
         NEW bs \in [AccountId -> (0 .. BALANCE_MAX) \cup {None}]
  PROVE  /\ EntriesOf(ms, bs) \in Seq(Entry) /\ Len(EntriesOf(ms, bs)) = Len(ms)
         /\ \A i \in 1 .. Len(ms) :
              /\ EntriesOf(ms, bs)[i] = [member |-> ms[i], bid |-> bs[ms[i]]]
              /\ EntriesOf(ms, bs)[i].member = ms[i] /\ EntriesOf(ms, bs)[i].bid = bs[ms[i]]
<1>1. \A i \in 1 .. Len(ms) : [member |-> ms[i], bid |-> bs[ms[i]]] \in Entry
  BY DEF Entry
<1>2. EntriesOf(ms, bs) \in [1 .. Len(ms) -> Entry]
  BY <1>1 DEF EntriesOf
<1>3. EntriesOf(ms, bs) \in Seq(Entry) /\ Len(EntriesOf(ms, bs)) = Len(ms)
  BY <1>2
<1>. QED BY <1>3 DEF EntriesOf

LEMMA EntriesGrow ==
  ASSUME TypeOK, TypeOK', GameConsistent,
         NEW caller \in AccountId, NEW amount \in Amounts,
         Rejection(caller, amount) = "none", RecordBid(caller, amount)
  PROVE  Entries' = Append(Entries, [member |-> caller, bid |-> amount])
<1> DEFINE e == [member |-> caller, bid |-> amount]
<1>1. /\ Entries \in Seq(Entry) /\ Len(Entries) = Len(members) /\ Len(members) \in Nat
      /\ \A i \in 1 .. Len(members) : Entries[i] = [member |-> members[i], bid |-> bids[members[i]]]
  BY EntriesAreEntries DEF TypeOK, Entries
<1>2. /\ Entries' \in Seq(Entry) /\ Len(Entries') = Len(members')
      /\ \A i \in 1 .. Len(members') :
           Entries'[i] = [member |-> members'[i], bid |-> bids'[members'[i]]]
  BY EntriesAreEntries DEF TypeOK, Entries
<1>3. /\ Len(members') = Len(members) + 1
      /\ \A i \in 1 .. Len(members) :
           members'[i] = members[i] /\ bids'[members[i]] = bids[members[i]]
      /\ members'[Len(members) + 1] = caller /\ bids'[caller] = amount
  BY RecordStep
<1>4. e \in Entry
  BY GameAssumption DEF Entry
<1>5. /\ Append(Entries, e) \in Seq(Entry) /\ Len(Append(Entries, e)) = Len(members) + 1
      /\ \A i \in 1 .. Len(members) : Append(Entries, e)[i] = Entries[i]
      /\ Append(Entries, e)[Len(members) + 1] = e
  <2> HIDE DEF e, Entry
  <2>. QED BY <1>1, <1>4
<1>6. \A i \in 1 .. Len(members) + 1 : Entries'[i] = Append(Entries, e)[i]
  <2>. SUFFICES ASSUME NEW i \in 1 .. Len(members) + 1 PROVE Entries'[i] = Append(Entries, e)[i]
    OBVIOUS
  <2>1. CASE i = Len(members) + 1
    BY <1>1, <1>2, <1>3, <1>5, <2>1
  <2>2. CASE i \in 1 .. Len(members)
    <3>1. Entries'[i] = [member |-> members[i], bid |-> bids[members[i]]]
      BY <1>1, <1>2, <1>3, <2>2
    <3>. QED BY <1>1, <1>5, <2>2, <3>1
  <2>. QED BY <1>1, <2>1, <2>2
<1>. QED
  <2> DEFINE s == Entries'
             t == Append(Entries, e)
  <2>1. s \in Seq(Entry) /\ t \in Seq(Entry) /\ Len(s) = Len(t)
        /\ \A i \in 1 .. Len(s) : s[i] = t[i]
    BY <1>2, <1>3, <1>5, <1>6
  <2>2. s = t
    <3> HIDE DEF s, t
    <3>. QED BY <2>1, SeqEqual
  <2>. QED BY <2>2

\* Every behaviour of the contract is one of a lottery: a call that fails
\* or is undone changes nothing in it, a bid enters it, and the last bid
\* also ends it (lines 86 to 149).
THEOREM Refinement == Spec => ImplementsLottery
<1>1. Init => L!Init
  <2>. SUFFICES ASSUME Init PROVE L!Init
    OBVIOUS
  <2>1. PICK caller \in AccountId, first_bid \in Amounts, endowment \in Endowments :
          new(caller, first_bid, endowment)
    BY DEF Init
  <2>2. Entries = <<[member |-> caller, bid |-> first_bid]>>
    BY <2>1 DEF new, Entries, EntriesOf
  <2>. QED BY <2>2 DEF Init, L!Init, Entries, EntriesOf
<1>2. IInv /\ IInv' /\ [Next]_vars => [L!Next]_L!vars
  <2>. SUFFICES ASSUME IInv, IInv', [Next]_vars PROVE [L!Next]_L!vars
    OBVIOUS
  <2>1. CASE UNCHANGED vars
    BY <2>1 DEF vars, game, native, L!vars
  <2>2. CASE Next
    <3>1. PICK caller \in AccountId, amount \in Amounts, value \in Values, word \in Words :
            add_bid(caller, amount, value, word)
      BY <2>2 DEF Next
    <3>2. CASE \E error \in Outcomes : Fails(error)
      BY <3>2 DEF Fails, game, native, L!vars
    <3>3. CASE /\ Rejection(caller, amount) = "none" /\ RecordBid(caller, amount)
               /\ \/ bids_made + 1 # SIZE /\ UNCHANGED prize
                  \/ /\ bids_made + 1 = SIZE
                     /\ \E i \in 1 .. SIZE :
                          prize' = [winner |-> members'[i], amount |-> AllBids']
      <4>1. TypeOK /\ GameConsistent /\ TypeOK'
        BY DEF IInv
      <4>2. Entries' = Append(Entries, [member |-> caller, bid |-> amount])
        BY <3>3, <4>1, EntriesGrow
      <4>3. /\ Len(Entries) = Len(members) /\ Len(members) \in Nat
            /\ \A i \in 1 .. Len(members) :
                 Entries[i].member = members[i] /\ Entries[i].bid = bids[members[i]]
            /\ bids_made = Len(members)
        <5>1. /\ members \in Seq(AccountId) /\ bids_made = Len(members)
              /\ bids \in [AccountId -> (0 .. BALANCE_MAX) \cup {None}]
          BY <4>1 DEF TypeOK, GameConsistent, get_bids_made
        <5>2. /\ Len(EntriesOf(members, bids)) = Len(members)
              /\ \A i \in 1 .. Len(members) :
                   /\ EntriesOf(members, bids)[i].member = members[i]
                   /\ EntriesOf(members, bids)[i].bid = bids[members[i]]
          BY <5>1, EntriesAreEntries
        <5>3. Len(members) \in Nat
          BY <5>1
        <5>. QED BY <5>1, <5>2, <5>3 DEF Entries
      <4>4. /\ bids_made < SIZE /\ Len(members') = Len(members) + 1
            /\ \A i \in 1 .. Len(members) :
                 members[i] # caller /\ amount >= bids[members[i]] \div 2
        BY <3>3, <4>1, RecordStep
      <4>5. /\ Len(Entries') = Len(members')
            /\ \A i \in 1 .. Len(members') :
                 Entries'[i].member = members'[i] /\ Entries'[i].bid = bids'[members'[i]]
        BY <4>1, EntriesAreEntries DEF Entries, TypeOK
      <4>6. /\ Len(Entries) < SIZE
            /\ \A i \in 1 .. Len(Entries) :
                 Entries[i].member # caller /\ amount >= Entries[i].bid \div 2
        BY <4>3, <4>4
      <4>7. IF Len(Entries') = SIZE
            THEN \E i \in 1 .. SIZE :
                   prize' = [winner |-> Entries'[i].member, amount |-> L!AllBids(Entries')]
            ELSE UNCHANGED prize
        <5>1. Len(Entries') = SIZE <=> bids_made + 1 = SIZE
          BY <4>3, <4>4, <4>5, GameAssumption
        <5>2. ASSUME bids_made + 1 = SIZE
              PROVE  L!AllBids(Entries') = AllBids'
          <6>1. Len(Entries') = SIZE
            BY <5>1, <5>2
          <6>2. \A i \in 1 .. SIZE : Entries'[i].bid = bids'[members'[i]]
            BY <4>5, <6>1
          <6>3. [i \in 1 .. Len(Entries') |-> Entries'[i].bid]
                  = [i \in 1 .. SIZE |-> bids'[members'[i]]]
            BY <6>1, <6>2
          <6>4. L!AllBids(Entries') = Sum([i \in 1 .. Len(Entries') |-> Entries'[i].bid], Len(Entries'))
            BY DEF L!AllBids, L!Sum, Sum
          <6>5. AllBids' = Sum([i \in 1 .. SIZE |-> bids'[members'[i]]], SIZE)
            BY DEF AllBids
          <6>. QED BY <6>1, <6>3, <6>4, <6>5
        <5>3. \A i \in 1 .. SIZE : bids_made + 1 = SIZE => Entries'[i].member = members'[i]
          BY <4>5, <5>1
        <5>. QED BY <3>3, <5>1, <5>2, <5>3
      <4>8. L!Enter(caller, amount)
        BY <4>2, <4>6, <4>7 DEF L!Enter, Entries, EntriesOf
      <4>. QED BY <4>8 DEF L!Next
    <3>. QED BY <3>1, <3>2, <3>3, CallStep
  <2>. QED BY <2>1, <2>2
<1>. QED
  BY <1>1, <1>2, Invariance, PTL DEF Spec, ImplementsLottery, L!Spec
===============================================================================
