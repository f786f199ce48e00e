----------------------------- MODULE Erc20Proofs -----------------------------
(***************************************************************************)
(* The ERC-20 contract for any number of accounts, any width of a balance  *)
(* and any calls.  The invariant is inductive as a conjunction of the      *)
(* properties: a transfer's addition fits because the balances add up to a *)
(* supply that fits, and they go on adding up because nothing wrapped.     *)
(***************************************************************************)
EXTENDS Erc20, SumsProofs

IInv == TypeOK /\ SupplyConserved /\ WithdrawnWithinGrant /\ EventsTellBalances

(***************************************************************************)
(* What a transfer does to the table of balances: it moves tokens from one *)
(* entry to another, or nothing when the two are the same, and neither the *)
(* sum nor the range of the entries changes.                               *)
(***************************************************************************)
LEMMA MovedEntries ==
  ASSUME TypeOK, NEW from \in AccountId, NEW to \in AccountId, NEW value \in Nat
  PROVE  /\ DOMAIN Moved(from, to, value) = AccountId
         /\ \A a \in AccountId : Moved(from, to, value)[a] =
              IF from = to THEN balances[a]
              ELSE IF a = from THEN balances[a] - value
              ELSE IF a = to THEN balances[a] + value
              ELSE balances[a]
<1>1. balances \in [AccountId -> Balance] /\ \A a \in AccountId : balances[a] \in Int
  BY DEF TypeOK, Balance
<1>. QED BY <1>1 DEF Moved

LEMMA MovedKeepsSum ==
  ASSUME TypeOK, NEW from \in AccountId, NEW to \in AccountId, NEW value \in Nat,
         value <= balances[from]
  PROVE  /\ Sum(Moved(from, to, value), N) = Sum(balances, N)
         /\ \A a \in AccountId : Moved(from, to, value)[a] \in Nat
<1> DEFINE M == Moved(from, to, value)
           D == [a \in AccountId |-> IF a = from THEN balances[a] - value ELSE balances[a]]
<1>1. N \in Nat /\ AccountId = 1 .. N /\ \A a \in AccountId : balances[a] \in Nat
  BY TokenAssumption DEF TypeOK, Balance, AccountId
<1>2. \A a \in AccountId :
        M[a] = IF from = to THEN balances[a]
               ELSE IF a = from THEN balances[a] - value
               ELSE IF a = to THEN balances[a] + value
               ELSE balances[a]
  BY MovedEntries
<1>3. \A a \in AccountId : M[a] \in Nat
  BY <1>1, <1>2
<1>4. Sum(D, N) = Sum(balances, N) - balances[from] + D[from]
  <2>1. D[from] = balances[from] - value /\ \A a \in 1 .. N : a # from => D[a] = balances[a]
    BY <1>1
  <2>2. D[from] \in Int /\ \A a \in 1 .. N : balances[a] \in Int
    BY <1>1
  <2>. HIDE DEF D
  <2>. QED BY <1>1, <2>1, <2>2, SumUpdate
<1>5. Sum(M, N) = Sum(D, N) - D[to] + M[to]
  <2>1. M[to] = D[to] + value /\ \A a \in 1 .. N : a # to => M[a] = D[a]
    BY <1>1, <1>2
  <2>2. M[to] \in Int /\ \A a \in 1 .. N : D[a] \in Int
    BY <1>1, <1>3
  <2>. HIDE DEF D, M
  <2>. QED BY <1>1, <2>1, <2>2, SumUpdate
<1>6. Sum(balances, N) \in Int
  <2>1. \A a \in 1 .. N : balances[a] \in Int
    BY <1>1
  <2>. QED BY <1>1, <2>1, SumInt
<1>7. Sum(M, N) = Sum(balances, N)
  <2>1. M[to] = D[to] + value /\ D[from] = balances[from] - value /\ D[to] \in Int
    BY <1>1, <1>2
  <2>. HIDE DEF M, D
  <2>. QED BY <1>1, <1>4, <1>5, <1>6, <2>1
<1>. QED BY <1>3, <1>7

(***************************************************************************)
(* As long as the balances add up to the supply, no balance a transfer     *)
(* produces exceeds the supply.                                            *)
(***************************************************************************)
LEMMA MovedFits ==
  ASSUME TypeOK, SupplyConserved,
         NEW from \in AccountId, NEW to \in AccountId, NEW value \in Nat,
         value <= balances[from]
  PROVE  \A a \in AccountId : Moved(from, to, value)[a] \in Balance
<1> DEFINE M == Moved(from, to, value)
<1>1. N \in Nat /\ BALANCE_MAX \in Nat /\ AccountId = 1 .. N
  BY TokenAssumption DEF AccountId
<1>2. Sum(M, N) = total_supply /\ \A a \in 1 .. N : M[a] \in Nat
  BY <1>1, MovedKeepsSum DEF SupplyConserved
<1>3. total_supply \in 0 .. BALANCE_MAX
  BY DEF TypeOK, Balance
<1>. HIDE DEF M
<1>4. \A a \in 1 .. N : M[a] <= Sum(M, N)
  BY <1>1, <1>2, SumEntry
<1>5. \A a \in 1 .. N : M[a] \in 0 .. BALANCE_MAX
  BY <1>1, <1>2, <1>3, <1>4
<1>. QED BY <1>1, <1>5 DEF M, Balance

LEMMA InitEstablishes ==
  ASSUME Init PROVE IInv
<1>1. PICK caller \in AccountId, initial_supply \in Supplies : new(caller, initial_supply)
  BY DEF Init
<1>2. N \in Nat /\ AccountId = 1 .. N /\ initial_supply \in Balance /\ BALANCE_MAX \in Nat
  BY TokenAssumption DEF AccountId
<1>3. TypeOK
  BY <1>1, <1>2 DEF TypeOK, Init, new, Balance
<1>4. SupplyConserved
  <2> DEFINE Z == [a \in 1 .. N |-> 0]
  <2>1. /\ balances[caller] = initial_supply
        /\ \A a \in 1 .. N : a # caller => balances[a] = Z[a]
        /\ \A a \in 1 .. N : Z[a] = 0
        /\ \A a \in 1 .. N : Z[a] \in Int
        /\ balances[caller] \in Int
        /\ Z[caller] = 0
    BY <1>1, <1>2 DEF new, Balance
  <2>. HIDE DEF Z
  <2>2. Sum(balances, N) = Sum(Z, N) - Z[caller] + balances[caller]
    BY <1>2, <2>1, SumUpdate
  <2>3. Sum(Z, N) = N * 0
    BY <1>2, <2>1, SumConstant
  <2>. QED BY <1>1, <1>2, <2>1, <2>2, <2>3 DEF SupplyConserved, new
<1>5. WithdrawnWithinGrant
  BY <1>1, TokenAssumption DEF WithdrawnWithinGrant, Init, new, allowance
<1>6. EventsTellBalances
  BY <1>1 DEF EventsTellBalances, new
<1>. QED BY <1>3, <1>4, <1>5, <1>6 DEF IInv

(***************************************************************************)
(* The part of a step that transfer and transfer_from share.               *)
(***************************************************************************)
LEMMA TransferKeeps ==
  ASSUME IInv, UNCHANGED total_supply,
         NEW from \in AccountId, NEW to \in AccountId, NEW value \in Amounts,
         transfer_from_to(from, to, value)
  PROVE  /\ balances' \in [AccountId -> Balance]
         /\ SupplyConserved'
         /\ balances[from] - balances'[from] \in 0 .. value
         /\ EventsTellBalances'
         /\ ledger' \in [AccountId -> Int]
<1>1. TypeOK /\ SupplyConserved /\ value \in Nat /\ value <= balances[from]
  BY TokenAssumption DEF IInv, transfer_from_to, balance_of, Balance
<1>2. balances' = Moved(from, to, value)
  BY DEF transfer_from_to
<1>3. balances' \in [AccountId -> Balance]
  <2>1. \A a \in AccountId : Moved(from, to, value)[a] \in Balance
    BY <1>1, MovedFits
  <2>2. Moved(from, to, value) = [a \in AccountId |-> Moved(from, to, value)[a]]
    BY <1>1 DEF Moved, TypeOK
  <2>. HIDE DEF Moved
  <2>. QED BY <1>2, <2>1, <2>2
<1>4. SupplyConserved'
  BY <1>1, <1>2, MovedKeepsSum DEF SupplyConserved
<1>5. balances[from] - balances'[from] \in 0 .. value
  <2>1. balances'[from] = IF from = to THEN balances[from] ELSE balances[from] - value
    BY <1>1, <1>2, MovedEntries
  <2>2. balances[from] \in Int
    BY <1>1 DEF TypeOK, Balance
  <2>. QED BY <1>1, <2>1, <2>2
<1>6. EventsTellBalances'
  <2>1. ledger = balances /\ balances \in [AccountId -> Balance]
        /\ \A a \in AccountId : balances[a] \in Int
    BY <1>1 DEF IInv, TypeOK, EventsTellBalances, Balance
  <2>2. ledger' = [a \in AccountId |-> balances[a] - (IF a = from THEN value ELSE 0)
                                                  + (IF a = to THEN value ELSE 0)]
    BY <2>1 DEF transfer_from_to, Transfer
  <2>3. \A a \in AccountId :
          balances'[a] = balances[a] - (IF a = from THEN value ELSE 0)
                                     + (IF a = to THEN value ELSE 0)
    BY <1>1, <1>2, <2>1, MovedEntries
  <2>4. balances' = [a \in AccountId |-> balances'[a]]
    BY <1>3
  <2>. QED BY <2>2, <2>3, <2>4 DEF EventsTellBalances
<1>7. ledger' \in [AccountId -> Int]
  BY <1>3, <1>6 DEF EventsTellBalances, Balance
<1>. QED BY <1>3, <1>4, <1>5, <1>6, <1>7

LEMMA TransferStep ==
  ASSUME IInv, NEW caller \in AccountId, NEW to \in AccountId, NEW value \in Amounts,
         transfer(caller, to, value)
  PROVE  IInv'
<1>1. transfer_from_to(caller, to, value)
      /\ UNCHANGED <<total_supply, allowances, granted, withdrawn>>
  BY DEF transfer
<1>2. /\ balances' \in [AccountId -> Balance] /\ SupplyConserved'
      /\ EventsTellBalances' /\ ledger' \in [AccountId -> Int]
  BY <1>1, TransferKeeps
<1>3. TypeOK'
  BY <1>1, <1>2 DEF IInv, TypeOK
<1>4. WithdrawnWithinGrant'
  BY <1>1 DEF IInv, WithdrawnWithinGrant, allowance
<1>. QED BY <1>2, <1>3, <1>4 DEF IInv

LEMMA ApproveStep ==
  ASSUME IInv, NEW caller \in AccountId, NEW spender \in AccountId, NEW value \in Amounts,
         approve(caller, spender, value)
  PROVE  IInv'
<1>1. value \in Balance /\ value \in Nat
  BY TokenAssumption DEF Balance
<1>2. TypeOK'
  BY <1>1 DEF IInv, TypeOK, approve, Approval
<1>3. SupplyConserved'
  BY DEF IInv, SupplyConserved, approve
<1>4. WithdrawnWithinGrant'
  <2>1. <<Owner, Spender>> \in AccountId \X AccountId
    BY TokenAssumption
  <2>2. CASE <<caller, spender>> = <<Owner, Spender>>
    <3>1. withdrawn' = 0 /\ granted' = value /\ allowances'[<<Owner, Spender>>] = value
      BY <2>1, <2>2 DEF approve, Approval, IInv, TypeOK
    <3>. QED BY <1>1, <3>1 DEF WithdrawnWithinGrant, allowance
  <2>3. CASE <<caller, spender>> # <<Owner, Spender>>
    <3>1. /\ withdrawn' = withdrawn /\ granted' = granted
          /\ allowances'[<<Owner, Spender>>] = allowances[<<Owner, Spender>>]
      BY <2>1, <2>3 DEF approve, Approval, IInv, TypeOK
    <3>. QED BY <3>1 DEF WithdrawnWithinGrant, IInv, allowance
  <2>. QED BY <2>2, <2>3
<1>5. EventsTellBalances'
  BY DEF IInv, EventsTellBalances, approve
<1>. QED BY <1>2, <1>3, <1>4, <1>5 DEF IInv

LEMMA TransferFromStep ==
  ASSUME IInv, NEW caller \in AccountId, NEW from \in AccountId, NEW to \in AccountId,
         NEW value \in Amounts, transfer_from(caller, from, to, value)
  PROVE  IInv'
<1> DEFINE pair == <<from, caller>>
<1>1. /\ transfer_from_to(from, to, value)
      /\ UNCHANGED <<total_supply, granted>>
      /\ allowances[pair] >= value
      /\ allowances' = [allowances EXCEPT ![pair] = @ - value]
  BY DEF transfer_from, allowance
<1>2. /\ balances' \in [AccountId -> Balance] /\ SupplyConserved'
      /\ EventsTellBalances' /\ ledger' \in [AccountId -> Int]
      /\ balances[from] - balances'[from] \in 0 .. value
  BY <1>1, TransferKeeps
<1>3. /\ value \in Nat /\ BALANCE_MAX \in Nat
      /\ pair \in AccountId \X AccountId
      /\ <<Owner, Spender>> \in AccountId \X AccountId
  BY TokenAssumption DEF Balance
<1>4. allowances' \in [AccountId \X AccountId -> Balance]
  <2>1. allowances[pair] \in Balance /\ allowances[pair] - value \in Balance
    BY <1>1, <1>3 DEF IInv, TypeOK, Balance
  <2>. QED BY <1>1, <2>1 DEF IInv, TypeOK
<1>5. withdrawn' \in Nat /\ WithdrawnWithinGrant'
  <2>1. CASE pair = <<Owner, Spender>>
    <3>1. withdrawn' = withdrawn + (balances[from] - balances'[from])
      BY <2>1 DEF transfer_from
    <3>2. allowances'[<<Owner, Spender>>] = allowances[<<Owner, Spender>>] - value
      BY <1>1, <1>3, <2>1 DEF IInv, TypeOK
    <3>3. /\ withdrawn \in Nat /\ granted \in Int
          /\ allowances[<<Owner, Spender>>] \in Int
          /\ withdrawn + allowances[<<Owner, Spender>>] <= granted
      BY <1>3 DEF IInv, TypeOK, WithdrawnWithinGrant, allowance, Balance
    <3>. QED BY <1>1, <1>2, <1>3, <3>1, <3>2, <3>3 DEF WithdrawnWithinGrant, allowance
  <2>2. CASE pair # <<Owner, Spender>>
    <3>1. withdrawn' = withdrawn
      BY <2>2 DEF transfer_from
    <3>2. allowances'[<<Owner, Spender>>] = allowances[<<Owner, Spender>>]
      BY <1>1, <1>3, <2>2 DEF IInv, TypeOK
    <3>. QED BY <1>1, <3>1, <3>2 DEF IInv, TypeOK, WithdrawnWithinGrant, allowance
  <2>. QED BY <2>1, <2>2
<1>6. TypeOK'
  BY <1>1, <1>2, <1>4, <1>5 DEF IInv, TypeOK
<1>. QED BY <1>2, <1>5, <1>6 DEF IInv

(***************************************************************************)
(* The invariant holds in every state.                                     *)
(***************************************************************************)
THEOREM Invariance == Spec => []IInv
<1>1. Init => IInv
  BY InitEstablishes
<1>2. IInv /\ [Next]_vars => IInv'
  <2>. SUFFICES ASSUME IInv, [Next]_vars PROVE IInv'
    OBVIOUS
  <2>1. CASE UNCHANGED vars
    BY <2>1 DEF vars, IInv, TypeOK, SupplyConserved, WithdrawnWithinGrant, EventsTellBalances, allowance
  <2>2. CASE Next
    <3>1. PICK caller \in AccountId, to \in AccountId, value \in Amounts :
            \/ transfer(caller, to, value)
            \/ approve(caller, to, value)
            \/ \E from \in AccountId : transfer_from(caller, from, to, value)
      BY <2>2 DEF Next
    <3>2. CASE transfer(caller, to, value)
      BY <3>2, TransferStep
    <3>3. CASE approve(caller, to, value)
      BY <3>3, ApproveStep
    <3>4. CASE \E from \in AccountId : transfer_from(caller, from, to, value)
      BY <3>4, TransferFromStep
    <3>. QED BY <3>1, <3>2, <3>3, <3>4
  <2>. QED BY <2>1, <2>2
<1>. QED BY <1>1, <1>2, PTL DEF Spec

(***************************************************************************)
(* No balance, allowance or supply leaves the range of a Balance.          *)
(***************************************************************************)
THEOREM TypeCorrect == Spec => []TypeOK
<1>1. IInv => TypeOK
  BY DEF IInv
<1>. QED BY <1>1, Invariance, PTL

(***************************************************************************)
(* Tokens are neither made nor lost, whatever the accounts of a transfer.  *)
(***************************************************************************)
THEOREM SupplyIsConserved == Spec => []SupplyConserved
<1>1. IInv => SupplyConserved
  BY DEF IInv
<1>. QED BY <1>1, Invariance, PTL

(***************************************************************************)
(* The unchecked addition of a transfer (line 215) never overflows.        *)
(***************************************************************************)
THEOREM NoTransferTraps == Spec => []TransfersNeverTrap
<1>1. IInv => TransfersNeverTrap
  <2>. SUFFICES ASSUME IInv, NEW from \in AccountId, NEW to \in AccountId,
                       NEW value \in Balance, value <= balances[from]
                PROVE  Moved(from, to, value)[to] <= BALANCE_MAX
    BY DEF TransfersNeverTrap
  <2>1. TypeOK /\ SupplyConserved /\ value \in Nat /\ BALANCE_MAX \in Nat
    BY TokenAssumption DEF IInv, Balance
  <2>2. Moved(from, to, value)[to] \in Balance
    BY <2>1, MovedFits
  <2>. QED BY <2>1, <2>2 DEF Balance
<1>. QED BY <1>1, Invariance, PTL

(***************************************************************************)
(* A spender never takes more than the owner's last approval: Owner and    *)
(* Spender are arbitrary, so this is for every pair of accounts.           *)
(***************************************************************************)
THEOREM WithdrawalsWithinApproval == Spec => []WithdrawnWithinGrant
<1>1. IInv => WithdrawnWithinGrant
  BY DEF IInv
<1>. QED BY <1>1, Invariance, PTL

(***************************************************************************)
(* Following the Transfer events is as good as reading the balances.       *)
(***************************************************************************)
THEOREM EventsTellTheTruth == Spec => []EventsTellBalances
<1>1. IInv => EventsTellBalances
  BY DEF IInv
<1>. QED BY <1>1, Invariance, PTL
=============================================================================
