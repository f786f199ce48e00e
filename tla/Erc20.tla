-------------------------------- MODULE Erc20 --------------------------------
(***************************************************************************)
(* The ERC-20 contract: contracts/erc20.                                   *)
(*                                                                         *)
(* A message is executed as a whole.  One that returns an error does so    *)
(* before it writes anything, and one that traps is undone: neither        *)
(* changes the storage, so both are stuttering steps here.                 *)
(*                                                                         *)
(* Accounts are numbered, so that balances can be added up.  An absent     *)
(* entry of a Mapping is read as 0 everywhere in the code, and is 0 here.  *)
(*                                                                         *)
(* ledger is what a client knows who has only followed the Transfer        *)
(* events.                                                                 *)
(*                                                                         *)
(* granted and withdrawn are history, for one owner and one spender that   *)
(* may be any two accounts: what the last Approval event says, and how     *)
(* much the owner's balance has fallen since by the spender's calls.       *)
(***************************************************************************)
EXTENDS Integers, Sums

CONSTANTS
  N,                  \* number of accounts
  BALANCE_MAX,        \* largest Balance
  Amounts,            \* values passed in calls
  Supplies,           \* initial supplies
  Owner, Spender      \* the accounts whose history is kept

AccountId == 1 .. N

Balance == 0 .. BALANCE_MAX

ASSUME TokenAssumption ==
  /\ N \in Nat \ {0}
  /\ BALANCE_MAX \in Nat
  /\ Amounts \subseteq Balance
  /\ Supplies \subseteq Balance
  /\ Owner \in AccountId
  /\ Spender \in AccountId

VARIABLES
  total_supply, balances, allowances,  \* the contract's storage
  ledger,                              \* the balances the events add up to
  granted, withdrawn                   \* history

vars == <<total_supply, balances, allowances, ledger, granted, withdrawn>>

\* The readers the messages are built on.
balance_of(owner) == balances[owner]
allowance(owner, spender) == allowances[<<owner, spender>>]

\* An event Transfer { from, to, value } as a client understands it.
Transfer(from, to, value) ==
  [a \in AccountId |-> ledger[a] - (IF a = from THEN value ELSE 0)
                                + (IF a = to THEN value ELSE 0)]

\* An event Approval { owner, spender, value }: a new grant begins.
Approval(owner, spender, value) ==
  IF <<owner, spender>> = <<Owner, Spender>>
  THEN granted' = value /\ withdrawn' = 0
  ELSE UNCHANGED <<granted, withdrawn>>
-----------------------------------------------------------------------------
\* Instantiation: the whole supply is the caller's.
new(caller, initial_supply) ==
  /\ total_supply = initial_supply
  /\ balances = [a \in AccountId |-> IF a = caller THEN initial_supply ELSE 0]
  /\ allowances = [p \in AccountId \X AccountId |-> 0]
  /\ ledger = [a \in AccountId |-> IF a = caller THEN initial_supply ELSE 0]

Init ==
  /\ \E caller \in AccountId, initial_supply \in Supplies : new(caller, initial_supply)
  /\ granted = 0
  /\ withdrawn = 0

\* Mutant: both balances are read before either is written.
MovedFromSnapshot(from, to, value) ==
  [balances EXCEPT ![from] = @ - value, ![to] = balances[to] + value]

\* The balances after a transfer: the recipient's is read after the
\* sender's has been written, so that the two may be the same account.
Moved(from, to, value) ==
  LET debited == [balances EXCEPT ![from] = @ - value]
  IN  [debited EXCEPT ![to] = @ + value]

\* Mutant: the sender's balance is not checked.
transfer_unchecked(from, to, value) ==
  /\ Moved(from, to, value)[to] <= BALANCE_MAX
  /\ balances' = Moved(from, to, value)
  /\ ledger' = Transfer(from, to, value)

\* Mutant: the event has the two accounts in the wrong order.
transfer_swapped_event(from, to, value) ==
  /\ balance_of(from) >= value
  /\ Moved(from, to, value)[to] <= BALANCE_MAX
  /\ balances' = Moved(from, to, value)
  /\ ledger' = Transfer(to, from, value)

\* The transfer goes through if the sender has the tokens, and traps if the
\* recipient's balance overflows.
transfer_from_to(from, to, value) ==
  /\ balance_of(from) >= value
  /\ Moved(from, to, value)[to] <= BALANCE_MAX
  /\ balances' = Moved(from, to, value)
  /\ ledger' = Transfer(from, to, value)

transfer(caller, to, value) ==
  /\ transfer_from_to(caller, to, value)
  /\ UNCHANGED <<total_supply, allowances, granted, withdrawn>>

\* A new approval overwrites the one before.
approve(caller, spender, value) ==
  /\ allowances' = [allowances EXCEPT ![<<caller, spender>>] = value]
  /\ Approval(caller, spender, value)
  /\ UNCHANGED <<total_supply, balances, ledger>>

\* Mutant: the allowance is checked and not used up.
transfer_from_unlimited(caller, from, to, value) ==
  /\ allowance(from, caller) >= value
  /\ transfer_from_to(from, to, value)
  /\ IF <<from, caller>> = <<Owner, Spender>>
     THEN withdrawn' = withdrawn + (balances[from] - balances'[from])
     ELSE UNCHANGED withdrawn
  /\ UNCHANGED <<total_supply, allowances, granted>>

transfer_from(caller, from, to, value) ==
  /\ allowance(from, caller) >= value
  /\ transfer_from_to(from, to, value)
  /\ allowances' = [allowances EXCEPT ![<<from, caller>>] = @ - value]
  /\ IF <<from, caller>> = <<Owner, Spender>>
     THEN withdrawn' = withdrawn + (balances[from] - balances'[from])
     ELSE UNCHANGED withdrawn
  /\ UNCHANGED <<total_supply, granted>>

Next == \E caller, to \in AccountId, value \in Amounts :
  \/ transfer(caller, to, value)
  \/ approve(caller, to, value)
  \/ \E from \in AccountId : transfer_from(caller, from, to, value)

Spec == Init /\ [][Next]_vars
-----------------------------------------------------------------------------
(***************************************************************************)
(* Properties.                                                             *)
(***************************************************************************)
\* Storage and history have their types; no balance or allowance wraps
\* around at either end.
TypeOK ==
  /\ total_supply \in Balance
  /\ balances \in [AccountId -> Balance]
  /\ allowances \in [AccountId \X AccountId -> Balance]
  /\ ledger \in [AccountId -> Int]
  /\ granted \in Balance
  /\ withdrawn \in Nat

\* The balances always add up to the total supply, a transfer of an account
\* to itself included (lines 213 to 215 read the recipient's balance after
\* the sender's has been written).
SupplyConserved == Sum(balances, N) = total_supply

\* The addition of line 215 never overflows: no transfer that has the
\* tokens for it traps, whoever receives them.
TransfersNeverTrap ==
  \A from, to \in AccountId, value \in Balance :
     value <= balances[from] => Moved(from, to, value)[to] <= BALANCE_MAX

\* Since the last Approval event the spender has taken no more from the owner
\* than it says, over however many calls and to whomever, and what may still
\* be taken is within the rest (lines 177 to 192).
WithdrawnWithinGrant ==
  withdrawn + allowance(Owner, Spender) <= granted

\* The events tell the truth: who has followed the Transfer events from the
\* constructor's on knows every balance, transfers of an account to itself
\* and calls that fail included (lines 75 to 79 and 208 to 220).
EventsTellBalances == ledger = balances
=============================================================================
