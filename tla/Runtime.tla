-------------------------------- MODULE Runtime --------------------------------
(***************************************************************************)
(* Blocks and signed transactions, as the runtime composes them from the   *)
(* pallets of Substrate (external) and configures these: the checks of     *)
(* SignedExtra in their order, fees, nonces, balances and the limits on    *)
(* the weight of a block; and the transactions that the node builds for    *)
(* the overhead benchmark.                                                 *)
(*                                                                         *)
(* A transaction that is not valid is no part of any block: the builder    *)
(* leaves it out, and execute_block panics on it.  A valid one pays its    *)
(* fee and uses its nonce even if its call fails.                          *)
(*                                                                         *)
(* There is one chain here, so that a block's number stands for its hash.  *)
(* Versions and genesis hash of a signature are always those of the chain: *)
(* its genesis has no sudo key, so that nobody can upgrade it.             *)
(***************************************************************************)
EXTENDS Integers, Sequences, Era, Sums

CONSTANTS
  N,                            \* number of accounts
  endowed_accounts,             \* of the chain specification
  Endowment,                    \* of each of them; 1 << 60 in the code
  ExistentialDeposit,           \* 500 in the code
  TransactionLength,            \* in bytes
  BlockHashCount,               \* 2400 in the code
  MAXIMUM_BLOCK_WEIGHT,
  NORMAL_DISPATCH_RATIO,        \* percents; 75 in the code
  AVERAGE_ON_INITIALIZE_RATIO,  \* percents; 10 in the code
  BlockExecutionWeight, ExtrinsicBaseWeight,
  InitWeights,                  \* what on_initialize of the pallets may take
  Calls,                        \* each with its name, class and weight
  Values,                       \* amounts of transfers
  Bob,                          \* the sender of the benchmark
  BenchmarkNonces,              \* that the benchmark asks for
  LastBlock                     \* bound on the number of blocks

AccountId == 1 .. N

DispatchClass == {"Normal", "Operational", "Mandatory"}

max_total ==
  [Normal |-> (NORMAL_DISPATCH_RATIO * MAXIMUM_BLOCK_WEIGHT) \div 100,
   Operational |-> MAXIMUM_BLOCK_WEIGHT]

\* Mutant: each class may use its own share again.
reserved_for_all == [max_total EXCEPT !.Operational = @ - max_total.Normal]

\* What a class may use, at most, for entering a block that is full.
reserved ==
  [Normal |-> 0, Operational |-> MAXIMUM_BLOCK_WEIGHT - max_total.Normal]

\* The limit on one transaction that follows from avg_block_initialization.
max_extrinsic(class) ==
  max_total[class] - (AVERAGE_ON_INITIALIZE_RATIO * MAXIMUM_BLOCK_WEIGHT) \div 100
                   - ExtrinsicBaseWeight

ASSUME RuntimeAssumption ==
  /\ N \in Nat
  /\ endowed_accounts \subseteq AccountId /\ Bob \in endowed_accounts
  /\ ExistentialDeposit \in Nat \ {0}
  /\ Endowment \in Nat /\ Endowment >= ExistentialDeposit
  /\ NORMAL_DISPATCH_RATIO \in 0 .. 100 /\ AVERAGE_ON_INITIALIZE_RATIO \in 0 .. 100
  /\ {TransactionLength, BlockHashCount, MAXIMUM_BLOCK_WEIGHT,
      BlockExecutionWeight, ExtrinsicBaseWeight, LastBlock} \subseteq Nat
  /\ InitWeights \subseteq Nat /\ Values \subseteq Nat /\ BenchmarkNonces \subseteq Nat
  /\ \A c \in Calls : c.class \in {"Normal", "Operational"} /\ c.weight \in Nat

\* A block has room for what the pallets do at its start; and a call may be
\* as large as the reserve, since the average start is less than normal calls' share.
ASSUME WeightsAssumption ==
  /\ \A w \in InitWeights : BlockExecutionWeight + w <= MAXIMUM_BLOCK_WEIGHT
  /\ AVERAGE_ON_INITIALIZE_RATIO <= NORMAL_DISPATCH_RATIO

\* The shortest period of Era::mortal is four blocks, which takes the hashes
\* of three; and a period above 4096 would have phases that are rounded down.
ASSUME BlockHashAssumption == BlockHashCount \in 2 .. 8192

VARIABLES
  number,    \* of the block that is executed, or was the last
  open,      \* is it being executed?
  hashes,    \* the blocks whose hashes the state still holds
  weight,    \* what the block has consumed, by class
  free,      \* balances; an account that does not exist has none
  nonce,     \* System::account_nonce
  issuance,  \* TotalIssuance
  executed,  \* history: the nonces of an account's transactions while it exists
  prepared   \* the transaction the benchmark has built

accountVars == <<free, nonce, issuance, executed>>
vars == <<number, open, hashes, weight, accountVars, prepared>>

Total(w) == w.Normal + w.Operational + w.Mandatory

Init ==
  /\ number = 0 /\ open = FALSE /\ hashes = {0}
  /\ weight = [c \in DispatchClass |-> 0]
  /\ free = [a \in AccountId |-> IF a \in endowed_accounts THEN Endowment ELSE 0]
  /\ nonce = [a \in AccountId |-> 0]
  /\ issuance = Sum(free, N)
  /\ executed = [a \in AccountId |-> << >>]
  /\ prepared = [era |-> Immortal, signed |-> 0, nonce |-> 0]
-----------------------------------------------------------------------------
\* A new block: its own weight and that of the pallets come first.
initialize_block ==
  /\ ~open /\ number < LastBlock
  /\ open' = TRUE
  /\ number' = number + 1
  /\ hashes' = hashes \cup {number}
  /\ \E w \in InitWeights :
        weight' = [c \in DispatchClass |-> IF c = "Mandatory" THEN BlockExecutionWeight + w ELSE 0]
  /\ UNCHANGED <<accountVars, prepared>>

\* The oldest hash is forgotten, but never that of genesis.
finalize_block ==
  /\ open
  /\ open' = FALSE
  /\ hashes' = hashes \ (1 .. number - BlockHashCount - 1)
  /\ UNCHANGED <<number, weight, accountVars, prepared>>
-----------------------------------------------------------------------------
(***************************************************************************)
(* SignedExtra.                                                            *)
(***************************************************************************)
\* A signature names the block it was made for only by the hash it covers.
CheckEra(era, signed) == birth(era, number) \in hashes /\ birth(era, number) = signed

Consumed(c) == [weight EXCEPT ![c.class] = @ + c.weight + ExtrinsicBaseWeight]

CheckWeight(c) ==
  /\ c.weight <= max_extrinsic(c.class)
  /\ Consumed(c)[c.class] <= max_total[c.class]
  /\ Total(Consumed(c)) > MAXIMUM_BLOCK_WEIGHT => Consumed(c)[c.class] <= reserved[c.class]

\* IdentityFee of weight and length; OnChargeTransaction burns it.
Fee(c) == ExtrinsicBaseWeight + c.weight + TransactionLength

\* The fee may not end the account that pays it.
CanPay(a, c) == free[a] - Fee(c) >= ExistentialDeposit

\* Mutant: without CheckNonce.
ValidAgain(a, n, era, signed, c) ==
  /\ CheckEra(era, signed)
  /\ CheckWeight(c)
  /\ CanPay(a, c)

\* The checks of SignedExtra on a call c signed by a.
Valid(a, n, era, signed, c) ==
  /\ CheckEra(era, signed)
  /\ n = nonce[a]
  /\ CheckWeight(c)
  /\ CanPay(a, c)
-----------------------------------------------------------------------------
(***************************************************************************)
(* Calls.                                                                  *)
(***************************************************************************)
\* transfer; the recipient must exist afterwards.
CanTransfer(bal, from, to, value) ==
  bal[from] >= value /\ bal[to] + value >= ExistentialDeposit

Transferred(bal, from, to, value) ==
  LET debited == [bal EXCEPT ![from] = @ - value]
  IN  [debited EXCEPT ![to] = @ + value]

\* The balances after the call; only transfers change them, if they can.
Dispatched(bal, c, from, to, value) ==
  IF c.name = "transfer" /\ from # to /\ CanTransfer(bal, from, to, value)
  THEN Transferred(bal, from, to, value)
  ELSE bal

\* Mutant: what is left of an account stays.
ReapedNot(bal) == bal

\* An account below the deposit is gone; DustRemoval burns the rest.
Reaped(bal) == [a \in AccountId |-> IF bal[a] < ExistentialDeposit THEN 0 ELSE bal[a]]

\* CheckNonce and, for accounts that are gone, the end of their data.
NoncesUsed(a) ==
  [b \in AccountId |-> IF free'[b] = 0 THEN 0 ELSE IF b = a THEN nonce[b] + 1 ELSE nonce[b]]

apply_extrinsic(a, n, era, signed, c, to, value) ==
  /\ open
  /\ Valid(a, n, era, signed, c)
  /\ LET paid  == [free EXCEPT ![a] = @ - Fee(c)]
         after == Dispatched(paid, c, a, to, value)
         dust  == [b \in AccountId |-> IF after[b] < ExistentialDeposit THEN after[b] ELSE 0]
     IN  /\ free' = Reaped(after)
         /\ issuance' = (issuance - Fee(c)) - Sum(dust, N)
  /\ nonce' = NoncesUsed(a)
  /\ executed' = [b \in AccountId |-> IF free'[b] = 0 THEN << >>
                                      ELSE IF b = a THEN Append(executed[b], n)
                                      ELSE executed[b]]
  /\ weight' = Consumed(c)
  /\ UNCHANGED <<number, open, hashes, prepared>>
-----------------------------------------------------------------------------
(***************************************************************************)
(* The transactions of the overhead benchmark.                             *)
(***************************************************************************)
\* Mutant: the period may be longer than hashes are kept.
period_rounded_up == next_power_of_two(BlockHashCount)

period == next_power_of_two(BlockHashCount) \div 2

\* create_benchmark_extrinsic, on the best block, which is executed.
create_benchmark_extrinsic(n) ==
  /\ ~open
  /\ prepared' = [era |-> mortal(period, number), signed |-> number, nonce |-> n]
  /\ UNCHANGED <<number, open, hashes, weight, accountVars>>

\* remark: the transaction above, in a block.
remark(c) ==
  /\ c.name = "remark"
  /\ apply_extrinsic(Bob, prepared.nonce, prepared.era, prepared.signed, c, Bob, 0)

\* Anybody's transactions: immortal ones, signed for genesis, new and old.
Sign(a, c) ==
  \E n \in 0 .. nonce[a], to \in AccountId, value \in Values :
    apply_extrinsic(a, n, Immortal, 0, c, to, value)

Next ==
  \/ initialize_block
  \/ finalize_block
  \/ \E n \in BenchmarkNonces : create_benchmark_extrinsic(n)
  \/ \E c \in Calls : remark(c)
  \/ \E a \in AccountId, c \in Calls : Sign(a, c)

Spec == Init /\ [][Next]_vars
-----------------------------------------------------------------------------
\* Every variable has its type; no balance is below the existential deposit,
\* which a fee or a transfer that left a rest would bring about.
TypeOK ==
  /\ number \in 0 .. LastBlock /\ open \in BOOLEAN
  /\ hashes \subseteq 0 .. LastBlock
  /\ weight \in [DispatchClass -> Nat]
  /\ free \in [AccountId -> Nat] /\ issuance \in Nat
  /\ nonce \in [AccountId -> Nat] /\ executed \in [AccountId -> Seq(Nat)]
  /\ \A a \in AccountId : free[a] # 0 => free[a] >= ExistentialDeposit

\* The total issuance is what the accounts hold, although fees, dust and
\* transfers each change both apart from each other.
IssuanceIsHeld == issuance = Sum(free, N)

\* An account's transactions are executed in the order of their nonces, each
\* one once, whether their calls succeed or fail: CheckNonce.
EachNonceOnce ==
  \A a \in AccountId : executed[a] = [i \in 1 .. nonce[a] |-> i - 1]

\* Whatever classes come in whatever order, a block is never heavier than
\* MAXIMUM_BLOCK_WEIGHT and what is reserved for operational transactions,
\* and only these use the reserve; and they are included, up to the reserve,
\* even in a block that is full, as a comment in RuntimeBlockWeights says.
BlockWithinLimits ==
  /\ Total(weight) <= MAXIMUM_BLOCK_WEIGHT + reserved.Operational
  /\ Total(weight) - weight.Operational <= MAXIMUM_BLOCK_WEIGHT
  /\ \A c \in Calls :
       /\ c.class = "Operational"
       /\ Consumed(c).Operational <= MAXIMUM_BLOCK_WEIGHT - max_total.Normal
       => CheckWeight(c)

\* A transaction of the benchmark can be executed in every block of its
\* period: its block's hash is not forgotten before (create_benchmark_extrinsic).
BenchmarkLivesItsPeriod ==
  prepared.era # Immortal /\ open /\ number < prepared.signed + prepared.era.period
    => CheckEra(prepared.era, prepared.signed)
=============================================================================
