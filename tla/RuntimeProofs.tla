----------------------------- MODULE RuntimeProofs -----------------------------
(***************************************************************************)
(* The runtime keeps its books: whatever calls come in whatever blocks,    *)
(* the issuance is what the accounts hold, nonces are used in order and    *)
(* once, and no block is too heavy.  The transactions of the benchmark can *)
(* be executed as long as their era says, which is about the arithmetic of *)
(* eras and about which hashes are kept.                                   *)
(***************************************************************************)
EXTENDS Runtime, SumsProofs, SequenceTheorems

(***************************************************************************)
(* The period of the benchmark is a power of two with which no phase is    *)
(* rounded, and not longer than hashes are kept.                           *)
(***************************************************************************)
ShortPeriods == {1, 2, 4, 8, 16, 32, 64, 128, 256, 512, 1024, 2048, 4096}

LEMMA ShortPeriod ==
  /\ period \in ShortPeriods
  /\ period <= BlockHashCount
<1> DEFINE n == BlockHashCount
           p == next_power_of_two(n)
<1>1. n \in 2 .. 8192
  BY BlockHashAssumption
<1>2. \E q \in PowersOfTwo : q >= n /\ (q = 1 \/ q \div 2 < n)
  BY <1>1 DEF PowersOfTwo
<1>3. p \in PowersOfTwo /\ p >= n /\ (p = 1 \/ p \div 2 < n)
  BY <1>2 DEF next_power_of_two
<1>4. period = p \div 2
  BY DEF period
<1>5. PowersOfTwo \subseteq Nat
  BY DEF PowersOfTwo
<1>. HIDE DEF n, p
<1>6. p \in Nat /\ n \in Nat /\ n >= 2 /\ n <= 8192
  BY <1>1, <1>3, <1>5
<1>7. p \div 2 < n /\ p \div 2 <= n
  BY <1>3, <1>6
<1>8. p >= 2 /\ p < 16384
  BY <1>3, <1>6, <1>7
<1>9. PowersOfTwo \subseteq {1, 2, 4, 8, 16, 32, 64, 128, 256, 512, 1024, 2048, 4096, 8192}
                              \cup {x \in Nat : x >= 16384}
  BY DEF PowersOfTwo
<1>10. p \in {1, 2, 4, 8, 16, 32, 64, 128, 256, 512, 1024, 2048, 4096, 8192}
  BY <1>3, <1>6, <1>8, <1>9
<1>11. p \div 2 \in ShortPeriods
  BY <1>8, <1>10 DEF ShortPeriods
<1>. QED BY <1>4, <1>7, <1>11 DEF n

LEMMA PowerOfTwoItself ==
  ASSUME NEW p \in ShortPeriods
  PROVE  next_power_of_two(p) = p
<1>1. p \in PowersOfTwo /\ p >= p /\ (p = 1 \/ p \div 2 < p)
  BY DEF ShortPeriods, PowersOfTwo
<1>2. ASSUME NEW q \in PowersOfTwo, q >= p, q = 1 \/ q \div 2 < p
      PROVE  q = p
  BY <1>2 DEF ShortPeriods, PowersOfTwo
<1>. QED BY <1>1, <1>2 DEF next_power_of_two

(***************************************************************************)
(* A quotient is known from the interval that its dividend is in.          *)
(***************************************************************************)
LEMMA QuotientIs ==
  ASSUME NEW a \in Nat, NEW p \in Nat \ {0}, NEW q \in Nat,
         q * p <= a, a < q * p + p
  PROVE  a \div p = q
<1> DEFINE k == a \div p
<1>1. k \in Nat /\ k * p <= a /\ a < k * p + p
  OBVIOUS
<1>. HIDE DEF k
<1>2. k * p \in Nat /\ q * p \in Nat
  BY <1>1
<1>3. ~(k + 1 <= q)
  <2>1. (k + 1) * p = k * p + p
    BY <1>1
  <2>2. k + 1 <= q => (k + 1) * p <= q * p
    BY <1>1
  <2>. QED BY <1>1, <1>2, <2>1, <2>2
<1>4. ~(q + 1 <= k)
  <2>1. (q + 1) * p = q * p + p
    OBVIOUS
  <2>2. q + 1 <= k => (q + 1) * p <= k * p
    BY <1>1
  <2>. QED BY <1>1, <1>2, <2>1, <2>2
<1>5. k = q
  BY <1>1, <1>3, <1>4
<1>. QED BY <1>5 DEF k

(***************************************************************************)
(* With such a period, an era finds the block it was made for from every   *)
(* block of the period.                                                    *)
(***************************************************************************)
LEMMA MortalEra ==
  ASSUME NEW p \in ShortPeriods, NEW s \in Nat
  PROVE  /\ mortal(p, s).period \in {4, 8, 16, 32, 64, 128, 256, 512, 1024, 2048, 4096}
         /\ mortal(p, s).period <= max(p, 4)
         /\ mortal(p, s).phase = s % mortal(p, s).period
         /\ mortal(p, s) # Immortal
<1>1. next_power_of_two(p) = p
  BY PowerOfTwoItself
<1> DEFINE q == min(max(p, 4), 65536)
           f == max(q \div 4096, 1)
<1>2. q \in {4, 8, 16, 32, 64, 128, 256, 512, 1024, 2048, 4096} /\ q <= max(p, 4)
  BY DEF ShortPeriods, min, max
<1>3. f = 1
  BY <1>2 DEF max
<1>4. mortal(p, s) = [period |-> q, phase |-> ((s % q) \div f) * f]
  BY <1>1 DEF mortal
<1>. HIDE DEF q, f
<1>5. s % q \in Int
  BY <1>2
<1>6. ((s % q) \div 1) * 1 = s % q
  BY <1>5
<1>. QED BY <1>2, <1>3, <1>4, <1>6 DEF Immortal

LEMMA BirthIsFound ==
  ASSUME NEW s \in Nat, NEW n \in Nat, NEW era, era # Immortal,
         era.period \in {4, 8, 16, 32, 64, 128, 256, 512, 1024, 2048, 4096},
         era.phase = s % era.period,
         s <= n, n < s + era.period
  PROVE  birth(era, n) = s
<1> DEFINE p == era.period
           r == s % p
           q == s \div p
<1>1. p \in Nat \ {0}
  OBVIOUS
<1>2. q \in Nat /\ r \in 0 .. p - 1 /\ s = q * p + r
  <2> HIDE DEF p
  <2>1. q \in Nat /\ r \in 0 .. p - 1
    BY <1>1
  <2>2. s = p * q + r
    BY <1>1
  <2>3. p * q = q * p
    BY <1>1, <2>1
  <2>. QED BY <2>1, <2>2, <2>3
<1>3. max(n, r) = n
  <2>1. q * p \in Nat
    BY <1>1, <1>2
  <2>. QED BY <1>2, <2>1 DEF max
<1>. HIDE DEF p, q, r
<1>4. (n - r) \div p = q
  <2>1. n - r \in Nat /\ q * p \in Nat /\ q * p <= n - r /\ n - r < q * p + p
    BY <1>1, <1>2 DEF p
  <2>. QED BY <1>1, <1>2, <2>1, QuotientIs
<1>5. birth(era, n) = ((max(n, r) - r) \div p) * p + r
  BY DEF birth, p, r
<1>. QED BY <1>2, <1>3, <1>4, <1>5
-----------------------------------------------------------------------------
(***************************************************************************)
(* Normal calls have a share of the block, and what is left of it is the   *)
(* reserve; a call that fits into the reserve may be that large.           *)
(***************************************************************************)
LEMMA ReserveIsLess ==
  /\ MAXIMUM_BLOCK_WEIGHT \in Nat
  /\ max_total.Normal \in Nat /\ max_total.Normal <= MAXIMUM_BLOCK_WEIGHT
  /\ max_total.Operational = MAXIMUM_BLOCK_WEIGHT
  /\ reserved.Normal = 0
  /\ reserved.Operational = MAXIMUM_BLOCK_WEIGHT - max_total.Normal
  /\ (AVERAGE_ON_INITIALIZE_RATIO * MAXIMUM_BLOCK_WEIGHT) \div 100 \in Nat
  /\ (AVERAGE_ON_INITIALIZE_RATIO * MAXIMUM_BLOCK_WEIGHT) \div 100 <= max_total.Normal
<1> DEFINE M == MAXIMUM_BLOCK_WEIGHT
           R == NORMAL_DISPATCH_RATIO
           A == AVERAGE_ON_INITIALIZE_RATIO
<1>1. M \in Nat /\ R \in 0 .. 100 /\ A \in 0 .. 100 /\ A <= R
  BY RuntimeAssumption, WeightsAssumption
<1>2. max_total = [Normal |-> (R * M) \div 100, Operational |-> M]
  BY DEF max_total
<1>. HIDE DEF M, R, A
<1>3. R * M \in Nat /\ A * M \in Nat /\ R * M <= 100 * M /\ A * M <= R * M
  BY <1>1
<1>4. /\ (R * M) \div 100 \in Nat /\ (A * M) \div 100 \in Nat
      /\ (R * M) \div 100 <= M /\ (A * M) \div 100 <= (R * M) \div 100
  BY <1>1, <1>3
<1>. QED BY <1>1, <1>2, <1>4 DEF reserved, M, R, A

-----------------------------------------------------------------------------
(***************************************************************************)
(* A transfer moves tokens, and the end of accounts turns what they held   *)
(* into dust; neither creates or loses any.                                *)
(***************************************************************************)
Balances == [AccountId -> Nat]

Dust(bal) == [b \in AccountId |-> IF bal[b] < ExistentialDeposit THEN bal[b] ELSE 0]

LEMMA TransferKeepsSum ==
  ASSUME NEW bal \in Balances, NEW from \in AccountId, NEW to \in AccountId,
         NEW value \in Nat, from # to, bal[from] >= value
  PROVE  /\ Transferred(bal, from, to, value) \in Balances
         /\ Sum(Transferred(bal, from, to, value), N) = Sum(bal, N)
<1> DEFINE debited == [bal EXCEPT ![from] = @ - value]
           credited == [debited EXCEPT ![to] = @ + value]
<1>1. N \in Nat /\ from \in 1 .. N /\ to \in 1 .. N
  BY RuntimeAssumption DEF AccountId
<1>2. bal[from] - value \in Nat
  BY DEF Balances
<1>3. debited \in Balances /\ debited[from] = bal[from] - value
      /\ \A i \in 1 .. N : i # from => debited[i] = bal[i]
  BY <1>2 DEF Balances, AccountId
<1>4. credited \in Balances /\ credited[to] = bal[to] + value
      /\ \A i \in 1 .. N : i # to => credited[i] = debited[i]
  BY <1>3 DEF Balances, AccountId
<1>5. Transferred(bal, from, to, value) = credited
  BY DEF Transferred
<1>. HIDE DEF debited, credited
<1>6. /\ \A i \in 1 .. N : bal[i] \in Int
      /\ \A i \in 1 .. N : debited[i] \in Int
      /\ \A i \in 1 .. N : credited[i] \in Int
  BY <1>3, <1>4 DEF Balances, AccountId
<1>7. debited[to] = bal[to] /\ bal[to] \in Int /\ bal[from] \in Int
  BY <1>1, <1>3, <1>6
<1>8. Sum(debited, N) = Sum(bal, N) - bal[from] + debited[from]
  BY <1>1, <1>3, <1>6, SumUpdate
<1>9. Sum(credited, N) = Sum(debited, N) - debited[to] + credited[to]
  BY <1>1, <1>4, <1>6, SumUpdate
<1>10. Sum(bal, N) \in Int /\ Sum(debited, N) \in Int
  BY <1>1, <1>6, SumInt
<1>11. Sum(credited, N) = Sum(bal, N)
  BY <1>3, <1>4, <1>7, <1>8, <1>9, <1>10
<1>. QED BY <1>4, <1>5, <1>11 DEF credited

LEMMA DispatchKeepsSum ==
  ASSUME NEW bal \in Balances, NEW c, NEW from \in AccountId, NEW to \in AccountId,
         NEW value \in Nat
  PROVE  /\ Dispatched(bal, c, from, to, value) \in Balances
         /\ Sum(Dispatched(bal, c, from, to, value), N) = Sum(bal, N)
<1>1. CASE c.name = "transfer" /\ from # to /\ CanTransfer(bal, from, to, value)
  <2>1. bal[from] >= value
    BY <1>1 DEF CanTransfer
  <2>. QED BY <1>1, <2>1, TransferKeepsSum DEF Dispatched
<1>2. CASE ~(c.name = "transfer" /\ from # to /\ CanTransfer(bal, from, to, value))
  BY <1>2 DEF Dispatched
<1>. QED BY <1>1, <1>2

LEMMA ReapingBurnsDust ==
  ASSUME NEW bal \in Balances
  PROVE  /\ Reaped(bal) \in Balances
         /\ \A a \in AccountId : Reaped(bal)[a] # 0 => Reaped(bal)[a] >= ExistentialDeposit
         /\ Sum(bal, N) \in Nat /\ Sum(Reaped(bal), N) \in Nat /\ Sum(Dust(bal), N) \in Nat
         /\ Sum(bal, N) = Sum(Reaped(bal), N) + Sum(Dust(bal), N)
<1> DEFINE rest == Reaped(bal)
           dust == Dust(bal)
<1>1. N \in Nat /\ ExistentialDeposit \in Nat
  BY RuntimeAssumption
<1>2. \A i \in AccountId : bal[i] \in Nat
  BY DEF Balances
<1>3. rest = [a \in AccountId |-> IF bal[a] < ExistentialDeposit THEN 0 ELSE bal[a]]
  BY DEF Reaped
<1>4. dust = [b \in AccountId |-> IF bal[b] < ExistentialDeposit THEN bal[b] ELSE 0]
  BY DEF Dust
<1>. HIDE DEF rest, dust
<1>5. \A i \in AccountId :
        /\ rest[i] \in Nat /\ dust[i] \in Nat /\ bal[i] = rest[i] + dust[i]
        /\ rest[i] # 0 => rest[i] >= ExistentialDeposit
  BY <1>1, <1>2, <1>3, <1>4
<1>6. rest \in Balances
  BY <1>3, <1>5 DEF Balances
<1>7. /\ \A i \in 1 .. N : bal[i] \in Nat
      /\ \A i \in 1 .. N : rest[i] \in Nat
      /\ \A i \in 1 .. N : dust[i] \in Nat
      /\ \A i \in 1 .. N : rest[i] \in Int /\ dust[i] \in Int /\ bal[i] = rest[i] + dust[i]
  BY <1>2, <1>5 DEF AccountId
<1>8. Sum(bal, N) \in Nat /\ Sum(rest, N) \in Nat /\ Sum(dust, N) \in Nat
  BY <1>1, <1>7, SumNat
<1>9. Sum(bal, N) = Sum(rest, N) + Sum(dust, N)
  BY <1>1, <1>7, SumPlus
<1>. QED BY <1>5, <1>6, <1>8, <1>9 DEF rest, dust

LEMMA PayingFees ==
  ASSUME NEW bal \in Balances, NEW a \in AccountId, NEW fee \in Nat, bal[a] - fee >= 0
  PROVE  /\ [bal EXCEPT ![a] = @ - fee] \in Balances
         /\ Sum([bal EXCEPT ![a] = @ - fee], N) = Sum(bal, N) - fee
<1> DEFINE paid == [bal EXCEPT ![a] = @ - fee]
<1>1. N \in Nat /\ a \in 1 .. N
  BY RuntimeAssumption DEF AccountId
<1>2. bal[a] \in Nat /\ bal[a] - fee \in Nat
  BY DEF Balances
<1>3. paid \in Balances /\ paid[a] = bal[a] - fee
      /\ \A i \in 1 .. N : i # a => paid[i] = bal[i]
  BY <1>2 DEF Balances, AccountId
<1>4. \A i \in 1 .. N : bal[i] \in Int
  BY DEF Balances, AccountId
<1>. HIDE DEF paid
<1>5. Sum(paid, N) = Sum(bal, N) - bal[a] + paid[a]
  BY <1>1, <1>2, <1>3, <1>4, SumUpdate
<1>6. Sum(bal, N) \in Int
  BY <1>1, <1>4, SumInt
<1>7. Sum(paid, N) = Sum(bal, N) - fee
  BY <1>2, <1>3, <1>5, <1>6
<1>. QED BY <1>3, <1>7 DEF paid
-----------------------------------------------------------------------------
(***************************************************************************)
(* The inductive invariant.  The limits on blocks are inductive without    *)
(* the claim about operational calls, which follows from them.  For the    *)
(* benchmark it has to be known which hashes are still there, before and   *)
(* after a block is opened, and that an era belongs to the block that the  *)
(* transaction was signed for, which no later block than the last is.      *)
(***************************************************************************)
WeightsWithinLimits ==
  /\ Total(weight) <= MAXIMUM_BLOCK_WEIGHT + reserved.Operational
  /\ weight.Normal + weight.Mandatory <= MAXIMUM_BLOCK_WEIGHT

HashesKept ==
  \A k \in 0 .. number - 1 :
    k >= number - BlockHashCount - (IF open THEN 1 ELSE 0) => k \in hashes

PreparedForTheChain ==
  /\ prepared.signed \in 0 .. number
  /\ open => prepared.signed < number
  /\ prepared.era = Immortal \/ prepared.era = mortal(period, prepared.signed)

RuntimeInv ==
  /\ TypeOK
  /\ IssuanceIsHeld
  /\ EachNonceOnce
  /\ WeightsWithinLimits
  /\ HashesKept
  /\ PreparedForTheChain

(***************************************************************************)
(* The first block is preceded by nothing that could break it.             *)
(***************************************************************************)
LEMMA RuntimeInvInit == Init => RuntimeInv
<1>. SUFFICES ASSUME Init PROVE RuntimeInv
  OBVIOUS
<1>1. /\ N \in Nat /\ LastBlock \in Nat /\ MAXIMUM_BLOCK_WEIGHT \in Nat
      /\ Endowment \in Nat /\ ExistentialDeposit \in Nat \ {0}
      /\ Endowment >= ExistentialDeposit
  BY RuntimeAssumption
<1>2. free \in [AccountId -> Nat] /\ \A a \in AccountId : free[a] # 0 => free[a] >= ExistentialDeposit
  BY <1>1 DEF Init
<1>3. issuance = Sum(free, N)
  BY DEF Init
<1>4. issuance \in Nat
  BY <1>1, <1>2, <1>3, SumNat DEF AccountId
<1>5. /\ number \in 0 .. LastBlock /\ open \in BOOLEAN /\ hashes \subseteq 0 .. LastBlock
      /\ weight \in [DispatchClass -> Nat]
      /\ nonce \in [AccountId -> Nat] /\ executed \in [AccountId -> Seq(Nat)]
  <2>1. number \in 0 .. LastBlock /\ open \in BOOLEAN /\ hashes \subseteq 0 .. LastBlock
    <3>1. number = 0 /\ open = FALSE /\ hashes = {0}
      BY DEF Init
    <3>2. 0 \in 0 .. LastBlock
      BY <1>1
    <3>. QED BY <3>1, <3>2, Zenon
  <2>2. weight \in [DispatchClass -> Nat] /\ nonce \in [AccountId -> Nat]
    BY DEF Init
  <2>3. << >> \in Seq(Nat) /\ executed = [a \in AccountId |-> << >>]
    BY DEF Init
  <2>4. executed \in [AccountId -> Seq(Nat)]
    BY <2>3
  <2>. QED BY <2>1, <2>2, <2>4
<1>6. TypeOK
  BY <1>2, <1>4, <1>5 DEF TypeOK
<1>7. EachNonceOnce
  BY DEF Init, EachNonceOnce
<1>8. WeightsWithinLimits
  <2>1. weight.Normal = 0 /\ weight.Operational = 0 /\ weight.Mandatory = 0
    BY DEF Init, DispatchClass
  <2>. QED BY <1>1, <2>1, ReserveIsLess DEF WeightsWithinLimits, Total
<1>9. HashesKept /\ PreparedForTheChain
  BY DEF Init, HashesKept, PreparedForTheChain
<1>. QED BY <1>3, <1>6, <1>7, <1>8, <1>9 DEF RuntimeInv, IssuanceIsHeld

(***************************************************************************)
(* The steps that only begin or end a block, or prepare a transaction.     *)
(***************************************************************************)
LEMMA InitializeBlockStep ==
  ASSUME RuntimeInv, initialize_block
  PROVE  RuntimeInv'
<1>. USE RuntimeAssumption DEF RuntimeInv, initialize_block, accountVars
<1>1. PICK w \in InitWeights :
        weight' = [c \in DispatchClass |-> IF c = "Mandatory" THEN BlockExecutionWeight + w ELSE 0]
  OBVIOUS
<1>2. w \in Nat /\ BlockExecutionWeight + w \in Nat /\ BlockExecutionWeight + w <= MAXIMUM_BLOCK_WEIGHT
  BY WeightsAssumption
<1>3. number \in Nat /\ number < LastBlock /\ LastBlock \in Nat /\ number' = number + 1
  BY DEF TypeOK
<1>4. TypeOK'
  BY <1>1, <1>2, <1>3 DEF TypeOK
<1>5. IssuanceIsHeld' /\ EachNonceOnce'
  BY DEF IssuanceIsHeld, EachNonceOnce
<1>6. WeightsWithinLimits'
  <2>1. weight'.Normal = 0 /\ weight'.Operational = 0
        /\ weight'.Mandatory = BlockExecutionWeight + w
    BY <1>1 DEF DispatchClass
  <2>. QED BY <1>2, <2>1, ReserveIsLess DEF WeightsWithinLimits, Total
<1>7. HashesKept'
  BY <1>3, BlockHashAssumption DEF HashesKept
<1>8. PreparedForTheChain'
  BY <1>3 DEF PreparedForTheChain
<1>. QED BY <1>4, <1>5, <1>6, <1>7, <1>8

LEMMA FinalizeBlockStep ==
  ASSUME RuntimeInv, finalize_block
  PROVE  RuntimeInv'
<1>. USE DEF RuntimeInv, finalize_block, accountVars
<1>1. number \in Nat /\ BlockHashCount \in Nat
  BY RuntimeAssumption DEF TypeOK
<1>2. TypeOK'
  BY DEF TypeOK
<1>3. IssuanceIsHeld' /\ EachNonceOnce'
  BY DEF IssuanceIsHeld, EachNonceOnce
<1>4. WeightsWithinLimits'
  BY DEF WeightsWithinLimits, Total
<1>5. HashesKept'
  BY <1>1 DEF HashesKept
<1>6. PreparedForTheChain'
  BY DEF PreparedForTheChain
<1>. QED BY <1>2, <1>3, <1>4, <1>5, <1>6

LEMMA BenchmarkExtrinsicStep ==
  ASSUME RuntimeInv, NEW n \in BenchmarkNonces, create_benchmark_extrinsic(n)
  PROVE  RuntimeInv'
<1>. USE DEF RuntimeInv, create_benchmark_extrinsic, accountVars
<1>1. TypeOK'
  BY DEF TypeOK
<1>2. IssuanceIsHeld' /\ EachNonceOnce' /\ WeightsWithinLimits' /\ HashesKept'
  BY DEF IssuanceIsHeld, EachNonceOnce, WeightsWithinLimits, Total, HashesKept
<1>3. PreparedForTheChain'
  <2>1. number \in Nat
    BY RuntimeAssumption DEF TypeOK
  <2>2. prepared'.signed = number /\ prepared'.era = mortal(period, number)
    OBVIOUS
  <2>. QED BY <2>1, <2>2 DEF PreparedForTheChain
<1>. QED BY <1>1, <1>2, <1>3

(***************************************************************************)
(* A transaction appends its nonce to those that were used, and it is the  *)
(* next one.                                                               *)
(***************************************************************************)
LEMMA NextNonce ==
  ASSUME NEW n \in Nat
  PROVE  Append([i \in 1 .. n |-> i - 1], n) = [i \in 1 .. n + 1 |-> i - 1]
<1> DEFINE s == [i \in 1 .. n |-> i - 1]
           t == [i \in 1 .. n + 1 |-> i - 1]
<1>1. s \in Seq(Int) /\ Len(s) = n
  OBVIOUS
<1>2. t \in Seq(Int) /\ Len(t) = n + 1
  OBVIOUS
<1>3. \A i \in 1 .. n : s[i] = i - 1 /\ t[i] = i - 1
  OBVIOUS
<1>4. t[n + 1] = n
  OBVIOUS
<1>. HIDE DEF s, t
<1>5. Append(s, n) \in Seq(Int) /\ Len(Append(s, n)) = n + 1
  BY <1>1
<1>6. \A i \in 1 .. n + 1 : Append(s, n)[i] = t[i]
  BY <1>1, <1>3, <1>4
<1>7. Append(s, n) = t
  BY <1>2, <1>5, <1>6, SeqEqual
<1>. QED BY <1>7 DEF s, t

(***************************************************************************)
(* The block stays within its limits: what makes it too heavy can only be  *)
(* an operational call, and these stay within the reserve then.            *)
(***************************************************************************)
LEMMA ConsumedWithinLimits ==
  ASSUME weight \in [DispatchClass -> Nat], WeightsWithinLimits, NEW c \in Calls, CheckWeight(c)
  PROVE  /\ Consumed(c) \in [DispatchClass -> Nat]
         /\ Total(Consumed(c)) <= MAXIMUM_BLOCK_WEIGHT + reserved.Operational
         /\ Consumed(c).Normal + Consumed(c).Mandatory <= MAXIMUM_BLOCK_WEIGHT
<1> DEFINE w == c.weight + ExtrinsicBaseWeight
           after == Consumed(c)
<1>1. c.class \in {"Normal", "Operational"} /\ w \in Nat
  BY RuntimeAssumption
<1>2. weight.Normal \in Nat /\ weight.Operational \in Nat /\ weight.Mandatory \in Nat
  BY DEF DispatchClass
<1>3. weight[c.class] + c.weight + ExtrinsicBaseWeight = weight[c.class] + w
  BY <1>1, <1>2, RuntimeAssumption
<1>4. after = [weight EXCEPT ![c.class] = @ + w]
  BY <1>3 DEF Consumed
<1>5. /\ Total(after) > MAXIMUM_BLOCK_WEIGHT => after[c.class] <= reserved[c.class]
  BY DEF CheckWeight
<1>. HIDE DEF w, after
<1>6. after \in [DispatchClass -> Nat]
  BY <1>1, <1>2, <1>4 DEF DispatchClass
<1>7. CASE c.class = "Normal"
  <2>1. /\ after.Normal = weight.Normal + w
        /\ after.Operational = weight.Operational /\ after.Mandatory = weight.Mandatory
    BY <1>4, <1>7 DEF DispatchClass
  <2>2. Total(after) > MAXIMUM_BLOCK_WEIGHT => after.Normal <= 0
    BY <1>5, <1>7, ReserveIsLess
  <2>3. CASE Total(after) > MAXIMUM_BLOCK_WEIGHT
    <3>1. after.Normal = weight.Normal
      BY <1>1, <1>2, <2>1, <2>2, <2>3
    <3>. QED BY <2>1, <3>1, <1>6 DEF WeightsWithinLimits, Total, after
  <2>4. CASE ~(Total(after) > MAXIMUM_BLOCK_WEIGHT)
    <3>1. /\ Total(after) <= MAXIMUM_BLOCK_WEIGHT + reserved.Operational
          /\ after.Normal + after.Mandatory <= MAXIMUM_BLOCK_WEIGHT
      BY <1>1, <1>2, <2>1, <2>4, ReserveIsLess DEF Total
    <3>. QED BY <1>6, <3>1 DEF after
  <2>. QED BY <2>3, <2>4
<1>8. CASE c.class = "Operational"
  <2>1. /\ after.Operational = weight.Operational + w
        /\ after.Normal = weight.Normal /\ after.Mandatory = weight.Mandatory
    BY <1>4, <1>8 DEF DispatchClass
  <2>2. Total(after) > MAXIMUM_BLOCK_WEIGHT => after.Operational <= reserved.Operational
    BY <1>5, <1>8
  <2>3. /\ Total(after) <= MAXIMUM_BLOCK_WEIGHT + reserved.Operational
        /\ after.Normal + after.Mandatory <= MAXIMUM_BLOCK_WEIGHT
    BY <1>1, <1>2, <2>1, <2>2, ReserveIsLess DEF Total, WeightsWithinLimits
  <2>. QED BY <1>6, <2>3 DEF after
<1>. QED BY <1>1, <1>7, <1>8

(***************************************************************************)
(* The main step: a transaction that is valid is paid for and executed.    *)
(***************************************************************************)
LEMMA ApplyExtrinsicStep ==
  ASSUME RuntimeInv, NEW a \in AccountId, NEW n, NEW era, NEW signed, NEW c \in Calls,
         NEW to \in AccountId, NEW value \in Nat,
         apply_extrinsic(a, n, era, signed, c, to, value)
  PROVE  RuntimeInv'
<1> DEFINE fee   == Fee(c)
           paid  == [free EXCEPT ![a] = @ - fee]
           after == Dispatched(paid, c, a, to, value)
<1>1. TypeOK /\ IssuanceIsHeld /\ EachNonceOnce /\ WeightsWithinLimits
      /\ HashesKept /\ PreparedForTheChain
  BY DEF RuntimeInv
<1>2. n = nonce[a] /\ CheckWeight(c) /\ free[a] - fee >= ExistentialDeposit
  BY DEF apply_extrinsic, Valid, CanPay
<1>3. /\ free' = Reaped(after)
      /\ issuance' = (issuance - fee) - Sum(Dust(after), N)
  BY DEF apply_extrinsic, Dust
<1>4. /\ nonce' = NoncesUsed(a)
      /\ executed' = [b \in AccountId |-> IF free'[b] = 0 THEN << >>
                                          ELSE IF b = a THEN Append(executed[b], n)
                                          ELSE executed[b]]
      /\ weight' = Consumed(c)
      /\ UNCHANGED <<number, open, hashes, prepared>>
  BY DEF apply_extrinsic
<1>5. free \in Balances /\ free[a] \in Nat
  BY <1>1 DEF TypeOK, Balances
<1>6. fee \in Nat /\ ExistentialDeposit \in Nat /\ N \in Nat
  BY RuntimeAssumption DEF Fee
<1>. HIDE DEF fee
<1>7. free[a] - fee >= 0
  BY <1>2, <1>5, <1>6
<1>8. paid \in Balances /\ Sum(paid, N) = Sum(free, N) - fee
  BY <1>5, <1>6, <1>7, PayingFees
<1>. HIDE DEF paid
<1>9. after \in Balances /\ Sum(after, N) = Sum(paid, N)
  BY <1>8, DispatchKeepsSum
<1>. HIDE DEF after
<1>10. /\ free' \in Balances
       /\ \A b \in AccountId : free'[b] # 0 => free'[b] >= ExistentialDeposit
       /\ Sum(free', N) \in Nat /\ Sum(Dust(after), N) \in Nat /\ Sum(after, N) \in Nat
       /\ Sum(after, N) = Sum(free', N) + Sum(Dust(after), N)
  BY <1>3, <1>9, ReapingBurnsDust
<1>11. issuance' = Sum(free', N)
  <2>1. issuance = Sum(free, N) /\ issuance \in Nat
    BY <1>1 DEF IssuanceIsHeld, TypeOK
  <2>2. Sum(after, N) = issuance - fee
    BY <1>8, <1>9, <2>1
  <2>. QED BY <1>3, <1>6, <1>10, <2>1, <2>2
<1>12. IssuanceIsHeld'
  BY <1>11 DEF IssuanceIsHeld
<1>13. \A b \in AccountId :
         /\ nonce[b] \in Nat /\ executed[b] \in Seq(Nat)
         /\ executed[b] = [i \in 1 .. nonce[b] |-> i - 1]
  BY <1>1 DEF TypeOK, EachNonceOnce
<1>14. \A b \in AccountId :
         /\ nonce'[b] \in Nat /\ executed'[b] \in Seq(Nat)
         /\ executed'[b] = [i \in 1 .. nonce'[b] |-> i - 1]
  <2>. TAKE b \in AccountId
  <2>1. CASE free'[b] = 0
    <3>1. nonce'[b] = 0 /\ executed'[b] = << >>
      BY <1>4, <2>1 DEF NoncesUsed
    <3>. QED BY <3>1
  <2>2. CASE free'[b] # 0 /\ b = a
    <3>1. nonce'[b] = nonce[b] + 1 /\ executed'[b] = Append(executed[b], nonce[b])
      BY <1>2, <1>4, <2>2 DEF NoncesUsed
    <3>2. executed'[b] = [i \in 1 .. nonce[b] + 1 |-> i - 1]
      BY <1>13, <3>1, NextNonce
    <3>3. nonce[b] \in Nat /\ executed[b] \in Seq(Nat)
      BY <1>13
    <3>4. Append(executed[b], nonce[b]) \in Seq(Nat)
      BY <3>3
    <3>5. nonce[b] + 1 \in Nat
      BY <3>3
    <3>. QED BY <3>1, <3>2, <3>4, <3>5
  <2>3. CASE free'[b] # 0 /\ b # a
    <3>1. nonce'[b] = nonce[b] /\ executed'[b] = executed[b]
      BY <1>4, <2>3 DEF NoncesUsed
    <3>. QED BY <1>13, <3>1
  <2>. QED BY <2>1, <2>2, <2>3
<1>15. EachNonceOnce'
  BY <1>14 DEF EachNonceOnce
<1>16. Consumed(c) \in [DispatchClass -> Nat]
       /\ Total(Consumed(c)) <= MAXIMUM_BLOCK_WEIGHT + reserved.Operational
       /\ Consumed(c).Normal + Consumed(c).Mandatory <= MAXIMUM_BLOCK_WEIGHT
  BY <1>1, <1>2, ConsumedWithinLimits DEF TypeOK
<1>17. WeightsWithinLimits'
  BY <1>4, <1>16 DEF WeightsWithinLimits, Total
<1>18. TypeOK'
  <2>1. nonce' \in [AccountId -> Nat]
    BY <1>4, <1>14 DEF NoncesUsed
  <2>2. executed' \in [AccountId -> Seq(Nat)]
    BY <1>4, <1>14
  <2>3. free' \in [AccountId -> Nat] /\ issuance' \in Nat
    BY <1>10, <1>11 DEF Balances
  <2>. QED BY <1>1, <1>4, <1>10, <1>16, <2>1, <2>2, <2>3 DEF TypeOK
<1>19. HashesKept' /\ PreparedForTheChain'
  BY <1>1, <1>4 DEF HashesKept, PreparedForTheChain
<1>. QED BY <1>12, <1>15, <1>17, <1>18, <1>19 DEF RuntimeInv

LEMMA RuntimeInvStep ==
  RuntimeInv /\ [Next]_vars => RuntimeInv'
<1>. SUFFICES ASSUME RuntimeInv, [Next]_vars PROVE RuntimeInv'
  OBVIOUS
<1>1. CASE initialize_block
  BY <1>1, InitializeBlockStep
<1>2. CASE finalize_block
  BY <1>2, FinalizeBlockStep
<1>3. ASSUME NEW n \in BenchmarkNonces, create_benchmark_extrinsic(n) PROVE RuntimeInv'
  BY <1>3, BenchmarkExtrinsicStep
<1>4. ASSUME NEW c \in Calls, remark(c) PROVE RuntimeInv'
  <2>1. apply_extrinsic(Bob, prepared.nonce, prepared.era, prepared.signed, c, Bob, 0)
    BY <1>4 DEF remark
  <2>2. Bob \in AccountId /\ 0 \in Nat
    BY RuntimeAssumption
  <2>. QED BY <2>1, <2>2, ApplyExtrinsicStep
<1>5. ASSUME NEW a \in AccountId, NEW c \in Calls, Sign(a, c) PROVE RuntimeInv'
  <2>1. PICK n \in 0 .. nonce[a], to \in AccountId, value \in Values :
          apply_extrinsic(a, n, Immortal, 0, c, to, value)
    BY <1>5 DEF Sign
  <2>2. value \in Nat
    BY RuntimeAssumption
  <2>. QED BY <2>1, <2>2, ApplyExtrinsicStep
<1>6. CASE UNCHANGED vars
  BY <1>6 DEF vars, accountVars, RuntimeInv, TypeOK, IssuanceIsHeld, EachNonceOnce,
              WeightsWithinLimits, Total, HashesKept, PreparedForTheChain
<1>. QED BY <1>1, <1>2, <1>3, <1>4, <1>5, <1>6 DEF Next

(***************************************************************************)
(* What of the limits on blocks is not in the invariant: there is room for *)
(* every operational call that fits into the reserve.                      *)
(***************************************************************************)
LEMMA RoomForOperational ==
  ASSUME RuntimeInv
  PROVE  BlockWithinLimits
<1>1. weight \in [DispatchClass -> Nat] /\ WeightsWithinLimits
  BY DEF RuntimeInv, TypeOK
<1>2. weight.Normal \in Nat /\ weight.Operational \in Nat /\ weight.Mandatory \in Nat
  BY <1>1 DEF DispatchClass
<1>3. Total(weight) - weight.Operational <= MAXIMUM_BLOCK_WEIGHT
  BY <1>1, <1>2, ReserveIsLess DEF WeightsWithinLimits, Total
<1>4. ASSUME NEW c \in Calls, c.class = "Operational",
             Consumed(c).Operational <= MAXIMUM_BLOCK_WEIGHT - max_total.Normal
      PROVE  CheckWeight(c)
  <2>1. c.weight \in Nat /\ ExtrinsicBaseWeight \in Nat
    BY RuntimeAssumption
  <2>2. Consumed(c).Operational = weight.Operational + c.weight + ExtrinsicBaseWeight
    BY <1>1, <1>4 DEF Consumed, DispatchClass
  <2>3. c.weight <= max_extrinsic(c.class)
    BY <1>2, <1>4, <2>1, <2>2, ReserveIsLess DEF max_extrinsic
  <2>4. Consumed(c)[c.class] <= max_total[c.class]
    BY <1>2, <1>4, <2>1, <2>2, ReserveIsLess
  <2>5. Consumed(c)[c.class] <= reserved[c.class]
    BY <1>4, ReserveIsLess
  <2>. QED BY <2>3, <2>4, <2>5 DEF CheckWeight
<1>. QED BY <1>1, <1>3, <1>4 DEF BlockWithinLimits, WeightsWithinLimits

(***************************************************************************)
(* The era of the benchmark leads back to the block it was made for, and   *)
(* the hash of this block is still kept.                                   *)
(***************************************************************************)
LEMMA PreparedIsValid ==
  ASSUME RuntimeInv
  PROVE  BenchmarkLivesItsPeriod
<1> DEFINE s == prepared.signed
           e == prepared.era
<1>. SUFFICES ASSUME e # Immortal, open, number < s + e.period
              PROVE  CheckEra(e, s)
  BY DEF BenchmarkLivesItsPeriod
<1>1. number \in Nat /\ s \in Nat /\ s < number /\ BlockHashCount \in Nat /\ BlockHashCount >= 2
  <2>1. number \in Nat /\ prepared.signed \in 0 .. number /\ prepared.signed < number
    BY RuntimeAssumption DEF RuntimeInv, TypeOK, PreparedForTheChain
  <2>2. BlockHashCount \in Nat /\ BlockHashCount >= 2
    BY BlockHashAssumption
  <2>. QED BY <2>1, <2>2
<1>2. e = mortal(period, s)
  BY DEF RuntimeInv, PreparedForTheChain
<1>3. period \in ShortPeriods /\ period \in Nat /\ period <= BlockHashCount
  BY ShortPeriod DEF ShortPeriods
<1>4. /\ e.period \in {4, 8, 16, 32, 64, 128, 256, 512, 1024, 2048, 4096}
      /\ e.period <= max(period, 4)
      /\ e.phase = s % e.period
  BY <1>1, <1>2, <1>3, MortalEra
<1>. HIDE DEF s, e
<1>5. birth(e, number) = s
  BY <1>1, <1>4, BirthIsFound
<1>6. e.period \in Nat /\ e.period <= BlockHashCount + 2
  BY <1>1, <1>3, <1>4 DEF max
<1>7. s \in 0 .. number - 1 /\ s >= number - BlockHashCount - 1
  BY <1>1, <1>6
<1>8. s \in hashes
  BY <1>7 DEF RuntimeInv, HashesKept
<1>. QED BY <1>5, <1>8 DEF CheckEra, s, e
-----------------------------------------------------------------------------
(***************************************************************************)
(* In every state the variables have their types, and no balance is below  *)
(* the existential deposit.                                                *)
(***************************************************************************)
THEOREM RuntimeTypeCorrect == Spec => []TypeOK
<1>1. RuntimeInv => TypeOK
  BY DEF RuntimeInv
<1>. QED BY <1>1, RuntimeInvInit, RuntimeInvStep, PTL DEF Spec

(***************************************************************************)
(* Fees, dust and transfers never part the issuance from the balances.     *)
(***************************************************************************)
THEOREM IssuanceAccounted == Spec => []IssuanceIsHeld
<1>1. RuntimeInv => IssuanceIsHeld
  BY DEF RuntimeInv
<1>. QED BY <1>1, RuntimeInvInit, RuntimeInvStep, PTL DEF Spec

(***************************************************************************)
(* No transaction of an account is executed twice or before an earlier     *)
(* one, as long as the account exists.                                     *)
(***************************************************************************)
THEOREM NoncesInOrder == Spec => []EachNonceOnce
<1>1. RuntimeInv => EachNonceOnce
  BY DEF RuntimeInv
<1>. QED BY <1>1, RuntimeInvInit, RuntimeInvStep, PTL DEF Spec

(***************************************************************************)
(* No order of calls makes a block heavier than its limit and the reserve, *)
(* and none keeps out an operational call that fits into the reserve.      *)
(***************************************************************************)
THEOREM BlocksHaveLimits == Spec => []BlockWithinLimits
<1>1. RuntimeInv => BlockWithinLimits
  BY RoomForOperational
<1>. QED BY <1>1, RuntimeInvInit, RuntimeInvStep, PTL DEF Spec

(***************************************************************************)
(* A transaction of the benchmark is valid in every block of its period,   *)
(* for every number of hashes from 2 to 8192 that a chain keeps.           *)
(***************************************************************************)
THEOREM BenchmarkStaysValid == Spec => []BenchmarkLivesItsPeriod
<1>1. RuntimeInv => BenchmarkLivesItsPeriod
  BY PreparedIsValid
<1>. QED BY <1>1, RuntimeInvInit, RuntimeInvStep, PTL DEF Spec
=============================================================================
