----------------------------- MODULE NetworkProofs -----------------------------
(***************************************************************************)
(* Any number of nodes that mine and exchange any blocks.  What relates    *)
(* them is the chain that leads to a block: each node adds up the          *)
(* difficulties along it, which it asks of the runtime on its own, and so  *)
(* all have the same totals; and as each of them is a ForkChoice, those    *)
(* that have the same blocks have the same best one.                       *)
(***************************************************************************)
EXTENDS Network, SumsProofs, SequenceTheorems

\* The rule of Retarget, for any chain.
RT == INSTANCE Retarget WITH chain <- << >>, target <- 0, initial <- 0, Timestamps <- Nat

Block == [difficulty : 0 .. MAX_DIFFICULTY, timestamp : Nat]

IsChain(c) ==
  /\ c \in Seq(Block)
  /\ \A i, j \in 1 .. Len(c) : i <= j => c[i].timestamp <= c[j].timestamp

(***************************************************************************)
(* The parameters, one by one.                                             *)
(***************************************************************************)
LEMMA Parameters ==
  /\ Blocks \subseteq Nat \ {0}
  /\ BLOCK_TIME \in Nat \ {0} /\ DIFFICULTY_ADJUST_WINDOW \in Nat \ {0}
  /\ CLAMP_FACTOR \in Nat \ {0}
  /\ DIFFICULTY_DAMP_FACTOR \in Nat /\ DIFFICULTY_DAMP_FACTOR >= 2
  /\ DIFFICULTY_ADJUST_WINDOW * BLOCK_TIME \in Nat
  /\ DIFFICULTY_ADJUST_WINDOW * BLOCK_TIME >= 2
  /\ MAX_DIFFICULTY \in Nat /\ MinimumPeriod \in Nat
<1>1. BLOCK_TIME \in Nat \ {0} /\ DIFFICULTY_ADJUST_WINDOW \in Nat \ {0}
      /\ CLAMP_FACTOR \in Nat \ {0}
  BY NetworkAssumption
<1>2. DIFFICULTY_ADJUST_WINDOW * BLOCK_TIME \in Nat
  BY <1>1
<1>. QED BY <1>1, <1>2, NetworkAssumption

LEMMA BlocksOfChain ==
  ASSUME NEW c, IsChain(c)
  PROVE  \A i \in 1 .. Len(c) : c[i].difficulty \in 0 .. MAX_DIFFICULTY /\ c[i].timestamp \in Nat
<1>1. c \in Seq(Block)
  BY DEF IsChain
<1>2. \A i \in 1 .. Len(c) : c[i] \in Block
  BY <1>1
<1>. QED BY <1>2 DEF Block

(***************************************************************************)
(* The window of a chain has taken some time, damped or clamped, so that   *)
(* the rule never divides by 0, whatever the times of the blocks are.      *)
(***************************************************************************)
LEMMA ElapsedIsNat ==
  ASSUME NEW c, IsChain(c), c # << >>
  PROVE  RT!Elapsed(c) \in Nat
<1> DEFINE k == Len(c)
           f == k - DIFFICULTY_ADJUST_WINDOW + 1
<1>1. c \in Seq(Block) /\ k \in Nat /\ k >= 1
  BY DEF IsChain
<1>2. \A i \in 1 .. k : c[i].timestamp \in Nat
  BY BlocksOfChain
<1>3. c[k].timestamp \in Nat /\ c[1].timestamp \in Nat /\ c[1].timestamp <= c[k].timestamp
  BY <1>1, <1>2 DEF IsChain
<1>4. f \in Int /\ f <= k /\ BLOCK_TIME \in Nat
  BY <1>1, Parameters
<1>5. RT!Elapsed(c) = c[k].timestamp
                      - (IF f >= 1 THEN c[f].timestamp ELSE c[1].timestamp - (1 - f) * BLOCK_TIME)
  BY <1>1 DEF RT!Elapsed, RT!BlockTime, RT!First
<1>. HIDE DEF k, f
<1>6. CASE f >= 1
  <2>1. c[f].timestamp \in Nat /\ c[f].timestamp <= c[k].timestamp
    BY <1>1, <1>2, <1>4, <1>6 DEF IsChain, k
  <2>. QED BY <1>3, <1>5, <1>6, <2>1
<1>7. CASE ~(f >= 1)
  <2>1. (1 - f) * BLOCK_TIME \in Nat
    BY <1>4, <1>7
  <2>. QED BY <1>3, <1>5, <1>7, <2>1
<1>. QED BY <1>6, <1>7

LEMMA DampedIsPositive ==
  ASSUME NEW c, IsChain(c), c # << >>
  PROVE  RT!Damped(c) \in Nat \ {0}
<1> DEFINE e == RT!Elapsed(c)
           d == DIFFICULTY_DAMP_FACTOR
           g == DIFFICULTY_ADJUST_WINDOW * BLOCK_TIME
<1>1. e \in Nat
  BY ElapsedIsNat
<1>2. d \in Nat /\ d >= 2 /\ g \in Nat /\ g >= 2 /\ CLAMP_FACTOR \in Nat \ {0}
  BY Parameters
<1>3. RT!Damped(c) = RT!AtMost((e + (d - 1) * g) \div d, CLAMP_FACTOR * g)
  BY DEF RT!Damped, RT!Goal
<1>. HIDE DEF e, d, g
<1>4. (d - 1) * g \in Nat /\ (d - 1) * g >= d
  <2>1. (d - 1) * g >= (d - 1) * 2
    BY <1>2
  <2>. QED BY <1>2, <2>1
<1>5. (e + (d - 1) * g) \div d \in Nat \ {0}
  BY <1>1, <1>2, <1>4
<1>6. CLAMP_FACTOR * g \in Nat \ {0}
  BY <1>2
<1>. QED BY <1>3, <1>5, <1>6 DEF RT!AtMost

(***************************************************************************)
(* What the rule yields is a difficulty within the limit.                  *)
(***************************************************************************)
LEMMA RuleInRange ==
  ASSUME NEW c, IsChain(c), c # << >>, NEW init \in 0 .. MAX_DIFFICULTY
  PROVE  RT!Rule(c, init) \in 0 .. MAX_DIFFICULTY
<1> DEFINE k == Len(c)
           W == DIFFICULTY_ADJUST_WINDOW
           D == DIFFICULTY_DAMP_FACTOR
           w == RT!Work(c, init)
           t == RT!Damped(c)
           a == IF w >= D THEN w ELSE D
           q == (a * BLOCK_TIME) \div t
           b == IF q >= D THEN q ELSE D
<1>1. c \in Seq(Block) /\ k \in Nat /\ k >= 1 /\ W \in Nat \ {0}
  BY Parameters DEF IsChain
<1>2. w \in Int
  <2> DEFINE x == [i \in 1 .. W |-> RT!BlockDifficulty(c, init, RT!First(c) + i - 1)]
  <2>1. ASSUME NEW i \in 1 .. W PROVE x[i] \in Int
    <3> DEFINE j == RT!First(c) + i - 1
    <3>1. j \in Int /\ j <= k
      BY <1>1 DEF RT!First
    <3>2. j >= 1 => c[j].difficulty \in 0 .. MAX_DIFFICULTY
      BY <1>1, <3>1, BlocksOfChain
    <3>3. x[i] = IF j >= 1 THEN c[j].difficulty ELSE init
      BY DEF RT!BlockDifficulty
    <3>. HIDE DEF j, x
    <3>. QED BY <3>2, <3>3, Parameters
  <2>2. w = Sum(x, W)
    BY DEF RT!Work, RT!Sum, Sum
  <2>. HIDE DEF x
  <2>. QED BY <1>1, <2>1, <2>2, SumInt
<1>3. t \in Nat \ {0}
  BY DampedIsPositive
<1>4. RT!Rule(c, init) = IF b <= MAX_DIFFICULTY THEN b ELSE MAX_DIFFICULTY
  BY DEF RT!Rule, RT!AtMost, RT!AtLeast
<1>5. D \in Nat /\ BLOCK_TIME \in Nat /\ MAX_DIFFICULTY \in Nat
  BY Parameters
<1>. HIDE DEF w, t, D
<1>6. a \in Nat
  BY <1>2, <1>5
<1>. HIDE DEF a
<1>7. q \in Nat
  <2>1. a * BLOCK_TIME \in Nat
    BY <1>5, <1>6
  <2>. QED BY <1>3, <2>1
<1>. HIDE DEF q
<1>8. b \in Nat
  BY <1>5, <1>7
<1>. HIDE DEF b
<1>. QED BY <1>4, <1>5, <1>8
-----------------------------------------------------------------------------
(***************************************************************************)
(* The work on a chain, and on the chain with one more block.              *)
(***************************************************************************)
WorkOn(c) == Sum([i \in 1 .. Len(c) |-> c[i].difficulty], Len(c))

LEMMA WorkOnGenesis == WorkOn(<< >>) = 0
<1>1. Len(<< >>) = 0
  OBVIOUS
<1>. QED BY <1>1, SumEmpty DEF WorkOn

LEMMA WorkIsNat ==
  ASSUME NEW c, IsChain(c)
  PROVE  WorkOn(c) \in Nat
<1> DEFINE d == [i \in 1 .. Len(c) |-> c[i].difficulty]
<1>1. Len(c) \in Nat
  BY DEF IsChain
<1>2. \A i \in 1 .. Len(c) : d[i] \in Nat
  BY BlocksOfChain, Parameters
<1>. HIDE DEF d
<1>3. Sum(d, Len(c)) \in Nat
  BY <1>1, <1>2, SumNat
<1>. QED BY <1>3 DEF WorkOn, d

LEMMA WorkOnOneMore ==
  ASSUME NEW c, IsChain(c), NEW r \in Block
  PROVE  WorkOn(Append(c, r)) = WorkOn(c) + r.difficulty
<1> DEFINE k == Len(c)
           x == Append(c, r)
           d == [i \in 1 .. k |-> c[i].difficulty]
           e == [i \in 1 .. k + 1 |-> x[i].difficulty]
<1>1. c \in Seq(Block) /\ k \in Nat
  BY DEF IsChain
<1>2. Len(x) = k + 1 /\ x[k + 1] = r /\ \A i \in 1 .. k : x[i] = c[i]
  BY <1>1
<1>3. r.difficulty \in Nat
  BY Parameters DEF Block
<1>4. \A i \in 1 .. k : d[i] \in Int /\ e[i] = d[i]
  <2>. TAKE i \in 1 .. k
  <2>1. c[i].difficulty \in Int
    BY BlocksOfChain, Parameters
  <2>2. d[i] = c[i].difficulty /\ e[i] = x[i].difficulty
    BY <1>1
  <2>. QED BY <1>2, <2>1, <2>2
<1>5. e[k + 1] = r.difficulty
  BY <1>1, <1>2
<1>6. WorkOn(c) = Sum(d, k) /\ WorkOn(x) = Sum(e, k + 1)
  BY <1>2 DEF WorkOn
<1>. HIDE DEF k, x, d, e
<1>7. Sum(e, k) = Sum(d, k)
  BY <1>1, <1>4, SumSame
<1>8. \A i \in 1 .. k + 1 : e[i] \in Int
  BY <1>1, <1>3, <1>4, <1>5
<1>9. Sum(e, k + 1) = Sum(e, k) + e[k + 1]
  BY <1>1, <1>8, SumStep
<1>. QED BY <1>5, <1>6, <1>7, <1>9 DEF x

LEMMA ChainOneMore ==
  ASSUME NEW c, IsChain(c), NEW r \in Block,
         c # << >> => c[Len(c)].timestamp <= r.timestamp
  PROVE  IsChain(Append(c, r))
<1> DEFINE k == Len(c)
           x == Append(c, r)
<1>1. c \in Seq(Block) /\ k \in Nat
  BY DEF IsChain
<1>2. x \in Seq(Block) /\ Len(x) = k + 1 /\ x[k + 1] = r /\ \A i \in 1 .. k : x[i] = c[i]
  BY <1>1
<1>3. \A i \in 1 .. k : c[i].timestamp \in Nat
  BY BlocksOfChain
<1>4. r.timestamp \in Nat
  BY DEF Block
<1>5. \A i \in 1 .. k : c[i].timestamp <= r.timestamp
  <2>. TAKE i \in 1 .. k
  <2>1. k \in 1 .. k /\ i <= k /\ c # << >>
    BY <1>1
  <2>2. c[i].timestamp <= c[k].timestamp /\ c[k].timestamp <= r.timestamp
    BY <2>1 DEF IsChain
  <2>3. c[i].timestamp \in Nat /\ c[k].timestamp \in Nat
    BY <1>3, <2>1
  <2>. QED BY <1>4, <2>2, <2>3
<1>6. ASSUME NEW i \in 1 .. k + 1, NEW j \in 1 .. k + 1, i <= j
      PROVE  x[i].timestamp <= x[j].timestamp
  <2>1. CASE j = k + 1 /\ i = k + 1
    BY <1>2, <1>4, <2>1
  <2>2. CASE j = k + 1 /\ i # k + 1
    <3>1. i \in 1 .. k
      BY <1>1, <2>2
    <3>. QED BY <1>2, <1>5, <2>2, <3>1
  <2>3. CASE j # k + 1
    <3>1. i \in 1 .. k /\ j \in 1 .. k
      BY <1>1, <1>6, <2>3
    <3>2. c[i].timestamp <= c[j].timestamp
      BY <1>6, <3>1 DEF IsChain
    <3>. QED BY <1>2, <3>1, <3>2
  <2>. QED BY <2>1, <2>2, <2>3
<1>. QED BY <1>2, <1>6 DEF IsChain
-----------------------------------------------------------------------------
(***************************************************************************)
(* The inductive invariant.  A mined block extends the chain of its parent *)
(* by a block of the difficulty that the runtime answers there; nothing    *)
(* changes it afterwards.  An import under way is of a mined block, with   *)
(* its own parent and the difficulty of this parent, whichever lane it     *)
(* came through: this is what makes totals independent of the order.       *)
(***************************************************************************)
\* difficulty(b), for chains ch.
DifficultyOn(ch, init, b) == IF b = Genesis THEN init ELSE RT!Rule(ch[b], init)

ChainsGrowByTheRule ==
  /\ initial \in 0 .. MAX_DIFFICULTY
  /\ Genesis \in DOMAIN chain /\ DOMAIN chain \subseteq Blocks \cup {Genesis}
  /\ chain[Genesis] = << >>
  /\ \A b \in DOMAIN chain : IsChain(chain[b]) /\ (b # Genesis => chain[b] # << >>)
  /\ \A b \in Mined :
       /\ Header[b].parent \in DOMAIN chain
       /\ chain[b] = Append(chain[Header[b].parent],
                            [difficulty |-> DifficultyOn(chain, initial, Header[b].parent),
                             timestamp |-> Header[b].timestamp])

ImportRecord == [block : Blocks, parent : Blocks \cup {Genesis},
                 difficulty : 0 .. MAX_DIFFICULTY, seen : Blocks \cup {Genesis}]

NodesTyped ==
  /\ DOMAIN total = Nodes /\ DOMAIN import = Nodes
  /\ best \in [Nodes -> Blocks \cup {Genesis}]
  /\ raced \in [Nodes -> BOOLEAN] /\ stale \in [Nodes -> BOOLEAN]
  /\ \A n \in Nodes :
       /\ Imported(n) \subseteq DOMAIN chain
       /\ Genesis \in Imported(n) /\ best[n] \in Imported(n)
       /\ import[n] \in [LanesOf(n) -> ImportRecord \cup {Idle}]

ImportsFit ==
  \A n \in Nodes : \A l \in LanesOf(n) : import[n][l] # Idle =>
    LET i == import[n][l]
    IN  /\ i.block \in Mined /\ i.block \notin Imported(n)
        /\ i.parent = Header[i.block].parent /\ i.parent \in Imported(n)
        /\ i.difficulty = DifficultyOn(chain, initial, i.parent)
        /\ i.seen \in Imported(n)
        /\ \A m \in LanesOf(n) \ {l} : import[n][m] # Idle => import[n][m].block # i.block

\* HeaviestUnlessStale of ForkChoice, for every node.
Heavier(tot, a, b) == tot[a] > tot[b] \/ (tot[a] = tot[b] /\ a < b)

FreshNodesOnHeaviest ==
  \A n \in Nodes : ~stale[n] => \A b \in Imported(n) : ~Heavier(total[n], b, best[n])

NetworkInv ==
  /\ ChainsGrowByTheRule
  /\ NodesTyped
  /\ ImportsFit
  /\ TotalsAreWorkOfChains
  /\ FreshNodesOnHeaviest

(***************************************************************************)
(* The pallet's rule on a branch of the network is the rule for chains.    *)
(***************************************************************************)
LEMMA DifficultyIs ==
  ASSUME NEW b
  PROVE  difficulty(b) = DifficultyOn(chain, initial, b)
BY DEF difficulty, DifficultyOn, R!Rule, R!AtMost, R!AtLeast, R!Work, R!BlockDifficulty, R!First,
       R!Sum, R!Damped, R!Elapsed, R!BlockTime, R!Goal, RT!Rule, RT!AtMost, RT!AtLeast, RT!Work,
       RT!BlockDifficulty, RT!First, RT!Sum, RT!Damped, RT!Elapsed, RT!BlockTime, RT!Goal

LEMMA DifficultyInRange ==
  ASSUME ChainsGrowByTheRule, NEW b \in DOMAIN chain
  PROVE  DifficultyOn(chain, initial, b) \in 0 .. MAX_DIFFICULTY
<1>1. CASE b = Genesis
  BY <1>1 DEF DifficultyOn, ChainsGrowByTheRule
<1>2. CASE b # Genesis
  <2>1. IsChain(chain[b]) /\ chain[b] # << >> /\ initial \in 0 .. MAX_DIFFICULTY
    BY <1>2 DEF ChainsGrowByTheRule
  <2>2. RT!Rule(chain[b], initial) \in 0 .. MAX_DIFFICULTY
    BY <2>1, RuleInRange
  <2>. QED BY <1>2, <2>2 DEF DifficultyOn
<1>. QED BY <1>1, <1>2

LEMMA BlockIsNotGenesis ==
  ASSUME NEW b \in Blocks
  PROVE  b \in Nat /\ b # Genesis
BY Parameters DEF Genesis

LEMMA HeaderHasParent ==
  ASSUME NEW b \in Blocks
  PROVE  Header[b].parent \in Blocks \cup {Genesis} /\ Header[b].timestamp \in Nat
<1>1. Header \in [Blocks -> [parent : Blocks \cup {Genesis}, number : Nat \ {0}, timestamp : Nat]]
  BY NetworkAssumption
<1>. QED BY <1>1

LEMMA WeightIsWork ==
  ASSUME NEW b
  PROVE  Weight(b) = WorkOn(chain[b])
BY DEF Weight, WorkOn

(***************************************************************************)
(* At the start every node has genesis only.                               *)
(***************************************************************************)
LEMMA NetworkInvInit ==
  ASSUME Init
  PROVE  NetworkInv
<1>1. /\ initial \in GenesisDifficulties
      /\ chain = [b \in {Genesis} |-> << >>]
      /\ total = [n \in Nodes |-> [b \in {Genesis} |-> 0]]
      /\ best = [n \in Nodes |-> Genesis]
      /\ import = [n \in Nodes |-> [l \in LanesOf(n) |-> Idle]]
      /\ raced = [n \in Nodes |-> FALSE]
      /\ stale = [n \in Nodes |-> FALSE]
  BY DEF Init
<1>2. DOMAIN chain = {Genesis} /\ chain[Genesis] = << >> /\ Mined = {}
  BY <1>1 DEF Mined
<1>3. \A n \in Nodes : /\ Imported(n) = {Genesis} /\ total[n][Genesis] = 0 /\ best[n] = Genesis
                       /\ \A l \in LanesOf(n) : import[n][l] = Idle
  BY <1>1 DEF Imported
<1>4. ChainsGrowByTheRule
  <2>1. initial \in 0 .. MAX_DIFFICULTY
    BY <1>1, NetworkAssumption
  <2>2. IsChain(<< >>)
    BY DEF IsChain
  <2>. QED BY <1>2, <2>1, <2>2 DEF ChainsGrowByTheRule
<1>5. NodesTyped
  BY <1>1, <1>2, <1>3 DEF NodesTyped
<1>6. ImportsFit
  BY <1>3 DEF ImportsFit
<1>7. TotalsAreWorkOfChains
  BY <1>2, <1>3, WeightIsWork, WorkOnGenesis DEF TotalsAreWorkOfChains
<1>8. FreshNodesOnHeaviest
  BY <1>3 DEF FreshNodesOnHeaviest, Heavier, Genesis
<1>. QED BY <1>4, <1>5, <1>6, <1>7, <1>8 DEF NetworkInv

(***************************************************************************)
(* Ends of imports without a commit: a failure, a restart.                 *)
(***************************************************************************)
LEMMA IdleStep ==
  ASSUME NetworkInv, UNCHANGED <<initial, chain, total, best, raced, stale>>,
         DOMAIN import' = Nodes,
         \A n \in Nodes : import'[n] \in [LanesOf(n) -> ImportRecord \cup {Idle}],
         \A n \in Nodes : \A l \in LanesOf(n) : import'[n][l] = Idle \/ import'[n][l] = import[n][l]
  PROVE  NetworkInv'
<1>1. ChainsGrowByTheRule'
  BY DEF NetworkInv, ChainsGrowByTheRule, Mined
<1>2. NodesTyped'
  BY DEF NetworkInv, NodesTyped, Imported
<1>3. Mined' = Mined /\ \A n \in Nodes : Imported(n)' = Imported(n)
  BY DEF Mined, Imported
<1>4. ImportsFit'
  <2>. SUFFICES ASSUME NEW n \in Nodes, NEW l \in LanesOf(n), import'[n][l] # Idle
                PROVE  LET i == import'[n][l]
                       IN  /\ i.block \in Mined /\ i.block \notin Imported(n)
                           /\ i.parent = Header[i.block].parent /\ i.parent \in Imported(n)
                           /\ i.difficulty = DifficultyOn(chain, initial, i.parent)
                           /\ i.seen \in Imported(n)
                           /\ \A m \in LanesOf(n) \ {l} :
                                import'[n][m] # Idle => import'[n][m].block # i.block
    BY <1>3 DEF ImportsFit
  <2>1. import'[n][l] = import[n][l]
    OBVIOUS
  <2>. QED BY <2>1 DEF NetworkInv, ImportsFit
<1>5. TotalsAreWorkOfChains'
  BY DEF NetworkInv, TotalsAreWorkOfChains, Imported, Weight
<1>6. FreshNodesOnHeaviest'
  BY DEF NetworkInv, FreshNodesOnHeaviest, Imported, Heavier
<1>. QED BY <1>1, <1>2, <1>4, <1>5, <1>6 DEF NetworkInv

(***************************************************************************)
(* Chains are never changed, only added, and so everything that is said of *)
(* the chains of imported blocks stays true.                               *)
(***************************************************************************)
ChainsKept ==
  /\ initial' = initial
  /\ DOMAIN chain \subseteq DOMAIN chain'
  /\ \A b \in DOMAIN chain : chain'[b] = chain[b]

LEMMA KeptDifficulty ==
  ASSUME ChainsKept, NEW b \in DOMAIN chain
  PROVE  DifficultyOn(chain', initial', b) = DifficultyOn(chain, initial, b)
BY DEF ChainsKept, DifficultyOn

LEMMA KeptTotals ==
  ASSUME NetworkInv, ChainsKept, UNCHANGED <<total, best, stale>>
  PROVE  TotalsAreWorkOfChains' /\ FreshNodesOnHeaviest'
<1>1. TotalsAreWorkOfChains'
  <2>. SUFFICES ASSUME NEW n \in Nodes, NEW b \in Imported(n)
                PROVE  total[n][b] = Weight(b)'
    BY DEF TotalsAreWorkOfChains, Imported
  <2>1. b \in DOMAIN chain /\ total[n][b] = Weight(b)
    BY DEF NetworkInv, NodesTyped, TotalsAreWorkOfChains
  <2>2. Weight(b)' = Weight(b)
    BY <2>1 DEF ChainsKept, Weight
  <2>. QED BY <2>1, <2>2
<1>2. FreshNodesOnHeaviest'
  BY DEF NetworkInv, FreshNodesOnHeaviest, Imported, Heavier
<1>. QED BY <1>1, <1>2

(***************************************************************************)
(* An import begins, through either lane.                                  *)
(***************************************************************************)
LEMMA BeginStep ==
  ASSUME NetworkInv, ChainsKept, ChainsGrowByTheRule',
         NEW n \in Nodes, NEW l \in LanesOf(n), NEW b \in Blocks, NEW d,
         Begin(n, l, b, d),
         b \in DOMAIN chain', b \notin Imported(n),
         \A m \in LanesOf(n) : import[n][m] # Idle => import[n][m].block # b,
         Header[b].parent \in Imported(n),
         d = DifficultyOn(chain, initial, Header[b].parent)
  PROVE  NetworkInv'
<1> DEFINE p == Header[b].parent
           i == [block |-> b, parent |-> p, difficulty |-> d, seen |-> best[n]]
<1>1. /\ import' = [import EXCEPT ![n][l] = i]
      /\ raced' = [raced EXCEPT ![n] = @ \/ \E m \in LanesOf(n) : import[n][m] # Idle]
      /\ UNCHANGED <<total, best, stale>>
  BY DEF Begin
<1>2. /\ ChainsGrowByTheRule /\ NodesTyped /\ ImportsFit
      /\ \A m \in Nodes : Imported(m)' = Imported(m)
      /\ \A m \in Nodes : Imported(m) \subseteq DOMAIN chain
      /\ Mined \subseteq Mined'
  BY <1>1 DEF NetworkInv, NodesTyped, Imported, ChainsKept, Mined
<1>3. p \in DOMAIN chain /\ p \in Blocks \cup {Genesis} /\ best[n] \in Imported(n)
      /\ best[n] \in Blocks \cup {Genesis} /\ d \in 0 .. MAX_DIFFICULTY
  BY <1>2, HeaderHasParent, DifficultyInRange DEF NodesTyped
<1>4. i \in ImportRecord /\ i # Idle
  BY <1>3, NetworkAssumption DEF ImportRecord
<1>5. i.block = b /\ i.parent = p /\ i.difficulty = d /\ i.seen = best[n]
  OBVIOUS
<1>. HIDE DEF i
<1>6. /\ DOMAIN import' = Nodes
      /\ \A m \in Nodes : m # n => import'[m] = import[m]
      /\ import'[n] = [import[n] EXCEPT ![l] = i]
  BY <1>1, <1>2 DEF NodesTyped
<1>7. import[n] \in [LanesOf(n) -> ImportRecord \cup {Idle}]
  BY <1>2 DEF NodesTyped
<1>8. /\ import'[n] \in [LanesOf(n) -> ImportRecord \cup {Idle}]
      /\ \A k \in LanesOf(n) : import'[n][k] = IF k = l THEN i ELSE import[n][k]
  BY <1>4, <1>6, <1>7
<1>9. NodesTyped'
  <2>1. DOMAIN total' = Nodes /\ best' \in [Nodes -> Blocks \cup {Genesis}]
        /\ stale' \in [Nodes -> BOOLEAN]
    BY <1>1, <1>2 DEF NodesTyped
  <2>2. raced' \in [Nodes -> BOOLEAN]
    BY <1>1, <1>2 DEF NodesTyped
  <2>3. ASSUME NEW m \in Nodes
        PROVE  /\ Imported(m)' \subseteq DOMAIN chain'
               /\ Genesis \in Imported(m)' /\ best'[m] \in Imported(m)'
               /\ import'[m] \in [LanesOf(m) -> ImportRecord \cup {Idle}]
    <3>1. /\ Imported(m) \subseteq DOMAIN chain
          /\ Genesis \in Imported(m) /\ best[m] \in Imported(m)
          /\ import[m] \in [LanesOf(m) -> ImportRecord \cup {Idle}]
      BY <1>2 DEF NodesTyped
    <3>. QED BY <1>1, <1>2, <1>6, <1>8, <3>1 DEF ChainsKept
  <2>. QED BY <1>6, <2>1, <2>2, <2>3 DEF NodesTyped
<1>10. ImportsFit'
  <2>. SUFFICES ASSUME NEW m \in Nodes, NEW k \in LanesOf(m), import'[m][k] # Idle
                PROVE  LET j == import'[m][k]
                       IN  /\ j.block \in Mined' /\ j.block \notin Imported(m)
                           /\ j.parent = Header[j.block].parent /\ j.parent \in Imported(m)
                           /\ j.difficulty = DifficultyOn(chain', initial', j.parent)
                           /\ j.seen \in Imported(m)
                           /\ \A h \in LanesOf(m) \ {k} :
                                import'[m][h] # Idle => import'[m][h].block # j.block
    BY <1>2 DEF ImportsFit
  <2>1. CASE m = n /\ k = l
    <3>1. import'[m][k] = i
      BY <1>8, <2>1
    <3>2. b \in Mined'
      BY BlockIsNotGenesis DEF Mined
    <3>3. d = DifficultyOn(chain', initial', p)
      BY <1>3, KeptDifficulty
    <3>. QED BY <1>3, <1>5, <1>8, <2>1, <3>1, <3>2, <3>3
  <2>2. CASE ~(m = n /\ k = l)
    <3>1. import'[m][k] = import[m][k]
      BY <1>6, <1>8, <2>2
    <3> DEFINE j == import[m][k]
    <3>2. /\ j.block \in Mined /\ j.block \notin Imported(m)
          /\ j.parent = Header[j.block].parent /\ j.parent \in Imported(m)
          /\ j.difficulty = DifficultyOn(chain, initial, j.parent)
          /\ j.seen \in Imported(m)
          /\ \A h \in LanesOf(m) \ {k} : import[m][h] # Idle => import[m][h].block # j.block
      BY <1>2, <3>1 DEF ImportsFit
    <3>3. DifficultyOn(chain', initial', j.parent) = DifficultyOn(chain, initial, j.parent)
      BY <1>2, <3>2, KeptDifficulty
    <3>4. ASSUME NEW h \in LanesOf(m) \ {k}, import'[m][h] # Idle
          PROVE  import'[m][h].block # j.block
      <4>1. CASE m = n /\ h = l
        <5>1. import'[m][h] = i
          BY <1>8, <4>1
        <5>2. j.block # b
          BY <3>1, <4>1
        <5>. QED BY <1>5, <5>1, <5>2
      <4>2. CASE ~(m = n /\ h = l)
        <5>1. import'[m][h] = import[m][h]
          BY <1>6, <1>8, <4>2
        <5>. QED BY <3>2, <3>4, <5>1
      <4>. QED BY <4>1, <4>2
    <3>. QED BY <1>2, <3>1, <3>2, <3>3, <3>4
  <2>. QED BY <2>1, <2>2
<1>11. TotalsAreWorkOfChains' /\ FreshNodesOnHeaviest'
  BY <1>1, KeptTotals
<1>. QED BY <1>9, <1>10, <1>11 DEF NetworkInv

LEMMA ReceiveStep ==
  ASSUME NetworkInv, NEW n \in Nodes, NEW b \in Mined, Receive(n, b)
  PROVE  NetworkInv'
<1>1. /\ b \notin Imported(n) /\ Header[b].parent \in Imported(n)
      /\ Begin(n, "queue", b, difficulty(Header[b].parent))
      /\ UNCHANGED <<initial, chain>>
      /\ \A m \in LanesOf(n) : import[n][m] # Idle => import[n][m].block # b
  BY DEF Receive, F!Importing
<1>2. ChainsKept /\ ChainsGrowByTheRule'
  BY <1>1 DEF NetworkInv, ChainsGrowByTheRule, ChainsKept, Mined
<1>3. b \in Blocks /\ b \in DOMAIN chain' /\ "queue" \in LanesOf(n)
  BY <1>1 DEF NetworkInv, ChainsGrowByTheRule, Mined, LanesOf
<1>4. difficulty(Header[b].parent) = DifficultyOn(chain, initial, Header[b].parent)
  BY DifficultyIs
<1>. QED BY <1>1, <1>2, <1>3, <1>4, BeginStep

(***************************************************************************)
(* A block is mined: its chain is that of its parent and the block itself. *)
(***************************************************************************)
LEMMA MineGrowsChains ==
  ASSUME NetworkInv, NEW n \in Nodes, NEW b \in Blocks, Mine(n, b)
  PROVE  /\ ChainsKept /\ ChainsGrowByTheRule'
         /\ DOMAIN chain' = DOMAIN chain \cup {b}
<1> DEFINE p == Header[b].parent
           t == Header[b].timestamp
           r == [difficulty |-> DifficultyOn(chain, initial, p), timestamp |-> t]
<1>1. /\ b \notin Mined /\ p \in Imported(n) /\ initial' = initial
      /\ chain' = [x \in DOMAIN chain \cup {b} |->
                     IF x = b THEN Append(chain[p], r) ELSE chain[x]]
  BY DifficultyIs DEF Mine
<1>2. chain[p] # << >> =>
        LET last == chain[p][Len(chain[p])].timestamp
        IN  last = 0 \/ t >= last + MinimumPeriod
  BY DEF Mine, R!Follows
<1>3. ChainsGrowByTheRule /\ p \in DOMAIN chain
  BY <1>1 DEF NetworkInv, NodesTyped
<1>4. b # Genesis /\ b \notin DOMAIN chain
  BY <1>1, BlockIsNotGenesis DEF Mined
<1>5. IsChain(chain[p]) /\ t \in Nat /\ r \in Block
  <2>1. t \in Nat
    BY HeaderHasParent
  <2>2. DifficultyOn(chain, initial, p) \in 0 .. MAX_DIFFICULTY
    BY <1>3, DifficultyInRange
  <2>. QED BY <1>3, <2>1, <2>2 DEF ChainsGrowByTheRule, Block
<1>6. r.timestamp = t
  OBVIOUS
<1>. HIDE DEF r
<1>7. chain[p] # << >> => chain[p][Len(chain[p])].timestamp <= r.timestamp
  <2>. SUFFICES ASSUME chain[p] # << >>
                PROVE  chain[p][Len(chain[p])].timestamp <= t
    BY <1>6
  <2>1. chain[p] \in Seq(Block) /\ Len(chain[p]) \in 1 .. Len(chain[p])
    BY <1>5 DEF IsChain
  <2>2. chain[p][Len(chain[p])].timestamp \in Nat
    BY <1>5, <2>1, BlocksOfChain
  <2>. QED BY <1>2, <1>5, <2>2, Parameters
<1>8. IsChain(Append(chain[p], r))
  BY <1>5, <1>7, ChainOneMore
<1>9. Append(chain[p], r) # << >>
  <2>1. chain[p] \in Seq(Block)
    BY <1>5 DEF IsChain
  <2>. QED BY <2>1, <1>5
<1>10. /\ DOMAIN chain' = DOMAIN chain \cup {b}
       /\ chain'[b] = Append(chain[p], r)
       /\ \A x \in DOMAIN chain : chain'[x] = chain[x]
  BY <1>1, <1>4
<1>11. ChainsKept
  BY <1>1, <1>10 DEF ChainsKept
<1>12. ChainsGrowByTheRule'
  <2>1. /\ initial' \in 0 .. MAX_DIFFICULTY
        /\ Genesis \in DOMAIN chain' /\ DOMAIN chain' \subseteq Blocks \cup {Genesis}
        /\ chain'[Genesis] = << >>
    BY <1>1, <1>3, <1>10 DEF ChainsGrowByTheRule
  <2>2. \A x \in DOMAIN chain' : IsChain(chain'[x]) /\ (x # Genesis => chain'[x] # << >>)
    BY <1>3, <1>8, <1>9, <1>10 DEF ChainsGrowByTheRule
  <2>3. ASSUME NEW x \in Mined'
        PROVE  LET q == Header[x].parent
               IN  /\ q \in DOMAIN chain'
                   /\ chain'[x] = Append(chain'[q],
                                         [difficulty |-> DifficultyOn(chain', initial', q),
                                          timestamp |-> Header[x].timestamp])
    <3>1. CASE x = b
      <4>1. DifficultyOn(chain', initial', p) = DifficultyOn(chain, initial, p)
        BY <1>3, <1>11, KeptDifficulty
      <4>. QED BY <1>3, <1>10, <3>1, <4>1 DEF r
    <3>2. CASE x # b
      <4> DEFINE q == Header[x].parent
      <4>1. x \in Mined
        BY <1>10, <2>3, <3>2 DEF Mined
      <4>2. /\ q \in DOMAIN chain
            /\ chain[x] = Append(chain[q], [difficulty |-> DifficultyOn(chain, initial, q),
                                            timestamp |-> Header[x].timestamp])
        BY <1>3, <4>1 DEF ChainsGrowByTheRule
      <4>3. DifficultyOn(chain', initial', q) = DifficultyOn(chain, initial, q)
        BY <1>11, <4>2, KeptDifficulty
      <4>4. chain'[x] = chain[x] /\ chain'[q] = chain[q] /\ q \in DOMAIN chain'
        BY <1>10, <4>1, <4>2 DEF Mined
      <4>. QED BY <4>2, <4>3, <4>4
    <3>. QED BY <3>1, <3>2
  <2>. QED BY <2>1, <2>2, <2>3 DEF ChainsGrowByTheRule
<1>. QED BY <1>10, <1>11, <1>12

LEMMA MineStep ==
  ASSUME NetworkInv, NEW n \in Nodes, NEW b \in Blocks, Mine(n, b)
  PROVE  NetworkInv'
<1>1. /\ ChainsKept /\ ChainsGrowByTheRule' /\ b \in DOMAIN chain'
  BY MineGrowsChains
<1>2. /\ n \in Authorities /\ b \notin Mined /\ Header[b].parent \in Imported(n)
      /\ Begin(n, "miner", b, difficulty(Header[b].parent))
  BY DEF Mine
<1>3. "miner" \in LanesOf(n)
  BY <1>2 DEF LanesOf
<1>4. b \notin Imported(n) /\ \A m \in LanesOf(n) : import[n][m] # Idle => import[n][m].block # b
  <2>1. b # Genesis
    BY BlockIsNotGenesis
  <2>2. Imported(n) \subseteq DOMAIN chain
    BY DEF NetworkInv, NodesTyped
  <2>3. \A m \in LanesOf(n) : import[n][m] # Idle => import[n][m].block \in Mined
    BY DEF NetworkInv, ImportsFit
  <2>. QED BY <1>2, <2>1, <2>2, <2>3 DEF Mined
<1>5. difficulty(Header[b].parent) = DifficultyOn(chain, initial, Header[b].parent)
  BY DifficultyIs
<1>. QED BY <1>1, <1>2, <1>3, <1>4, <1>5, BeginStep

(***************************************************************************)
(* A commit: the new block's total is the work of its chain, since that of *)
(* its parent is; and the new best block is chosen by weight and hash.     *)
(***************************************************************************)
LEMMA CommitEffect ==
  ASSUME NetworkInv, NEW n \in Nodes, NEW l \in LanesOf(n), Commit(n, l)
  PROVE  LET i == import[n][l]
         IN  /\ UNCHANGED <<initial, chain, raced>>
             /\ DOMAIN total' = Nodes /\ DOMAIN import' = Nodes
             /\ \A m \in Nodes \ {n} : total'[m] = total[m] /\ import'[m] = import[m]
             /\ total'[n] = [x \in Imported(n) \cup {i.block} |->
                               IF x = i.block THEN total[n][i.parent] + i.difficulty
                               ELSE total[n][x]]
             /\ import'[n] = [import[n] EXCEPT ![l] = Idle]
             /\ best' = [best EXCEPT ![n] = IF F(n)!IsNewBest(i) THEN i.block ELSE @]
             /\ stale' = [stale EXCEPT ![n] = @ \/ i.seen # best[n]]
<1>1. DOMAIN total = Nodes /\ DOMAIN import = Nodes
  BY DEF NetworkInv, NodesTyped
<1>. QED BY <1>1 DEF Commit, F!Insert, F!total_difficulty, Imported

LEMMA CommitStep ==
  ASSUME NetworkInv, NEW n \in Nodes, NEW l \in LanesOf(n), Commit(n, l)
  PROVE  NetworkInv'
<1> DEFINE i == import[n][l]
           b == i.block
           v == total[n][i.parent] + i.difficulty
<1>1. /\ UNCHANGED <<initial, chain, raced>>
      /\ DOMAIN total' = Nodes /\ DOMAIN import' = Nodes
      /\ \A m \in Nodes \ {n} : total'[m] = total[m] /\ import'[m] = import[m]
      /\ total'[n] = [x \in Imported(n) \cup {b} |-> IF x = b THEN v ELSE total[n][x]]
      /\ import'[n] = [import[n] EXCEPT ![l] = Idle]
      /\ best' = [best EXCEPT ![n] = IF F(n)!IsNewBest(i) THEN b ELSE @]
      /\ stale' = [stale EXCEPT ![n] = @ \/ i.seen # best[n]]
  BY CommitEffect
<1>2. ChainsGrowByTheRule /\ NodesTyped /\ ImportsFit /\ TotalsAreWorkOfChains /\ FreshNodesOnHeaviest
  BY DEF NetworkInv
<1>3. /\ b \in Mined /\ b \notin Imported(n)
      /\ i.parent = Header[b].parent /\ i.parent \in Imported(n)
      /\ i.difficulty = DifficultyOn(chain, initial, i.parent)
      /\ i.seen \in Imported(n)
      /\ \A m \in LanesOf(n) \ {l} : import[n][m] # Idle => import[n][m].block # b
  BY <1>2 DEF ImportsFit, Commit
<1>4. /\ Imported(n)' = Imported(n) \cup {b} /\ total'[n][b] = v
      /\ \A x \in Imported(n) : total'[n][x] = total[n][x]
      /\ \A m \in Nodes \ {n} : Imported(m)' = Imported(m)
  BY <1>1, <1>3 DEF Imported
<1>5. Mined' = Mined
  BY <1>1 DEF Mined
<1>6. ChainsGrowByTheRule'
  BY <1>1, <1>2, <1>5 DEF ChainsGrowByTheRule
<1>7. b \in Blocks /\ b \in DOMAIN chain
  BY <1>2, <1>3 DEF ChainsGrowByTheRule, Mined
<1>8. \A k \in LanesOf(n) : import'[n][k] = IF k = l THEN Idle ELSE import[n][k]
  BY <1>1, <1>2 DEF NodesTyped
<1>. HIDE DEF b, v
<1>9. NodesTyped'
  <2>1. best' \in [Nodes -> Blocks \cup {Genesis}] /\ stale' \in [Nodes -> BOOLEAN]
        /\ raced' \in [Nodes -> BOOLEAN]
    BY <1>1, <1>2, <1>7 DEF NodesTyped
  <2>2. ASSUME NEW m \in Nodes
        PROVE  /\ Imported(m)' \subseteq DOMAIN chain'
               /\ Genesis \in Imported(m)' /\ best'[m] \in Imported(m)'
               /\ import'[m] \in [LanesOf(m) -> ImportRecord \cup {Idle}]
    <3>1. /\ Imported(m) \subseteq DOMAIN chain
          /\ Genesis \in Imported(m) /\ best[m] \in Imported(m)
          /\ import[m] \in [LanesOf(m) -> ImportRecord \cup {Idle}]
          /\ best \in [Nodes -> Blocks \cup {Genesis}]
      BY <1>2 DEF NodesTyped
    <3>2. CASE m = n
      <4>1. best'[n] = b \/ best'[n] = best[n]
        BY <1>1, <3>1
      <4>2. import'[n] \in [LanesOf(n) -> ImportRecord \cup {Idle}]
        BY <1>1, <3>1, <3>2
      <4>. QED BY <1>1, <1>4, <1>7, <3>1, <3>2, <4>1, <4>2
    <3>3. CASE m # n
      BY <1>1, <1>4, <3>1, <3>3
    <3>. QED BY <3>2, <3>3
  <2>. QED BY <1>1, <2>1, <2>2 DEF NodesTyped
<1>10. ImportsFit'
  <2>. SUFFICES ASSUME NEW m \in Nodes, NEW k \in LanesOf(m), import'[m][k] # Idle
                PROVE  LET j == import'[m][k]
                       IN  /\ j.block \in Mined /\ j.block \notin Imported(m)'
                           /\ j.parent = Header[j.block].parent /\ j.parent \in Imported(m)'
                           /\ j.difficulty = DifficultyOn(chain, initial, j.parent)
                           /\ j.seen \in Imported(m)'
                           /\ \A h \in LanesOf(m) \ {k} :
                                import'[m][h] # Idle => import'[m][h].block # j.block
    BY <1>1, <1>5 DEF ImportsFit
  <2>1. import'[m][k] = import[m][k]
    BY <1>1, <1>8
  <2> DEFINE j == import[m][k]
  <2>2. /\ j.block \in Mined /\ j.block \notin Imported(m)
        /\ j.parent = Header[j.block].parent /\ j.parent \in Imported(m)
        /\ j.difficulty = DifficultyOn(chain, initial, j.parent)
        /\ j.seen \in Imported(m)
        /\ \A h \in LanesOf(m) \ {k} : import[m][h] # Idle => import[m][h].block # j.block
    BY <1>2, <2>1 DEF ImportsFit
  <2>3. CASE m = n
    <3>1. k # l /\ import[n][k] # Idle
      BY <1>8, <2>1, <2>3
    <3>2. j.block # b
      BY <1>3, <2>3, <3>1
    <3>. QED BY <1>4, <1>8, <2>1, <2>2, <2>3, <3>2
  <2>4. CASE m # n
    BY <1>1, <1>4, <2>1, <2>2, <2>4
  <2>. QED BY <2>3, <2>4
<1>11. \A x \in Imported(n) : total[n][x] = Weight(x) /\ total[n][x] \in Nat
  <2>. TAKE x \in Imported(n)
  <2>1. total[n][x] = Weight(x)
    BY <1>2 DEF TotalsAreWorkOfChains
  <2>2. IsChain(chain[x])
    BY <1>2 DEF NodesTyped, ChainsGrowByTheRule
  <2>. QED BY <2>1, <2>2, WeightIsWork, WorkIsNat
<1>12. v = Weight(b) /\ v \in Nat
  <2> DEFINE r == [difficulty |-> DifficultyOn(chain, initial, i.parent),
                   timestamp |-> Header[b].timestamp]
  <2>1. IsChain(chain[i.parent]) /\ i.parent \in DOMAIN chain /\ chain[b] = Append(chain[i.parent], r)
    BY <1>2, <1>3 DEF NodesTyped, ChainsGrowByTheRule
  <2>2. r \in Block /\ r.difficulty = i.difficulty
    BY <1>2, <1>3, <1>7, <2>1, DifficultyInRange, HeaderHasParent DEF Block
  <2>. HIDE DEF r
  <2>3. WorkOn(chain[b]) = WorkOn(chain[i.parent]) + i.difficulty
    BY <2>1, <2>2, WorkOnOneMore
  <2>4. total[n][i.parent] = WorkOn(chain[i.parent])
    BY <1>3, <1>11, WeightIsWork
  <2>5. IsChain(chain[b])
    BY <1>2, <1>7 DEF ChainsGrowByTheRule
  <2>. QED BY <2>3, <2>4, <2>5, WeightIsWork, WorkIsNat DEF v
<1>13. TotalsAreWorkOfChains'
  <2>. SUFFICES ASSUME NEW m \in Nodes, NEW x \in Imported(m)'
                PROVE  total'[m][x] = Weight(x)'
    BY DEF TotalsAreWorkOfChains
  <2>1. Weight(x)' = Weight(x)
    BY <1>1 DEF Weight
  <2>. QED BY <1>1, <1>2, <1>4, <1>11, <1>12, <2>1 DEF TotalsAreWorkOfChains
<1>14. FreshNodesOnHeaviest'
  <2>. SUFFICES ASSUME NEW m \in Nodes, ~stale'[m], NEW x \in Imported(m)'
                PROVE  ~Heavier(total'[m], x, best'[m])
    BY DEF FreshNodesOnHeaviest
  <2>1. CASE m # n
    BY <1>1, <1>2, <1>4, <2>1 DEF FreshNodesOnHeaviest, NodesTyped
  <2>2. CASE m = n
    <3> DEFINE o == best[n]
    <3>1. ~stale[n] /\ i.seen = o /\ o \in Imported(n)
      BY <1>1, <1>2, <2>2 DEF NodesTyped
    <3>2. \A c \in Imported(n) : ~Heavier(total[n], c, o)
      BY <1>2, <3>1 DEF FreshNodesOnHeaviest
    <3>3. \A c \in Imported(n) \cup {b} : c \in Nat
      <4>1. Imported(n) \subseteq Blocks \cup {Genesis}
        BY <1>2 DEF NodesTyped, ChainsGrowByTheRule
      <4>. QED BY <1>7, <4>1, Parameters DEF Genesis
    <3>4. F(n)!IsNewBest(i) <=> v > total[n][o] \/ (v = total[n][o] /\ o > b)
      BY <3>1 DEF F!IsNewBest, F!break_tie, F!total_difficulty, v, b
    <3>5. total[n][o] \in Nat /\ v \in Nat /\ o \in Nat /\ b \in Nat /\ o # b
      BY <1>3, <1>11, <1>12, <3>1, <3>3
    <3>6. best'[n] = IF F(n)!IsNewBest(i) THEN b ELSE o
      BY <1>1, <1>2 DEF NodesTyped
    <3>. HIDE DEF o
    <3>7. ASSUME x \in Imported(n)
          PROVE  /\ total'[n][x] = total[n][x] /\ total[n][x] \in Nat /\ x \in Nat
                 /\ ~(total[n][x] > total[n][o]) /\ ~(total[n][x] = total[n][o] /\ x < o)
      BY <1>4, <1>11, <3>2, <3>3, <3>7 DEF Heavier
    <3>8. CASE F(n)!IsNewBest(i)
      <4>1. best'[n] = b /\ (v > total[n][o] \/ (v = total[n][o] /\ o > b))
        BY <3>4, <3>6, <3>8
      <4>2. CASE x = b
        BY <1>4, <1>12, <2>2, <3>5, <4>1, <4>2 DEF Heavier
      <4>3. CASE x \in Imported(n)
        <5>1. ~(total[n][x] > v) /\ ~(total[n][x] = v /\ x < b)
          BY <3>5, <3>7, <4>1, <4>3
        <5>. QED BY <1>4, <2>2, <3>7, <4>1, <4>3, <5>1 DEF Heavier
      <4>. QED BY <1>4, <2>2, <4>2, <4>3
    <3>9. CASE ~F(n)!IsNewBest(i)
      <4>1. best'[n] = o /\ ~(v > total[n][o]) /\ ~(v = total[n][o] /\ b < o)
            /\ total'[n][o] = total[n][o]
        BY <1>4, <3>1, <3>4, <3>5, <3>6, <3>9
      <4>2. CASE x = b
        BY <1>4, <2>2, <4>1, <4>2 DEF Heavier
      <4>3. CASE x \in Imported(n)
        BY <2>2, <3>7, <4>1, <4>3 DEF Heavier
      <4>. QED BY <1>4, <2>2, <4>2, <4>3
    <3>. QED BY <3>8, <3>9
  <2>. QED BY <2>1, <2>2
<1>. QED BY <1>6, <1>9, <1>10, <1>13, <1>14 DEF NetworkInv

LEMMA RejectStep ==
  ASSUME NetworkInv, NEW n \in Nodes, NEW l \in LanesOf(n), Reject(n, l)
  PROVE  NetworkInv'
<1>1. DOMAIN import = Nodes /\ \A m \in Nodes : import[m] \in [LanesOf(m) -> ImportRecord \cup {Idle}]
  BY DEF NetworkInv, NodesTyped
<1>2. /\ import' = [import EXCEPT ![n][l] = Idle]
      /\ UNCHANGED <<initial, chain, total, best, raced, stale>>
  BY DEF Reject
<1>3. /\ DOMAIN import' = Nodes
      /\ \A m \in Nodes : m # n => import'[m] = import[m]
      /\ import'[n] = [import[n] EXCEPT ![l] = Idle]
  BY <1>1, <1>2
<1>4. /\ \A m \in Nodes : import'[m] \in [LanesOf(m) -> ImportRecord \cup {Idle}]
      /\ \A m \in Nodes : \A k \in LanesOf(m) : import'[m][k] = Idle \/ import'[m][k] = import[m][k]
  BY <1>1, <1>3
<1>. QED BY <1>2, <1>3, <1>4, IdleStep

LEMMA RestartStep ==
  ASSUME NetworkInv, NEW n \in Nodes, Restart(n)
  PROVE  NetworkInv'
<1>1. DOMAIN import = Nodes /\ \A m \in Nodes : import[m] \in [LanesOf(m) -> ImportRecord \cup {Idle}]
  BY DEF NetworkInv, NodesTyped
<1>2. /\ import' = [import EXCEPT ![n] = [l \in LanesOf(n) |-> Idle]]
      /\ UNCHANGED <<initial, chain, total, best, raced, stale>>
  BY DEF Restart
<1>3. /\ DOMAIN import' = Nodes
      /\ \A m \in Nodes : m # n => import'[m] = import[m]
      /\ import'[n] = [l \in LanesOf(n) |-> Idle]
  BY <1>1, <1>2
<1>4. /\ \A m \in Nodes : import'[m] \in [LanesOf(m) -> ImportRecord \cup {Idle}]
      /\ \A m \in Nodes : \A k \in LanesOf(m) : import'[m][k] = Idle \/ import'[m][k] = import[m][k]
  BY <1>1, <1>3
<1>. QED BY <1>2, <1>3, <1>4, IdleStep

LEMMA NetworkInvStep ==
  NetworkInv /\ [Next]_vars => NetworkInv'
<1>. SUFFICES ASSUME NetworkInv, [Next]_vars PROVE NetworkInv'
  OBVIOUS
<1>1. ASSUME NEW n \in Nodes, NEW b \in Blocks, Mine(n, b) PROVE NetworkInv'
  BY <1>1, MineStep
<1>2. ASSUME NEW n \in Nodes, Gossip(n) PROVE NetworkInv'
  BY <1>2, ReceiveStep DEF Gossip
<1>3. ASSUME NEW n \in Nodes, NEW l \in LanesOf(n), Commit(n, l) PROVE NetworkInv'
  BY <1>3, CommitStep
<1>4. ASSUME Fault PROVE NetworkInv'
  BY <1>4, RestartStep, RejectStep DEF Fault
<1>5. CASE UNCHANGED vars
  <2>1. UNCHANGED <<initial, chain, total, best, import, raced, stale>>
    BY <1>5 DEF vars, forkVars
  <2>2. DOMAIN import' = Nodes /\ \A m \in Nodes : import'[m] \in [LanesOf(m) -> ImportRecord \cup {Idle}]
    BY <2>1 DEF NetworkInv, NodesTyped
  <2>. QED BY <2>1, <2>2, IdleStep
<1>. QED BY <1>1, <1>2, <1>3, <1>4, <1>5 DEF Next

(***************************************************************************)
(* The order by weight and hash is total, so that the best of the same     *)
(* blocks is the same.                                                     *)
(***************************************************************************)
LEMMA SameBlocksSameHeaviest ==
  ASSUME NetworkInv
  PROVE  SameBlocksSameBest
<1>. SUFFICES ASSUME NEW m \in Nodes, NEW n \in Nodes, Imported(m) = Imported(n),
                     ~stale[m], ~stale[n]
              PROVE  best[m] = best[n]
  BY DEF SameBlocksSameBest
<1> DEFINE x == best[m]
           y == best[n]
<1>1. x \in Imported(m) /\ y \in Imported(m) /\ x \in Imported(n) /\ y \in Imported(n)
      /\ Imported(m) \subseteq Blocks \cup {Genesis}
  BY DEF NetworkInv, NodesTyped, ChainsGrowByTheRule
<1>2. /\ total[m][x] = Weight(x) /\ total[n][x] = Weight(x)
      /\ total[m][y] = Weight(y) /\ total[n][y] = Weight(y)
  BY <1>1 DEF NetworkInv, TotalsAreWorkOfChains
<1>3. Weight(x) \in Nat /\ Weight(y) \in Nat
  <2>1. IsChain(chain[x]) /\ IsChain(chain[y])
    BY <1>1 DEF NetworkInv, NodesTyped, ChainsGrowByTheRule
  <2>. QED BY <2>1, WeightIsWork, WorkIsNat
<1>4. x \in Nat /\ y \in Nat
  <2>1. Blocks \cup {Genesis} \subseteq Nat
    BY Parameters DEF Genesis
  <2>. QED BY <1>1, <2>1
<1>5. ~Heavier(total[m], y, x) /\ ~Heavier(total[n], x, y)
  BY <1>1 DEF NetworkInv, FreshNodesOnHeaviest
<1>. HIDE DEF x, y
<1>6. /\ ~(Weight(y) > Weight(x) \/ (Weight(y) = Weight(x) /\ y < x))
      /\ ~(Weight(x) > Weight(y) \/ (Weight(x) = Weight(y) /\ x < y))
  BY <1>2, <1>5 DEF Heavier
<1>7. x = y
  BY <1>3, <1>4, <1>6
<1>. QED BY <1>7 DEF x, y
-----------------------------------------------------------------------------
(***************************************************************************)
(* A block has the same total difficulty at every node: the work on its    *)
(* chain, in whatever order blocks come, through whichever lane.           *)
(***************************************************************************)
THEOREM TotalsAreWork == Spec => []TotalsAreWorkOfChains
<1>1. NetworkInv => TotalsAreWorkOfChains
  BY DEF NetworkInv
<1>. QED BY <1>1, NetworkInvInit, NetworkInvStep, PTL DEF Spec

(***************************************************************************)
(* Nodes that have the same blocks have the same best block, unless one of *)
(* them compared a block with an outdated best block.                      *)
(***************************************************************************)
THEOREM NodesAgree == Spec => []SameBlocksSameBest
<1>1. NetworkInv => SameBlocksSameBest
  BY SameBlocksSameHeaviest
<1>. QED BY <1>1, NetworkInvInit, NetworkInvStep, PTL DEF Spec

(***************************************************************************)
(* A step of one node is a step of its ForkChoice, and leaves those of the *)
(* other nodes alone.                                                      *)
(***************************************************************************)
LEMMA BeginIsAStep ==
  ASSUME NetworkInv, NEW n \in Nodes, NEW l \in LanesOf(n), NEW b \in Blocks, NEW d,
         Begin(n, l, b, d), b \notin Imported(n), ~F(n)!Importing(b),
         Header[b].parent \in Imported(n), d \in 0 .. MAX_DIFFICULTY
  PROVE  \A m \in Nodes : UNCHANGED F(m)!vars \/ F(m)!Next
<1> DEFINE p == Header[b].parent
<1>1. NodesTyped
  BY DEF NetworkInv
<1>2. /\ import' = [import EXCEPT ![n][l] =
                      [block |-> b, parent |-> p, difficulty |-> d, seen |-> best[n]]]
      /\ raced' = [raced EXCEPT ![n] = @ \/ \E m \in LanesOf(n) : import[n][m] # Idle]
      /\ UNCHANGED <<total, best, stale>> /\ import[n][l] = Idle
  BY DEF Begin
<1>3. ASSUME NEW m \in Nodes, m # n PROVE UNCHANGED F(m)!vars
  BY <1>1, <1>2, <1>3 DEF F!vars, NodesTyped
<1>4. F(n)!Begin(l, b, p, d)
  BY <1>1, <1>2 DEF F!Begin, F!imported, Imported, NodesTyped
<1>5. F(n)!Next
  BY <1>4 DEF F!Next, F!imported, Imported
<1>. QED BY <1>3, <1>5

LEMMA StepsOfForkChoices ==
  ASSUME NetworkInv, Next
  PROVE  \A m \in Nodes : UNCHANGED F(m)!vars \/ F(m)!Next
<1>1. NodesTyped /\ ChainsGrowByTheRule
  BY DEF NetworkInv
<1>2. ASSUME NEW n \in Nodes, NEW b \in Blocks, Mine(n, b)
      PROVE  \A m \in Nodes : UNCHANGED F(m)!vars \/ F(m)!Next
  <2>1. /\ b \notin Mined /\ Header[b].parent \in Imported(n)
        /\ Begin(n, "miner", b, difficulty(Header[b].parent)) /\ "miner" \in LanesOf(n)
    BY <1>2 DEF Mine, LanesOf
  <2>2. b \notin Imported(n)
    BY <1>1, <2>1, BlockIsNotGenesis DEF NodesTyped, Mined
  <2>3. ~F(n)!Importing(b)
    <3>1. \A m \in LanesOf(n) : import[n][m] # Idle => import[n][m].block # b
      BY <2>1 DEF NetworkInv, ImportsFit
    <3>. QED BY <3>1 DEF F!Importing
  <2>4. difficulty(Header[b].parent) \in 0 .. MAX_DIFFICULTY
    BY <1>1, <2>1, DifficultyIs, DifficultyInRange DEF NodesTyped
  <2>. QED BY <2>1, <2>2, <2>3, <2>4, BeginIsAStep
<1>3. ASSUME NEW n \in Nodes, NEW b \in Mined, Receive(n, b)
      PROVE  \A m \in Nodes : UNCHANGED F(m)!vars \/ F(m)!Next
  <2>1. /\ b \notin Imported(n) /\ ~F(n)!Importing(b) /\ Header[b].parent \in Imported(n)
        /\ Begin(n, "queue", b, difficulty(Header[b].parent)) /\ "queue" \in LanesOf(n)
    BY <1>3 DEF Receive, LanesOf
  <2>2. b \in Blocks
    BY <1>1 DEF ChainsGrowByTheRule, Mined
  <2>3. difficulty(Header[b].parent) \in 0 .. MAX_DIFFICULTY
    BY <1>1, <2>1, DifficultyIs, DifficultyInRange DEF NodesTyped
  <2>. QED BY <2>1, <2>2, <2>3, BeginIsAStep
<1>4. ASSUME NEW n \in Nodes, NEW l \in LanesOf(n), Commit(n, l)
      PROVE  \A m \in Nodes : UNCHANGED F(m)!vars \/ F(m)!Next
  <2>1. ASSUME NEW m \in Nodes, m # n PROVE UNCHANGED F(m)!vars
    BY <1>1, <1>4, <2>1 DEF F!vars, NodesTyped, Commit
  <2>2. F(n)!Commit(l)
    BY <1>1, <1>4 DEF F!Commit, NodesTyped, Commit
  <2>3. F(n)!Next
    BY <2>2 DEF F!Next
  <2>. QED BY <2>1, <2>3
<1>5. ASSUME NEW n \in Nodes, NEW l \in LanesOf(n), Reject(n, l)
      PROVE  \A m \in Nodes : UNCHANGED F(m)!vars \/ F(m)!Next
  <2>1. ASSUME NEW m \in Nodes, m # n PROVE UNCHANGED F(m)!vars
    BY <1>1, <1>5, <2>1 DEF F!vars, NodesTyped, Reject
  <2>2. F(n)!Reject(l)
    BY <1>1, <1>5 DEF F!Reject, NodesTyped, Reject
  <2>3. F(n)!Next
    BY <2>2 DEF F!Next
  <2>. QED BY <2>1, <2>3
<1>6. ASSUME NEW n \in Nodes, Restart(n)
      PROVE  \A m \in Nodes : UNCHANGED F(m)!vars \/ F(m)!Next
  <2>1. ASSUME NEW m \in Nodes, m # n PROVE UNCHANGED F(m)!vars
    BY <1>1, <1>6, <2>1 DEF F!vars, NodesTyped, Restart
  <2>2. F(n)!Restart
    BY <1>1, <1>6 DEF F!Restart, NodesTyped, Restart
  <2>3. F(n)!Next
    BY <2>2 DEF F!Next
  <2>. QED BY <2>1, <2>3
<1>. QED BY <1>2, <1>3, <1>4, <1>5, <1>6 DEF Next, Gossip, Fault

(***************************************************************************)
(* Every node of the network is a ForkChoice, whatever the others do.      *)
(***************************************************************************)
THEOREM NodesAreForkChoices == Spec => EachNodeChoosesForks
<1>1. Init => \A n \in Nodes : F(n)!Init
  BY DEF Init, F!Init, F!Genesis, Genesis
<1>2. NetworkInv /\ [Next]_vars => [\A n \in Nodes : UNCHANGED F(n)!vars \/ F(n)!Next]_vars
  BY StepsOfForkChoices
<1>. QED BY <1>1, <1>2, NetworkInvInit, NetworkInvStep, PTL DEF Spec, EachNodeChoosesForks
=============================================================================
