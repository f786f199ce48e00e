------------------------------- MODULE Network -------------------------------
(***************************************************************************)
(* Several nodes that mine and exchange blocks: one ForkChoice for each of *)
(* them, on top of the difficulties that the pallet computes for the chain *)
(* a block is on.                                                          *)
(*                                                                         *)
(* The peer-to-peer network is external: build_network of node/src/        *)
(* service.rs hands it the import queue, and it brings a node the blocks   *)
(* its peers have, in any order and as often as it takes.  A block whose   *)
(* parent is missing is not imported, one that is there already is not     *)
(* imported again.  Nothing travels with a block but the block itself: its *)
(* difficulty is asked of the runtime, on the state of its parent, by      *)
(* every node for itself (pow/src/lib.rs, lines 90 to 102).                *)
(***************************************************************************)
EXTENDS Integers, Sequences, Sums

CONSTANTS
  Nodes,
  Authorities,   \* the nodes that mine
  Blocks,        \* hashes of the seals of the blocks that may be mined
  Header,        \* of each of them: its parent, its number, its time
  Idle,
  BLOCK_TIME, DIFFICULTY_ADJUST_WINDOW, CLAMP_FACTOR, DIFFICULTY_DAMP_FACTOR,
  MAX_DIFFICULTY, MinimumPeriod, GenesisDifficulties

Genesis == 0

ASSUME NetworkAssumption ==
  /\ Authorities \subseteq Nodes
  /\ Blocks \subseteq Nat \ {0}
  /\ {BLOCK_TIME, DIFFICULTY_ADJUST_WINDOW, CLAMP_FACTOR} \subseteq Nat \ {0}
  /\ DIFFICULTY_DAMP_FACTOR \in Nat /\ DIFFICULTY_DAMP_FACTOR >= 2
  /\ DIFFICULTY_ADJUST_WINDOW * BLOCK_TIME >= 2
  /\ MAX_DIFFICULTY \in Nat /\ MinimumPeriod \in Nat
  /\ GenesisDifficulties \subseteq 0 .. MAX_DIFFICULTY
  /\ Header \in [Blocks -> [parent : Blocks \cup {Genesis}, number : Nat \ {0}, timestamp : Nat]]
  /\ \A b \in Blocks :
       Header[b].number = IF Header[b].parent = Genesis THEN 1
                          ELSE Header[Header[b].parent].number + 1
  /\ Idle \notin [block : Blocks, parent : Blocks \cup {Genesis},
                  difficulty : 0 .. MAX_DIFFICULTY, seen : Blocks \cup {Genesis}]

VARIABLES
  initial,   \* the difficulty of the chain specification all nodes share
  chain,     \* of every block mined so far: the blocks from genesis to it
  total, best, import, raced, stale  \* of every node: see ForkChoice

forkVars == <<total, best, import, raced, stale>>
vars == <<initial, chain, forkVars>>

\* The mining worker of new_full imports through a clone of the import object.
LanesOf(n) == IF n \in Authorities THEN {"queue", "miner"} ELSE {"queue"}

F(n) == INSTANCE ForkChoice WITH
  Lanes <- LanesOf(n), Difficulties <- 0 .. MAX_DIFFICULTY,
  total <- total[n], best <- best[n], import <- import[n], raced <- raced[n], stale <- stale[n]

Imported(n) == DOMAIN total[n]

\* The pallet, in the state after block b.
R(b) == INSTANCE Retarget WITH chain <- chain[b], target <- initial, Timestamps <- Nat

Mined == DOMAIN chain \ {Genesis}

\* Sha3Algorithm::difficulty: what a child of block b must be mined at.
difficulty(b) == IF b = Genesis THEN initial ELSE R(b)!Rule(chain[b], initial)

Init ==
  /\ initial \in GenesisDifficulties
  /\ chain = [b \in {Genesis} |-> << >>]
  /\ total = [n \in Nodes |-> [b \in {Genesis} |-> 0]]
  /\ best = [n \in Nodes |-> Genesis]
  /\ import = [n \in Nodes |-> [l \in LanesOf(n) |-> Idle]]
  /\ raced = [n \in Nodes |-> FALSE]
  /\ stale = [n \in Nodes |-> FALSE]
-----------------------------------------------------------------------------
\* A lane of node n starts to import block b.
Begin(n, l, b, d) ==
  /\ import[n][l] = Idle
  /\ raced' = [raced EXCEPT ![n] = @ \/ \E m \in LanesOf(n) : import[n][m] # Idle]
  /\ import' = [import EXCEPT ![n][l] =
                  [block |-> b, parent |-> Header[b].parent, difficulty |-> d, seen |-> best[n]]]
  /\ UNCHANGED <<total, best, stale>>

\* The thread of node n has found the seal of block b, on a parent that was
\* the best block when the build was made.
Mine(n, b) ==
  /\ n \in Authorities
  /\ b \notin Mined
  /\ LET p == Header[b].parent
         t == Header[b].timestamp
     IN  /\ p \in Imported(n)
         /\ R(p)!Follows(t)
         /\ chain' = [x \in DOMAIN chain \cup {b} |->
                        IF x = b
                        THEN Append(chain[p], [difficulty |-> difficulty(p), timestamp |-> t])
                        ELSE chain[x]]
         /\ Begin(n, "miner", b, difficulty(p))
  /\ UNCHANGED initial

\* Mutant: the difficulty is asked on the node's best block.
ReceiveAtBest(n, b) ==
  /\ \E m \in Nodes \ {n} : b \in Imported(m)
  /\ b \notin Imported(n) /\ ~F(n)!Importing(b)
  /\ Header[b].parent \in Imported(n)
  /\ Begin(n, "queue", b, difficulty(best[n]))
  /\ UNCHANGED <<initial, chain>>

\* Mutant: only blocks on top of the best one are taken.
ReceiveOnBest(n, b) ==
  /\ \E m \in Nodes \ {n} : b \in Imported(m)
  /\ b \notin Imported(n) /\ ~F(n)!Importing(b)
  /\ Header[b].parent = best[n]
  /\ Begin(n, "queue", b, difficulty(Header[b].parent))
  /\ UNCHANGED <<initial, chain>>

\* The queue of node n gets a block that a peer has.
Receive(n, b) ==
  /\ \E m \in Nodes \ {n} : b \in Imported(m)
  /\ b \notin Imported(n) /\ ~F(n)!Importing(b)
  /\ Header[b].parent \in Imported(n)
  /\ Begin(n, "queue", b, difficulty(Header[b].parent))
  /\ UNCHANGED <<initial, chain>>

\* Mutant: an own block always becomes the best.
CommitOwnAsBest(n, l) ==
  /\ import[n][l] # Idle
  /\ LET i == import[n][l]
     IN  /\ F(n)!CanCompare(i)
         /\ total' = [total EXCEPT ![n] = F(n)!Insert(@, i.block, F(n)!total_difficulty(i))]
         /\ best' = [best EXCEPT ![n] = IF l = "miner" \/ F(n)!IsNewBest(i) THEN i.block ELSE @]
         /\ stale' = [stale EXCEPT ![n] = @ \/ i.seen # best[n]]
  /\ import' = [import EXCEPT ![n][l] = Idle]
  /\ UNCHANGED <<initial, chain, raced>>

Commit(n, l) ==
  /\ import[n][l] # Idle
  /\ LET i == import[n][l]
     IN  /\ F(n)!CanCompare(i)
         /\ total' = [total EXCEPT ![n] = F(n)!Insert(@, i.block, F(n)!total_difficulty(i))]
         /\ best' = [best EXCEPT ![n] = IF F(n)!IsNewBest(i) THEN i.block ELSE @]
         /\ stale' = [stale EXCEPT ![n] = @ \/ i.seen # best[n]]
  /\ import' = [import EXCEPT ![n][l] = Idle]
  /\ UNCHANGED <<initial, chain, raced>>

\* An import fails: the block is too far in the future for the node's clock,
\* the state of its parent is gone, ...
Reject(n, l) ==
  /\ import[n][l] # Idle
  /\ import' = [import EXCEPT ![n][l] = Idle]
  /\ UNCHANGED <<initial, chain, total, best, raced, stale>>

Restart(n) ==
  /\ import' = [import EXCEPT ![n] = [l \in LanesOf(n) |-> Idle]]
  /\ UNCHANGED <<initial, chain, total, best, raced, stale>>

Fault == \E n \in Nodes : Restart(n) \/ \E l \in LanesOf(n) : Reject(n, l)

Gossip(n) == \E b \in Mined : Receive(n, b)

Next ==
  \/ \E n \in Nodes, b \in Blocks : Mine(n, b)
  \/ \E n \in Nodes : Gossip(n)
  \/ \E n \in Nodes : \E l \in LanesOf(n) : Commit(n, l)
  \/ Fault

Spec == Init /\ [][Next]_vars

\* An import comes to its end, and a node that lacks a block a peer has is
\* brought it.
FairSpec ==
  /\ Spec
  /\ \A n \in Nodes : WF_vars(Gossip(n)) /\ \A l \in LanesOf(n) : WF_vars(Commit(n, l))
-----------------------------------------------------------------------------
(***************************************************************************)
(* Properties.                                                             *)
(***************************************************************************)
\* Every node is a ForkChoice, whatever the others do: \A n \in Nodes :
\* F(n)!Spec, with the quantifier inside.
EachNodeChoosesForks ==
  /\ \A n \in Nodes : F(n)!Init
  /\ [][\A n \in Nodes : UNCHANGED F(n)!vars \/ F(n)!Next]_vars

Weight(b) == Sum([i \in 1 .. Len(chain[b]) |-> chain[b][i].difficulty], Len(chain[b]))

\* A block has the same total difficulty at all nodes: the work on its
\* chain, in whatever order the blocks came, through whichever lane, and
\* over restarts (each node adds the runtime's answer to the parent's total).
TotalsAreWorkOfChains ==
  \A n \in Nodes : \A b \in Imported(n) : total[n][b] = Weight(b)

\* Nodes that have the same blocks have the same best block, in whatever
\* order each of them got the blocks, unless an import of one of them was
\* compared with an outdated best block (pow/src/lib.rs, lines 106 to 109).
SameBlocksSameBest ==
  \A m, n \in Nodes :
     Imported(m) = Imported(n) /\ ~stale[m] /\ ~stale[n] => best[m] = best[n]

\* Once no blocks are mined any more and imports do not fail any more, all
\* nodes come to have the same blocks, branches that are not the best one
\* included, and those that were never stale the same best block.
NodesConverge ==
  <>[][~Fault]_vars =>
    <>[](\A m, n \in Nodes :
           /\ Imported(m) = Imported(n)
           /\ ~stale[m] /\ ~stale[n] => best[m] = best[n])
=============================================================================
