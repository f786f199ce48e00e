----------------------------- MODULE ForkChoice -----------------------------
(***************************************************************************)
(* Block import and fork choice of a node: the PowBlockImport that         *)
(* new_partial in node/src/service.rs builds, with the tie break of pow.   *)
(*                                                                         *)
(* The same import object is given to the import queue, which imports the  *)
(* blocks of the network one at a time, and to the mining worker, which    *)
(* imports the node's own (lines 143 to 164 and 312 to 314): each is a     *)
(* lane here.  An import (external) reads the best block first, executes   *)
(* and verifies the new block, which takes a while and may fail, and then  *)
(* commits it to the database together with its total difficulty and with  *)
(* the decision whether it is the new best block.  The commit is atomic,   *)
(* the import is not: by then the best block may be another one than the   *)
(* one the new block was compared with.                                    *)
(*                                                                         *)
(* A block is known by a number, the Blake2 hash of its seal.  Genesis has *)
(* no seal.                                                                *)
(***************************************************************************)
EXTENDS Integers, FiniteSets

CONSTANTS
  Blocks,        \* blocks that are mined on this chain
  Lanes,         \* who imports: the import queue, the mining worker
  Difficulties,  \* difficulties of blocks
  Idle           \* a lane with no import under way

Genesis == 0

ASSUME ForkChoiceAssumption ==
  /\ Blocks \subseteq Nat \ {0}
  /\ Difficulties \subseteq Nat
  /\ Idle \notin [block : Blocks, parent : Blocks \cup {Genesis},
                  difficulty : Difficulties, seen : Blocks \cup {Genesis}]

VARIABLES
  total,   \* total difficulty of every imported block: PowAux
  best,    \* the best block of the client
  import,  \* the import a lane is busy with
  raced,   \* history: have two lanes been busy at the same time?
  stale    \* history: has an import been compared with an outdated best block?

vars == <<total, best, import, raced, stale>>

imported == DOMAIN total

Import == [block : Blocks, parent : Blocks \cup {Genesis},
           difficulty : Difficulties, seen : Blocks \cup {Genesis}]

Insert(f, k, v) == [x \in DOMAIN f \cup {k} |-> IF x = k THEN v ELSE f[x]]
-----------------------------------------------------------------------------
\* Mutant: the larger hash wins.
break_tie_by_larger(own, new) == own < new

\* Mutant: the block that came first stays.
break_tie_first_wins(own, new) == FALSE

\* Whether new wins from own when their total difficulties are equal: the
\* seal with the smaller hash does.
break_tie(own, new) == own > new

total_difficulty(i) == total[i.parent] + i.difficulty

\* Mutant: a tie with genesis is lost by the new block.
CanCompareAll(i) == TRUE

\* A tie is broken by the seals, and the import fails if there is none to
\* fetch from the best block.
CanCompare(i) == total_difficulty(i) = total[i.seen] => i.seen # Genesis

\* The custom fork choice of an import: the new block becomes the best.
IsNewBest(i) ==
  \/ total_difficulty(i) > total[i.seen]
  \/ total_difficulty(i) = total[i.seen] /\ break_tie(i.seen, i.block)
-----------------------------------------------------------------------------
Init ==
  /\ total = [b \in {Genesis} |-> 0]
  /\ best = Genesis
  /\ import = [l \in Lanes |-> Idle]
  /\ raced = FALSE
  /\ stale = FALSE

Importing(b) == \E l \in Lanes : import[l] # Idle /\ import[l].block = b

\* Mutant: the best block is moved when the import starts.
BeginEagerly(l, b, p, d) ==
  /\ import[l] = Idle
  /\ b \notin imported /\ ~Importing(b)
  /\ p \in imported
  /\ import' = [import EXCEPT ![l] = [block |-> b, parent |-> p, difficulty |-> d, seen |-> best]]
  /\ best' = IF IsNewBest(import'[l]) THEN b ELSE best
  /\ UNCHANGED <<total, raced, stale>>

\* import_block starts: the parent is known (the queue checks it before,
\* the worker has built on it) and the best block is read.
Begin(l, b, p, d) ==
  /\ import[l] = Idle
  /\ b \notin imported /\ ~Importing(b)
  /\ p \in imported
  /\ import' = [import EXCEPT ![l] = [block |-> b, parent |-> p, difficulty |-> d, seen |-> best]]
  /\ raced' = (raced \/ \E m \in Lanes : import[m] # Idle)
  /\ UNCHANGED <<total, best, stale>>

\* The commit.
Commit(l) ==
  /\ import[l] # Idle
  /\ LET i == import[l]
     IN  /\ CanCompare(i)
         /\ total' = Insert(total, i.block, total_difficulty(i))
         /\ best' = IF IsNewBest(i) THEN i.block ELSE best
         /\ stale' = (stale \/ i.seen # best)
  /\ import' = [import EXCEPT ![l] = Idle]
  /\ UNCHANGED raced

\* The block does not execute, its inherents or its seal are not good, or it
\* cannot be compared with the best block.
Reject(l) ==
  /\ import[l] # Idle
  /\ import' = [import EXCEPT ![l] = Idle]
  /\ UNCHANGED <<total, best, raced, stale>>

\* The node stops and starts again: what is in the database is kept.
Restart ==
  /\ import' = [l \in Lanes |-> Idle]
  /\ UNCHANGED <<total, best, raced, stale>>

Next ==
  \/ \E l \in Lanes, b \in Blocks, p \in imported, d \in Difficulties : Begin(l, b, p, d)
  \/ \E l \in Lanes : Commit(l) \/ Reject(l)
  \/ Restart

Spec == Init /\ [][Next]_vars
-----------------------------------------------------------------------------
(***************************************************************************)
(* Properties.                                                             *)
(***************************************************************************)
\* Every variable has its type; the best block, and every block an import
\* depends on, is imported; no two lanes import the same block.
TypeOK ==
  /\ Genesis \in imported /\ imported \subseteq Blocks \cup {Genesis}
  /\ total \in [imported -> Nat]
  /\ total[Genesis] = 0
  /\ best \in imported
  /\ import \in [Lanes -> Import \cup {Idle}]
  /\ \A l \in Lanes : import[l] # Idle =>
        /\ import[l].block \notin imported
        /\ {import[l].parent, import[l].seen} \subseteq imported
        /\ \A m \in Lanes \ {l} : import[m] # Idle => import[m].block # import[l].block
  /\ raced \in BOOLEAN /\ stale \in BOOLEAN

\* The rule every node follows: the most total difficulty, then the
\* smallest hash (pow/src/lib.rs, lines 106 to 109).
Outweighs(a, b) == total[a] > total[b] \/ (total[a] = total[b] /\ a < b)

\* No imported block outweighs the best one.  As the order is total, nodes
\* that have imported the same blocks have the same best block, in whatever
\* order the blocks came and however often the node was restarted.
BestIsHeaviest == \A b \in imported : ~Outweighs(b, best)

\* It is so as long as no import was compared with a best block that was
\* no longer the best when the import was committed.
HeaviestUnlessStale == ~stale => BestIsHeaviest

\* And only imports that overlap are compared with an outdated best block:
\* a node that does not mine, whose only lane is the import queue, is always
\* on the heaviest branch, and a mining one until its first race is lost.
HeaviestUnlessRaced == (~raced => ~stale) /\ HeaviestUnlessStale

\* Whatever its difficulty is, a block is not imported next to genesis
\* without outweighing it: genesis is the best block only as long as it is
\* the only one.  A chain that starts with difficulty 0 (pallets/difficulty/
\* src/lib.rs, lines 45 to 51) gets no first block at all.
GenesisIsOutweighed ==
  /\ best = Genesis => imported = {Genesis}
  /\ best # Genesis => total[best] > 0

\* A mining node, where two imports may overlap, may stay on a branch that
\* is not the heaviest; but a block that outweighs all the imported ones
\* always becomes the best, whatever it was compared with.  This is how
\* the node gets back to the heaviest branch.
HeaviestNewcomerWins ==
  [][\A l \in Lanes :
       LET b == import[l].block
       IN  ( /\ import[l] # Idle
             /\ b \in DOMAIN total'
             /\ \A c \in imported : total'[b] > total'[c] \/ (total'[b] = total'[c] /\ b < c) )
           => best' = b]_vars
=============================================================================
