------------------------------ MODULE Retarget ------------------------------
(***************************************************************************)
(* What the difficulty adjustment promises, as a rule on whole chains: the *)
(* difficulty of the next block is the work of the last window of blocks,  *)
(* scaled by the ratio of a block's target time to the damped time the     *)
(* window took.  A chain younger than the window counts as if it had been  *)
(* preceded, on target, by blocks of the genesis difficulty.               *)
(*                                                                         *)
(* There is no storage, no loop over slots and no saturation here, and no  *)
(* lower clamp: DifficultyChain shows that the pallet implements this.     *)
(***************************************************************************)
EXTENDS Integers, Sequences, Sums

CONSTANTS
  BLOCK_TIME, DIFFICULTY_ADJUST_WINDOW, CLAMP_FACTOR, DIFFICULTY_DAMP_FACTOR,
  MAX_DIFFICULTY, MinimumPeriod, GenesisDifficulties, Timestamps

VARIABLES
  chain,    \* the blocks since genesis, each with its time and difficulty
  target,   \* the difficulty the next block must be mined at
  initial   \* the genesis difficulty

vars == <<chain, target, initial>>

Goal == DIFFICULTY_ADJUST_WINDOW * BLOCK_TIME

\* Block j of chain c, where j <= 0 stands for a block before the first.
BlockTime(c, j) ==
  IF j >= 1 THEN c[j].timestamp ELSE c[1].timestamp - (1 - j) * BLOCK_TIME

BlockDifficulty(c, init, j) == IF j >= 1 THEN c[j].difficulty ELSE init

First(c) == Len(c) - DIFFICULTY_ADJUST_WINDOW + 1

Elapsed(c) == BlockTime(c, Len(c)) - BlockTime(c, First(c))

Work(c, init) ==
  Sum([i \in 1 .. DIFFICULTY_ADJUST_WINDOW |-> BlockDifficulty(c, init, First(c) + i - 1)],
      DIFFICULTY_ADJUST_WINDOW)

AtLeast(a, b) == IF a >= b THEN a ELSE b
AtMost(a, b)  == IF a <= b THEN a ELSE b

Damped(c) ==
  AtMost((Elapsed(c) + (DIFFICULTY_DAMP_FACTOR - 1) * Goal) \div DIFFICULTY_DAMP_FACTOR,
         CLAMP_FACTOR * Goal)

\* The minimum difficulty equals the damping factor.
Rule(c, init) ==
  AtMost(AtLeast((AtLeast(Work(c, init), DIFFICULTY_DAMP_FACTOR) * BLOCK_TIME) \div Damped(c),
                 DIFFICULTY_DAMP_FACTOR),
         MAX_DIFFICULTY)

Init ==
  /\ chain = << >>
  /\ initial \in GenesisDifficulties
  /\ target = initial

\* A block's time follows the time of the block before it.
Follows(t) ==
  chain # << >> =>
    LET last == chain[Len(chain)].timestamp
    IN  last = 0 \/ t >= last + MinimumPeriod

Extend(t) ==
  /\ Follows(t)
  /\ chain' = Append(chain, [difficulty |-> target, timestamp |-> t])
  /\ target' = Rule(chain', initial)
  /\ UNCHANGED initial

Next == \E t \in Timestamps : Extend(t)

Spec == Init /\ [][Next]_vars
=============================================================================
