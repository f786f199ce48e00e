--------------------------- MODULE DifficultyChain ---------------------------
(***************************************************************************)
(* Difficulty, with the blocks executed so far remembered: each block of a *)
(* chain is mined at the difficulty the pallet stored when its parent was  *)
(* executed.  chain is a history variable: the pallet never reads it.      *)
(***************************************************************************)
EXTENDS Difficulty, Sequences

VARIABLE chain

chainVars == <<past, difficulty, initial, now, chain>>

ChainInit == Init /\ chain = << >>

ExecuteBlock(t) ==
  /\ SetTimestamp(t)
  /\ chain' = Append(chain, [difficulty |-> difficulty, timestamp |-> t])

ChainNext == \E t \in Timestamps : ExecuteBlock(t)

ChainSpec == ChainInit /\ [][ChainNext]_chainVars
-----------------------------------------------------------------------------
R == INSTANCE Retarget WITH target <- difficulty

\* The pallet, which only ever sees its window of slots, retargets as the
\* rule on the whole chain says.
ImplementsRetarget == R!Spec

\* The window is the end of the chain, block for block (lines 66 to 75):
\* nothing is lost, doubled or out of place when blocks are pushed.
WindowIsEndOfChain ==
  \A i \in Slots :
    LET j == Len(chain) - DIFFICULTY_ADJUST_WINDOW + i
    IN  past[i] = IF j >= 1 THEN chain[j] ELSE None
=============================================================================
