----------------------------- MODULE MCOnTarget -----------------------------
(***************************************************************************)
(* Difficulty with the parameters of the real network, and a chain whose   *)
(* blocks come exactly when they should.  TLC computes with 32 bits, so    *)
(* the genesis difficulties are small; the effect only grows with them.    *)
(***************************************************************************)
EXTENDS Difficulty, CrainParameters

SmallGenesis == {200, 300}
SmallMaximum == 500

\* Large enough for MAX_DIFFICULTY, as U256 is for the real one.
LargeEnough == 500 * 3600000

OnTargetTimestamps == {CrainTargetBlockTime * k : k \in 1 .. 120}
=============================================================================
