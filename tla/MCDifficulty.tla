---------------------------- MODULE MCDifficulty ----------------------------
(***************************************************************************)
(* Constants for checking Difficulty and DifficultyChain: a window of      *)
(* three blocks, four milliseconds apart, and times that are dense where   *)
(* blocks are too fast and sparse where the damped time meets the upper    *)
(* clamp.  Only blocks at time 0 may have the same time as their parent    *)
(* and follow each other for ever: ZeroBound limits the chain there.       *)
(***************************************************************************)
EXTENDS DifficultyChain

MCTimestamps == (0 .. 4) \cup {9, 13, 22, 40, 60, 80}

\* Below, at and above the limits; 49 makes the first adjustment overflow.
MCGenesis == {0, 2, 3, 7, 45, 49}

\* Enough for a full window without any time between its blocks.
ZeroBound == now = 0 => Len(chain) <= 3
=============================================================================
