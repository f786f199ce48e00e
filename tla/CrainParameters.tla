-------------------------- MODULE CrainParameters --------------------------
(***************************************************************************)
(* The values the real network is built with: the constants of primitives  *)
(* and the configuration of the timestamp and difficulty pallets in the    *)
(* runtime.  Times are in milliseconds.  The names are those of the source *)
(* with a prefix, since Difficulty declares the same names as constants.   *)
(***************************************************************************)
EXTENDS Integers

CRAIN_BLOCK_TIME_SEC == 60
CRAIN_BLOCK_TIME == CRAIN_BLOCK_TIME_SEC * 1000

CRAIN_HOUR_HEIGHT == 3600 \div CRAIN_BLOCK_TIME_SEC

CRAIN_DIFFICULTY_ADJUST_WINDOW == CRAIN_HOUR_HEIGHT
CRAIN_CLAMP_FACTOR == 2
CRAIN_DIFFICULTY_DAMP_FACTOR == 3

CrainMinimumPeriod == 1000
CrainTargetBlockTime == CRAIN_BLOCK_TIME
=============================================================================
