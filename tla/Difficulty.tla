----------------------------- MODULE Difficulty -----------------------------
(***************************************************************************)
(* The difficulty adjustment pallet: pallets/difficulty, with the protocol *)
(* constants of primitives and the pallet's configuration in runtime.      *)
(*                                                                         *)
(* The runtime executes one pallet_timestamp `set` per block.  The         *)
(* timestamp pallet stores the block's time and calls on_timestamp_set,    *)
(* which pushes the block on a window of the last DIFFICULTY_ADJUST_WINDOW *)
(* blocks and computes the difficulty of the next block from the window.   *)
(* A step of this specification is the execution of one block; a state is  *)
(* the pallet's storage after a block of some branch of the block tree.    *)
(*                                                                         *)
(* Difficulties are U256 in the code and naturals here: the one place      *)
(* where their width matters is the two operations that can overflow (see  *)
(* Overflows), where the code panics and the block cannot be executed.     *)
(***************************************************************************)
EXTENDS Integers, Sums

CONSTANTS
  BLOCK_TIME,                \* target time between blocks, in milliseconds
  DIFFICULTY_ADJUST_WINDOW,  \* number of blocks the adjustment looks at
  CLAMP_FACTOR,              \* bound on the adjusted window, as a factor of the goal
  DIFFICULTY_DAMP_FACTOR,    \* weight of the goal against the measured time
  MAX_DIFFICULTY,            \* largest difficulty a block can be given
  U256_MAX,                  \* largest value of the code's big integers
  MinimumPeriod,             \* least distance pallet_timestamp allows between blocks
  GenesisDifficulties,       \* values the chain specification may configure
  Timestamps,                \* moments a block author may put in a block
  None                       \* an empty slot of the window

Slots == 1 .. DIFFICULTY_ADJUST_WINDOW

DifficultyAndTimestamp == [difficulty : 0 .. U256_MAX, timestamp : Timestamps]

\* Mutant: a minimum below the damping factor.
MIN_DIFFICULTY_BELOW_FACTOR == DIFFICULTY_DAMP_FACTOR - 1

MIN_DIFFICULTY == DIFFICULTY_DAMP_FACTOR

BlockTimeWindow == DIFFICULTY_ADJUST_WINDOW * BLOCK_TIME

ASSUME PrimitivesAssumption ==
  /\ BLOCK_TIME \in Nat \ {0}
  /\ DIFFICULTY_ADJUST_WINDOW \in Nat \ {0}
  /\ CLAMP_FACTOR \in Nat \ {0}
  /\ DIFFICULTY_DAMP_FACTOR \in Nat \ {0}
  /\ MAX_DIFFICULTY \in Nat
  /\ MIN_DIFFICULTY <= MAX_DIFFICULTY
  /\ U256_MAX \in Nat
  /\ MAX_DIFFICULTY * BlockTimeWindow <= U256_MAX

\* Relations between the values chosen, which the bounds on a single
\* adjustment rest on.
ASSUME FactorsAssumption ==
  /\ BlockTimeWindow % DIFFICULTY_DAMP_FACTOR = 0
  /\ CLAMP_FACTOR >= 2
  /\ DIFFICULTY_DAMP_FACTOR >= 2

\* A genesis difficulty is any U256: nothing clamps what the chain
\* specification says.
ASSUME ConfigAssumption ==
  /\ MinimumPeriod \in Nat
  /\ GenesisDifficulties \subseteq 0 .. U256_MAX
  /\ Timestamps \subseteq Nat

ASSUME NoneAssumption == None \notin DifficultyAndTimestamp

VARIABLES
  past,        \* PastDifficultiesAndTimestamps, from earliest to latest
  difficulty,  \* CurrentDifficulty: what the next block must be mined at
  initial,     \* InitialDifficulty
  now          \* pallet_timestamp's Now: the time of the last block

vars == <<past, difficulty, initial, now>>
-----------------------------------------------------------------------------
(***************************************************************************)
(* The arithmetic of the adjustment.                                       *)
(***************************************************************************)
max(a, b) == IF a >= b THEN a ELSE b
min(a, b) == IF a <= b THEN a ELSE b

saturating_sub(a, b) == max(0, a - b)

\* Mutant: the goal is not weighed by one less than the factor.
damp_overweighted(actual, goal, damp_factor) ==
  (actual + damp_factor * goal) \div damp_factor

\* Move value linearly toward a goal.
damp(actual, goal, damp_factor) ==
  (actual + (damp_factor - 1) * goal) \div damp_factor

\* Mutant: clamped from below only.
clamp_below(actual, goal, clamp_factor) == max(goal \div clamp_factor, actual)

\* Limit value to be within some factor from a goal.
clamp(actual, goal, clamp_factor) ==
  max(goal \div clamp_factor, min(actual, goal * clamp_factor))

\* Mutant: the shift loop is lost, so that only the latest slot is written.
PushWithoutShift(window, entry) == [window EXCEPT ![DIFFICULTY_ADJUST_WINDOW] = entry]

\* Mutant: shifted in the other direction.
PushAtFront(window, entry) == [i \in Slots |-> IF i = 1 THEN entry ELSE window[i - 1]]

\* Forget the earliest slot and put entry in the latest.
Push(window, entry) ==
  [i \in Slots |-> IF i = DIFFICULTY_ADJUST_WINDOW THEN entry ELSE window[i + 1]]

\* Time between the blocks in slots i and i + 1; the target where there is
\* no such pair of blocks yet.
Delta(window, i) ==
  IF window[i] = None \/ window[i + 1] = None
  THEN BLOCK_TIME
  ELSE saturating_sub(window[i + 1].timestamp, window[i].timestamp)

Deltas(window) == [i \in 1 .. DIFFICULTY_ADJUST_WINDOW - 1 |-> Delta(window, i)]

TsDelta(window) == max(1, Sum(Deltas(window), DIFFICULTY_ADJUST_WINDOW - 1))

SlotDifficulties(window, init) ==
  [i \in Slots |-> IF window[i] = None THEN init ELSE window[i].difficulty]

RawDiffSum(window, init) ==
  Sum(SlotDifficulties(window, init), DIFFICULTY_ADJUST_WINDOW)

DiffSum(window, init) == max(MIN_DIFFICULTY, RawDiffSum(window, init))

\* Adjust time delta toward goal subject to dampening and clamping.
AdjTs(window) ==
  clamp(damp(TsDelta(window), BlockTimeWindow, DIFFICULTY_DAMP_FACTOR),
        BlockTimeWindow, CLAMP_FACTOR)

\* U256 addition and multiplication panic on overflow.
Overflows(window, init) ==
  \/ RawDiffSum(window, init) > U256_MAX
  \/ DiffSum(window, init) * BLOCK_TIME > U256_MAX

\* Mutant: no upper limit.
NextDifficultyUnlimited(window, init) ==
  max(MIN_DIFFICULTY, (DiffSum(window, init) * BLOCK_TIME) \div AdjTs(window))

\* Mutant: adjusted by the inverse ratio.
NextDifficultyInverted(window, init) ==
  min(MAX_DIFFICULTY,
      max(MIN_DIFFICULTY,
          (DiffSum(window, init) * AdjTs(window))
            \div (BLOCK_TIME * DIFFICULTY_ADJUST_WINDOW * DIFFICULTY_ADJUST_WINDOW)))

NextDifficulty(window, init) ==
  min(MAX_DIFFICULTY,
      max(MIN_DIFFICULTY,
          (DiffSum(window, init) * BLOCK_TIME) \div AdjTs(window)))
-----------------------------------------------------------------------------
Init ==
  /\ past = [i \in Slots |-> None]
  /\ initial \in GenesisDifficulties
  /\ difficulty = initial
  /\ now = 0

\* The window after a block with timestamp t; the block itself was mined at
\* the difficulty that is current before it is executed.
Pushed(t) == Push(past, [difficulty |-> difficulty, timestamp |-> t])

on_timestamp_set(t) ==
  /\ ~Overflows(Pushed(t), initial)
  /\ past' = Pushed(t)
  /\ difficulty' = NextDifficulty(Pushed(t), initial)
  /\ UNCHANGED initial

\* What pallet_timestamp requires of a block's time.
Permitted(t) == now = 0 \/ t >= now + MinimumPeriod

\* pallet_timestamp's `set`, the inherent every block has exactly one of.
SetTimestamp(t) ==
  /\ Permitted(t)
  /\ now' = t
  /\ on_timestamp_set(t)

Next == \E t \in Timestamps : SetTimestamp(t)

Spec == Init /\ [][Next]_vars
-----------------------------------------------------------------------------
(***************************************************************************)
(* Properties.                                                             *)
(***************************************************************************)
Started == past[DIFFICULTY_ADJUST_WINDOW] # None

\* Every storage item holds a value of its type; once a block has been
\* executed the difficulty of the next one is within the protocol's limits,
\* whatever the chain specification configured (lines 114 to 120).
TypeOK ==
  /\ past \in [Slots -> DifficultyAndTimestamp \cup {None}]
  /\ initial \in GenesisDifficulties
  /\ difficulty \in 0 .. U256_MAX
  /\ Started => difficulty \in MIN_DIFFICULTY .. MAX_DIFFICULTY
  /\ now \in Timestamps \cup {0}

\* The window holds the latest blocks in the order they were executed: the
\* occupied slots are the last ones, their times are apart as the timestamp
\* pallet demands, and the last is the time of the last block.  It is what
\* makes the saturating subtraction of line 83 a plain one.
WindowChronological ==
  /\ \A i \in 1 .. DIFFICULTY_ADJUST_WINDOW - 1 :
        past[i] # None =>
          /\ past[i + 1] # None
          /\ past[i].timestamp = 0
             \/ past[i + 1].timestamp >= past[i].timestamp + MinimumPeriod
  /\ Started => past[DIFFICULTY_ADJUST_WINDOW].timestamp = now

\* The adjustment pushes the right way: measured against the average of the
\* window, a window mined in no more than its target time never lowers the
\* difficulty and one mined in no less never raises it, up to the limits.
MovesTowardTarget ==
  LET average == DiffSum(past, initial) \div DIFFICULTY_ADJUST_WINDOW
  IN  Started =>
        /\ TsDelta(past) <= BlockTimeWindow => difficulty >= min(MAX_DIFFICULTY, average)
        /\ TsDelta(past) >= BlockTimeWindow => difficulty <= max(MIN_DIFFICULTY, average)

\* One adjustment is bounded whatever times the blocks carry: at most
\* F / (F - 1) times the average of the window, by the damping, and at least
\* the average divided by the clamp factor, by the clamp.  (The lower clamp
\* is never reached: the damping alone keeps the adjusted time above it.)
StepBounded ==
  Started =>
    /\ (DIFFICULTY_DAMP_FACTOR - 1) * DIFFICULTY_ADJUST_WINDOW * difficulty
         <= DIFFICULTY_DAMP_FACTOR * max(DiffSum(past, initial),
                                         DIFFICULTY_ADJUST_WINDOW * MIN_DIFFICULTY)
    /\ CLAMP_FACTOR * DIFFICULTY_ADJUST_WINDOW * (difficulty + 1)
         > min(DiffSum(past, initial), DIFFICULTY_ADJUST_WINDOW * MAX_DIFFICULTY)

\* The comment on MIN_DIFFICULTY: it avoids getting stuck when trying to
\* increase the difficulty subject to damping.  A window that is all at the
\* minimum and was mined F + 1 times too fast does raise the difficulty,
\* in spite of the integer division.
NotStuckAtMinimum ==
  ( /\ Started
    /\ MIN_DIFFICULTY < MAX_DIFFICULTY
    /\ \A i \in Slots : SlotDifficulties(past, initial)[i] = MIN_DIFFICULTY
    /\ (DIFFICULTY_DAMP_FACTOR + 1) * TsDelta(past) <= BlockTimeWindow )
  => difficulty > MIN_DIFFICULTY

\* For any block that may come next, a later time for it never makes the
\* block after it harder.
LaterIsNoHarder ==
  \A t, u \in Timestamps :
     t <= u => NextDifficulty(Pushed(u), initial) <= NextDifficulty(Pushed(t), initial)

\* Only a chain specification that configures more than the protocol's
\* maximum can make the big integers overflow, and it shows at the first
\* block: a chain that got past its first block, or started within the
\* limits as both networks of chain_spec.rs do, is never stopped by a panic
\* of the adjustment.
OnlyFirstRetargetCanOverflow ==
  (Started \/ initial <= MAX_DIFFICULTY) =>
     \A t \in Timestamps : ~Overflows(Pushed(t), initial)

\* What the comments of primitives (line 7) and of the pallet (line 36) say
\* of the target: blocks that come exactly BLOCK_TIME apart are on target
\* and leave the difficulty as it is.
TargetCadenceKeepsDifficulty ==
  ( /\ \A i \in 1 .. DIFFICULTY_ADJUST_WINDOW - 1 : Delta(past, i) = BLOCK_TIME
    /\ \A i \in Slots : SlotDifficulties(past, initial)[i] = initial )
  => difficulty = initial
=============================================================================
