-------------------------- MODULE DifficultyProofs --------------------------
(***************************************************************************)
(* Proofs about the difficulty adjustment, for every value of the protocol *)
(* constants that satisfies the assumptions of Difficulty.                 *)
(*                                                                         *)
(* The first part is about the arithmetic of one adjustment, on any        *)
(* window; the second about the states a chain can reach; the third shows  *)
(* that the pallet implements Retarget; the last that the values of the    *)
(* real network are among those the others speak of.                       *)
(***************************************************************************)
EXTENDS DifficultyChain, CrainParameters, SumsProofs

(***************************************************************************)
(* Integer division, by its defining inequalities.                         *)
(***************************************************************************)
LEMMA Division ==
  ASSUME NEW a \in Nat, NEW b \in Nat \ {0}
  PROVE  /\ a \div b \in Nat
         /\ b * (a \div b) <= a
         /\ a < b * ((a \div b) + 1)
OBVIOUS

(***************************************************************************)
(* A quotient is at least k exactly when the dividend is at least k times  *)
(* the divisor.                                                            *)
(***************************************************************************)
LEMMA QuotientAtLeast ==
  ASSUME NEW a \in Nat, NEW b \in Nat \ {0}, NEW k \in Nat
  PROVE  (k <= a \div b) <=> (b * k <= a)
<1> DEFINE q == a \div b
<1>1. q \in Nat /\ b * q <= a /\ a < b * (q + 1)
  BY Division
<1> HIDE DEF q
<1>2. ASSUME k <= q PROVE b * k <= a
  <2>1. b * k <= b * q
    BY <1>1, <1>2
  <2>. QED BY <1>1, <2>1
<1>3. ASSUME b * k <= a PROVE k <= q
  <2>1. SUFFICES ASSUME q + 1 <= k PROVE FALSE
    BY <1>1
  <2>2. b * (q + 1) <= b * k
    BY <1>1, <2>1
  <2>. QED BY <1>1, <1>3, <2>2
<1>. QED BY <1>2, <1>3 DEF q

(***************************************************************************)
(* A larger dividend and a smaller divisor give no smaller a quotient.     *)
(***************************************************************************)
LEMMA QuotientMonotone ==
  ASSUME NEW a \in Nat, NEW c \in Nat, NEW b \in Nat \ {0}, NEW d \in Nat \ {0},
         a <= c, d <= b
  PROVE  a \div b <= c \div d
<1> DEFINE q == a \div b
<1>1. q \in Nat /\ b * q <= a
  BY Division
<1> HIDE DEF q
<1>2. d * q <= b * q
  BY <1>1
<1>3. d * q <= c
  BY <1>1, <1>2
<1>4. q <= c \div d
  BY <1>1, <1>3, QuotientAtLeast
<1>. QED BY <1>4 DEF q

(***************************************************************************)
(* Products of naturals are naturals and keep the order.                   *)
(***************************************************************************)
LEMMA ProductMonotone ==
  ASSUME NEW a \in Nat, NEW b \in Nat, NEW c \in Nat, a <= b
  PROVE  /\ a * c \in Nat /\ b * c \in Nat
         /\ a * c <= b * c
OBVIOUS

LEMMA ProductCancel ==
  ASSUME NEW a \in Nat, NEW b \in Nat, NEW c \in Nat \ {0}
  PROVE  /\ a * c <= b * c => a <= b
         /\ a * c < b * c => a < b
OBVIOUS
-----------------------------------------------------------------------------
(***************************************************************************)
(* The numbers an adjustment works with.                                   *)
(***************************************************************************)
Window == [Slots -> DifficultyAndTimestamp \cup {None}]

LEMMA GoalPositive == /\ BlockTimeWindow \in Nat \ {0}
                      /\ MIN_DIFFICULTY \in Nat \ {0}
BY PrimitivesAssumption DEF BlockTimeWindow, MIN_DIFFICULTY

LEMMA TsDeltaType ==
  ASSUME NEW w \in Window
  PROVE  /\ \A i \in 1 .. DIFFICULTY_ADJUST_WINDOW - 1 : Deltas(w)[i] \in Nat
         /\ TsDelta(w) \in Nat \ {0}
<1>1. ASSUME NEW i \in 1 .. DIFFICULTY_ADJUST_WINDOW - 1 PROVE Delta(w, i) \in Nat
  <2>1. i \in Slots /\ i + 1 \in Slots
    BY PrimitivesAssumption DEF Slots
  <2>2. CASE w[i] = None \/ w[i + 1] = None
    BY <2>2, PrimitivesAssumption DEF Delta
  <2>3. CASE w[i] # None /\ w[i + 1] # None
    <3>1. w[i] \in DifficultyAndTimestamp /\ w[i + 1] \in DifficultyAndTimestamp
      BY <2>1, <2>3 DEF Window
    <3>2. w[i].timestamp \in Nat /\ w[i + 1].timestamp \in Nat
      BY <3>1, ConfigAssumption DEF DifficultyAndTimestamp
    <3>. QED BY <2>3, <3>2 DEF Delta, saturating_sub, max
  <2>. QED BY <2>2, <2>3
<1>2. \A i \in 1 .. DIFFICULTY_ADJUST_WINDOW - 1 : Deltas(w)[i] \in Nat
  BY <1>1 DEF Deltas
<1>3. DIFFICULTY_ADJUST_WINDOW - 1 \in Nat
  BY PrimitivesAssumption
<1>4. Sum(Deltas(w), DIFFICULTY_ADJUST_WINDOW - 1) \in Int
  BY <1>2, <1>3, SumInt
<1>. QED BY <1>2, <1>4 DEF TsDelta, max

LEMMA DiffSumType ==
  ASSUME NEW w \in Window, NEW init \in Nat
  PROVE  /\ \A i \in Slots : SlotDifficulties(w, init)[i] \in Nat
         /\ RawDiffSum(w, init) \in Nat
         /\ DiffSum(w, init) \in Nat \ {0}
         /\ RawDiffSum(w, init) <= DiffSum(w, init)
<1>1. ASSUME NEW i \in Slots PROVE SlotDifficulties(w, init)[i] \in Nat
  <2>1. w[i] = None \/ w[i] \in DifficultyAndTimestamp
    BY DEF Window
  <2>. QED BY <2>1, PrimitivesAssumption DEF SlotDifficulties, DifficultyAndTimestamp
<1>2. RawDiffSum(w, init) \in Int /\ 0 <= RawDiffSum(w, init)
  <2> DEFINE W == DIFFICULTY_ADJUST_WINDOW
             d == SlotDifficulties(w, init)
             Z == [i \in 1 .. W |-> 0]
  <2>1. W \in Nat
    BY PrimitivesAssumption
  <2>2. \A i \in 1 .. W : Z[i] = 0
    OBVIOUS
  <2>3. \A i \in 1 .. W : d[i] \in Nat
    BY <1>1 DEF Slots
  <2>4. \A i \in 1 .. W : Z[i] \in Int /\ d[i] \in Int /\ Z[i] <= d[i]
    BY <2>2, <2>3
  <2> HIDE DEF W, d, Z
  <2>5. Sum(Z, W) = W * 0
    BY <2>1, <2>2, SumConstant
  <2>6. Sum(Z, W) <= Sum(d, W)
    BY <2>1, <2>4, SumMonotone
  <2>7. Sum(d, W) \in Int
    BY <2>1, <2>4, SumInt
  <2>. QED BY <2>1, <2>5, <2>6, <2>7 DEF RawDiffSum, W, d
<1>. QED BY <1>1, <1>2, GoalPositive DEF DiffSum, max

(***************************************************************************)
(* The adjusted time lies between the goal's (F - 1) / F and the goal      *)
(* times the clamp factor; it is never 0, so the division of line 118      *)
(* cannot fail.                                                            *)
(***************************************************************************)
LEMMA DampBounds ==
  ASSUME NEW ts \in Nat \ {0}, NEW goal \in Nat \ {0}, NEW f \in Nat \ {0}
  PROVE  /\ damp(ts, goal, f) \in Nat \ {0}
         /\ ts <= goal => damp(ts, goal, f) <= goal
         /\ ts >= goal => damp(ts, goal, f) >= goal
         /\ f * damp(ts, goal, f) <= ts + (f - 1) * goal
<1> DEFINE a == ts + (f - 1) * goal
           q == a \div f
<1>1. /\ f - 1 \in Nat /\ (f - 1) * goal \in Nat /\ f * goal \in Nat
      /\ (f - 1) * goal = f * goal - goal
  OBVIOUS
<1>2. a \in Nat
  BY <1>1
<1>3. (f - 1) * 1 <= (f - 1) * goal
  OBVIOUS
<1>4. f * 1 <= a
  BY <1>1, <1>3
<1> HIDE DEF a
<1>5. q \in Nat /\ f * q <= a /\ a < f * (q + 1)
  BY <1>2, Division
<1>6. 1 <= q
  BY <1>2, <1>4, QuotientAtLeast
<1> HIDE DEF q
<1>7. ASSUME ts <= goal PROVE q <= goal
  <2>1. a <= f * goal
    BY <1>1, <1>7 DEF a
  <2>2. f * q <= f * goal
    BY <1>1, <1>2, <1>5, <2>1
  <2>. QED BY <1>5, <2>2
<1>8. ASSUME ts >= goal PROVE q >= goal
  <2>1. a >= f * goal
    BY <1>1, <1>8 DEF a
  <2>2. goal <= a \div f
    BY <1>2, <2>1, QuotientAtLeast
  <2>. QED BY <2>2 DEF q
<1>. QED BY <1>5, <1>6, <1>7, <1>8 DEF damp, a, q

LEMMA AdjTsBounds ==
  ASSUME NEW w \in Window
  PROVE  /\ AdjTs(w) \in Nat \ {0}
         /\ TsDelta(w) <= BlockTimeWindow => AdjTs(w) <= BlockTimeWindow
         /\ TsDelta(w) >= BlockTimeWindow => AdjTs(w) >= BlockTimeWindow
         /\ AdjTs(w) <= BlockTimeWindow * CLAMP_FACTOR
<1> DEFINE G == BlockTimeWindow
           C == CLAMP_FACTOR
           t == damp(TsDelta(w), G, DIFFICULTY_DAMP_FACTOR)
<1>1. G \in Nat \ {0} /\ C \in Nat \ {0} /\ DIFFICULTY_DAMP_FACTOR \in Nat \ {0}
  BY GoalPositive, PrimitivesAssumption
<1>2. TsDelta(w) \in Nat \ {0}
  BY TsDeltaType
<1>3. /\ t \in Nat \ {0}
      /\ TsDelta(w) <= G => t <= G
      /\ TsDelta(w) >= G => t >= G
  <2> HIDE DEF G
  <2>. QED BY <1>1, <1>2, DampBounds
<1>4. G \div C \in Nat /\ G \div C <= G /\ G * C \in Nat /\ G <= G * C
  <2>1. G \div C \in Nat /\ C * (G \div C) <= G
    BY <1>1, Division
  <2>2. 1 * (G \div C) <= C * (G \div C)
    BY <1>1, <2>1
  <2>3. G * 1 <= G * C
    BY <1>1
  <2>. QED BY <1>1, <2>1, <2>2, <2>3
<1>5. AdjTs(w) = max(G \div C, min(t, G * C))
  BY DEF AdjTs, clamp
<1> HIDE DEF t, G, C
<1>6. AdjTs(w) \in Nat \ {0} /\ AdjTs(w) <= G * C
  BY <1>1, <1>3, <1>4, <1>5 DEF max, min
<1>7. TsDelta(w) <= G => AdjTs(w) <= G
  BY <1>1, <1>3, <1>4, <1>5 DEF max, min
<1>8. TsDelta(w) >= G => AdjTs(w) >= G
  BY <1>1, <1>3, <1>4, <1>5 DEF max, min
<1>. QED BY <1>6, <1>7, <1>8 DEF G, C

(***************************************************************************)
(* Damping alone keeps the adjusted time at (F - 1) / F of the goal.       *)
(***************************************************************************)
LEMMA AdjTsAtLeast ==
  ASSUME NEW w \in Window
  PROVE  (DIFFICULTY_DAMP_FACTOR - 1) * BlockTimeWindow <= DIFFICULTY_DAMP_FACTOR * AdjTs(w)
<1> DEFINE G == BlockTimeWindow
           C == CLAMP_FACTOR
           F == DIFFICULTY_DAMP_FACTOR
           ts == TsDelta(w)
           a == ts + (F - 1) * G
           t == damp(ts, G, F)
<1>1. G \in Nat \ {0} /\ C \in Nat \ {0} /\ F \in Nat \ {0} /\ ts \in Nat \ {0}
  BY GoalPositive, PrimitivesAssumption, TsDeltaType
<1>2. PICK q \in Nat : G = F * q
  <2>1. G % F = 0
    BY FactorsAssumption
  <2> HIDE DEF G, F
  <2>. QED BY <1>1, <2>1
<1>3. t = a \div F
  BY DEF damp
<1>4. AdjTs(w) = max(G \div C, min(t, G * C))
  BY DEF AdjTs, clamp
<1> HIDE DEF G, C, F, t, ts
<1>5. (F - 1) * q \in Nat /\ F * ((F - 1) * q) = (F - 1) * G /\ (F - 1) * G \in Nat
  BY <1>1, <1>2
<1>6. a \in Nat /\ (F - 1) * G <= a
  BY <1>1, <1>5
<1> HIDE DEF a
<1>7. (F - 1) * q <= t /\ t \in Nat
  BY <1>1, <1>3, <1>5, <1>6, QuotientAtLeast, Division
<1>8. (F - 1) * q <= G * C /\ G * C \in Nat
  <2>1. (F - 1) * q <= F * q
    BY <1>1
  <2>2. G * 1 <= G * C
    BY <1>1
  <2>. QED BY <1>1, <1>2, <1>5, <2>1, <2>2
<1>9. G \div C \in Nat
  BY <1>1, Division
<1>10. (F - 1) * q <= AdjTs(w) /\ AdjTs(w) \in Nat
  BY <1>4, <1>5, <1>7, <1>8, <1>9 DEF max, min
<1>11. F * ((F - 1) * q) <= F * AdjTs(w)
  BY <1>1, <1>5, <1>10
<1>. QED BY <1>5, <1>11 DEF F, G

(***************************************************************************)
(* The difficulty an adjustment computes is within the protocol's limits.  *)
(***************************************************************************)
LEMMA NextDifficultyType ==
  ASSUME NEW w \in Window, NEW init \in Nat
  PROVE  /\ (DiffSum(w, init) * BLOCK_TIME) \div AdjTs(w) \in Nat
         /\ NextDifficulty(w, init) \in MIN_DIFFICULTY .. MAX_DIFFICULTY
<1>1. DiffSum(w, init) * BLOCK_TIME \in Nat
  BY DiffSumType, PrimitivesAssumption
<1>2. AdjTs(w) \in Nat \ {0}
  BY AdjTsBounds
<1>3. (DiffSum(w, init) * BLOCK_TIME) \div AdjTs(w) \in Nat
  BY <1>1, <1>2, Division
<1>. QED
  BY <1>3, GoalPositive, PrimitivesAssumption DEF NextDifficulty, max, min
-----------------------------------------------------------------------------
(***************************************************************************)
(* What one adjustment guarantees, on any window.                          *)
(***************************************************************************)
LEMMA AdjustmentDirection ==
  ASSUME NEW w \in Window, NEW init \in Nat
  PROVE  LET average == DiffSum(w, init) \div DIFFICULTY_ADJUST_WINDOW
         IN  /\ TsDelta(w) <= BlockTimeWindow
                  => NextDifficulty(w, init) >= min(MAX_DIFFICULTY, average)
             /\ TsDelta(w) >= BlockTimeWindow
                  => NextDifficulty(w, init) <= max(MIN_DIFFICULTY, average)
<1> DEFINE W == DIFFICULTY_ADJUST_WINDOW
           B == BLOCK_TIME
           G == W * B
           s == DiffSum(w, init)
           adj == AdjTs(w)
           raw == (s * B) \div adj
           average == s \div W
<1>1. W \in Nat \ {0} /\ B \in Nat \ {0} /\ G \in Nat \ {0} /\ s \in Nat \ {0}
  BY PrimitivesAssumption, GoalPositive, DiffSumType DEF BlockTimeWindow
<1>2. /\ adj \in Nat \ {0}
      /\ TsDelta(w) <= G => adj <= G
      /\ TsDelta(w) >= G => adj >= G
  BY AdjTsBounds DEF BlockTimeWindow
<1>3. /\ NextDifficulty(w, init) = min(MAX_DIFFICULTY, max(MIN_DIFFICULTY, raw))
      /\ raw \in Nat
  BY NextDifficultyType DEF NextDifficulty
<1>4. average \in Nat
  BY <1>1, Division
<1>5. (s * B) \div G = average
  <2> HIDE DEF s
  <2>1. s * B \in Nat /\ average * B \in Nat
    BY <1>1, <1>4
  <2>2. W * average <= s /\ s < W * (average + 1)
    BY <1>1, Division
  <2> HIDE DEF average
  <2>3. G * average <= s * B
    <3>1. G * average = (W * average) * B
      BY <1>1, <1>4
    <3>. QED BY <1>1, <1>4, <2>2, <3>1
  <2>4. s * B < G * (average + 1)
    <3>1. G * (average + 1) = (W * (average + 1)) * B
      BY <1>1, <1>4
    <3>. QED BY <1>1, <1>4, <2>2, <3>1
  <2>5. average <= (s * B) \div G
    <3> HIDE DEF G
    <3>. QED BY <1>1, <1>4, <2>1, <2>3, QuotientAtLeast
  <2>6. ~(average + 1 <= (s * B) \div G)
    <3> HIDE DEF G
    <3>1. average + 1 \in Nat
      BY <1>4
    <3>. QED BY <1>1, <2>1, <2>4, <3>1, QuotientAtLeast
  <2>7. (s * B) \div G \in Nat
    <3> HIDE DEF G
    <3>. QED BY <1>1, <2>1, Division
  <2>. QED BY <1>4, <2>5, <2>6, <2>7
<1>6. s * B \in Nat
  BY <1>1
<1>7. TsDelta(w) <= G => raw >= average
  <2> DEFINE p == s * B
  <2>0. p \in Nat /\ p <= p
    BY <1>6
  <2>1. ASSUME adj <= G PROVE p \div G <= p \div adj
    <3> HIDE DEF p, G, s, adj
    <3>. QED BY <1>1, <1>2, <2>0, <2>1, QuotientMonotone
  <2>. QED BY <1>2, <1>5, <2>1
<1>8. TsDelta(w) >= G => raw <= average
  <2> DEFINE p == s * B
  <2>0. p \in Nat /\ p <= p
    BY <1>6
  <2>1. ASSUME adj >= G PROVE p \div adj <= p \div G
    <3> HIDE DEF p, G, s, adj
    <3>. QED BY <1>1, <1>2, <2>0, <2>1, QuotientMonotone
  <2>. QED BY <1>2, <1>5, <2>1
<1>9. MIN_DIFFICULTY \in Nat /\ MAX_DIFFICULTY \in Nat /\ MIN_DIFFICULTY <= MAX_DIFFICULTY
  BY GoalPositive, PrimitivesAssumption
<1>10. BlockTimeWindow = G
  BY DEF BlockTimeWindow
<1> HIDE DEF raw, average, G
<1>11. TsDelta(w) <= G => NextDifficulty(w, init) >= min(MAX_DIFFICULTY, average)
  BY <1>3, <1>4, <1>7, <1>9 DEF max, min
<1>12. TsDelta(w) >= G => NextDifficulty(w, init) <= max(MIN_DIFFICULTY, average)
  BY <1>3, <1>4, <1>8, <1>9 DEF max, min
<1>. QED BY <1>10, <1>11, <1>12 DEF average

LEMMA AdjustmentRise ==
  ASSUME NEW w \in Window, NEW init \in Nat
  PROVE  (DIFFICULTY_DAMP_FACTOR - 1) * DIFFICULTY_ADJUST_WINDOW * NextDifficulty(w, init)
           <= DIFFICULTY_DAMP_FACTOR * max(DiffSum(w, init),
                                           DIFFICULTY_ADJUST_WINDOW * MIN_DIFFICULTY)
<1> DEFINE W == DIFFICULTY_ADJUST_WINDOW
           F == DIFFICULTY_DAMP_FACTOR
           B == BLOCK_TIME
           s == DiffSum(w, init)
           adj == AdjTs(w)
           raw == (s * B) \div adj
           next == NextDifficulty(w, init)
           m == max(s, W * MIN_DIFFICULTY)
<1>1. /\ W \in Nat \ {0} /\ B \in Nat \ {0} /\ F \in Nat \ {0} /\ s \in Nat \ {0}
      /\ adj \in Nat \ {0} /\ MIN_DIFFICULTY \in Nat \ {0}
  BY PrimitivesAssumption, GoalPositive, DiffSumType, AdjTsBounds
<1>2. (F - 1) * (W * B) <= F * adj
  BY AdjTsAtLeast DEF BlockTimeWindow
<1>3. /\ raw \in Nat /\ next \in Nat
      /\ next <= max(MIN_DIFFICULTY, raw)
  BY NextDifficultyType, PrimitivesAssumption, GoalPositive DEF NextDifficulty, max, min
<1>4. adj * raw <= s * B
  BY <1>1, Division
<1>5. W * MIN_DIFFICULTY \in Nat
  BY <1>1
<1> HIDE DEF raw, adj, s
<1>6. m \in Nat /\ s <= m /\ W * MIN_DIFFICULTY <= m
  BY <1>1, <1>5 DEF max
<1> HIDE DEF m, next
<1>7. F - 1 \in Nat /\ (F - 1) * W \in Nat
  BY <1>1
<1>8. (F - 1) * W * raw <= F * s
  <2>1. ((F - 1) * (W * B)) * raw <= (F * adj) * raw
    BY <1>1, <1>2, <1>3, <1>7
  <2>2. (F * adj) * raw = F * (adj * raw)
    BY <1>1, <1>3
  <2>3. F * (adj * raw) <= F * (s * B)
    BY <1>1, <1>3, <1>4
  <2>4. /\ ((F - 1) * (W * B)) * raw = ((F - 1) * W * raw) * B
        /\ F * (s * B) = (F * s) * B
    BY <1>1, <1>3, <1>7
  <2>5. ((F - 1) * W * raw) * B <= (F * s) * B
    BY <1>1, <1>3, <1>7, <2>1, <2>2, <2>3, <2>4
  <2>6. (F - 1) * W * raw \in Nat /\ F * s \in Nat
    BY <1>1, <1>3, <1>7
  <2> DEFINE l == (F - 1) * W * raw
             r == F * s
  <2>7. l * B <= r * B => l <= r
    <3> HIDE DEF l, r
    <3>. QED BY <1>1, <2>6, ProductCancel DEF l, r
  <2>. QED BY <2>5, <2>7
<1>9. F * s <= F * m
  BY <1>1, <1>6
<1>10. CASE next <= raw
  <2>1. ((F - 1) * W) * next <= ((F - 1) * W) * raw
    BY <1>3, <1>7, <1>10
  <2>2. F * s \in Nat /\ F * m \in Nat /\ ((F - 1) * W) * next \in Nat /\ ((F - 1) * W) * raw \in Nat
    BY <1>1, <1>3, <1>6, <1>7
  <2>. QED BY <1>8, <1>9, <2>1, <2>2 DEF next, m, s
<1>11. CASE next <= MIN_DIFFICULTY
  <2>1. ((F - 1) * W) * next <= (F - 1) * (W * MIN_DIFFICULTY)
    <3>1. W * next <= W * MIN_DIFFICULTY
      BY <1>1, <1>3, <1>11
    <3>2. (F - 1) * (W * next) <= (F - 1) * (W * MIN_DIFFICULTY)
      BY <1>1, <1>3, <1>5, <1>7, <3>1
    <3>. QED BY <1>1, <1>3, <1>7, <3>2
  <2>2. (F - 1) * (W * MIN_DIFFICULTY) <= (F - 1) * m
    BY <1>5, <1>6, <1>7
  <2>3. (F - 1) * m <= F * m
    BY <1>1, <1>6
  <2>4. /\ ((F - 1) * W) * next \in Nat /\ (F - 1) * (W * MIN_DIFFICULTY) \in Nat
        /\ (F - 1) * m \in Nat /\ F * m \in Nat
    BY <1>1, <1>3, <1>5, <1>6, <1>7
  <2>. QED BY <2>1, <2>2, <2>3, <2>4 DEF next, m, s
<1>12. next <= raw \/ next <= MIN_DIFFICULTY
  BY <1>1, <1>3 DEF max
<1>. QED BY <1>10, <1>11, <1>12

LEMMA AdjustmentFall ==
  ASSUME NEW w \in Window, NEW init \in Nat
  PROVE  CLAMP_FACTOR * DIFFICULTY_ADJUST_WINDOW * (NextDifficulty(w, init) + 1)
           > min(DiffSum(w, init), DIFFICULTY_ADJUST_WINDOW * MAX_DIFFICULTY)
<1> DEFINE W == DIFFICULTY_ADJUST_WINDOW
           C == CLAMP_FACTOR
           B == BLOCK_TIME
           s == DiffSum(w, init)
           adj == AdjTs(w)
           raw == (s * B) \div adj
           next == NextDifficulty(w, init)
           m == min(s, W * MAX_DIFFICULTY)
<1>1. /\ W \in Nat \ {0} /\ B \in Nat \ {0} /\ C \in Nat \ {0} /\ s \in Nat \ {0}
      /\ adj \in Nat \ {0} /\ MAX_DIFFICULTY \in Nat
  BY PrimitivesAssumption, DiffSumType, AdjTsBounds
<1>2. adj <= (W * B) * C
  BY AdjTsBounds DEF BlockTimeWindow
<1>3. /\ raw \in Nat /\ next \in Nat
      /\ next >= min(MAX_DIFFICULTY, raw)
  BY NextDifficultyType, PrimitivesAssumption, GoalPositive DEF NextDifficulty, max, min
<1>4. s * B < adj * (raw + 1)
  BY <1>1, Division
<1>5. W * MAX_DIFFICULTY \in Nat /\ C * W \in Nat \ {0}
  BY <1>1
<1> HIDE DEF raw, adj, s
<1>6. m \in Nat /\ m <= s /\ m <= W * MAX_DIFFICULTY
  BY <1>1, <1>5 DEF min
<1> HIDE DEF m, next
<1>7. s < C * W * (raw + 1)
  <2>1. adj * (raw + 1) <= ((W * B) * C) * (raw + 1)
    BY <1>1, <1>2, <1>3
  <2>2. ((W * B) * C) * (raw + 1) = (C * W * (raw + 1)) * B
    BY <1>1, <1>3
  <2> DEFINE r == C * W * (raw + 1)
  <2>3. r \in Nat
    BY <1>1, <1>3, <1>5
  <2>4. s * B < r * B
    BY <1>1, <1>3, <1>4, <2>1, <2>2, <2>3
  <2>5. s < r
    <3> HIDE DEF r
    <3>. QED BY <1>1, <2>3, <2>4, ProductCancel
  <2>. QED BY <2>5
<1>8. CASE next >= raw
  <2>1. C * W * (raw + 1) <= C * W * (next + 1)
    BY <1>3, <1>5, <1>8
  <2>2. C * W * (raw + 1) \in Nat /\ C * W * (next + 1) \in Nat
    BY <1>3, <1>5
  <2>. QED BY <1>1, <1>6, <1>7, <2>1, <2>2 DEF next, m, s
<1>9. CASE next >= MAX_DIFFICULTY
  <2>1. W * MAX_DIFFICULTY < W * (next + 1)
    BY <1>1, <1>3, <1>9
  <2>2. 1 * (W * (next + 1)) <= C * (W * (next + 1))
    BY <1>1, <1>3
  <2>3. C * (W * (next + 1)) = C * W * (next + 1)
    BY <1>1, <1>3
  <2>4. W * (next + 1) \in Nat /\ C * W * (next + 1) \in Nat
    BY <1>1, <1>3, <1>5
  <2>. QED BY <1>5, <1>6, <2>1, <2>2, <2>3, <2>4 DEF next, m, s
<1>10. next >= raw \/ next >= MAX_DIFFICULTY
  BY <1>1, <1>3 DEF min
<1>. QED BY <1>8, <1>9, <1>10

LEMMA AdjustmentLeavesMinimum ==
  ASSUME NEW w \in Window, NEW init \in Nat,
         MIN_DIFFICULTY < MAX_DIFFICULTY,
         \A i \in Slots : SlotDifficulties(w, init)[i] = MIN_DIFFICULTY,
         (DIFFICULTY_DAMP_FACTOR + 1) * TsDelta(w) <= BlockTimeWindow
  PROVE  NextDifficulty(w, init) > MIN_DIFFICULTY
<1> DEFINE W == DIFFICULTY_ADJUST_WINDOW
           F == DIFFICULTY_DAMP_FACTOR
           B == BLOCK_TIME
           C == CLAMP_FACTOR
           G == BlockTimeWindow
           ts == TsDelta(w)
           t == damp(ts, G, F)
           adj == AdjTs(w)
           s == DiffSum(w, init)
           raw == (s * B) \div adj
<1>1. /\ W \in Nat \ {0} /\ B \in Nat \ {0} /\ F \in Nat \ {0} /\ C \in Nat \ {0}
      /\ G \in Nat \ {0} /\ ts \in Nat \ {0} /\ adj \in Nat \ {0} /\ C >= 2
      /\ G = W * B
  BY PrimitivesAssumption, FactorsAssumption, GoalPositive, TsDeltaType, AdjTsBounds
  DEF BlockTimeWindow
<1>2. s = W * F
  <2> DEFINE d == SlotDifficulties(w, init)
  <2>1. \A i \in 1 .. W : d[i] = F
    BY DEF Slots, MIN_DIFFICULTY
  <2>2. Sum(d, W) = W * F
    <3> HIDE DEF d, W, F
    <3>. QED BY <1>1, <2>1, SumConstant
  <2>3. 1 * F <= W * F /\ W * F \in Nat
    BY <1>1
  <2>. QED BY <1>1, <2>2, <2>3 DEF DiffSum, RawDiffSum, MIN_DIFFICULTY, max
<1>3. F * t <= ts + (F - 1) * G /\ t \in Nat
  BY <1>1, DampBounds
<1>4. adj = max(G \div C, min(t, G * C))
  BY DEF AdjTs, clamp
<1>5. (F + 1) * ts <= G
  OBVIOUS
<1>6. (F + 1) * t <= F * G
  <2> HIDE DEF t, ts, G, F
  <2>1. (F - 1) * G \in Nat /\ ts \in Nat /\ F * t \in Nat
    BY <1>1, <1>3
  <2>2. (F + 1) * (F * t) <= (F + 1) * (ts + (F - 1) * G)
    BY <1>1, <1>3, <2>1
  <2>3. (F + 1) * (ts + (F - 1) * G) = (F + 1) * ts + (F * F * G - G)
    BY <1>1
  <2>4. (F + 1) * (F * t) <= F * F * G
    BY <1>1, <1>5, <2>1, <2>2, <2>3
  <2>5. (F + 1) * (F * t) = ((F + 1) * t) * F /\ F * F * G = (F * G) * F
    BY <1>1, <1>3
  <2> DEFINE l == (F + 1) * t
             r == F * G
  <2>6. l \in Nat /\ r \in Nat /\ l * F <= r * F
    BY <1>1, <1>3, <2>4, <2>5
  <2>7. l <= r
    <3> HIDE DEF l, r
    <3>. QED BY <1>1, <2>6, ProductCancel
  <2>. QED BY <2>7
<1>7. (F + 1) * (G \div C) <= F * G
  <2> DEFINE h == G \div C
  <2>1. h \in Nat /\ C * h <= G
    BY <1>1, Division
  <2> HIDE DEF h, F, G, C
  <2>2. 2 * h <= C * h
    BY <1>1, <2>1
  <2>3. 2 * h <= G
    BY <1>1, <2>1, <2>2
  <2>4. F * (2 * h) <= F * G
    BY <1>1, <2>1, <2>3
  <2>5. F * (2 * h) = F * h + F * h /\ (F + 1) * h = F * h + h /\ h <= F * h
    BY <1>1, <2>1
  <2>6. F * h \in Nat /\ F * G \in Nat
    BY <1>1, <2>1
  <2>. QED BY <2>1, <2>4, <2>5, <2>6 DEF h
<1>8. (F + 1) * adj <= F * G
  <2>1. adj = G \div C \/ adj <= t
    <3>1. G \div C \in Nat /\ G * C \in Nat
      BY <1>1, Division
    <3> HIDE DEF G, C, t, adj
    <3>. QED BY <1>3, <1>4, <3>1 DEF max, min
  <2>2. ASSUME adj <= t PROVE (F + 1) * adj <= (F + 1) * t
    <3> HIDE DEF t, adj, F
    <3>. QED BY <1>1, <1>3, <2>2
  <2>3. (F + 1) * adj \in Nat /\ (F + 1) * t \in Nat /\ F * G \in Nat
    <3> HIDE DEF t, adj, F, G
    <3>. QED BY <1>1, <1>3
  <2>. QED BY <1>6, <1>7, <2>1, <2>2, <2>3
<1>9. s * B = F * G
  BY <1>1, <1>2
<1>10. F + 1 <= raw
  <2> HIDE DEF s, adj, F
  <2>1. s * B \in Nat /\ adj * (F + 1) <= s * B
    <3>1. adj * (F + 1) = (F + 1) * adj
      BY <1>1
    <3>. QED BY <1>1, <1>8, <1>9, <3>1
  <2>2. F + 1 \in Nat
    BY <1>1
  <2>. QED BY <1>1, <2>1, <2>2, QuotientAtLeast
<1>11. NextDifficulty(w, init) = min(MAX_DIFFICULTY, max(MIN_DIFFICULTY, raw)) /\ raw \in Nat
  BY NextDifficultyType DEF NextDifficulty
<1>12. MIN_DIFFICULTY = F /\ MAX_DIFFICULTY \in Nat
  BY PrimitivesAssumption DEF MIN_DIFFICULTY
<1> HIDE DEF raw, F
<1>. QED BY <1>1, <1>10, <1>11, <1>12 DEF max, min

(***************************************************************************)
(* Windows that differ in the times they carry: the one whose blocks took  *)
(* longer is followed by a difficulty that is no higher.                   *)
(***************************************************************************)
LEMMA AdjustmentAntitone ==
  ASSUME NEW w \in Window, NEW v \in Window, NEW init \in Nat,
         TsDelta(w) <= TsDelta(v),
         DiffSum(w, init) = DiffSum(v, init)
  PROVE  NextDifficulty(v, init) <= NextDifficulty(w, init)
<1> DEFINE G == BlockTimeWindow
           F == DIFFICULTY_DAMP_FACTOR
           C == CLAMP_FACTOR
           a == TsDelta(w)
           b == TsDelta(v)
           p == DiffSum(w, init) * BLOCK_TIME
<1>1. /\ G \in Nat \ {0} /\ F \in Nat \ {0} /\ C \in Nat \ {0}
      /\ a \in Nat \ {0} /\ b \in Nat \ {0} /\ a <= b
  BY PrimitivesAssumption, GoalPositive, TsDeltaType
<1>2. /\ damp(a, G, F) \in Nat /\ damp(b, G, F) \in Nat
      /\ damp(a, G, F) <= damp(b, G, F)
  <2> DEFINE x == a + (F - 1) * G
             y == b + (F - 1) * G
  <2> HIDE DEF a, b, F, G
  <2>1. (F - 1) * G \in Nat
    BY <1>1
  <2>2. x \in Nat /\ y \in Nat /\ x <= y
    BY <1>1, <2>1
  <2> HIDE DEF x, y
  <2>3. x \div F <= y \div F /\ x \div F \in Nat /\ y \div F \in Nat
    BY <1>1, <2>2, QuotientMonotone, Division
  <2>. QED BY <2>3 DEF damp, x, y
<1>3. AdjTs(w) <= AdjTs(v)
  <2>1. G \div C \in Nat /\ G * C \in Nat
    BY <1>1, Division
  <2>2. /\ AdjTs(w) = max(G \div C, min(damp(a, G, F), G * C))
        /\ AdjTs(v) = max(G \div C, min(damp(b, G, F), G * C))
    BY DEF AdjTs, clamp
  <2> HIDE DEF G, C, F, a, b
  <2>. QED BY <1>2, <2>1, <2>2 DEF max, min
<1>4. AdjTs(w) \in Nat \ {0} /\ AdjTs(v) \in Nat \ {0}
  BY AdjTsBounds
<1>5. p \in Nat
  BY DiffSumType, PrimitivesAssumption
<1>6. p \div AdjTs(v) <= p \div AdjTs(w) /\ p \div AdjTs(v) \in Nat /\ p \div AdjTs(w) \in Nat
  <2> HIDE DEF p
  <2>. QED BY <1>3, <1>4, <1>5, QuotientMonotone, Division
<1>7. /\ NextDifficulty(w, init) = min(MAX_DIFFICULTY, max(MIN_DIFFICULTY, p \div AdjTs(w)))
      /\ NextDifficulty(v, init) = min(MAX_DIFFICULTY, max(MIN_DIFFICULTY, p \div AdjTs(v)))
  BY DEF NextDifficulty
<1> HIDE DEF p
<1>. QED
  BY <1>6, <1>7, GoalPositive, PrimitivesAssumption DEF max, min
-----------------------------------------------------------------------------
(***************************************************************************)
(* The window after one more block.                                        *)
(***************************************************************************)
LEMMA PushedWindow ==
  ASSUME TypeOK, NEW t \in Timestamps
  PROVE  /\ Pushed(t) \in Window
         /\ Pushed(t)[DIFFICULTY_ADJUST_WINDOW] = [difficulty |-> difficulty, timestamp |-> t]
         /\ Pushed(t)[DIFFICULTY_ADJUST_WINDOW] # None
         /\ \A i \in 1 .. DIFFICULTY_ADJUST_WINDOW - 1 : Pushed(t)[i] = past[i + 1]
<1> DEFINE e == [difficulty |-> difficulty, timestamp |-> t]
<1>1. e \in DifficultyAndTimestamp
  BY DEF TypeOK, DifficultyAndTimestamp
<1>2. e # None
  BY <1>1, NoneAssumption
<1>3. DIFFICULTY_ADJUST_WINDOW \in Slots
  BY PrimitivesAssumption DEF Slots
<1>4. ASSUME NEW i \in 1 .. DIFFICULTY_ADJUST_WINDOW - 1
      PROVE  i \in Slots /\ i + 1 \in Slots /\ i # DIFFICULTY_ADJUST_WINDOW
  BY PrimitivesAssumption DEF Slots
<1>5. ASSUME NEW i \in Slots, i # DIFFICULTY_ADJUST_WINDOW
      PROVE  i + 1 \in Slots
  BY <1>5, PrimitivesAssumption DEF Slots
<1> HIDE DEF e
<1>6. Pushed(t) = [i \in Slots |-> IF i = DIFFICULTY_ADJUST_WINDOW THEN e ELSE past[i + 1]]
  BY DEF Pushed, Push, e
<1>7. Pushed(t) \in Window
  BY <1>1, <1>5, <1>6 DEF Window, TypeOK
<1>. QED BY <1>2, <1>3, <1>4, <1>6, <1>7 DEF e

(***************************************************************************)
(* The adjustment cannot overflow on a window whose difficulties are small *)
(* enough for the target time of the whole window.                         *)
(***************************************************************************)
LEMMA NoOverflow ==
  ASSUME NEW w \in Window, NEW init \in Nat, NEW limit \in Nat,
         \A i \in Slots : SlotDifficulties(w, init)[i] <= limit,
         MIN_DIFFICULTY <= limit,
         limit * BlockTimeWindow <= U256_MAX
  PROVE  ~Overflows(w, init)
<1> DEFINE W == DIFFICULTY_ADJUST_WINDOW
           B == BLOCK_TIME
           d == SlotDifficulties(w, init)
           s == DiffSum(w, init)
<1>1. W \in Nat \ {0} /\ B \in Nat \ {0} /\ MIN_DIFFICULTY \in Nat /\ U256_MAX \in Nat
  BY PrimitivesAssumption, GoalPositive
<1>2. \A i \in 1 .. W : d[i] \in Int /\ 0 <= d[i] /\ d[i] <= limit
  BY DiffSumType DEF Slots
<1>3. Sum(d, W) <= W * limit /\ W * limit \in Nat
  <2> HIDE DEF d, W
  <2>1. 0 \in Int /\ limit \in Int /\ W \in Nat
    BY <1>1
  <2>2. Sum(d, W) <= W * limit
    BY <1>2, <2>1, SumBounds
  <2>. QED BY <1>1, <2>2
<1>4. RawDiffSum(w, init) = Sum(d, W)
  BY DEF RawDiffSum
<1>5. s \in Nat /\ RawDiffSum(w, init) \in Nat /\ RawDiffSum(w, init) <= s
  BY DiffSumType
<1>6. s <= W * limit
  <2>1. 1 * limit <= W * limit
    BY <1>1
  <2>2. s = max(MIN_DIFFICULTY, Sum(d, W))
    BY <1>4 DEF DiffSum
  <2> HIDE DEF s, d, W
  <2>. QED BY <1>1, <1>3, <2>1, <2>2 DEF max
<1>7. (W * limit) * B <= U256_MAX
  BY <1>1 DEF BlockTimeWindow
<1> HIDE DEF s
<1>8. s * B <= (W * limit) * B /\ s * B \in Nat /\ s * 1 <= s * B
  BY <1>1, <1>3, <1>5, <1>6
<1>9. s * B <= U256_MAX /\ s <= U256_MAX
  BY <1>1, <1>3, <1>5, <1>7, <1>8
<1>. QED BY <1>1, <1>5, <1>9 DEF Overflows, s

(***************************************************************************)
(* The inductive invariant.  Beside the two invariants the runs check it   *)
(* says that before the first block nothing but the genesis difficulty is  *)
(* there, that afterwards the current difficulty is the one the window     *)
(* gives, and that a chain which got past its first block has difficulties *)
(* in its window too small to make a later adjustment overflow.            *)
(***************************************************************************)
Fresh == ~Started => past = [i \in Slots |-> None] /\ difficulty = initial

Computed == Started => difficulty = NextDifficulty(past, initial)

Fits ==
  Started =>
    /\ initial * BlockTimeWindow <= U256_MAX
    /\ \A i \in Slots : past[i] # None => past[i].difficulty <= max(MAX_DIFFICULTY, initial)

IInv == TypeOK /\ WindowChronological /\ Fresh /\ Computed /\ Fits

LEMMA InitEstablishes == Init => IInv
<1>. SUFFICES ASSUME Init PROVE IInv
  OBVIOUS
<1>2. ~Started
  BY PrimitivesAssumption DEF Init, Started, Slots
<1>3. TypeOK
  BY <1>2, ConfigAssumption DEF Init, TypeOK
<1>4. WindowChronological
  BY <1>2, PrimitivesAssumption DEF Init, WindowChronological, Slots
<1>. QED BY <1>2, <1>3, <1>4 DEF IInv, Fresh, Computed, Fits, Init

(***************************************************************************)
(* Executing a block keeps each part of the invariant.                     *)
(***************************************************************************)
LEMMA StepKeepsType ==
  ASSUME TypeOK, NEW t \in Timestamps, SetTimestamp(t)
  PROVE  TypeOK' /\ Started'
<1>1. initial \in Nat
  BY ConfigAssumption, PrimitivesAssumption DEF TypeOK
<1>2. /\ past' = Pushed(t) /\ difficulty' = NextDifficulty(Pushed(t), initial)
      /\ initial' = initial /\ now' = t
  BY DEF SetTimestamp, on_timestamp_set
<1>3. Pushed(t) \in Window /\ Pushed(t)[DIFFICULTY_ADJUST_WINDOW] # None
  BY PushedWindow
<1>4. difficulty' \in MIN_DIFFICULTY .. MAX_DIFFICULTY
  BY <1>1, <1>2, <1>3, NextDifficultyType
<1>5. MAX_DIFFICULTY <= U256_MAX
  <2>1. MAX_DIFFICULTY * 1 <= MAX_DIFFICULTY * BlockTimeWindow
    BY GoalPositive, PrimitivesAssumption
  <2>2. MAX_DIFFICULTY * BlockTimeWindow \in Nat
    BY GoalPositive, PrimitivesAssumption
  <2>. QED BY <2>1, <2>2, PrimitivesAssumption
<1>6. difficulty' \in 0 .. U256_MAX
  BY <1>4, <1>5, GoalPositive, PrimitivesAssumption
<1>7. Started'
  BY <1>2, <1>3 DEF Started
<1>8. past' \in [Slots -> DifficultyAndTimestamp \cup {None}]
  BY <1>2, <1>3 DEF Window
<1>. QED BY <1>2, <1>4, <1>6, <1>7, <1>8 DEF TypeOK

LEMMA StepKeepsChronology ==
  ASSUME TypeOK, WindowChronological, Fresh, NEW t \in Timestamps, SetTimestamp(t)
  PROVE  WindowChronological'
<1> DEFINE W == DIFFICULTY_ADJUST_WINDOW
<1>1. past' = Pushed(t) /\ now' = t /\ (now = 0 \/ t >= now + MinimumPeriod)
  BY DEF SetTimestamp, on_timestamp_set, Permitted
<1>2. /\ past'[W] = [difficulty |-> difficulty, timestamp |-> t]
      /\ past'[W] # None
      /\ \A i \in 1 .. W - 1 : past'[i] = past[i + 1]
  BY <1>1, PushedWindow
<1>3. W \in Nat \ {0}
  BY PrimitivesAssumption
<1>4. ASSUME NEW i \in 1 .. W - 1, past'[i] # None
      PROVE  /\ past'[i + 1] # None
             /\ past'[i].timestamp = 0
                \/ past'[i + 1].timestamp >= past'[i].timestamp + MinimumPeriod
  <2>1. past'[i] = past[i + 1] /\ i + 1 \in Slots
    BY <1>2, <1>3 DEF Slots
  <2>2. CASE i + 1 = W
    <3>1. Started /\ past[W].timestamp = now
      BY <1>4, <2>1, <2>2 DEF Started, WindowChronological
    <3>. QED BY <1>1, <1>2, <2>1, <2>2, <3>1
  <2>3. CASE i + 1 # W
    <3>1. i + 1 \in 1 .. W - 1 /\ past'[i + 1] = past[(i + 1) + 1]
      BY <1>2, <1>3, <2>3
    <3>. QED BY <1>4, <2>1, <3>1 DEF WindowChronological
  <2>. QED BY <2>2, <2>3
<1>5. past'[W].timestamp = now'
  BY <1>1, <1>2
<1>. QED BY <1>4, <1>5 DEF WindowChronological

\* The difficulties an adjustment adds up are within the bound of Fits.
LEMMA FitsBoundsSlots ==
  ASSUME TypeOK, Fits, Started
  PROVE  \A i \in Slots : SlotDifficulties(past, initial)[i] <= max(MAX_DIFFICULTY, initial)
<1>1. initial \in Nat /\ MAX_DIFFICULTY \in Nat
  BY ConfigAssumption, PrimitivesAssumption DEF TypeOK
<1>2. initial <= max(MAX_DIFFICULTY, initial)
  BY <1>1 DEF max
<1>. QED BY <1>2 DEF SlotDifficulties, Fits

LEMMA StepKeepsFits ==
  ASSUME IInv, NEW t \in Timestamps, SetTimestamp(t)
  PROVE  Fits'
<1> DEFINE W == DIFFICULTY_ADJUST_WINDOW
           top == max(MAX_DIFFICULTY, initial)
<1>. USE DEF IInv
<1>1. /\ initial \in Nat /\ MAX_DIFFICULTY \in Nat /\ difficulty \in Nat
      /\ W \in Nat \ {0} /\ BLOCK_TIME \in Nat \ {0} /\ U256_MAX \in Nat
  BY ConfigAssumption, PrimitivesAssumption DEF TypeOK
<1>2. past' = Pushed(t) /\ initial' = initial /\ ~Overflows(Pushed(t), initial)
  BY DEF SetTimestamp, on_timestamp_set
<1>3. /\ Pushed(t) \in Window
      /\ Pushed(t)[W] = [difficulty |-> difficulty, timestamp |-> t]
      /\ Pushed(t)[W] # None
      /\ \A i \in 1 .. W - 1 : Pushed(t)[i] = past[i + 1]
  BY PushedWindow
<1>4. initial <= top /\ MAX_DIFFICULTY <= top /\ top \in Nat
  BY <1>1 DEF max
<1>5. difficulty <= top
  <2>1. CASE Started
    <3>1. difficulty \in MIN_DIFFICULTY .. MAX_DIFFICULTY
      BY <2>1 DEF TypeOK
    <3> HIDE DEF top
    <3>. QED BY <1>1, <1>4, <3>1, GoalPositive
  <2>2. CASE ~Started
    BY <1>4, <2>2 DEF Fresh
  <2>. QED BY <2>1, <2>2
<1>6. ASSUME NEW i \in Slots, Pushed(t)[i] # None
      PROVE  Pushed(t)[i].difficulty <= top
  <2>1. CASE i = W
    BY <1>3, <1>5, <2>1
  <2>2. CASE i # W
    <3>1. i \in 1 .. W - 1 /\ i + 1 \in Slots
      BY <1>1, <2>2 DEF Slots
    <3>2. Pushed(t)[i] = past[i + 1]
      BY <1>3, <3>1
    <3>3. Started
      BY <1>6, <3>1, <3>2 DEF Fresh
    <3>. QED BY <1>6, <3>1, <3>2, <3>3 DEF Fits
  <2>. QED BY <2>1, <2>2
<1>7. initial * BlockTimeWindow <= U256_MAX
  <2>1. CASE Started
    BY <2>1 DEF Fits
  <2>2. CASE ~Started
    <3> DEFINE d == SlotDifficulties(Pushed(t), initial)
    <3>1. \A i \in 1 .. W : d[i] = initial
      <4>. SUFFICES ASSUME NEW i \in Slots PROVE d[i] = initial
        BY DEF Slots
      <4>1. CASE i = W
        BY <1>3, <2>2, <4>1 DEF SlotDifficulties, Fresh
      <4>2. CASE i # W
        <5>1. i \in 1 .. W - 1 /\ i + 1 \in Slots
          BY <1>1, <4>2 DEF Slots
        <5>2. Pushed(t)[i] = None
          BY <1>3, <2>2, <5>1 DEF Fresh
        <5>. QED BY <5>2 DEF SlotDifficulties
      <4>. QED BY <4>1, <4>2
    <3>2. RawDiffSum(Pushed(t), initial) = W * initial
      <4>1. Sum(d, W) = W * initial
        <5> HIDE DEF d, W
        <5>. QED BY <1>1, <3>1, SumConstant
      <4>. QED BY <4>1 DEF RawDiffSum
    <3>3. /\ DiffSum(Pushed(t), initial) \in Nat
          /\ W * initial <= DiffSum(Pushed(t), initial)
          /\ DiffSum(Pushed(t), initial) * BLOCK_TIME <= U256_MAX
      BY <1>1, <1>2, <1>3, <3>2, DiffSumType, PrimitivesAssumption DEF Overflows
    <3>4. (W * initial) * BLOCK_TIME <= DiffSum(Pushed(t), initial) * BLOCK_TIME
      BY <1>1, <3>3
    <3>5. initial * BlockTimeWindow = (W * initial) * BLOCK_TIME
      BY <1>1 DEF BlockTimeWindow
    <3>6. /\ (W * initial) * BLOCK_TIME \in Nat
          /\ DiffSum(Pushed(t), initial) * BLOCK_TIME \in Nat
      BY <1>1, <3>3
    <3>. QED BY <1>1, <3>3, <3>4, <3>5, <3>6
  <2>. QED BY <2>1, <2>2
<1>. QED BY <1>2, <1>6, <1>7 DEF Fits

LEMMA NextPreserves == IInv /\ [Next]_vars => IInv'
<1>. SUFFICES ASSUME IInv, [Next]_vars PROVE IInv'
  OBVIOUS
<1>1. ASSUME NEW t \in Timestamps, SetTimestamp(t) PROVE IInv'
  <2>1. TypeOK' /\ Started'
    BY <1>1, StepKeepsType DEF IInv
  <2>2. WindowChronological'
    BY <1>1, StepKeepsChronology DEF IInv
  <2>3. Fits'
    BY <1>1, StepKeepsFits
  <2>4. Computed' /\ Fresh'
    BY <1>1, <2>1 DEF SetTimestamp, on_timestamp_set, Computed, Fresh
  <2>. QED BY <2>1, <2>2, <2>3, <2>4 DEF IInv
<1>2. CASE UNCHANGED vars
  BY <1>2 DEF vars, IInv, TypeOK, Started, WindowChronological, Fresh, Computed, Fits
<1>. QED BY <1>1, <1>2 DEF Next
-----------------------------------------------------------------------------
(***************************************************************************)
(* The theorems.                                                           *)
(***************************************************************************)

\* In every reachable state the inductive invariant holds.
THEOREM Invariance == Spec => []IInv
<1>. QED BY InitEstablishes, NextPreserves, PTL DEF Spec

\* The storage is well typed, and once a block has been executed the
\* difficulty of the next one is between MIN_DIFFICULTY and MAX_DIFFICULTY
\* (the min and max of lines 114 to 120), for every genesis difficulty.
THEOREM TypeCorrect == Spec => []TypeOK
<1>1. IInv => TypeOK
  BY DEF IInv
<1>. QED BY <1>1, Invariance, PTL

\* The window holds the last blocks in order of time (lines 68 to 75), so
\* the saturating subtraction of line 83 never saturates.
THEOREM WindowIsChronological == Spec => []WindowChronological
<1>1. IInv => WindowChronological
  BY DEF IInv
<1>. QED BY <1>1, Invariance, PTL

\* A fast window never lowers the difficulty and a slow one never raises it
\* (the whole of on_timestamp_set, lines 77 to 120).
THEOREM MovesTowardTheTarget == Spec => []MovesTowardTarget
<1>1. IInv => MovesTowardTarget
  <2>1. IInv => past \in Window /\ initial \in Nat
    BY ConfigAssumption, PrimitivesAssumption DEF IInv, TypeOK, Window
  <2>. QED BY <2>1, AdjustmentDirection DEF IInv, Computed, MovesTowardTarget
<1>. QED BY <1>1, Invariance, PTL

\* One adjustment changes the difficulty by a bounded factor of the average
\* of the window, whatever times block authors choose (lines 107 to 111).
THEOREM StepIsBounded == Spec => []StepBounded
<1>1. IInv => StepBounded
  <2>1. IInv => past \in Window /\ initial \in Nat
    BY ConfigAssumption, PrimitivesAssumption DEF IInv, TypeOK, Window
  <2>. QED BY <2>1, AdjustmentRise, AdjustmentFall DEF IInv, Computed, StepBounded
<1>. QED BY <1>1, Invariance, PTL

\* The minimum difficulty is high enough for a rise to get past the integer
\* division (the comment on MIN_DIFFICULTY in primitives).
THEOREM NeverStuckAtMinimum == Spec => []NotStuckAtMinimum
<1>1. IInv => NotStuckAtMinimum
  <2>1. IInv => past \in Window /\ initial \in Nat
    BY ConfigAssumption, PrimitivesAssumption DEF IInv, TypeOK, Window
  <2>. QED BY <2>1, AdjustmentLeavesMinimum DEF IInv, Computed, NotStuckAtMinimum
<1>. QED BY <1>1, Invariance, PTL

\* After the first block, or from a genesis within the limits, no adjustment
\* can overflow, so no block is ever refused because of one (the U256
\* operations of lines 99 and 118).
THEOREM OverflowOnlyAtGenesis == Spec => []OnlyFirstRetargetCanOverflow
<1>1. ASSUME IInv, Started \/ initial <= MAX_DIFFICULTY, NEW t \in Timestamps
      PROVE  ~Overflows(Pushed(t), initial)
  <2> DEFINE top == max(MAX_DIFFICULTY, initial)
             w == Pushed(t)
             W == DIFFICULTY_ADJUST_WINDOW
  <2>1. initial \in Nat /\ MAX_DIFFICULTY \in Nat /\ W \in Nat \ {0} /\ difficulty \in Nat
    BY <1>1, ConfigAssumption, PrimitivesAssumption DEF IInv, TypeOK
  <2>2. /\ w \in Window
        /\ w[W] = [difficulty |-> difficulty, timestamp |-> t]
        /\ w[W] # None
        /\ \A i \in 1 .. W - 1 : w[i] = past[i + 1]
    BY <1>1, PushedWindow DEF IInv
  <2>3. /\ top \in Nat /\ MIN_DIFFICULTY <= top /\ initial <= top
        /\ difficulty <= top
    BY <1>1, <2>1, GoalPositive, PrimitivesAssumption DEF IInv, TypeOK, Fresh, max
  <2>4. top * BlockTimeWindow <= U256_MAX
    BY <1>1, <2>1, GoalPositive, PrimitivesAssumption DEF IInv, Fits, max
  <2>5. ASSUME NEW i \in Slots PROVE SlotDifficulties(past, initial)[i] <= top
    <3>1. CASE Started
      BY <1>1, <3>1, FitsBoundsSlots DEF IInv
    <3>2. CASE ~Started
      <4>1. SlotDifficulties(past, initial)[i] = initial
        BY <1>1, <3>2 DEF IInv, Fresh, SlotDifficulties
      <4>. QED BY <2>3, <4>1
    <3>. QED BY <3>1, <3>2
  <2>6. ASSUME NEW i \in Slots PROVE SlotDifficulties(w, initial)[i] <= top
    <3>1. CASE i = W
      BY <2>2, <2>3, <3>1 DEF SlotDifficulties
    <3>2. CASE i # W
      <4>1. i \in 1 .. W - 1 /\ i + 1 \in Slots
        BY <2>1, <3>2 DEF Slots
      <4>2. SlotDifficulties(w, initial)[i] = SlotDifficulties(past, initial)[i + 1]
        BY <2>2, <4>1 DEF SlotDifficulties
      <4>. QED BY <2>5, <4>1, <4>2
    <3>. QED BY <3>1, <3>2
  <2> HIDE DEF top, w
  <2>. QED BY <2>1, <2>2, <2>3, <2>4, <2>6, NoOverflow DEF w
<1>2. IInv => OnlyFirstRetargetCanOverflow
  BY <1>1 DEF OnlyFirstRetargetCanOverflow
<1>. QED BY <1>2, Invariance, PTL

\* Whatever block is next, a later time in it never makes the block after it
\* harder (lines 77 to 87 and 107 to 120: every operation on the time is
\* monotone, and the division is by it).
THEOREM LaterIsNeverHarder == Spec => []LaterIsNoHarder
<1>1. ASSUME TypeOK, NEW t \in Timestamps, NEW u \in Timestamps, t <= u
      PROVE  NextDifficulty(Pushed(u), initial) <= NextDifficulty(Pushed(t), initial)
  <2> DEFINE W == DIFFICULTY_ADJUST_WINDOW
             v == Pushed(t)
             w == Pushed(u)
  <2>1. initial \in Nat /\ W \in Nat \ {0} /\ t \in Nat /\ u \in Nat /\ BLOCK_TIME \in Nat
    BY <1>1, ConfigAssumption, PrimitivesAssumption DEF TypeOK
  <2>2. /\ v \in Window
        /\ v[W] = [difficulty |-> difficulty, timestamp |-> t]
        /\ v[W] # None
        /\ \A i \in 1 .. W - 1 : v[i] = past[i + 1]
    BY <1>1, PushedWindow
  <2>3. /\ w \in Window
        /\ w[W] = [difficulty |-> difficulty, timestamp |-> u]
        /\ w[W] # None
        /\ \A i \in 1 .. W - 1 : w[i] = past[i + 1]
    BY <1>1, PushedWindow
  <2> HIDE DEF v, w
  <2>4. DiffSum(v, initial) = DiffSum(w, initial)
    <3>1. ASSUME NEW i \in Slots
          PROVE  /\ v[i] = None <=> w[i] = None
                 /\ v[i] # None => v[i].difficulty = w[i].difficulty
      <4>1. CASE i = W
        BY <2>2, <2>3, <4>1
      <4>2. CASE i # W
        <5>1. i \in 1 .. W - 1
          BY <2>1, <4>2 DEF Slots
        <5>. QED BY <2>2, <2>3, <5>1
      <4>. QED BY <4>1, <4>2
    <3>2. SlotDifficulties(v, initial) = SlotDifficulties(w, initial)
      BY <3>1 DEF SlotDifficulties
    <3>. QED BY <3>2 DEF DiffSum, RawDiffSum
  <2>5. ASSUME NEW i \in 1 .. W - 1 PROVE Deltas(v)[i] <= Deltas(w)[i]
    <3>1. Deltas(v)[i] = Delta(v, i) /\ Deltas(w)[i] = Delta(w, i)
      BY DEF Deltas
    <3>2. Deltas(v)[i] \in Nat /\ Deltas(w)[i] \in Nat
      BY <2>2, <2>3, TsDeltaType
    <3>3. v[i] = past[i + 1] /\ w[i] = past[i + 1] /\ i + 1 \in Slots
      BY <2>1, <2>2, <2>3 DEF Slots
    <3>4. CASE i + 1 = W /\ past[i + 1] # None
      <4>1. past[i + 1].timestamp \in Nat
        BY <1>1, <3>3, <3>4, ConfigAssumption DEF TypeOK, DifficultyAndTimestamp
      <4>2. /\ Delta(v, i) = saturating_sub(t, past[i + 1].timestamp)
            /\ Delta(w, i) = saturating_sub(u, past[i + 1].timestamp)
        BY <2>2, <2>3, <3>3, <3>4 DEF Delta
      <4>. QED BY <1>1, <2>1, <3>1, <4>1, <4>2 DEF saturating_sub, max
    <3>5. CASE i + 1 # W
      <4>1. i + 1 \in 1 .. W - 1
        BY <2>1, <3>5
      <4>2. v[i + 1] = w[i + 1]
        BY <2>2, <2>3, <4>1
      <4>3. Delta(v, i) = Delta(w, i)
        BY <3>3, <4>2 DEF Delta
      <4>. QED BY <3>1, <3>2, <4>3
    <3>6. CASE past[i + 1] = None
      <4>1. Delta(v, i) = BLOCK_TIME /\ Delta(w, i) = BLOCK_TIME
        BY <3>3, <3>6 DEF Delta
      <4>. QED BY <2>1, <3>1, <4>1
    <3>. QED BY <3>4, <3>5, <3>6
  <2>6. TsDelta(v) <= TsDelta(w)
    <3> DEFINE n == W - 1
               dv == Deltas(v)
               dw == Deltas(w)
    <3>1. n \in Nat
      BY <2>1
    <3>2. \A i \in 1 .. n : dv[i] \in Int /\ dw[i] \in Int /\ dv[i] <= dw[i]
      BY <2>2, <2>3, <2>5, TsDeltaType
    <3>3. Sum(dv, n) <= Sum(dw, n) /\ Sum(dv, n) \in Int /\ Sum(dw, n) \in Int
      <4> HIDE DEF n, dv, dw
      <4>. QED BY <3>1, <3>2, SumMonotone, SumInt
    <3>. QED BY <3>3 DEF TsDelta, max
  <2>. QED BY <2>1, <2>2, <2>3, <2>4, <2>6, AdjustmentAntitone DEF v, w
<1>2. IInv => LaterIsNoHarder
  BY <1>1 DEF IInv, LaterIsNoHarder
<1>. QED BY <1>2, Invariance, PTL
-----------------------------------------------------------------------------
(***************************************************************************)
(* The pallet implements Retarget: what it computes from its window of     *)
(* slots is what the rule computes from the whole chain.  Two facts carry  *)
(* the proof: the window is the end of the chain, and the deltas the       *)
(* pallet adds up telescope to the time between the ends of the window     *)
(* (which needs the window to be in chronological order).                  *)
(***************************************************************************)

Shows(w, c) ==
  \A i \in Slots :
    LET j == Len(c) - DIFFICULTY_ADJUST_WINDOW + i
    IN  w[i] = IF j >= 1 THEN c[j] ELSE None

Ordered(w) ==
  \A i \in 1 .. DIFFICULTY_ADJUST_WINDOW - 1 :
    w[i] # None => /\ w[i + 1] # None
                   /\ w[i].timestamp = 0
                      \/ w[i + 1].timestamp >= w[i].timestamp + MinimumPeriod

(***************************************************************************)
(* Lines 77 to 91 compute the time between the ends of the window.         *)
(***************************************************************************)
LEMMA DeltasTelescope ==
  ASSUME NEW w \in Window, NEW c \in Seq(DifficultyAndTimestamp), c # << >>,
         Shows(w, c), Ordered(w)
  PROVE  /\ Sum(Deltas(w), DIFFICULTY_ADJUST_WINDOW - 1) = R!Elapsed(c)
         /\ R!Elapsed(c) \in Nat
<1> DEFINE W == DIFFICULTY_ADJUST_WINDOW
           n == Len(c)
           a == [i \in 1 .. W |-> R!BlockTime(c, R!First(c) + i - 1)]
           d == Deltas(w)
<1>1. W \in Nat \ {0} /\ n \in Nat \ {0} /\ BLOCK_TIME \in Nat
  BY PrimitivesAssumption
<1>2. \A j \in 1 .. n : c[j] \in DifficultyAndTimestamp /\ c[j].timestamp \in Nat
  <2>. SUFFICES ASSUME NEW j \in 1 .. Len(c)
                PROVE  c[j] \in DifficultyAndTimestamp /\ c[j].timestamp \in Nat
    OBVIOUS
  <2>1. c[j] \in DifficultyAndTimestamp
    OBVIOUS
  <2>. QED BY <2>1, ConfigAssumption DEF DifficultyAndTimestamp
<1>3. ASSUME NEW i \in 1 .. W
      PROVE  a[i] = IF n - W + i >= 1 THEN c[n - W + i].timestamp
                    ELSE c[1].timestamp - (1 - (n - W + i)) * BLOCK_TIME
  <2>1. R!First(c) + i - 1 = n - W + i
    BY <1>1 DEF R!First
  <2>. QED BY <2>1 DEF R!BlockTime
<1>4. \A i \in 1 .. W : a[i] \in Int
  <2>. SUFFICES ASSUME NEW i \in 1 .. W PROVE a[i] \in Int
    OBVIOUS
  <2>1. CASE n - W + i >= 1
    <3>1. n - W + i \in 1 .. n
      BY <1>1, <2>1
    <3>. QED BY <1>2, <1>3, <2>1, <3>1
  <2>2. CASE ~(n - W + i >= 1)
    <3>1. c[1].timestamp \in Nat
      BY <1>1, <1>2
    <3>. QED BY <1>1, <1>3, <2>2, <3>1
  <2>. QED BY <2>1, <2>2
<1>5. ASSUME NEW i \in 1 .. W - 1 PROVE d[i] = a[i + 1] - a[i]
  <2> DEFINE j == n - W + i
  <2>1. i \in 1 .. W /\ i + 1 \in 1 .. W /\ n - W + (i + 1) = j + 1 /\ j \in Int
    BY <1>1
  <2>2. /\ a[i] = IF j >= 1 THEN c[j].timestamp ELSE c[1].timestamp - (1 - j) * BLOCK_TIME
        /\ a[i + 1] = IF j + 1 >= 1 THEN c[j + 1].timestamp
                      ELSE c[1].timestamp - (1 - (j + 1)) * BLOCK_TIME
    BY <1>3, <2>1
  <2>3. /\ w[i] = IF j >= 1 THEN c[j] ELSE None
        /\ w[i + 1] = IF j + 1 >= 1 THEN c[j + 1] ELSE None
    BY <2>1 DEF Shows, Slots
  <2>4. d[i] = Delta(w, i)
    BY DEF Deltas
  <2>5. j + 1 <= n
    BY <1>1
  <2>6. c[1].timestamp \in Nat
    BY <1>1, <1>2
  <2> HIDE DEF j, a, d
  <2>7. CASE j >= 1
    <3>1. j \in 1 .. n /\ j + 1 \in 1 .. n
      BY <1>1, <2>1, <2>5, <2>7
    <3>2. w[i] # None /\ w[i + 1] # None /\ w[i] = c[j] /\ w[i + 1] = c[j + 1]
      BY <1>2, <2>1, <2>3, <2>7, <3>1, NoneAssumption
    <3>3. w[i].timestamp = 0 \/ w[i + 1].timestamp >= w[i].timestamp + MinimumPeriod
      BY <3>2 DEF Ordered
    <3>4. w[i].timestamp \in Nat /\ w[i + 1].timestamp \in Nat /\ MinimumPeriod \in Nat
      BY <1>2, <3>1, <3>2, ConfigAssumption
    <3>5. Delta(w, i) = w[i + 1].timestamp - w[i].timestamp
      BY <3>2, <3>3, <3>4 DEF Delta, saturating_sub, max
    <3>. QED BY <2>1, <2>2, <2>4, <2>7, <3>2, <3>5
  <2>8. CASE j < 1
    <3>1. Delta(w, i) = BLOCK_TIME
      BY <2>1, <2>3, <2>8 DEF Delta
    <3>2. a[i + 1] - a[i] = BLOCK_TIME
      <4>1. CASE j = 0
        BY <1>1, <2>2, <2>6, <4>1
      <4>2. CASE j < 0
        <5>1. (1 - j) * BLOCK_TIME = (1 - (j + 1)) * BLOCK_TIME + BLOCK_TIME
          BY <1>1, <2>1
        <5>2. (1 - j) * BLOCK_TIME \in Int /\ (1 - (j + 1)) * BLOCK_TIME \in Int
          BY <1>1, <2>1
        <5>3. ~(j >= 1) /\ ~(j + 1 >= 1)
          BY <2>1, <4>2
        <5>. QED BY <1>1, <2>2, <2>6, <5>1, <5>2, <5>3
      <4>. QED BY <2>1, <2>8, <4>1, <4>2
    <3>. QED BY <2>4, <3>1, <3>2
  <2>. QED BY <2>1, <2>7, <2>8
<1>6. Sum(d, W - 1) = a[W] - a[1]
  <2> DEFINE m == W - 1
  <2>1. m \in Nat /\ m + 1 = W
    BY <1>1
  <2> HIDE DEF a, d, m
  <2>2. /\ \A i \in 1 .. m + 1 : a[i] \in Int
        /\ \A i \in 1 .. m : d[i] = a[i + 1] - a[i]
    BY <1>4, <1>5, <2>1 DEF m
  <2>3. Sum(d, m) = a[m + 1] - a[1]
    BY <2>1, <2>2, SumTelescopes
  <2>. QED BY <2>1, <2>3 DEF m
<1>7. a[W] = R!BlockTime(c, Len(c)) /\ a[1] = R!BlockTime(c, R!First(c))
  <2>1. R!First(c) + W - 1 = Len(c) /\ R!First(c) + 1 - 1 = R!First(c)
    BY <1>1 DEF R!First
  <2>. QED BY <1>1, <2>1
<1>8. Sum(d, W - 1) \in Int /\ 0 <= Sum(d, W - 1)
  <2> DEFINE m == W - 1
             z == [i \in 1 .. m |-> 0]
  <2>1. m \in Nat
    BY <1>1
  <2>2. \A i \in 1 .. m : d[i] \in Nat
    BY TsDeltaType
  <2>3. \A i \in 1 .. m : z[i] = 0
    OBVIOUS
  <2> HIDE DEF m, d, z
  <2>4. Sum(z, m) = m * 0
    BY <2>1, <2>3, SumConstant
  <2>5. Sum(z, m) <= Sum(d, m)
    BY <2>1, <2>2, <2>3, SumMonotone
  <2>6. Sum(d, m) \in Int
    BY <2>1, <2>2, SumInt
  <2>. QED BY <2>1, <2>4, <2>5, <2>6 DEF m
<1>. QED BY <1>6, <1>7, <1>8 DEF R!Elapsed

(***************************************************************************)
(* Lines 93 to 104 add up the difficulties the rule adds up.               *)
(***************************************************************************)
LEMMA SlotsCarryWork ==
  ASSUME NEW w, NEW c \in Seq(DifficultyAndTimestamp), NEW init, Shows(w, c)
  PROVE  RawDiffSum(w, init) = R!Work(c, init)
<1> DEFINE W == DIFFICULTY_ADJUST_WINDOW
<1>1. ASSUME NEW i \in Slots
      PROVE  SlotDifficulties(w, init)[i] = R!BlockDifficulty(c, init, R!First(c) + i - 1)
  <2> DEFINE j == Len(c) - W + i
  <2>1. R!First(c) + i - 1 = j /\ j \in Int /\ j <= Len(c)
    BY PrimitivesAssumption DEF R!First, Slots
  <2>2. w[i] = IF j >= 1 THEN c[j] ELSE None
    BY DEF Shows
  <2>3. j >= 1 => c[j] \in DifficultyAndTimestamp /\ c[j] # None
    BY <2>1, NoneAssumption
  <2> HIDE DEF j
  <2>4. SlotDifficulties(w, init)[i] = IF w[i] = None THEN init ELSE w[i].difficulty
    BY DEF SlotDifficulties
  <2>. QED BY <2>1, <2>2, <2>3, <2>4 DEF R!BlockDifficulty
<1>2. SlotDifficulties(w, init)
        = [i \in 1 .. W |-> R!BlockDifficulty(c, init, R!First(c) + i - 1)]
  BY <1>1 DEF SlotDifficulties, Slots
<1>3. RawDiffSum(w, init)
        = Sum([i \in 1 .. W |-> R!BlockDifficulty(c, init, R!First(c) + i - 1)], W)
  BY <1>2 DEF RawDiffSum
<1>4. \A d, n : Sum(d, n) = R!Sum(d, n)
  BY DEF Sum, R!Sum
<1>. QED BY <1>3, <1>4 DEF R!Work

(***************************************************************************)
(* Lines 89 to 111 compute the damped time of the rule: with a damping     *)
(* factor of at least 2 neither the substitution of 1 for 0 nor the lower  *)
(* clamp changes anything.                                                 *)
(***************************************************************************)
LEMMA SameDamping ==
  ASSUME NEW e \in Nat, NEW G \in Nat \ {0}, NEW F \in Nat, NEW C \in Nat,
         F >= 2, C >= 2, G % F = 0
  PROVE  clamp(damp(max(1, e), G, F), G, C) = R!AtMost((e + (F - 1) * G) \div F, C * G)
<1> DEFINE a == e + (F - 1) * G
           b == max(1, e) + (F - 1) * G
<1>1. PICK q \in Nat \ {0} : G = F * q
  <2>1. \E q \in Nat : G = F * q
    OBVIOUS
  <2>. QED BY <2>1
<1>2. (F - 1) * q \in Nat /\ (F - 1) * G = F * ((F - 1) * q)
  BY <1>1
<1>3. a \in Nat /\ b \in Nat
  BY <1>2 DEF max
<1>4. b \div F = a \div F
  <2>1. CASE e >= 1
    BY <2>1 DEF max
  <2>2. CASE e = 0
    <3> DEFINE k == (F - 1) * q
    <3>1. a = F * k /\ b = F * k + 1 /\ k \in Nat
      BY <1>2, <2>2 DEF max
    <3>2. b < F * (k + 1)
      BY <3>1
    <3>3. k <= a \div F /\ ~(k + 1 <= a \div F)
      <4> HIDE DEF a, k
      <4>. QED BY <1>3, <3>1, QuotientAtLeast
    <3>4. k <= b \div F /\ ~(k + 1 <= b \div F)
      <4> HIDE DEF b, k
      <4>1. F * k <= b
        BY <1>3, <3>1
      <4>2. k + 1 \in Nat
        BY <3>1
      <4>. QED BY <1>3, <3>1, <3>2, <4>1, <4>2, QuotientAtLeast
    <3>5. a \div F \in Nat /\ b \div F \in Nat
      <4> HIDE DEF a, b
      <4>. QED BY <1>3, Division
    <3> HIDE DEF a, b, k
    <3>. QED BY <3>1, <3>3, <3>4, <3>5
  <2>. QED BY <2>1, <2>2
<1>5. G \div C <= a \div F /\ G \div C \in Nat /\ a \div F \in Nat
  <2>1. G \div C \in Nat /\ C * (G \div C) <= G
    BY Division
  <2> DEFINE h == G \div C
  <2> HIDE DEF h
  <2>2. 2 * h <= C * h
    BY <2>1 DEF h
  <2>3. 2 * h <= 2 * ((F - 1) * q)
    <3>1. F * q <= (2 * (F - 1)) * q
      BY <1>1
    <3>2. (2 * (F - 1)) * q = 2 * ((F - 1) * q)
      BY <1>1
    <3>. QED BY <1>1, <1>2, <2>1, <2>2, <3>1, <3>2 DEF h
  <2>4. h <= (F - 1) * q
    BY <1>2, <2>1, <2>3 DEF h
  <2>5. F * ((F - 1) * q) <= a
    BY <1>2
  <2>6. (F - 1) * q <= a \div F
    <3> DEFINE k == (F - 1) * q
    <3> HIDE DEF a, k
    <3>. QED BY <1>2, <1>3, <2>5, QuotientAtLeast DEF k
  <2>7. a \div F \in Nat
    <3> HIDE DEF a
    <3>. QED BY <1>3, Division
  <2> HIDE DEF a
  <2>. QED BY <1>2, <2>1, <2>4, <2>6, <2>7 DEF h
<1>6. G * C = C * G /\ G * C \in Nat /\ G \div C <= G * C
  <2>1. G * 1 <= G * C
    OBVIOUS
  <2>2. 1 * (G \div C) <= C * (G \div C) /\ C * (G \div C) <= G /\ G \div C \in Nat
    <3>1. G \div C \in Nat /\ C * (G \div C) <= G
      BY Division
    <3>. QED BY <3>1
  <2>. QED BY <2>1, <2>2
<1>7. clamp(damp(max(1, e), G, F), G, C) = max(G \div C, min(b \div F, G * C))
  BY DEF clamp, damp
<1> HIDE DEF a, b
<1>. QED BY <1>4, <1>5, <1>6, <1>7 DEF max, min, R!AtMost, a

(***************************************************************************)
(* The difficulty computed from the window is the rule's.                  *)
(***************************************************************************)
LEMMA SameRule ==
  ASSUME NEW w \in Window, NEW c \in Seq(DifficultyAndTimestamp), c # << >>,
         NEW init \in Nat, Shows(w, c), Ordered(w)
  PROVE  NextDifficulty(w, init) = R!Rule(c, init)
<1>1. TsDelta(w) = max(1, R!Elapsed(c)) /\ R!Elapsed(c) \in Nat
  BY DeltasTelescope DEF TsDelta
<1>2. AdjTs(w) = R!Damped(c)
  <2> DEFINE G == BlockTimeWindow
  <2>1. G = R!Goal /\ G \in Nat \ {0} /\ G % DIFFICULTY_DAMP_FACTOR = 0
    BY FactorsAssumption, GoalPositive DEF R!Goal, BlockTimeWindow
  <2>2. /\ DIFFICULTY_DAMP_FACTOR \in Nat /\ CLAMP_FACTOR \in Nat
        /\ DIFFICULTY_DAMP_FACTOR >= 2 /\ CLAMP_FACTOR >= 2
    BY PrimitivesAssumption, FactorsAssumption
  <2>3. AdjTs(w) = clamp(damp(max(1, R!Elapsed(c)), G, DIFFICULTY_DAMP_FACTOR), G, CLAMP_FACTOR)
    BY <1>1 DEF AdjTs
  <2> DEFINE e == R!Elapsed(c)
             F == DIFFICULTY_DAMP_FACTOR
             C == CLAMP_FACTOR
  <2>4. clamp(damp(max(1, e), G, F), G, C) = R!AtMost((e + (F - 1) * G) \div F, C * G)
    <3>1. e \in Nat /\ F \in Nat /\ C \in Nat /\ F >= 2 /\ C >= 2 /\ G % F = 0
      BY <1>1, <2>1, <2>2
    <3>2. G \in Nat \ {0}
      BY <2>1
    <3> HIDE DEF e, F, C, G
    <3>. QED BY <3>1, <3>2, SameDamping
  <2>5. R!Damped(c) = R!AtMost((e + (F - 1) * G) \div F, C * G)
    BY <2>1 DEF R!Damped
  <2>. QED BY <2>3, <2>4, <2>5
<1>3. DiffSum(w, init) = R!AtLeast(R!Work(c, init), DIFFICULTY_DAMP_FACTOR)
  <2>1. RawDiffSum(w, init) = R!Work(c, init) /\ RawDiffSum(w, init) \in Nat
    BY SlotsCarryWork, DiffSumType
  <2>. QED
    BY <2>1, GoalPositive DEF DiffSum, max, R!AtLeast, MIN_DIFFICULTY
<1>4. (DiffSum(w, init) * BLOCK_TIME) \div AdjTs(w) \in Nat
  BY NextDifficultyType
<1>. QED
  BY <1>2, <1>3, <1>4, GoalPositive, PrimitivesAssumption
  DEF NextDifficulty, R!Rule, max, min, R!AtLeast, R!AtMost, MIN_DIFFICULTY
-----------------------------------------------------------------------------
(***************************************************************************)
(* The invariant of the composition: the invariant of the pallet, and the  *)
(* window and the clock showing the end of the chain.                      *)
(***************************************************************************)
ChainInv ==
  /\ IInv
  /\ chain \in Seq(DifficultyAndTimestamp)
  /\ WindowIsEndOfChain
  /\ now = IF chain = << >> THEN 0 ELSE chain[Len(chain)].timestamp

LEMMA ChainInitEstablishes == ChainInit => ChainInv
<1>. SUFFICES ASSUME ChainInit PROVE ChainInv
  OBVIOUS
<1>1. IInv
  BY InitEstablishes DEF ChainInit
<1>2. WindowIsEndOfChain
  BY PrimitivesAssumption DEF ChainInit, Init, WindowIsEndOfChain, Slots
<1>. QED BY <1>1, <1>2 DEF ChainInv, ChainInit, Init

LEMMA ChainStep ==
  ASSUME ChainInv, NEW t \in Timestamps, ExecuteBlock(t)
  PROVE  ChainInv' /\ R!Extend(t)
<1> DEFINE W == DIFFICULTY_ADJUST_WINDOW
           e == [difficulty |-> difficulty, timestamp |-> t]
<1>0. /\ TypeOK /\ IInv /\ WindowIsEndOfChain
      /\ chain \in Seq(DifficultyAndTimestamp)
      /\ now = IF chain = << >> THEN 0 ELSE chain[Len(chain)].timestamp
  BY DEF ChainInv, IInv
<1>1. /\ past' = Pushed(t) /\ difficulty' = NextDifficulty(Pushed(t), initial)
      /\ initial' = initial /\ now' = t
      /\ chain' = Append(chain, e) /\ (now = 0 \/ t >= now + MinimumPeriod)
  BY DEF ExecuteBlock, SetTimestamp, on_timestamp_set, Permitted
<1>2. e \in DifficultyAndTimestamp /\ e.timestamp = t
  BY <1>0 DEF TypeOK, DifficultyAndTimestamp
<1>3. W \in Nat \ {0}
  BY PrimitivesAssumption
<1> HIDE DEF e
<1>4. /\ chain' \in Seq(DifficultyAndTimestamp) /\ chain' # << >>
      /\ Len(chain') = Len(chain) + 1 /\ chain'[Len(chain')] = e
      /\ \A j \in 1 .. Len(chain) : chain'[j] = chain[j]
  BY <1>0, <1>1, <1>2
<1>5. IInv'
  BY <1>0, NextPreserves DEF ExecuteBlock, Next
<1>6. WindowIsEndOfChain'
  <2>. SUFFICES ASSUME NEW i \in Slots
                PROVE  past'[i] = IF Len(chain') - W + i >= 1
                                  THEN chain'[Len(chain') - W + i] ELSE None
    BY DEF WindowIsEndOfChain
  <2>1. /\ Pushed(t)[W] = e
        /\ \A k \in 1 .. W - 1 : Pushed(t)[k] = past[k + 1]
    BY <1>0, PushedWindow DEF e
  <2>2. CASE i = W
    <3>1. Len(chain') - W + i = Len(chain') /\ Len(chain') >= 1
      BY <1>0, <1>3, <1>4, <2>2
    <3>. QED BY <1>1, <1>4, <2>1, <2>2, <3>1
  <2>3. CASE i # W
    <3> DEFINE j == Len(chain) - W + (i + 1)
    <3>1. i \in 1 .. W - 1 /\ i + 1 \in Slots /\ Len(chain') - W + i = j /\ j \in Int
          /\ j <= Len(chain)
      BY <1>0, <1>3, <1>4, <2>3 DEF Slots
    <3>2. past'[i] = past[i + 1]
      BY <1>1, <2>1, <3>1
    <3>3. past[i + 1] = IF j >= 1 THEN chain[j] ELSE None
      BY <1>0, <3>1 DEF WindowIsEndOfChain
    <3>4. j >= 1 => chain'[j] = chain[j]
      BY <1>0, <1>4, <3>1
    <3> HIDE DEF j
    <3>. QED BY <3>1, <3>2, <3>3, <3>4
  <2>. QED BY <2>2, <2>3
<1>7. now' = IF chain' = << >> THEN 0 ELSE chain'[Len(chain')].timestamp
  BY <1>1, <1>2, <1>4
<1>8. R!Follows(t)
  BY <1>0, <1>1 DEF R!Follows
<1>9. difficulty' = R!Rule(chain', initial)
  <2>1. past' \in Window /\ Ordered(past') /\ Shows(past', chain')
    BY <1>5, <1>6 DEF IInv, TypeOK, Window, WindowChronological, Ordered, WindowIsEndOfChain, Shows
  <2>2. initial \in Nat
    BY <1>0, ConfigAssumption DEF TypeOK
  <2>3. NextDifficulty(past', initial) = R!Rule(chain', initial)
    BY <1>4, <2>1, <2>2, SameRule
  <2>. QED BY <1>1, <2>3
<1>. QED
  BY <1>1, <1>4, <1>5, <1>6, <1>7, <1>8, <1>9 DEF ChainInv, R!Extend, e

LEMMA ChainNextPreserves == ChainInv /\ [ChainNext]_chainVars => ChainInv'
<1>. SUFFICES ASSUME ChainInv, [ChainNext]_chainVars PROVE ChainInv'
  OBVIOUS
<1>1. CASE ChainNext
  BY <1>1, ChainStep DEF ChainNext
<1>2. CASE UNCHANGED chainVars
  <2>1. UNCHANGED vars /\ UNCHANGED chain
    BY <1>2 DEF chainVars, vars
  <2>2. IInv'
    BY <2>1, NextPreserves DEF ChainInv
  <2>. QED BY <2>1, <2>2 DEF ChainInv, WindowIsEndOfChain, vars
<1>. QED BY <1>1, <1>2

\* In every reachable state the window is the end of the chain (lines 66
\* to 75).
THEOREM WindowShowsChain == ChainSpec => []WindowIsEndOfChain
<1>1. ChainInv => WindowIsEndOfChain
  BY DEF ChainInv
<1>. QED BY <1>1, ChainInitEstablishes, ChainNextPreserves, PTL DEF ChainSpec

\* The pallet's storage transformer (lines 61 to 124) implements the rule on
\* whole chains: every behaviour of it is one Retarget allows.
THEOREM Refinement == ChainSpec => ImplementsRetarget
<1>1. ChainInit => R!Init
  BY DEF ChainInit, Init, R!Init
<1>2. ChainInv /\ [ChainNext]_chainVars => [R!Next]_R!vars
  <2>. SUFFICES ASSUME ChainInv, [ChainNext]_chainVars PROVE [R!Next]_R!vars
    OBVIOUS
  <2>1. CASE ChainNext
    BY <2>1, ChainStep DEF ChainNext, R!Next
  <2>2. CASE UNCHANGED chainVars
    BY <2>2 DEF chainVars, R!vars
  <2>. QED BY <2>1, <2>2
<1>. QED
  BY <1>1, <1>2, ChainInitEstablishes, ChainNextPreserves, PTL
  DEF ChainSpec, ImplementsRetarget, R!Spec
-----------------------------------------------------------------------------
(***************************************************************************)
(* The parameters of the real network are among those the theorems about   *)
(* Difficulty speak of.  Its largest numbers, which TLC cannot compute     *)
(* with, are written as products.                                          *)
(***************************************************************************)

\* 2 ^ 32, 2 ^ 64 and 2 ^ 128.
Two32 == 65536 * 65536
Two64 == Two32 * Two32
Two128 == Two64 * Two64

\* u128::max_value() and U256::max_value().
CRAIN_MAX_DIFFICULTY == Two128 - 1
CRAIN_U256_MAX == Two128 * Two128 - 1

CRAIN_MIN_DIFFICULTY == CRAIN_DIFFICULTY_DAMP_FACTOR

\* The initial difficulties of the two networks the node knows.
development_config_difficulty == 1000000
local_testnet_config_difficulty == 1000

LEMMA Two128Large == Two128 \in Nat /\ 4000000 <= Two128
<1>1. Two32 \in Nat /\ 4000000 <= Two32
  BY DEF Two32
<1>2. Two64 \in Nat /\ 4000000 <= Two64
  <2>1. Two32 * 1 <= Two32 * Two32
    BY <1>1
  <2>. QED BY <1>1, <2>1 DEF Two64
<1>3. Two64 * 1 <= Two64 * Two64
  BY <1>2
<1>. QED BY <1>2, <1>3 DEF Two128

(***************************************************************************)
(* PrimitivesAssumption and FactorsAssumption of Difficulty, which name    *)
(* the relations between the constants of primitives that the adjustment   *)
(* (pallets/difficulty, lines 61 to 124) relies on, hold for the values    *)
(* that primitives and the runtime give them: a change of BLOCK_TIME_SEC   *)
(* or of a factor that breaks one of them would break this theorem.        *)
(***************************************************************************)
THEOREM RealParametersQualify ==
  /\ CrainTargetBlockTime \in Nat \ {0}
  /\ CRAIN_DIFFICULTY_ADJUST_WINDOW \in Nat \ {0}
  /\ CRAIN_CLAMP_FACTOR \in Nat \ {0} /\ CRAIN_CLAMP_FACTOR >= 2
  /\ CRAIN_DIFFICULTY_DAMP_FACTOR \in Nat \ {0} /\ CRAIN_DIFFICULTY_DAMP_FACTOR >= 2
  /\ CRAIN_MIN_DIFFICULTY <= CRAIN_MAX_DIFFICULTY
  /\ CRAIN_MAX_DIFFICULTY * (CRAIN_DIFFICULTY_ADJUST_WINDOW * CrainTargetBlockTime)
       <= CRAIN_U256_MAX
  /\ (CRAIN_DIFFICULTY_ADJUST_WINDOW * CrainTargetBlockTime) % CRAIN_DIFFICULTY_DAMP_FACTOR = 0
<1>1. CrainTargetBlockTime = 60000
  BY DEF CrainTargetBlockTime, CRAIN_BLOCK_TIME, CRAIN_BLOCK_TIME_SEC
<1>2. CRAIN_DIFFICULTY_ADJUST_WINDOW = 60
  BY DEF CRAIN_DIFFICULTY_ADJUST_WINDOW, CRAIN_HOUR_HEIGHT, CRAIN_BLOCK_TIME_SEC
<1>3. CRAIN_DIFFICULTY_ADJUST_WINDOW * CrainTargetBlockTime = 3600000
  BY <1>1, <1>2
<1>4. 3600000 % 3 = 0
  OBVIOUS
<1>5. Two128 \in Nat /\ 3600000 <= Two128
  BY Two128Large
<1>6. (Two128 - 1) * 3600000 <= Two128 * Two128 - 1
  <2> DEFINE p == Two128
  <2> HIDE DEF p
  <2>1. p \in Nat /\ 3600000 <= p
    BY <1>5 DEF p
  <2>2. (p - 1) * 3600000 <= (p - 1) * p /\ (p - 1) * p = p * p - p
    BY <2>1
  <2>. QED BY <2>1, <2>2 DEF p
<1>7. CRAIN_MAX_DIFFICULTY * 3600000 <= CRAIN_U256_MAX
  BY <1>6 DEF CRAIN_MAX_DIFFICULTY, CRAIN_U256_MAX
<1>8. 3 <= CRAIN_MAX_DIFFICULTY
  BY <1>5 DEF CRAIN_MAX_DIFFICULTY
<1>. QED
  BY <1>1, <1>2, <1>3, <1>4, <1>7, <1>8
  DEF CRAIN_CLAMP_FACTOR, CRAIN_DIFFICULTY_DAMP_FACTOR, CRAIN_MIN_DIFFICULTY

(***************************************************************************)
(* Both networks start within the limits, so that by OverflowOnlyAtGenesis *)
(* of DifficultyProofs none of their blocks, the first included, is        *)
(* refused because the adjustment overflows.                               *)
(***************************************************************************)
THEOREM RealGenesisWithinLimits ==
  \A d \in {development_config_difficulty, local_testnet_config_difficulty} :
     d \in CRAIN_MIN_DIFFICULTY .. CRAIN_MAX_DIFFICULTY
<1>1. Two128 \in Nat /\ 1000001 <= Two128
  BY Two128Large
<1>2. CRAIN_MAX_DIFFICULTY \in Nat /\ 1000000 <= CRAIN_MAX_DIFFICULTY
  BY <1>1 DEF CRAIN_MAX_DIFFICULTY
<1>. QED
  BY <1>2 DEF development_config_difficulty, local_testnet_config_difficulty,
              CRAIN_MIN_DIFFICULTY, CRAIN_DIFFICULTY_DAMP_FACTOR
=============================================================================
