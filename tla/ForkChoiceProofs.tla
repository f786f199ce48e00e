-------------------------- MODULE ForkChoiceProofs --------------------------
(***************************************************************************)
(* Fork choice for any set of blocks, any difficulties and any number of   *)
(* lanes.  HeaviestUnlessStale and GenesisIsOutweighed are inductive with  *)
(* the types.  As long as no two imports have overlapped, the invariant    *)
(* also says that at most one lane is busy and that what it has seen is    *)
(* still the best block.                                                   *)
(***************************************************************************)
EXTENDS ForkChoice, TLAPS

AloneIsFresh ==
  ~raced =>
    /\ ~stale
    /\ \A l \in Lanes : import[l] # Idle => import[l].seen = best
    /\ \A l, m \in Lanes : import[l] # Idle /\ import[m] # Idle => l = m

SeenHasWeight ==
  \A l \in Lanes : import[l] # Idle /\ import[l].seen # Genesis => total[import[l].seen] > 0

IInv ==
  /\ TypeOK
  /\ HeaviestUnlessStale
  /\ GenesisIsOutweighed
  /\ SeenHasWeight
  /\ AloneIsFresh

LEMMA InitEstablishes ==
  ASSUME Init PROVE IInv
<1>1. imported = {Genesis} /\ total[Genesis] = 0 /\ best = Genesis /\ raced = FALSE /\ stale = FALSE
      /\ \A l \in Lanes : import[l] = Idle
  BY DEF Init, imported
<1>2. TypeOK
  BY <1>1 DEF Init, TypeOK, imported
<1>3. HeaviestUnlessStale
  BY <1>1 DEF HeaviestUnlessStale, BestIsHeaviest, Outweighs, Genesis
<1>4. GenesisIsOutweighed
  BY <1>1 DEF GenesisIsOutweighed
<1>5. SeenHasWeight /\ AloneIsFresh
  BY <1>1 DEF SeenHasWeight, AloneIsFresh
<1>. QED BY <1>2, <1>3, <1>4, <1>5 DEF IInv

LEMMA BeginStep ==
  ASSUME IInv, NEW l \in Lanes, NEW b \in Blocks, NEW p \in imported, NEW d \in Difficulties,
         Begin(l, b, p, d)
  PROVE  IInv'
<1> DEFINE i == [block |-> b, parent |-> p, difficulty |-> d, seen |-> best]
<1>1. /\ import' = [import EXCEPT ![l] = i]
      /\ total' = total /\ best' = best /\ stale' = stale
      /\ raced' = (raced \/ \E m \in Lanes : import[m] # Idle)
      /\ b \notin imported /\ p \in imported
  BY DEF Begin
<1>2. i \in Import /\ i # Idle
  BY <1>1, ForkChoiceAssumption DEF IInv, TypeOK, Import
<1>3. imported' = imported
  BY <1>1 DEF imported
<1>4. \A m \in Lanes : import'[m] = IF m = l THEN i ELSE import[m]
  BY <1>1 DEF IInv, TypeOK
<1>5. TypeOK'
  <2>1. import' \in [Lanes -> Import \cup {Idle}]
    BY <1>1, <1>2 DEF IInv, TypeOK
  <2>2. ASSUME NEW m \in Lanes, import'[m] # Idle
        PROVE  /\ import'[m].block \notin imported
               /\ {import'[m].parent, import'[m].seen} \subseteq imported
    <3>1. CASE m = l
      BY <1>1, <1>4, <3>1 DEF IInv, TypeOK
    <3>2. CASE m # l
      BY <1>4, <2>2, <3>2 DEF IInv, TypeOK
    <3>. QED BY <3>1, <3>2
  <2>3. ASSUME NEW m \in Lanes, NEW k \in Lanes \ {m}, import'[m] # Idle, import'[k] # Idle
        PROVE  import'[k].block # import'[m].block
    <3>1. \A n \in Lanes : import[n] # Idle => import[n].block # b
      BY DEF Begin, Importing
    <3>2. i.block = b
      OBVIOUS
    <3>. HIDE DEF i
    <3>. QED BY <1>4, <2>3, <3>1, <3>2 DEF IInv, TypeOK
  <2>. QED BY <1>1, <1>3, <2>1, <2>2, <2>3 DEF IInv, TypeOK
<1>6. HeaviestUnlessStale'
  BY <1>1, <1>3 DEF IInv, HeaviestUnlessStale, BestIsHeaviest, Outweighs
<1>7. GenesisIsOutweighed' /\ SeenHasWeight'
  <2>1. GenesisIsOutweighed'
    BY <1>1, <1>3 DEF IInv, GenesisIsOutweighed
  <2>2. i.seen = best
    OBVIOUS
  <2>. HIDE DEF i
  <2>3. SeenHasWeight'
    BY <1>1, <1>4, <2>2 DEF IInv, GenesisIsOutweighed, SeenHasWeight
  <2>. QED BY <2>1, <2>3
<1>8. AloneIsFresh'
  <2>. SUFFICES ASSUME ~raced'
                PROVE  /\ ~stale'
                       /\ \A m \in Lanes : import'[m] # Idle => import'[m].seen = best'
                       /\ \A m, k \in Lanes : import'[m] # Idle /\ import'[k] # Idle => m = k
    BY DEF AloneIsFresh
  <2>1. ~raced /\ ~stale /\ \A m \in Lanes : import[m] = Idle
    BY <1>1 DEF IInv, TypeOK, AloneIsFresh
  <2>2. i.seen = best
    OBVIOUS
  <2>. HIDE DEF i
  <2>. QED BY <1>1, <1>4, <2>1, <2>2
<1>. QED BY <1>5, <1>6, <1>7, <1>8 DEF IInv

(***************************************************************************)
(* What a commit does to the total difficulties.                           *)
(***************************************************************************)
LEMMA CommitTotals ==
  ASSUME TypeOK, NEW l \in Lanes, Commit(l)
  PROVE  LET i == import[l]
         IN  /\ i \in Import /\ i.block \notin imported
             /\ i.parent \in imported /\ i.seen \in imported
             /\ imported' = imported \cup {i.block}
             /\ \A b \in imported : total'[b] = total[b] /\ total[b] \in Nat
             /\ i.block # Genesis
             /\ total'[i.block] = total_difficulty(i)
             /\ total'[i.block] \in Nat
<1> DEFINE i == import[l]
<1>1. i # Idle /\ total' = Insert(total, i.block, total_difficulty(i))
  BY DEF Commit
<1>2. /\ i \in Import /\ i.block \notin imported
      /\ i.parent \in imported /\ i.seen \in imported
      /\ i.block # Genesis
  BY <1>1 DEF TypeOK
<1>3. /\ imported' = imported \cup {i.block}
      /\ \A b \in imported : total'[b] = total[b] /\ total[b] \in Nat
      /\ total'[i.block] = total_difficulty(i)
  <2>1. DOMAIN total = imported
    BY DEF imported
  <2>. QED BY <1>1, <1>2, <2>1 DEF Insert, TypeOK, imported
<1>4. total_difficulty(i) \in Nat
  <2>1. i.difficulty \in Nat /\ total[i.parent] \in Nat
    BY <1>2, <1>3, ForkChoiceAssumption DEF Import
  <2>. QED BY <2>1 DEF total_difficulty
<1>. QED BY <1>2, <1>3, <1>4

LEMMA CommitStep ==
  ASSUME IInv, NEW l \in Lanes, Commit(l)
  PROVE  IInv'
<1> DEFINE i == import[l]
<1>1. /\ i \in Import /\ i.block \notin imported
      /\ i.parent \in imported /\ i.seen \in imported
      /\ imported' = imported \cup {i.block}
      /\ \A b \in imported : total'[b] = total[b] /\ total[b] \in Nat
      /\ i.block # Genesis
      /\ total'[i.block] = total_difficulty(i)
      /\ total'[i.block] \in Nat
  BY CommitTotals DEF IInv
<1>2. /\ CanCompare(i)
      /\ import' = [import EXCEPT ![l] = Idle]
      /\ raced' = raced
      /\ best' = IF IsNewBest(i) THEN i.block ELSE best
      /\ stale' = (stale \/ i.seen # best)
  BY DEF Commit
<1>3. \A m \in Lanes : import'[m] = IF m = l THEN Idle ELSE import[m]
  BY <1>2 DEF IInv, TypeOK
<1>4. total' \in [imported' -> Nat]
  BY <1>1 DEF Commit, Insert, imported
<1>5. TypeOK'
  <2>1. Genesis \in imported' /\ imported' \subseteq Blocks \cup {Genesis}
    BY <1>1 DEF IInv, TypeOK, Import
  <2>2. total'[Genesis] = 0
    BY <1>1 DEF IInv, TypeOK
  <2>3. best' \in imported' /\ raced' \in BOOLEAN /\ stale' \in BOOLEAN
    BY <1>1, <1>2 DEF IInv, TypeOK
  <2>4. import' \in [Lanes -> Import \cup {Idle}]
    BY <1>2 DEF IInv, TypeOK
  <2>5. ASSUME NEW m \in Lanes, import'[m] # Idle
        PROVE  /\ import'[m].block \notin imported'
               /\ {import'[m].parent, import'[m].seen} \subseteq imported'
               /\ \A k \in Lanes \ {m} : import'[k] # Idle => import'[k].block # import'[m].block
    BY <1>1, <1>3, <2>5 DEF IInv, TypeOK, Commit
  <2>. QED BY <1>4, <2>1, <2>2, <2>3, <2>4, <2>5 DEF TypeOK
<1>6. HeaviestUnlessStale'
  <2>. SUFFICES ASSUME ~stale', NEW b \in imported'
                PROVE  ~ Outweighs(b, best)'
    BY DEF HeaviestUnlessStale, BestIsHeaviest
  <2>1. ~stale /\ i.seen = best
    BY <1>2 DEF IInv, TypeOK
  <2>2. \A c \in imported : ~Outweighs(c, best)
    BY <2>1 DEF IInv, HeaviestUnlessStale, BestIsHeaviest
  <2>3. /\ imported \subseteq Nat /\ i.block \in Nat /\ best \in imported
        /\ total[best] \in Nat /\ total'[i.block] \in Nat
    <3>1. imported \subseteq Nat /\ best \in imported
      BY ForkChoiceAssumption DEF IInv, TypeOK, Genesis
    <3>2. i.block \in Nat
      BY <1>1, ForkChoiceAssumption DEF Import
    <3>. QED BY <1>1, <3>1, <3>2
  <2>4. IsNewBest(i) <=> \/ total'[i.block] > total[best]
                         \/ total'[i.block] = total[best] /\ best > i.block
    BY <1>1, <2>1 DEF IsNewBest, break_tie
  <2>5. CASE IsNewBest(i)
    <3>1. best' = i.block
      BY <1>2, <2>5
    <3>2. CASE b = i.block
      BY <2>3, <3>1, <3>2 DEF Outweighs
    <3>3. CASE b \in imported
      <4>1. total'[b] = total[b] /\ total[b] \in Nat /\ b \in Nat /\ best \in Nat
        BY <1>1, <2>3, <3>3
      <4>2. ~(total[b] > total[best]) /\ ~(total[b] = total[best] /\ b < best)
        BY <2>2, <3>3 DEF Outweighs
      <4>. QED BY <2>3, <2>4, <2>5, <3>1, <4>1, <4>2 DEF Outweighs
    <3>. QED BY <1>1, <3>2, <3>3
  <2>6. CASE ~IsNewBest(i)
    <3>1. best' = best /\ total'[best] = total[best]
      BY <1>1, <1>2, <2>3, <2>6
    <3>2. CASE b = i.block
      <4>1. best \in Nat /\ i.block # best
        BY <1>1, <2>3
      <4>. QED BY <2>3, <2>4, <2>6, <3>1, <3>2, <4>1 DEF Outweighs
    <3>3. CASE b \in imported
      BY <1>1, <2>2, <3>1, <3>3 DEF Outweighs
    <3>. QED BY <1>1, <3>2, <3>3
  <2>. QED BY <2>5, <2>6
<1>7. GenesisIsOutweighed'
  <2>1. /\ total[i.seen] \in Nat /\ total[best] \in Nat /\ best \in imported
        /\ i.seen # Genesis => total[i.seen] > 0
        /\ total[Genesis] = 0
    BY <1>1 DEF IInv, TypeOK, SeenHasWeight, Commit
  <2>2. CASE IsNewBest(i)
    <3>1. total'[i.block] > 0
      <4>1. CASE total'[i.block] > total[i.seen]
        BY <1>1, <2>1, <4>1
      <4>2. CASE total'[i.block] = total[i.seen]
        <5>1. i.seen # Genesis
          BY <1>1, <1>2, <4>2 DEF CanCompare
        <5>. QED BY <2>1, <4>2, <5>1
      <4>. QED BY <1>1, <2>2, <4>1, <4>2 DEF IsNewBest
    <3>. QED BY <1>1, <1>2, <2>2, <3>1 DEF GenesisIsOutweighed
  <2>3. CASE ~IsNewBest(i)
    <3>1. best' = best /\ total'[best] = total[best]
      BY <1>1, <1>2, <2>1, <2>3
    <3>2. best # Genesis
      <4>. SUFFICES ASSUME best = Genesis PROVE FALSE
        OBVIOUS
      <4>1. imported = {Genesis} /\ i.seen = Genesis
        BY <1>1 DEF IInv, GenesisIsOutweighed
      <4>2. total'[i.block] > total[i.seen]
        BY <1>1, <1>2, <2>1, <4>1 DEF CanCompare
      <4>. QED BY <1>1, <2>3, <4>2 DEF IsNewBest
    <3>. QED BY <3>1, <3>2 DEF IInv, GenesisIsOutweighed
  <2>. QED BY <2>2, <2>3
<1>8. SeenHasWeight'
  BY <1>1, <1>3 DEF IInv, TypeOK, SeenHasWeight
<1>9. AloneIsFresh'
  <2>. SUFFICES ASSUME ~raced'
                PROVE  /\ ~stale'
                       /\ \A m \in Lanes : import'[m] # Idle => import'[m].seen = best'
                       /\ \A m, k \in Lanes : import'[m] # Idle /\ import'[k] # Idle => m = k
    BY DEF AloneIsFresh
  <2>1. ~stale /\ i.seen = best /\ \A m \in Lanes : import[m] # Idle => m = l
    BY <1>2 DEF IInv, AloneIsFresh, Commit
  <2>2. \A m \in Lanes : import'[m] = Idle
    BY <1>3, <2>1
  <2>. QED BY <1>2, <2>1, <2>2
<1>. QED BY <1>5, <1>6, <1>7, <1>8, <1>9 DEF IInv

LEMMA IdleStep ==
  ASSUME IInv, UNCHANGED <<total, best, raced, stale>>, import' \in [Lanes -> Import \cup {Idle}],
         \A l \in Lanes : import'[l] = Idle \/ import'[l] = import[l]
  PROVE  IInv'
<1>1. imported' = imported
  BY DEF imported
<1>2. TypeOK'
  BY <1>1 DEF IInv, TypeOK
<1>3. HeaviestUnlessStale' /\ GenesisIsOutweighed' /\ SeenHasWeight' /\ AloneIsFresh'
  BY <1>1 DEF IInv, HeaviestUnlessStale, BestIsHeaviest, Outweighs, GenesisIsOutweighed,
              SeenHasWeight, AloneIsFresh
<1>. QED BY <1>2, <1>3 DEF IInv

LEMMA Preservation == IInv /\ [Next]_vars => IInv'
<1>. SUFFICES ASSUME IInv, [Next]_vars PROVE IInv'
  OBVIOUS
<1>1. ASSUME NEW l \in Lanes, NEW b \in Blocks, NEW p \in imported, NEW d \in Difficulties,
             Begin(l, b, p, d)
      PROVE  IInv'
  BY <1>1, BeginStep
<1>2. ASSUME NEW l \in Lanes, Commit(l) PROVE IInv'
  BY <1>2, CommitStep
<1>3. ASSUME NEW l \in Lanes, Reject(l) PROVE IInv'
  <2>1. /\ import' \in [Lanes -> Import \cup {Idle}]
        /\ \A m \in Lanes : import'[m] = Idle \/ import'[m] = import[m]
    BY <1>3 DEF Reject, IInv, TypeOK
  <2>. QED BY <1>3, <2>1, IdleStep DEF Reject
<1>4. CASE Restart
  <2>1. /\ import' \in [Lanes -> Import \cup {Idle}]
        /\ \A m \in Lanes : import'[m] = Idle \/ import'[m] = import[m]
    BY <1>4 DEF Restart
  <2>. QED BY <1>4, <2>1, IdleStep DEF Restart
<1>5. CASE UNCHANGED vars
  <2>1. /\ import' \in [Lanes -> Import \cup {Idle}]
        /\ \A m \in Lanes : import'[m] = Idle \/ import'[m] = import[m]
    BY <1>5 DEF vars, IInv, TypeOK
  <2>. QED BY <1>5, <2>1, IdleStep DEF vars
<1>. QED BY <1>1, <1>2, <1>3, <1>4, <1>5 DEF Next

(***************************************************************************)
(* The invariant holds in every state.                                     *)
(***************************************************************************)
THEOREM Invariance == Spec => []IInv
<1>. QED BY InitEstablishes, Preservation, PTL DEF Spec

(***************************************************************************)
(* The database and the imports under way are always well-formed.          *)
(***************************************************************************)
THEOREM TypeCorrect == Spec => []TypeOK
<1>1. IInv => TypeOK
  BY DEF IInv
<1>. QED BY <1>1, Invariance, PTL

(***************************************************************************)
(* The best block is the heaviest, unless some import was compared with an *)
(* outdated best block: this is the only way for a node to go wrong.       *)
(***************************************************************************)
THEOREM HeaviestUnlessAnImportWasStale == Spec => []HeaviestUnlessStale
<1>1. IInv => HeaviestUnlessStale
  BY DEF IInv
<1>. QED BY <1>1, Invariance, PTL

(***************************************************************************)
(* As long as no two imports have overlapped, none was compared with an    *)
(* outdated best block, and so the best block is the heaviest.             *)
(***************************************************************************)
THEOREM HeaviestWithoutARace == Spec => []HeaviestUnlessRaced
<1>1. IInv => HeaviestUnlessRaced
  BY DEF IInv, HeaviestUnlessRaced, AloneIsFresh
<1>. QED BY <1>1, Invariance, PTL

(***************************************************************************)
(* A node that does not mine, and so imports from the queue only, always   *)
(* has the heaviest block as its best.                                     *)
(***************************************************************************)
THEOREM FollowersStayOnHeaviest ==
  ASSUME \A l, m \in Lanes : l = m
  PROVE  Spec => []BestIsHeaviest
<1>1. Init => ~raced
  BY DEF Init
<1>2. TypeOK /\ ~raced /\ [Next]_vars => ~raced'
  <2>. SUFFICES ASSUME ~raced, [Next]_vars PROVE ~raced'
    OBVIOUS
  <2>1. ASSUME NEW l \in Lanes, NEW b \in Blocks, NEW p \in imported, NEW d \in Difficulties,
               Begin(l, b, p, d)
        PROVE  ~raced'
    <3>1. \A m \in Lanes : m = l
      OBVIOUS
    <3>. QED BY <2>1, <3>1 DEF Begin
  <2>. QED BY <2>1 DEF Next, Commit, Reject, Restart, vars
<1>3. Spec => []~raced
  BY <1>1, <1>2, TypeCorrect, PTL DEF Spec
<1>4. HeaviestUnlessRaced /\ ~raced => BestIsHeaviest
  BY DEF HeaviestUnlessRaced, HeaviestUnlessStale
<1>. QED BY <1>3, <1>4, HeaviestWithoutARace, PTL

(***************************************************************************)
(* Genesis is the best block only as long as nothing else is imported, for *)
(* difficulties of 0 too.                                                  *)
(***************************************************************************)
THEOREM GenesisGivesWay == Spec => []GenesisIsOutweighed
<1>1. IInv => GenesisIsOutweighed
  BY DEF IInv
<1>. QED BY <1>1, Invariance, PTL

(***************************************************************************)
(* Whatever it was compared with, a block that outweighs all others        *)
(* becomes the best when it is committed.                                  *)
(***************************************************************************)
LEMMA CommittedNewcomerWins ==
  ASSUME TypeOK, NEW l \in Lanes, Commit(l),
         \A c \in imported : LET b == import[l].block IN
            total'[b] > total'[c] \/ (total'[b] = total'[c] /\ b < c)
  PROVE  best' = import[l].block
<1> DEFINE i == import[l]
<1>1. /\ i \in Import /\ i.seen \in imported
      /\ total'[i.seen] = total[i.seen] /\ total[i.seen] \in Nat
      /\ total'[i.block] = total_difficulty(i)
  BY CommitTotals
<1>2. i.seen \in Nat /\ i.block \in Nat
  BY <1>1, ForkChoiceAssumption DEF TypeOK, Import, Genesis
<1>3. IsNewBest(i)
  BY <1>1, <1>2 DEF IsNewBest, break_tie
<1>. QED BY <1>3 DEF Commit

THEOREM NewcomerWins == Spec => HeaviestNewcomerWins
<1>1. TypeOK /\ [Next]_vars =>
        [\A l \in Lanes :
           LET b == import[l].block
           IN  ( /\ import[l] # Idle
                 /\ b \in DOMAIN total'
                 /\ \A c \in imported : total'[b] > total'[c] \/ (total'[b] = total'[c] /\ b < c) )
               => best' = b]_vars
  <2>. SUFFICES ASSUME TypeOK, Next, NEW l \in Lanes, import[l] # Idle,
                       import[l].block \in DOMAIN total',
                       \A c \in imported : LET b == import[l].block IN
                          total'[b] > total'[c] \/ (total'[b] = total'[c] /\ b < c)
                PROVE  best' = import[l].block
    BY DEF vars
  <2>1. import[l].block \notin imported
    BY DEF TypeOK
  <2>2. CASE Commit(l)
    BY <2>2, CommittedNewcomerWins
  <2>3. ASSUME NEW m \in Lanes, m # l, Commit(m) PROVE FALSE
    <3>1. import[m] # Idle /\ import[m].block # import[l].block
      BY <2>3 DEF Commit, TypeOK
    <3>2. imported' = imported \cup {import[m].block}
      BY <2>3, CommitTotals
    <3>. QED BY <2>1, <3>1, <3>2 DEF imported
  <2>4. CASE total' = total
    BY <2>1, <2>4 DEF imported
  <2>. QED BY <2>2, <2>3, <2>4 DEF Next, Begin, Reject, Restart
<1>2. Spec => []TypeOK
  BY TypeCorrect
<1>. QED BY <1>1, <1>2, PTL DEF Spec, HeaviestNewcomerWins
=============================================================================
