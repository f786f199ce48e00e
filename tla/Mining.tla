------------------------------- MODULE Mining -------------------------------
(***************************************************************************)
(* A mining node: the mining thread of node/src/service.rs, the authoring  *)
(* task it shares a MiningHandle with, and the imports from the network.   *)
(*                                                                         *)
(* Three actors run concurrently.                                          *)
(*  - The authoring task (external: start_mining_worker) looks at the best *)
(*    block when its timer fires, asks the runtime for the difficulty on   *)
(*    top of it and proposes a block, which takes a while; then it stores  *)
(*    the proposal as the build.  While the node syncs it drops the build. *)
(*  - The mining thread (service.rs) loops: read the metadata of the       *)
(*    build, try one nonce, and submit the seal if it is good enough.      *)
(*    submit (external: MiningHandle) checks the seal against the build,   *)
(*    takes the build and imports the block, under a lock taken anew for   *)
(*    each of the first two and with awaits in the last.                   *)
(*  - The import queue imports blocks of other miners.                     *)
(*                                                                         *)
(* Which of the imported blocks becomes the best one is not modelled here: *)
(* an import may or may not move it.                                       *)
(***************************************************************************)
EXTENDS Pow, FiniteSets

CONSTANTS
  NONCE_MAX,     \* U256::MAX, for the counter of the mining thread
  NoBuild,       \* the MiningHandle holds no build
  NoProposal     \* the authoring task is between two proposals

\* A block is known by the hash of its header and its seal.
Genesis == [pre_hash |-> 0, seal |-> 0]

BlockHash == [pre_hash : PreHashes, seal : Seal] \cup {Genesis}

MiningBuild == [best_hash : BlockHash, pre_hash : PreHashes, difficulty : Difficulties]

Proposal == [best_hash : BlockHash, difficulty : Difficulties]

ASSUME MiningAssumption ==
  /\ NONCE_MAX \in Nat \ {0}
  /\ Nonces = 0 .. NONCE_MAX
  /\ 0 \notin PreHashes
  /\ NoBuild \notin MiningBuild
  /\ NoProposal \notin Proposal

VARIABLES
  parent,    \* parent of every imported block
  target,    \* what the runtime answers for the difficulty on top of a block
  best,      \* the best block of the client
  syncing,   \* what the sync oracle says
  proposed,  \* hashes of the headers proposed or received so far
  proposing, \* the authoring task: the proposal it is waiting for
  build,     \* the MiningHandle: the build that is being mined
  pc,        \* the mining thread: where it is
  nonce,     \* its counter
  seal,      \* the seal it is submitting
  taken      \* the build submit took

vars == <<parent, target, best, syncing, proposed, proposing, build, pc, nonce, seal, taken>>

chainVars  == <<parent, target, best>>
authorVars == <<proposing, syncing>>
minerVars  == <<pc, nonce, seal, taken>>

blocks == DOMAIN parent

Init ==
  /\ parent = [b \in {Genesis} |-> Genesis]
  /\ target \in [{Genesis} -> Difficulties]
  /\ best = Genesis
  /\ syncing = FALSE
  /\ proposed = {}
  /\ proposing = NoProposal
  /\ build = NoBuild
  /\ pc = "loop" /\ nonce = 0 /\ seal = Undecodable /\ taken = NoBuild

\* The node stops and starts again: the chain is kept, the task and the
\* thread begin anew (the handle and the counter live in memory only).
Restart ==
  /\ proposing' = NoProposal
  /\ build' = NoBuild
  /\ pc' = "loop" /\ nonce' = 0 /\ seal' = Undecodable /\ taken' = NoBuild
  /\ UNCHANGED <<chainVars, syncing, proposed>>
-----------------------------------------------------------------------------
(***************************************************************************)
(* Import.  The block's runtime state fixes the difficulty on top of it.   *)
(***************************************************************************)
Insert(f, k, v) == [x \in DOMAIN f \cup {k} |-> IF x = k THEN v ELSE f[x]]

\* Import the block with header pre_hash and seal s on top of p; fork choice
\* decides whether it becomes the best block.
ImportBlock(pre_hash, s, p) ==
  LET b == [pre_hash |-> pre_hash, seal |-> s]
  IN  /\ parent' = Insert(parent, b, p)
      /\ \E d \in Difficulties : target' = Insert(target, b, d)
      /\ best' \in {best, b}

\* A block from the network: the import queue has no difficulty with it and
\* asks the runtime, on the state of its parent.
ReceiveBlock ==
  /\ \E h \in PreHashes \ proposed, p \in blocks, d \in Difficulties, q \in PreHashes, n \in Nonces :
        LET raw_seal == compute(d, q, n)
        IN  /\ verify(h, raw_seal, target[p])
            /\ ImportBlock(h, raw_seal, p)
            /\ proposed' = proposed \cup {h}
  /\ UNCHANGED <<authorVars, build, minerVars>>
-----------------------------------------------------------------------------
(***************************************************************************)
(* The authoring task.                                                     *)
(***************************************************************************)
SyncStarts == ~syncing /\ syncing' = TRUE
  /\ UNCHANGED <<chainVars, proposed, proposing, build, minerVars>>

SyncEnds == syncing /\ syncing' = FALSE
  /\ UNCHANGED <<chainVars, proposed, proposing, build, minerVars>>

\* The timer fires during a major sync: no mining.
DropBuild ==
  /\ proposing = NoProposal
  /\ syncing
  /\ build' = NoBuild
  /\ UNCHANGED <<chainVars, proposed, authorVars, minerVars>>

\* Mutant: a build is never replaced while there is one.
StartProposalWhenIdle ==
  /\ proposing = NoProposal
  /\ ~syncing
  /\ build = NoBuild
  /\ proposing' = [best_hash |-> best, difficulty |-> target[best]]
  /\ UNCHANGED <<chainVars, syncing, proposed, build, minerVars>>

\* The timer fires and the build, if any, is not on the best block.
StartProposal ==
  /\ proposing = NoProposal
  /\ ~syncing
  /\ build # NoBuild => build.best_hash # best
  /\ proposing' = [best_hash |-> best, difficulty |-> target[best]]
  /\ UNCHANGED <<chainVars, syncing, proposed, build, minerVars>>

\* Mutant: the best block is looked up again, the difficulty is not.
FinishProposalOnBest ==
  /\ proposing # NoProposal
  /\ \E h \in PreHashes \ proposed :
        /\ build' = [best_hash |-> best, pre_hash |-> h, difficulty |-> proposing.difficulty]
        /\ proposed' = proposed \cup {h}
  /\ proposing' = NoProposal
  /\ UNCHANGED <<chainVars, syncing, minerVars>>

\* The proposal is there; the best block may have changed in the meantime.
FinishProposal ==
  /\ proposing # NoProposal
  /\ \E h \in PreHashes \ proposed :
        /\ build' = [best_hash |-> proposing.best_hash, pre_hash |-> h,
                     difficulty |-> proposing.difficulty]
        /\ proposed' = proposed \cup {h}
  /\ proposing' = NoProposal
  /\ UNCHANGED <<chainVars, syncing, minerVars>>

\* There is no proposal: the difficulty, the inherents or the proposer fail,
\* and the task goes back to its timer.
ProposalFails ==
  /\ proposing # NoProposal
  /\ proposing' = NoProposal
  /\ UNCHANGED <<chainVars, syncing, proposed, build, minerVars>>
-----------------------------------------------------------------------------
(***************************************************************************)
(* The mining thread.                                                      *)
(***************************************************************************)
saturating_add(a, b) == IF a + b <= NONCE_MAX THEN a + b ELSE NONCE_MAX

\* Mutant: the counter saturates and stays at its last value.
NextNonceWithoutReset(n) == saturating_add(n, 1)

NextNonce(n) == IF saturating_add(n, 1) = NONCE_MAX THEN 0 ELSE saturating_add(n, 1)

\* One round of the loop: copy the metadata, try the current nonce.  When
\* there is no metadata the thread sleeps.
TryNonce ==
  /\ pc = "loop"
  /\ build # NoBuild
  /\ LET s == compute(build.difficulty, build.pre_hash, nonce)
     IN  IF hash_meets_difficulty(s.work, s.difficulty)
         THEN pc' = "verify" /\ seal' = s /\ nonce' = 0
         ELSE nonce' = NextNonce(nonce) /\ UNCHANGED <<pc, seal>>
  /\ UNCHANGED <<chainVars, proposed, authorVars, build, taken>>

\* Back to the loop: the result of submit is ignored.
Resume == pc' = "loop" /\ seal' = Undecodable /\ taken' = NoBuild

\* submit, first lock: the seal must be good for the build of now.
SubmitVerify ==
  /\ pc = "verify"
  /\ IF build # NoBuild /\ verify(build.pre_hash, seal, build.difficulty)
     THEN pc' = "take" /\ UNCHANGED <<seal, taken>>
     ELSE Resume
  /\ UNCHANGED <<chainVars, proposed, authorVars, build, nonce>>

\* Mutant: the build is copied and stays available to the thread.
SubmitCopy ==
  /\ pc = "take"
  /\ IF build # NoBuild
     THEN pc' = "import" /\ taken' = build /\ UNCHANGED seal
     ELSE Resume
  /\ UNCHANGED <<chainVars, proposed, authorVars, build, nonce>>

\* submit, second lock: take whatever build is there now.
SubmitTake ==
  /\ pc = "take"
  /\ IF build # NoBuild
     THEN pc' = "import" /\ taken' = build /\ UNCHANGED seal
     ELSE Resume
  /\ build' = NoBuild
  /\ UNCHANGED <<chainVars, proposed, authorVars, nonce>>

\* submit, import: the seal is checked against the build that was taken, at
\* the difficulty the build carries; if it fails the build is lost.
SubmitImport ==
  /\ pc = "import"
  /\ IF verify(taken.pre_hash, seal, taken.difficulty)
     THEN ImportBlock(taken.pre_hash, seal, taken.best_hash)
     ELSE UNCHANGED chainVars
  /\ Resume
  /\ UNCHANGED <<proposed, authorVars, build, nonce>>
-----------------------------------------------------------------------------
Author == DropBuild \/ StartProposal \/ FinishProposal
Miner  == TryNonce \/ SubmitVerify \/ SubmitTake \/ SubmitImport

Fault == ProposalFails \/ Restart

Next == Author \/ Miner \/ ReceiveBlock \/ SyncStarts \/ SyncEnds \/ Fault

\* The thread is scheduled again and again, and the timer of the authoring
\* task fires at least every ten seconds.
Fairness == WF_vars(Miner) /\ WF_vars(Author)

Spec == Init /\ [][Next]_vars
FairSpec == Spec /\ Fairness
-----------------------------------------------------------------------------
(***************************************************************************)
(* Properties.                                                             *)
(***************************************************************************)
\* Every variable has its type, the imported blocks form a tree rooted in
\* genesis, and the miner's counter stays below its last value (lines
\* 352 to 355).
TypeOK ==
  /\ Genesis \in blocks /\ blocks \subseteq BlockHash
  /\ parent \in [blocks -> blocks]
  /\ target \in [blocks -> Difficulties]
  /\ best \in blocks
  /\ syncing \in BOOLEAN
  /\ proposed \subseteq PreHashes
  /\ proposing \in Proposal \cup {NoProposal}
  /\ build \in MiningBuild \cup {NoBuild}
  /\ taken \in MiningBuild \cup {NoBuild}
  /\ pc \in {"loop", "verify", "take", "import"}
  /\ nonce \in 0 .. NONCE_MAX - 1
  /\ seal \in Seal \cup {Undecodable}

\* The proof of work of the chain.  However the miner, the author and the
\* network interleave, an imported block's seal is the attempt for its own
\* header, at the difficulty the runtime asks for on top of its parent, and
\* its hash meets that difficulty (pow/src/lib.rs, lines 112 to 144).
SealsMatchParents ==
  \A b \in blocks \ {Genesis} :
     LET d == target[parent[b]]
     IN  /\ b.seal = [difficulty |-> d,
                      work       |-> Sha3(d, b.pre_hash, b.seal.nonce),
                      nonce      |-> b.seal.nonce]
         /\ b.seal.work * d <= U256_MAX

\* A block is imported once: the build a seal is submitted for is taken, so
\* the thread, which goes on mining as soon as submit returns, cannot seal
\* the same header a second time (lines 348 to 350).
ProposalImportedOnce ==
  \A b, c \in blocks : b.pre_hash = c.pre_hash => b = c

\* What is mined is mined on a known block and at that block's difficulty,
\* although the best block may change while the proposal is being made.
BuildFitsItsParent ==
  \A m \in {build, taken} \ {NoBuild} :
     /\ m.best_hash \in blocks
     /\ m.difficulty = target[m.best_hash]
     /\ m.pre_hash \in proposed

AllProposed == proposed = PreHashes

\* A build is lost when submit takes it for a seal that was meant for an
\* earlier one, dropped during a sync and gone after a restart.  Once the
\* node has stopped syncing, restarting and failing to propose, the author
\* keeps providing a build on the best block: mining does not stop and does
\* not stay on a stale block.
MiningResumes ==
  <>[](~syncing) /\ <>[][~Fault]_vars =>
    []<>(AllProposed \/ (build # NoBuild /\ build.best_hash = best))

Solves(n, p, d) == hash_meets_difficulty(Sha3(d, p, n), d)

Solvable(m) == m # NoBuild /\ \E n \in 0 .. NONCE_MAX - 1 : Solves(n, m.pre_hash, m.difficulty)

\* The counter goes round and is not reset for a new build, so a header that
\* has a solution is not mined for ever: the seal is found, or the build is
\* replaced or dropped (lines 348 to 355).
SolutionFound ==
  \A p \in PreHashes :
     []<>(~(Solvable(build) /\ build.pre_hash = p))
=============================================================================
