----------------------------- MODULE ServiceProofs -----------------------------
(***************************************************************************)
(* The safety of the two models of node/src/service.rs: of mining within   *)
(* the process (Mining), for any number of headers and nonces, any         *)
(* difficulties and any hash function, and of the life of the process      *)
(* (Node), for any operators' accounts, keys and length of the chain.      *)
(*                                                                         *)
(* First, Mining.  The inductive invariant adds to the properties what the *)
(* actors hand on to each other: a proposal, a build and a build that      *)
(* submit has taken belong to a known block, and the header of a build is  *)
(* of no imported block and of no other build.                             *)
(***************************************************************************)
EXTENDS Mining, Node, TLAPS

ImportedHeaders == \A b \in blocks \ {Genesis} : b.pre_hash \in proposed

ProposalFitsItsParent ==
  proposing # NoProposal =>
    proposing.best_hash \in blocks /\ proposing.difficulty = target[proposing.best_hash]

BuildsAreNew ==
  /\ \A m \in {build, taken} \ {NoBuild} : \A b \in blocks : b.pre_hash # m.pre_hash
  /\ build # NoBuild /\ taken # NoBuild => build.pre_hash # taken.pre_hash

TakenToImport == pc = "import" <=> taken # NoBuild

Chain ==
  /\ Genesis \in blocks /\ blocks \subseteq BlockHash
  /\ parent \in [blocks -> blocks]
  /\ target \in [blocks -> Difficulties]
  /\ best \in blocks
  /\ SealsMatchParents
  /\ ProposalImportedOnce

Actors ==
  /\ syncing \in BOOLEAN
  /\ proposed \subseteq PreHashes
  /\ proposing \in Proposal \cup {NoProposal}
  /\ build \in MiningBuild \cup {NoBuild}
  /\ taken \in MiningBuild \cup {NoBuild}
  /\ pc \in {"loop", "verify", "take", "import"}
  /\ nonce \in 0 .. NONCE_MAX - 1
  /\ seal \in Seal \cup {Undecodable}

IInv ==
  /\ Chain
  /\ Actors
  /\ ImportedHeaders
  /\ ProposalFitsItsParent
  /\ BuildFitsItsParent
  /\ BuildsAreNew
  /\ TakenToImport

LEMMA Consequences == IInv => TypeOK /\ SealsMatchParents /\ ProposalImportedOnce /\ BuildFitsItsParent
BY DEF IInv, Chain, Actors, TypeOK

LEMMA InitEstablishes ==
  ASSUME Init PROVE IInv
<1>1. blocks = {Genesis} /\ parent[Genesis] = Genesis /\ best = Genesis
  BY DEF Init, blocks
<1>2. Chain
  BY <1>1 DEF Init, Chain, BlockHash, SealsMatchParents, ProposalImportedOnce
<1>3. Actors
  <2>1. 0 \in 0 .. NONCE_MAX - 1
    BY MiningAssumption
  <2>. QED BY <2>1 DEF Init, Actors
<1>4. ImportedHeaders
  BY <1>1 DEF ImportedHeaders
<1>5. ProposalFitsItsParent /\ BuildFitsItsParent /\ BuildsAreNew /\ TakenToImport
  BY DEF Init, ProposalFitsItsParent, BuildFitsItsParent, BuildsAreNew, TakenToImport
<1>. QED BY <1>2, <1>3, <1>4, <1>5 DEF IInv

(***************************************************************************)
(* The import of a block with a new header and a good seal.                *)
(***************************************************************************)
LEMMA ImportKeepsChain ==
  ASSUME Chain,
         NEW h \in PreHashes, NEW s \in Seal, NEW p \in blocks,
         \A b \in blocks : b.pre_hash # h,
         verify(h, s, target[p]),
         ImportBlock(h, s, p)
  PROVE  /\ Chain'
         /\ blocks' = blocks \cup {[pre_hash |-> h, seal |-> s]}
         /\ \A b \in blocks : target'[b] = target[b]
<1> DEFINE new == [pre_hash |-> h, seal |-> s]
<1>1. new \in BlockHash /\ new \notin blocks /\ new.pre_hash = h /\ new.seal = s
  BY DEF BlockHash
<1>2. /\ parent' = Insert(parent, new, p)
      /\ \E d \in Difficulties : target' = Insert(target, new, d)
      /\ best' \in {best, new}
  BY DEF ImportBlock
<1>. HIDE DEF new
<1>3. blocks' = blocks \cup {new}
  BY <1>2 DEF blocks, Insert
<1>4. /\ \A b \in blocks : parent'[b] = parent[b]
      /\ parent'[new] = p
      /\ parent' \in [blocks' -> blocks']
  BY <1>1, <1>2, <1>3 DEF blocks, Insert, Chain
<1>5. /\ \A b \in blocks : target'[b] = target[b]
      /\ target' \in [blocks' -> Difficulties]
  <2>1. PICK d \in Difficulties : target' = Insert(target, new, d)
    BY <1>2
  <2>2. DOMAIN target = blocks
    BY DEF Chain
  <2>. QED BY <1>1, <1>3, <2>1, <2>2 DEF Insert, Chain
<1>6. new # Genesis
  BY <1>1 DEF Chain
<1>7. SealsMatchParents'
  <2>. SUFFICES ASSUME NEW b \in blocks' \ {Genesis}
                PROVE  LET d == target'[parent'[b]]
                       IN  /\ b.seal = [difficulty |-> d,
                                        work       |-> Sha3(d, b.pre_hash, b.seal.nonce),
                                        nonce      |-> b.seal.nonce]
                           /\ b.seal.work * d <= U256_MAX
    BY DEF SealsMatchParents
  <2>1. CASE b \in blocks
    <3>1. parent'[b] = parent[b] /\ parent[b] \in blocks
      BY <1>4, <2>1 DEF Chain
    <3>2. target'[parent'[b]] = target[parent[b]]
      BY <1>5, <3>1
    <3>. QED BY <2>1, <3>2 DEF Chain, SealsMatchParents
  <2>2. CASE b = new
    <3>1. target'[parent'[b]] = target[p]
      BY <1>4, <1>5, <2>2
    <3>. QED BY <1>1, <2>2, <3>1 DEF verify, compute, hash_meets_difficulty
  <2>. QED BY <1>3, <2>1, <2>2
<1>8. ProposalImportedOnce'
  BY <1>1, <1>3 DEF Chain, ProposalImportedOnce
<1>9. Chain'
  BY <1>1, <1>2, <1>3, <1>4, <1>5, <1>7, <1>8 DEF Chain
<1>. QED BY <1>3, <1>5, <1>9 DEF new

LEMMA ReceiveStep ==
  ASSUME IInv, ReceiveBlock PROVE IInv'
<1>1. PICK h \in PreHashes \ proposed, p \in blocks, d \in Difficulties, q \in PreHashes, n \in Nonces :
        /\ verify(h, compute(d, q, n), target[p])
        /\ ImportBlock(h, compute(d, q, n), p)
        /\ proposed' = proposed \cup {h}
  BY DEF ReceiveBlock
<1>2. UNCHANGED <<syncing, proposing, build, pc, nonce, seal, taken>>
  BY DEF ReceiveBlock, authorVars, minerVars
<1>3. compute(d, q, n) \in Seal
  BY PowAssumption DEF compute, Seal, Works
<1>4. \A b \in blocks : b.pre_hash # h
  BY <1>1, MiningAssumption DEF IInv, ImportedHeaders, Genesis
<1>5. /\ Chain'
      /\ blocks' = blocks \cup {[pre_hash |-> h, seal |-> compute(d, q, n)]}
      /\ \A b \in blocks : target'[b] = target[b]
  BY <1>1, <1>3, <1>4, ImportKeepsChain DEF IInv
<1>6. Actors'
  BY <1>1, <1>2 DEF IInv, Actors
<1>7. ImportedHeaders'
  BY <1>1, <1>5 DEF IInv, ImportedHeaders
<1>8. ProposalFitsItsParent'
  BY <1>2, <1>5 DEF IInv, ProposalFitsItsParent
<1>9. BuildFitsItsParent'
  BY <1>1, <1>2, <1>5 DEF IInv, BuildFitsItsParent
<1>10. BuildsAreNew'
  BY <1>1, <1>2, <1>5 DEF IInv, BuildsAreNew, BuildFitsItsParent
<1>11. TakenToImport'
  BY <1>2 DEF IInv, TakenToImport
<1>. QED BY <1>5, <1>6, <1>7, <1>8, <1>9, <1>10, <1>11 DEF IInv

LEMMA SubmitImportStep ==
  ASSUME IInv, SubmitImport PROVE IInv'
<1>1. /\ pc = "import" /\ taken # NoBuild /\ taken \in MiningBuild
      /\ pc' = "loop" /\ seal' = Undecodable /\ taken' = NoBuild
      /\ UNCHANGED <<proposed, syncing, proposing, build, nonce>>
  BY DEF SubmitImport, Resume, authorVars, IInv, TakenToImport, Actors
<1>2. Actors' /\ TakenToImport'
  BY <1>1 DEF IInv, Actors, TakenToImport
<1>3. CASE verify(taken.pre_hash, seal, taken.difficulty)
  <2>1. /\ taken.pre_hash \in PreHashes /\ taken.best_hash \in blocks
        /\ taken.difficulty = target[taken.best_hash] /\ taken.pre_hash \in proposed
        /\ \A b \in blocks : b.pre_hash # taken.pre_hash
    BY <1>1 DEF IInv, MiningBuild, BuildFitsItsParent, BuildsAreNew
  <2>2. seal \in Seal
    BY <1>3 DEF IInv, Actors, verify
  <2>3. ImportBlock(taken.pre_hash, seal, taken.best_hash)
    BY <1>3 DEF SubmitImport
  <2>4. /\ Chain'
        /\ blocks' = blocks \cup {[pre_hash |-> taken.pre_hash, seal |-> seal]}
        /\ \A b \in blocks : target'[b] = target[b]
    BY <1>3, <2>1, <2>2, <2>3, ImportKeepsChain DEF IInv
  <2>5. ImportedHeaders'
    BY <1>1, <2>1, <2>4 DEF IInv, ImportedHeaders
  <2>6. ProposalFitsItsParent'
    BY <1>1, <2>4 DEF IInv, ProposalFitsItsParent
  <2>7. BuildFitsItsParent'
    BY <1>1, <2>4 DEF IInv, BuildFitsItsParent
  <2>8. BuildsAreNew'
    BY <1>1, <2>4 DEF IInv, BuildsAreNew
  <2>. QED BY <1>2, <2>4, <2>5, <2>6, <2>7, <2>8 DEF IInv
<1>4. CASE ~verify(taken.pre_hash, seal, taken.difficulty)
  <2>1. UNCHANGED <<parent, target, best>> /\ blocks' = blocks
    BY <1>4 DEF SubmitImport, chainVars, blocks
  <2>2. Chain'
    BY <2>1 DEF IInv, Chain, SealsMatchParents, ProposalImportedOnce
  <2>. QED BY <1>1, <1>2, <2>1, <2>2 DEF IInv, ImportedHeaders, ProposalFitsItsParent,
                                        BuildFitsItsParent, BuildsAreNew
<1>. QED BY <1>3, <1>4

(***************************************************************************)
(* All other steps leave the chain alone.                                  *)
(***************************************************************************)
LEMMA ChainUntouched ==
  ASSUME Chain, UNCHANGED chainVars
  PROVE  Chain' /\ blocks' = blocks /\ target' = target /\ best' = best
BY DEF chainVars, blocks, Chain, SealsMatchParents, ProposalImportedOnce

LEMMA StartProposalStep ==
  ASSUME IInv, StartProposal PROVE IInv'
<1>1. /\ UNCHANGED <<syncing, proposed, build, pc, nonce, seal, taken>>
      /\ proposing' = [best_hash |-> best, difficulty |-> target[best]]
  BY DEF StartProposal, minerVars
<1>2. Chain' /\ blocks' = blocks /\ target' = target /\ best \in blocks
  BY ChainUntouched DEF StartProposal, IInv, Chain
<1>3. proposing' \in Proposal
  BY <1>1, <1>2 DEF IInv, Chain, Proposal
<1>4. Actors'
  BY <1>1, <1>3 DEF IInv, Actors
<1>5. ProposalFitsItsParent'
  BY <1>1, <1>2 DEF ProposalFitsItsParent
<1>. QED BY <1>1, <1>2, <1>4, <1>5 DEF IInv, ImportedHeaders, BuildFitsItsParent, BuildsAreNew, TakenToImport

LEMMA FinishProposalStep ==
  ASSUME IInv, FinishProposal PROVE IInv'
<1>1. PICK h \in PreHashes \ proposed :
        /\ build' = [best_hash |-> proposing.best_hash, pre_hash |-> h,
                     difficulty |-> proposing.difficulty]
        /\ proposed' = proposed \cup {h}
  BY DEF FinishProposal
<1>2. /\ proposing # NoProposal /\ proposing' = NoProposal
      /\ UNCHANGED <<syncing, pc, nonce, seal, taken>>
  BY DEF FinishProposal, minerVars
<1>3. Chain' /\ blocks' = blocks /\ target' = target
  BY ChainUntouched DEF FinishProposal, IInv
<1>4. /\ proposing \in Proposal /\ proposing.best_hash \in blocks
      /\ proposing.difficulty = target[proposing.best_hash]
  BY <1>2 DEF IInv, Actors, ProposalFitsItsParent
<1>5. build' \in MiningBuild
  BY <1>1, <1>4 DEF MiningBuild, Proposal
<1>6. Actors'
  BY <1>1, <1>2, <1>5 DEF IInv, Actors
<1>7. ImportedHeaders' /\ ProposalFitsItsParent' /\ TakenToImport'
  BY <1>1, <1>2, <1>3 DEF IInv, ImportedHeaders, ProposalFitsItsParent, TakenToImport
<1>8. BuildFitsItsParent'
  BY <1>1, <1>2, <1>3, <1>4 DEF IInv, BuildFitsItsParent
<1>9. \A b \in blocks : b.pre_hash # h
  BY <1>1, MiningAssumption DEF IInv, ImportedHeaders, Genesis
<1>10. BuildsAreNew'
  BY <1>1, <1>2, <1>3, <1>9 DEF IInv, BuildsAreNew, BuildFitsItsParent
<1>. QED BY <1>3, <1>6, <1>7, <1>8, <1>10 DEF IInv

LEMMA TryNonceStep ==
  ASSUME IInv, TryNonce PROVE IInv'
<1> DEFINE s == compute(build.difficulty, build.pre_hash, nonce)
<1>1. /\ pc = "loop" /\ build # NoBuild /\ build \in MiningBuild /\ taken = NoBuild
      /\ UNCHANGED <<syncing, proposed, proposing, build, taken>>
  BY DEF TryNonce, authorVars, IInv, Actors, TakenToImport
<1>2. Chain' /\ blocks' = blocks /\ target' = target
  BY ChainUntouched DEF TryNonce, IInv
<1>3. s \in Seal
  <2>1. nonce \in Nonces
    BY MiningAssumption DEF IInv, Actors
  <2>. QED BY <1>1, <2>1, PowAssumption DEF compute, Seal, Works, MiningBuild
<1>4. NextNonce(nonce) \in 0 .. NONCE_MAX - 1
  BY MiningAssumption DEF IInv, Actors, NextNonce, saturating_add
<1>5. /\ nonce' \in 0 .. NONCE_MAX - 1
      /\ seal' \in Seal \cup {Undecodable}
      /\ pc' \in {"loop", "verify"}
  <2>1. CASE hash_meets_difficulty(s.work, s.difficulty)
    BY <1>3, <2>1, MiningAssumption DEF TryNonce
  <2>2. CASE ~hash_meets_difficulty(s.work, s.difficulty)
    BY <1>1, <1>4, <2>2 DEF TryNonce, IInv, Actors
  <2>. QED BY <2>1, <2>2
<1>6. Actors' /\ TakenToImport'
  BY <1>1, <1>5 DEF IInv, Actors, TakenToImport
<1>. QED BY <1>1, <1>2, <1>6 DEF IInv, ImportedHeaders, ProposalFitsItsParent, BuildFitsItsParent, BuildsAreNew

LEMMA SubmitVerifyStep ==
  ASSUME IInv, SubmitVerify PROVE IInv'
<1>1. UNCHANGED <<syncing, proposed, proposing, build, nonce>>
  BY DEF SubmitVerify, authorVars
<1>2. Chain' /\ blocks' = blocks /\ target' = target
  BY ChainUntouched DEF SubmitVerify, IInv
<1>3. /\ taken = NoBuild /\ taken' = NoBuild
      /\ pc' \in {"loop", "take"} /\ seal' \in {seal, Undecodable}
  BY DEF SubmitVerify, Resume, IInv, TakenToImport
<1>4. Actors' /\ TakenToImport'
  BY <1>1, <1>3 DEF IInv, Actors, TakenToImport
<1>. QED BY <1>1, <1>2, <1>3, <1>4 DEF IInv, ImportedHeaders, ProposalFitsItsParent, BuildFitsItsParent, BuildsAreNew

LEMMA SubmitTakeStep ==
  ASSUME IInv, SubmitTake PROVE IInv'
<1>1. build' = NoBuild /\ UNCHANGED <<syncing, proposed, proposing, nonce>>
  BY DEF SubmitTake, authorVars
<1>2. Chain' /\ blocks' = blocks /\ target' = target
  BY ChainUntouched DEF SubmitTake, IInv
<1>3. CASE build # NoBuild
  <2>1. pc' = "import" /\ taken' = build /\ seal' = seal
    BY <1>3 DEF SubmitTake
  <2>2. Actors' /\ TakenToImport'
    BY <1>1, <1>3, <2>1 DEF IInv, Actors, TakenToImport
  <2>. QED BY <1>1, <1>2, <2>1, <2>2 DEF IInv, ImportedHeaders, ProposalFitsItsParent,
                                        BuildFitsItsParent, BuildsAreNew
<1>4. CASE build = NoBuild
  <2>1. pc' = "loop" /\ taken' = NoBuild /\ seal' = Undecodable
    BY <1>4 DEF SubmitTake, Resume
  <2>2. Actors' /\ TakenToImport'
    BY <1>1, <2>1 DEF IInv, Actors, TakenToImport
  <2>. QED BY <1>1, <1>2, <2>1, <2>2 DEF IInv, ImportedHeaders, ProposalFitsItsParent,
                                        BuildFitsItsParent, BuildsAreNew
<1>. QED BY <1>3, <1>4

(***************************************************************************)
(* Steps that only forget something, or that concern none of it.           *)
(***************************************************************************)
LEMMA ForgetStep ==
  ASSUME IInv, UNCHANGED chainVars, UNCHANGED proposed,
         syncing' \in BOOLEAN,
         proposing' \in {proposing, NoProposal},
         build' \in {build, NoBuild},
         \/ UNCHANGED minerVars
         \/ pc' = "loop" /\ nonce' = 0 /\ seal' = Undecodable /\ taken' = NoBuild
  PROVE  IInv'
<1>1. Chain' /\ blocks' = blocks /\ target' = target
  BY ChainUntouched DEF IInv
<1>2. taken' \in {taken, NoBuild}
  BY DEF minerVars
<1>3. Actors'
  BY MiningAssumption DEF IInv, Actors, minerVars
<1>4. TakenToImport'
  BY DEF IInv, TakenToImport, minerVars
<1>5. ImportedHeaders' /\ ProposalFitsItsParent'
  BY <1>1 DEF IInv, ImportedHeaders, ProposalFitsItsParent
<1>6. BuildFitsItsParent' /\ BuildsAreNew'
  BY <1>1, <1>2 DEF IInv, BuildFitsItsParent, BuildsAreNew
<1>. QED BY <1>1, <1>3, <1>4, <1>5, <1>6 DEF IInv

LEMMA Preservation == IInv /\ [Next]_vars => IInv'
<1>. SUFFICES ASSUME IInv, [Next]_vars PROVE IInv'
  OBVIOUS
<1>. USE DEF authorVars
<1>0. syncing \in BOOLEAN
  BY DEF IInv, Actors
<1>1. CASE DropBuild
  BY <1>0, <1>1, ForgetStep DEF DropBuild
<1>2. CASE StartProposal
  BY <1>2, StartProposalStep
<1>3. CASE FinishProposal
  BY <1>3, FinishProposalStep
<1>4. CASE TryNonce
  BY <1>4, TryNonceStep
<1>5. CASE SubmitVerify
  BY <1>5, SubmitVerifyStep
<1>6. CASE SubmitTake
  BY <1>6, SubmitTakeStep
<1>7. CASE SubmitImport
  BY <1>7, SubmitImportStep
<1>8. CASE ReceiveBlock
  BY <1>8, ReceiveStep
<1>9. CASE SyncStarts
  BY <1>9, ForgetStep DEF SyncStarts
<1>10. CASE SyncEnds
  BY <1>10, ForgetStep DEF SyncEnds
<1>11. CASE ProposalFails
  BY <1>0, <1>11, ForgetStep DEF ProposalFails
<1>12. CASE Restart
  BY <1>0, <1>12, ForgetStep DEF Restart
<1>13. CASE UNCHANGED vars
  BY <1>0, <1>13, ForgetStep DEF vars, chainVars, minerVars
<1>. QED BY <1>1, <1>2, <1>3, <1>4, <1>5, <1>6, <1>7, <1>8, <1>9, <1>10, <1>11, <1>12, <1>13
         DEF Next, Author, Miner, Fault

LEMMA Invariance == Spec => []IInv
BY InitEstablishes, Preservation, PTL DEF Spec

(***************************************************************************)
(* Types, the tree of blocks, and a counter below its last value.          *)
(***************************************************************************)
THEOREM TypeCorrect == Spec => []TypeOK
BY Invariance, Consequences, PTL

(***************************************************************************)
(* Only good seals are imported: every block has the attempt for its own   *)
(* header at the difficulty the runtime asks for on top of its parent.     *)
(***************************************************************************)
THEOREM OnlyGoodSealsAreImported == Spec => []SealsMatchParents
BY Invariance, Consequences, PTL

(***************************************************************************)
(* No header is imported with two seals.                                   *)
(***************************************************************************)
THEOREM NoProposalIsImportedTwice == Spec => []ProposalImportedOnce
BY Invariance, Consequences, PTL

(***************************************************************************)
(* What is mined is mined at the difficulty of its parent.                 *)
(***************************************************************************)
THEOREM BuildsFitTheirParents == Spec => []BuildFitsItsParent
BY Invariance, Consequences, PTL
-----------------------------------------------------------------------------
(***************************************************************************)
(* The process (Node).  The inductive invariant adds to the properties     *)
(* what the stages of start-up have settled so far, and that a key once    *)
(* stored on disk stays there.                                             *)
(***************************************************************************)
\* Before decode_author nobody is mined for; only an authority gets to it,
\* and only with a keystore that can be had.
StagesInOrder ==
  /\ stage \in {"new_partial", "services", "decode_author"} => author = None /\ memory = {}
  /\ stage \in {"new_partial", "services", "decode_author", "start_mining"} => ~mining
  /\ stage \in {"decode_author", "start_mining"} => config.role = "authority"
  /\ stage = "start_mining" => author # None
  /\ stage \notin {"down", "new_partial"} => config.keystore # "remote"

\* The author is the one this run's configuration asks for.
AuthorAsConfigured ==
  author # None =>
    /\ config.role = "authority"
    /\ author = config.author \/ (config.author = None /\ author \in Keys)

LocalKeysOnDisk == StoredIn("local") \subseteq disk

AuthorsKeyStored == author \in Keys => author \in disk \cup memory

NodeInv == NodeTypeOK /\ StagesInOrder /\ AuthorAsConfigured /\ LocalKeysOnDisk /\ AuthorsKeyStored

LEMMA SequencesOfBlocks ==
  ASSUME NEW S, NEW c \in Seq(S)
  PROVE  /\ << >> \in Seq(S) /\ Len(<< >>) = 0 /\ Len(c) \in Nat
         /\ \A a \in S : Append(c, a) \in Seq(S) /\ Len(Append(c, a)) = Len(c) + 1
         /\ \A n \in 0 .. Len(c) :
              SubSeq(c, 1, n) \in Seq(S) /\ Len(SubSeq(c, 1, n)) = n
OBVIOUS

LEMMA NodeInitEstablishes == ASSUME NodeInit PROVE NodeInv
<1>1. None \notin Keys
  BY NodeAssumption
<1>2. NodeTypeOK
  <2>1. DOMAIN generated = {} /\ chain = << >>
    BY DEF NodeInit
  <2>2. chain \in Seq(Accounts \cup Keys \cup {Foreign}) /\ Len(chain) <= MaxBlocks
    BY <2>1, NodeAssumption
  <2>. QED BY <2>1, <2>2 DEF NodeInit, NodeTypeOK
<1>3. StagesInOrder /\ AuthorAsConfigured
  BY DEF NodeInit, StagesInOrder, AuthorAsConfigured
<1>4. LocalKeysOnDisk /\ AuthorsKeyStored
  BY <1>1 DEF NodeInit, LocalKeysOnDisk, StoredIn, AuthorsKeyStored
<1>. QED BY <1>2, <1>3, <1>4 DEF NodeInv

\* What happens in memory only: the configuration, the stage, the author and
\* the thread.
LEMMA FilesUntouched ==
  ASSUME NodeInv, UNCHANGED <<files, history>>
  PROVE  /\ LocalKeysOnDisk'
         /\ disk' \subseteq Keys /\ rewarded' \subseteq Accounts \cup Keys
         /\ chain' \in Seq(Accounts \cup Keys \cup {Foreign}) /\ Len(chain') <= MaxBlocks
         /\ DOMAIN generated' \subseteq Keys
         /\ \A k \in DOMAIN generated' : generated'[k] \in {"local", "in memory"}
BY DEF files, history, NodeInv, NodeTypeOK, LocalKeysOnDisk, StoredIn

LEMMA GoneStep ==
  ASSUME NodeInv, Gone PROVE NodeInv'
<1>1. /\ stage' = "down" /\ author' = None /\ mining' = FALSE /\ memory' = {}
      /\ config' = config /\ UNCHANGED <<files, history>>
  BY DEF Gone
<1>2. NodeTypeOK'
  BY <1>1, FilesUntouched DEF NodeInv, NodeTypeOK
<1>3. None \notin Keys
  BY NodeAssumption
<1>4. StagesInOrder' /\ AuthorAsConfigured' /\ AuthorsKeyStored'
  BY <1>1, <1>3 DEF StagesInOrder, AuthorAsConfigured, AuthorsKeyStored
<1>. QED BY <1>1, <1>2, <1>4, FilesUntouched DEF NodeInv

LEMMA RunStep ==
  ASSUME NodeInv, NEW c \in Config, Run(c) PROVE NodeInv'
<1>1. /\ stage = "down" /\ stage' = "new_partial" /\ config' = c
      /\ UNCHANGED <<author, mining, memory, files, history>>
  BY DEF Run
<1>2. author = None /\ mining = FALSE /\ memory = {}
  BY <1>1 DEF NodeInv, NodeTypeOK
<1>3. NodeTypeOK'
  BY <1>1, <1>2, FilesUntouched DEF NodeTypeOK
<1>4. None \notin Keys
  BY NodeAssumption
<1>5. StagesInOrder' /\ AuthorAsConfigured' /\ AuthorsKeyStored'
  BY <1>1, <1>2, <1>4 DEF StagesInOrder, AuthorAsConfigured, AuthorsKeyStored
<1>. QED BY <1>1, <1>3, <1>5, FilesUntouched DEF NodeInv

(***************************************************************************)
(* A stage that keeps the author, the thread and the stored keys.          *)
(***************************************************************************)
LEMMA StageStep ==
  ASSUME NodeInv, UNCHANGED <<config, author, memory, files, history>>,
         stage' \in {"services", "decode_author", "start_network", "up"},
         mining' = mining \/ (mining' = TRUE /\ author # None),
         stage' \in {"services", "decode_author"} => author = None /\ memory = {} /\ ~mining',
         stage' = "decode_author" => config.role = "authority",
         config.keystore # "remote"
  PROVE  NodeInv'
<1>1. NodeTypeOK'
  <2>1. mining' \in BOOLEAN /\ (mining' => author' # None)
    <3>1. mining \in BOOLEAN /\ (mining => author # None)
      BY Zenon DEF NodeInv, NodeTypeOK
    <3>2. author' = author
      OBVIOUS
    <3>3. CASE mining' = mining
      BY <3>1, <3>2, <3>3, Zenon
    <3>4. CASE mining' = TRUE /\ author # None
      BY <3>2, <3>4, Zenon
    <3>. QED BY <3>3, <3>4
  <2>2. /\ stage' # "down"
        /\ stage' \in {"down", "new_partial", "services", "decode_author", "start_mining",
                       "start_network", "up"}
    OBVIOUS
  <2>3. config' \in Config /\ author' \in Accounts \cup Keys \cup {None} /\ memory' \subseteq Keys
    BY DEF NodeInv, NodeTypeOK
  <2>4. /\ disk' \subseteq Keys /\ rewarded' \subseteq Accounts \cup Keys
        /\ chain' \in Seq(Accounts \cup Keys \cup {Foreign}) /\ Len(chain') <= MaxBlocks
        /\ DOMAIN generated' \subseteq Keys
        /\ \A k \in DOMAIN generated' : generated'[k] \in {"local", "in memory"}
    BY FilesUntouched
  <2>. QED BY <2>1, <2>2, <2>3, <2>4 DEF NodeTypeOK
<1>2. StagesInOrder' /\ AuthorAsConfigured'
  BY DEF NodeInv, StagesInOrder, AuthorAsConfigured
<1>3. AuthorsKeyStored'
  BY DEF NodeInv, AuthorsKeyStored, files
<1>. QED BY <1>1, <1>2, <1>3, FilesUntouched DEF NodeInv

LEMMA NewPartialStep ==
  ASSUME NodeInv, new_partial PROVE NodeInv'
<1>1. CASE config.keystore = "remote"
  BY <1>1, GoneStep DEF new_partial
<1>2. CASE config.keystore # "remote"
  <2>1. /\ stage = "new_partial" /\ stage' = "services"
        /\ UNCHANGED <<config, author, mining, memory, files, history>>
    BY <1>2 DEF new_partial
  <2>2. author = None /\ memory = {} /\ ~mining
    BY <2>1 DEF NodeInv, StagesInOrder
  <2>. QED BY <1>2, <2>1, <2>2, StageStep
<1>. QED BY <1>1, <1>2

LEMMA SpawnServicesStep ==
  ASSUME NodeInv, SpawnServices PROVE NodeInv'
<1>1. /\ stage = "services" /\ stage' \in {"decode_author", "start_network"}
      /\ stage' = "decode_author" => config.role = "authority"
      /\ UNCHANGED <<config, author, mining, memory, files, history>>
  BY DEF SpawnServices
<1>2. author = None /\ memory = {} /\ ~mining /\ config.keystore # "remote"
  BY <1>1 DEF NodeInv, StagesInOrder
<1>. QED BY <1>1, <1>2, StageStep

LEMMA StartMiningStep ==
  ASSUME NodeInv, StartMining PROVE NodeInv'
<1>1. /\ stage = "start_mining" /\ stage' = "start_network" /\ mining' = TRUE
      /\ UNCHANGED <<config, author, memory, files, history>>
  BY DEF StartMining
<1>2. author # None /\ config.keystore # "remote"
  BY <1>1 DEF NodeInv, StagesInOrder
<1>. QED BY <1>1, <1>2, StageStep

LEMMA StartNetworkStep ==
  ASSUME NodeInv, StartNetwork PROVE NodeInv'
<1>1. /\ stage = "start_network" /\ stage' = "up"
      /\ UNCHANGED <<config, author, mining, memory, files, history>>
  BY DEF StartNetwork
<1>2. config.keystore # "remote"
  BY <1>1 DEF NodeInv, StagesInOrder
<1>. QED BY <1>1, <1>2, StageStep

(***************************************************************************)
(* decode_author: an author the operator names, or a key that is stored    *)
(* before it is the author.                                                *)
(***************************************************************************)
LEMMA UseAuthorStep ==
  ASSUME NodeInv, stage = "decode_author", config.author \notin {None, Invalid}, UseAuthor
  PROVE  NodeInv'
<1>1. /\ author' = config.author /\ stage' = "start_mining"
      /\ UNCHANGED <<config, mining, memory, files, history>>
  BY DEF UseAuthor
<1>2. config.author \in Accounts /\ config \in Config
  BY DEF NodeInv, NodeTypeOK, Config
<1>3. /\ config.role = "authority" /\ config.keystore # "remote" /\ ~mining
  BY DEF NodeInv, StagesInOrder
<1>4. author' \in Accounts /\ author' # None /\ author' \notin Keys
  BY <1>1, <1>2, NodeAssumption
<1>5. NodeTypeOK'
  BY <1>1, <1>4, FilesUntouched DEF NodeInv, NodeTypeOK
<1>6. StagesInOrder' /\ AuthorAsConfigured' /\ AuthorsKeyStored'
  BY <1>1, <1>3, <1>4 DEF StagesInOrder, AuthorAsConfigured, AuthorsKeyStored
<1>. QED BY <1>1, <1>5, <1>6, FilesUntouched DEF NodeInv

LEMMA GenerateKeyStep ==
  ASSUME NodeInv, stage = "decode_author", config.author = None,
         NEW k \in Keys \ DOMAIN generated, GenerateKey(k)
  PROVE  NodeInv'
<1>1. /\ author' = k /\ stage' = "start_mining" /\ UNCHANGED <<config, mining, chain, rewarded>>
      /\ generated' = [i \in DOMAIN generated \cup {k} |->
                         IF i = k THEN config.keystore ELSE generated[i]]
  BY DEF GenerateKey
<1>2. /\ config.role = "authority" /\ config.keystore # "remote" /\ ~mining
  BY DEF NodeInv, StagesInOrder
<1>3. config.keystore \in {"local", "in memory"}
  BY <1>2 DEF NodeInv, NodeTypeOK, Config
<1>4. /\ disk' \subseteq Keys /\ memory' \subseteq Keys /\ disk \subseteq disk'
      /\ k \in disk' \cup memory'
      /\ config.keystore = "local" => k \in disk'
  BY DEF GenerateKey, StoreKey, NodeInv, NodeTypeOK
<1>5. k # None
  BY NodeAssumption
<1>6. NodeTypeOK'
  <2>1. /\ DOMAIN generated' \subseteq Keys
        /\ \A i \in DOMAIN generated' : generated'[i] \in {"local", "in memory"}
    BY <1>1, <1>3 DEF NodeInv, NodeTypeOK
  <2>. QED BY <1>1, <1>4, <1>5, <2>1 DEF NodeInv, NodeTypeOK
<1>7. StagesInOrder' /\ AuthorAsConfigured' /\ AuthorsKeyStored'
  <2>1. StagesInOrder'
    BY <1>1, <1>2, <1>5 DEF StagesInOrder
  <2>2. AuthorAsConfigured'
    BY <1>1, <1>2 DEF AuthorAsConfigured
  <2>3. AuthorsKeyStored'
    BY <1>1, <1>4 DEF AuthorsKeyStored
  <2>. QED BY <2>1, <2>2, <2>3
<1>8. LocalKeysOnDisk'
  <2>. SUFFICES ASSUME NEW i \in DOMAIN generated', generated'[i] = "local" PROVE i \in disk'
    BY DEF LocalKeysOnDisk, StoredIn
  <2>1. CASE i = k
    BY <1>1, <1>4, <2>1
  <2>2. CASE i # k
    BY <1>1, <1>4, <2>2 DEF NodeInv, LocalKeysOnDisk, StoredIn
  <2>. QED BY <2>1, <2>2
<1>. QED BY <1>6, <1>7, <1>8 DEF NodeInv

LEMMA DecodeAuthorStep ==
  ASSUME NodeInv, decode_author PROVE NodeInv'
<1>1. stage = "decode_author"
  BY DEF decode_author
<1>2. CASE config.author = Invalid
  <2>1. config.author # None
    BY <1>2, NodeAssumption
  <2>. QED BY <1>2, <2>1, GoneStep DEF decode_author
<1>3. CASE config.author = None /\ config.author # Invalid
  <2>1. PICK k \in Keys \ DOMAIN generated : GenerateKey(k)
    BY <1>3 DEF decode_author
  <2>. QED BY <1>1, <1>3, <2>1, GenerateKeyStep
<1>4. CASE config.author \notin {None, Invalid}
  BY <1>1, <1>4, UseAuthorStep DEF decode_author
<1>. QED BY <1>2, <1>3, <1>4

(***************************************************************************)
(* Blocks and keys: the chain changes, the disk only grows.                *)
(***************************************************************************)
LEMMA ChainStep ==
  ASSUME NodeInv, UNCHANGED <<stage, config, author, mining, memory, disk, generated>>,
         chain' \in Seq(Accounts \cup Keys \cup {Foreign}), Len(chain') <= MaxBlocks,
         rewarded' \subseteq Accounts \cup Keys
  PROVE  NodeInv'
<1>1. NodeTypeOK'
  BY DEF NodeInv, NodeTypeOK
<1>2. StagesInOrder' /\ AuthorAsConfigured'
  BY DEF NodeInv, StagesInOrder, AuthorAsConfigured
<1>3. LocalKeysOnDisk' /\ AuthorsKeyStored'
  BY DEF NodeInv, LocalKeysOnDisk, StoredIn, AuthorsKeyStored
<1>. QED BY <1>1, <1>2, <1>3 DEF NodeInv

LEMMA Appended ==
  ASSUME NodeInv, NEW a \in Accounts \cup Keys \cup {Foreign}, Len(chain) < MaxBlocks
  PROVE  /\ Append(chain, a) \in Seq(Accounts \cup Keys \cup {Foreign})
         /\ Len(Append(chain, a)) <= MaxBlocks
<1>1. chain \in Seq(Accounts \cup Keys \cup {Foreign}) /\ MaxBlocks \in Nat
  BY NodeAssumption DEF NodeInv, NodeTypeOK
<1>2. /\ Append(chain, a) \in Seq(Accounts \cup Keys \cup {Foreign})
      /\ Len(chain) \in Nat /\ Len(Append(chain, a)) = Len(chain) + 1
  BY <1>1, SequencesOfBlocks
<1>. QED BY <1>1, <1>2

LEMMA MineBlockStep ==
  ASSUME NodeInv, MineBlock PROVE NodeInv'
<1>1. author \in Accounts \cup Keys
  BY DEF MineBlock, NodeInv, NodeTypeOK
<1>. QED BY <1>1, Appended, ChainStep DEF MineBlock, NodeInv, NodeTypeOK

LEMMA ReceiveForeignStep ==
  ASSUME NodeInv, ReceiveForeign PROVE NodeInv'
BY Appended, ChainStep DEF ReceiveForeign, history, NodeInv, NodeTypeOK

LEMMA ChangeChainStep ==
  ASSUME NodeInv, NEW c \in Seq(Accounts \cup Keys \cup {Foreign}), Len(c) <= MaxBlocks,
         ChangeChain(c)
  PROVE  NodeInv'
BY ChainStep DEF ChangeChain, history, NodeInv, NodeTypeOK

LEMMA CommandStep ==
  ASSUME NodeInv, PurgeChain \/ Revert \/ ImportBlocks PROVE NodeInv'
<1>1. /\ chain \in Seq(Accounts \cup Keys \cup {Foreign})
      /\ Len(chain) <= MaxBlocks /\ MaxBlocks \in Nat
  BY NodeAssumption DEF NodeInv, NodeTypeOK
<1>2. CASE PurgeChain
  <2>1. << >> \in Seq(Accounts \cup Keys \cup {Foreign}) /\ Len(<< >>) <= MaxBlocks
    BY <1>1, SequencesOfBlocks
  <2>. QED BY <1>2, <2>1, ChangeChainStep DEF PurgeChain
<1>3. CASE Revert
  <2>1. PICK n \in 0 .. Len(chain) : ChangeChain(SubSeq(chain, 1, n))
    BY <1>3 DEF Revert
  <2>2. /\ SubSeq(chain, 1, n) \in Seq(Accounts \cup Keys \cup {Foreign})
        /\ Len(SubSeq(chain, 1, n)) <= MaxBlocks
    <3>1. /\ SubSeq(chain, 1, n) \in Seq(Accounts \cup Keys \cup {Foreign})
          /\ Len(SubSeq(chain, 1, n)) = n /\ Len(chain) \in Nat
      BY <1>1, SequencesOfBlocks
    <3>. QED BY <1>1, <3>1
  <2>. QED BY <2>1, <2>2, ChangeChainStep
<1>4. CASE ImportBlocks
  <2>1. Len(chain) < MaxBlocks /\ ChangeChain(Append(chain, Foreign))
    BY <1>4 DEF ImportBlocks
  <2>2. /\ Append(chain, Foreign) \in Seq(Accounts \cup Keys \cup {Foreign})
        /\ Len(Append(chain, Foreign)) <= MaxBlocks
    BY <2>1, Appended
  <2>. QED BY <2>1, <2>2, ChangeChainStep
<1>. QED BY <1>2, <1>3, <1>4

LEMMA InsertKeyStep ==
  ASSUME NodeInv, NEW k \in Keys, InsertKey(k) PROVE NodeInv'
<1>1. /\ disk' = disk \cup {k}
      /\ UNCHANGED <<stage, config, author, mining, memory, chain, generated, rewarded>>
  BY DEF InsertKey, history
<1>2. NodeTypeOK'
  BY <1>1 DEF NodeInv, NodeTypeOK
<1>3. StagesInOrder' /\ AuthorAsConfigured'
  BY <1>1 DEF NodeInv, StagesInOrder, AuthorAsConfigured
<1>4. LocalKeysOnDisk' /\ AuthorsKeyStored'
  BY <1>1 DEF NodeInv, LocalKeysOnDisk, StoredIn, AuthorsKeyStored
<1>. QED BY <1>2, <1>3, <1>4 DEF NodeInv

LEMMA NodePreservation == NodeInv /\ [NodeNext]_nodeVars => NodeInv'
<1>. SUFFICES ASSUME NodeInv, [NodeNext]_nodeVars PROVE NodeInv'
  OBVIOUS
<1>1. CASE \E c \in Config : Run(c)
  BY <1>1, RunStep
<1>2. CASE new_partial
  BY <1>2, NewPartialStep
<1>3. CASE SpawnServices
  BY <1>3, SpawnServicesStep
<1>4. CASE decode_author
  BY <1>4, DecodeAuthorStep
<1>5. CASE StartMining
  BY <1>5, StartMiningStep
<1>6. CASE StartNetwork
  BY <1>6, StartNetworkStep
<1>7. CASE Stop
  BY <1>7, GoneStep DEF Stop
<1>8. CASE MineBlock
  BY <1>8, MineBlockStep
<1>9. CASE ReceiveForeign
  BY <1>9, ReceiveForeignStep
<1>10. CASE PurgeChain \/ Revert \/ ImportBlocks
  BY <1>10, CommandStep
<1>11. CASE \E k \in Keys \cap DOMAIN generated : InsertKey(k)
  BY <1>11, InsertKeyStep
<1>12. CASE UNCHANGED nodeVars
  BY <1>12, ChainStep DEF nodeVars, NodeInv, NodeTypeOK
<1>. QED BY <1>1, <1>2, <1>3, <1>4, <1>5, <1>6, <1>7, <1>8, <1>9, <1>10, <1>11, <1>12
         DEF NodeNext, StartUp

LEMMA NodeInvariance == NodeSpec => []NodeInv
BY NodeInitEstablishes, NodePreservation, PTL DEF NodeSpec

\* A process that is down holds nothing, and the thread never runs without
\* an author, wherever the start-up is cut off (service.rs, lines 297 to 361).
THEOREM NodeTypeCorrect == NodeSpec => []NodeTypeOK
<1>1. NodeInv => NodeTypeOK
  BY DEF NodeInv
<1>. QED BY <1>1, NodeInvariance, PTL

\* A generated key that blocks are mined for is in the keystore, and on disk
\* for good if that is where it was stored, after any sequence of stops,
\* restarts and commands (service.rs, lines 200 to 226).
THEOREM KeysAreKept == NodeSpec => []GeneratedKeysKept
<1>1. NodeInv => GeneratedKeysKept
  BY DEF NodeInv, GeneratedKeysKept, LocalKeysOnDisk, AuthorsKeyStored
<1>. QED BY <1>1, NodeInvariance, PTL

\* A node that mines is an authority, and mines for the author of this run's
\* configuration or, if that names none, for a key it generated (service.rs,
\* lines 180 to 227 and 297 to 309).
THEOREM OperatorIsMinedFor == NodeSpec => []MinesForItsOperator
<1>1. NodeInv => MinesForItsOperator
  BY DEF NodeInv, NodeTypeOK, AuthorAsConfigured, MinesForItsOperator
<1>. QED BY <1>1, NodeInvariance, PTL
=============================================================================
