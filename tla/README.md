# Crain: specifications, model checking and proofs

Crain is a proof-of-work Substrate node with ink! contracts. This directory
holds TLA+ specifications of the parts of it that have logic of their own, TLC
configurations that check them on small instances, and proofs, for all values
of the constants, that TLAPS checks.

    tlc -workers 2 -config MCMining.cfg MCMining     # model-check one run
    tlapm DifficultyProofs.tla                       # check the proofs of a module

## 1. The system

| Component | Source | State it keeps | Operations |
|---|---|---|---|
| Difficulty pallet | `pallets/difficulty/src/lib.rs`, `primitives/src/lib.rs` | window of the last 60 blocks' (difficulty, timestamp), current difficulty, initial difficulty | genesis build; `on_timestamp_set`, once per block |
| Proof-of-work algorithm | `pow/src/lib.rs` | none | `difficulty` (asks the runtime), `verify`, `break_tie`, `Compute::compute`, `hash_meets_difficulty` |
| Mining thread, authoring task, `MiningHandle` | `node/src/service.rs` 297-361 and `sc_consensus_pow` | thread: nonce; handle: the build; task: proposal under way | loop: metadata, compute, submit; timer: sync check, propose, store build |
| Block import, fork choice | `node/src/service.rs` 143-178 and `sc_consensus_pow` | block tree with total difficulties, best block | import of an own or a foreign block; exchange of blocks with other nodes |
| Moneybag contract | `contracts/moneybag/src/lib.rs` | counter, members, bids, maximum; tokens of the contract | `new`, `add_bid` (with `give_prize`, `find_winner`, `get_total_sum`, `gen_range`), three getters |
| ERC-20 contract | `contracts/erc20/src/lib.rs` | supply, balances, allowances | `new`, `transfer`, `approve`, `transfer_from`, three getters |
| Flipper contract | `contracts/flipper/src/lib.rs` | one Boolean | `flip`, `get` |
| Runtime | `runtime/src/lib.rs` | the pallets': block number and hashes, weight of the block, nonces, balances, issuance | initialise, apply a transaction, finalise; serves the API |
| Chain specifications | `node/src/chain_spec.rs` | genesis data | two constructors |
| Node start-up | `node/src/service.rs` | a process with its author; keystore and database on disk | `decode_author`, `new_partial`, `new_full` |
| Overhead benchmark | `node/src/command_helper.rs` | none | builds signed transactions and inherent data |
| Command line | `node/src/{cli,command,main}.rs` | none of its own | run, purge-chain, revert, import-blocks, key; export, check, benchmark |
| RPC | `node/src/rpc.rs` | none | registration of handlers |
| Build scripts | `node/build.rs`, `runtime/build.rs` | none | code generation |

How they interact. Executing a block on top of its parent calls the timestamp
pallet, which calls the difficulty pallet's `on_timestamp_set`; the state after
the block then answers `DifficultyApi::difficulty` for every child of that
block. The authoring task asks it when it starts a proposal and stores the
answer with the build; the import queue asks it when it verifies a foreign
block. The mining thread shares the build with the authoring task through the
`MiningHandle` and imports through a clone of the import object that the import
queue uses. The import adds the difficulty to the parent's total, and compares
totals, then `break_tie`, to choose the best block, which is what the next
proposal starts from. Nodes tell each other nothing but blocks: each computes
difficulties and totals for itself. Inside a block the runtime's signed
extensions decide, in the order of `SignedExtra`, which transactions it may
contain, and charge them.

What is hard about it:

- *Numbers.* The adjustment damps, clamps and divides `U256`s that panic on
  overflow, inside the runtime, where a panic makes every block invalid.
- *Concurrency.* Thread, task and import queue interleave: metadata is read
  and used later, `submit` locks twice, the best block changes while a proposal
  is being made or an import is under way.
- *Order.* Blocks of equal weight come in different orders at different nodes,
  and the pallet's storage belongs to a branch, not to a node.
- *Limits.* Transactions of three classes share the weight of a block; accounts
  vanish below a deposit, taking their nonces along; mortal transactions need a
  block hash that the state will forget.
- *Partial failure.* A contract's message is undone as a whole when any step
  of it fails; a failed submission has already consumed the build.
- *Start-up.* The author is decided last, after the services are up; a key may be
  generated, must be stored before it is mined for, and outlives the process that made it.
- *Progress.* The nonce counter saturates, is set back, and is not reset with
  a new build; builds get lost and must be provided again.

`PROJECT.json` lists each hazard with its line and the properties for it.

## 2. The modules

| Module | Models | Notes |
|---|---|---|
| `Sums` | - | sum of the first n values of a function, as a recursive function |
| `Difficulty` | difficulty pallet and the timestamp pallet's rule that drives it | one step = the execution of one block |
| `CrainParameters` | the constants of `primitives` and `runtime` | used where the real values matter |
| `Retarget` | what the pallet promises, on whole chains | abstract specification |
| `DifficultyChain` | `Difficulty` with the chain as a history variable | refinement mapping to `Retarget` |
| `Pow` | `hash_meets_difficulty`, `compute`, `verify` | operators only; used by `Mining` |
| `Mining` | mining thread, authoring task, `MiningHandle`, imports | three actors, fairness |
| `ForkChoice` | import object, total difficulty, tie break | one lane for each importer, restarts; difficulty 0 |
| `Network` | several nodes that mine and exchange blocks | composes a `ForkChoice` for each node with the `Retarget` of each branch |
| `Moneybag` | moneybag contract and the tokens it holds | one step = one call |
| `Lottery` | what the moneybag contract promises | abstract specification |
| `Erc20` | ERC-20 contract | one step = one successful call |
| `Era` | mortality of transactions | operators only; used by `Runtime` |
| `Runtime` | blocks and signed transactions; the benchmark's transactions | one step = one call of the block builder |
| `Node` | the node's process from start to stop, keystore and database, the commands | one step = one stage of start-up |
| `SumsProofs`, `DifficultyProofs`, `ServiceProofs`, `ForkChoiceProofs`, `NetworkProofs`, `RuntimeProofs`, `MoneybagProofs`, `Erc20Proofs` | | theorems and proofs; `ServiceProofs` is about `Mining` and `Node`, the two models of `service.rs` |
| `MC*` | | constants for TLC, one `.cfg` per run |

### Difficulty, Retarget, DifficultyChain

`past`, `difficulty` and `initial` are the three storage items; `now` is the
timestamp pallet's. `SetTimestamp(t)` is the timestamp inherent: its check
against `MinimumPeriod`, the store, and `on_timestamp_set` as a whole, with the
shift of the window (`Push`), the two sums (`TsDelta`, `DiffSum`), `damp`,
`clamp` and the final limits (`NextDifficulty`). Where an addition or product
of `U256`s would overflow (`Overflows`) the code panics and the block cannot be
executed: the action is disabled. A behaviour is one branch of the block tree.

`Retarget` says what the difficulty is as a function of the whole chain:
the blocks before the first count as genesis blocks on target, and the next
difficulty depends on the last `DIFFICULTY_ADJUST_WINDOW` blocks. It has no window.
`DifficultyChain` adds the chain as a history variable and maps it;
`WindowIsEndOfChain` is the relation the refinement rests on.

### Pow, Mining

The hash function is any function of difficulty, header and nonce. A seal is
the record of difficulty, work and nonce that `compute` makes; `verify` decodes
it, checks the work and recomputes it, in the order of the code.

Each atomic step of `Mining` is what the code does under one lock or between two awaits:

| Action | Code |
|---|---|
| `TryNonce` | one round of the loop, `service.rs` 338-360: `metadata()`, `compute`, nonce update, start of `submit` |
| `SubmitVerify`, `SubmitTake`, `SubmitImport` | `MiningHandle::submit`: check under a lock, take the build under another, import; the result is dropped |
| `DropBuild`, `StartProposal`, `FinishProposal` | the authoring task, as `start_mining_worker` runs it |
| `ReceiveBlock` | a block through the import queue |
| `SyncStarts`, `SyncEnds` | what the sync oracle answers |
| `ProposalFails` | the proposer returns an error, and the task goes round |
| `Restart` | the process ends and comes back with what is in its database |

The mining thread copies the metadata and tries a nonce in one step: nothing
the thread reads can change in between, as it works on the copy, and the seal
it finds is submitted in later steps, when the build may be another one.
Whether an imported block becomes the best is left open here; it is `ForkChoice`'s subject.

### ForkChoice

A lane is somebody who imports: the queue, and on a mining node the worker.
`Begin` reads the best block, `Commit` stores the block with its total
difficulty and with the decision made against the best block that was read,
`Reject` is a block that turns out bad, `Restart` loses what is under way and
keeps the database. `raced` and `stale` are history: did two imports ever
overlap, and was a commit ever decided against a best block that had been
replaced? Blocks are numbered by the Blake2 hash of their seals, which is what
`break_tie` compares. A difficulty may be 0, which a genesis configuration can
ask for: such a first block ties with genesis, whose missing seal makes the
comparison, and so the import, fail (`CanCompare`).

### Network

`F(n)` is the `ForkChoice` of node n and `R(b)` the `Retarget` of the chain
that ends with block b, so that every branch has the difficulty its own times
ask for. `Mine` is a seal found by a node that mines, on any block the node has
imported, as the build may be outdated; `Receive` is a block the network brings
to the import queue; `Commit`, `Reject` and `Restart` are those of `ForkChoice`.
Which blocks may be mined, with parent and time, is the constant `Header`. Blocks come late or
never, in any order that brings parents first, and again after a restart.

### Moneybag, Erc20

A step is a message executed as a whole. A message that returns an error or
traps leaves the storage and the tokens as they were (the contracts pallet
reverts it; the arithmetic traps on overflow as `cargo-contract` builds it). In
`Moneybag` such a call records its outcome; in `Erc20` it is a stuttering step.
Tokens sent along with a bid are moved before the message runs and are
unrelated to the `amount` argument, as in the code. A transfer by the contract must leave it the
existential deposit. The random word is arbitrary. Events are kept as a client
sees them: `log` holds Moneybag's in their order, without those of calls that were taken back;
in `Erc20`, `ledger` is what the `Transfer` events add up to and `granted` is
what the last `Approval` event of one arbitrary pair says.

`Lottery` has only the entries and the result. It knows no counter, maximum,
map of bids or drawn position, and entering cannot fail half-way. The mapping
reads the entries off `members` and `bids`.

### Runtime, Era

`initialize_block` and `finalize_block` are those of frame's executive, with
the hashes that are kept and forgotten. `apply_extrinsic` is a transaction that
passes the checks of `SignedExtra` (`CheckEra`, `CheckNonce`, `CheckWeight`,
`ChargeTransactionPayment`) and is dispatched: the fee is burnt, the nonce used,
the weight counted, whether the call succeeds or not; a transfer moves tokens,
and an account left below the existential deposit is gone with its nonce. A
transaction that does not pass is in no block. `create_benchmark_extrinsic`
builds the benchmark's transaction on the best block, and `remark` executes it in a
later one; `Era` is the arithmetic of its mortality. `executed` is history.
One chain is modelled, so that a block's number stands for its hash.

### Node

`Run(c)` starts the process with a configuration; `new_partial`,
`SpawnServices`, `decode_author`, `StartMining` and `StartNetwork` are the
stages of `new_full` in the order of the code, each of which ends with a
service error or a change of state. `Stop` stands for a kill, the end of an
essential task, and the errors of services that are not modelled, and may come
between any two stages. A stopped process loses its author and the in-memory
keystore; `disk` (the local keystore) and `chain` (the authors of the blocks in
the database) remain. `PurgeChain`, `Revert` and `ImportBlocks` change the
database and `InsertKey` the keystore of a node that is down. `generated` and
`rewarded` are history: which keys were made up, and for whom blocks were mined.
Its names say `Node` (`NodeInit`, `NodeNext`, `NodeSpec`) because it is extended together with `Mining`.

## 3. What the runs show

| Run | Question | Bounds |
|---|---|---|
| `difficulty` | Is the adjustment sound whatever times authors choose? Within limits, right direction, bounded step, not stuck at the minimum, antitone in time, no overflow after the first block; and does the window implement the rule on chains? | window 3, target 4, limits 3..40, `U256_MAX` 580 |
| `on_target` (violation) | Do blocks exactly on target keep the difficulty? | the real parameters |
| `mining` | Is only valid work imported, each proposal once, and does mining go on? | 3 headers, 4 nonces, 2 difficulties |
| `forks` | What can the race of two importers, and a difficulty of 0, do to the best block? | 4 blocks, difficulties 0 to 2, 2 lanes |
| `network` | Do nodes weigh blocks alike, agree when they have the same ones, and converge? | 2 nodes that mine, 6 blocks, genesis difficulties 0 and 4 |
| `moneybag` | Do the storage items and the events agree, is a game complete exactly when it is paid, and is the contract a lottery? | 3 of 4 accounts, small amounts |
| `moneybag_low_bid`, `moneybag_funds`, `moneybag_winner` (violations) | Three statements of the contract's comments and tests | as above |
| `erc20` | Do calls conserve the supply, respect approvals and emit events that add up to the balances? | 3 accounts, supply 2 |
| `node` | Does a node keep the keys it mines for, mine for whom it is told, and mine at all, whatever stops it? | 2 keys, 2 accounts, 2 blocks |
| `runtime` | Is money accounted for, each nonce used once, a block within its limits, and does the benchmark's transaction live as long as meant? | 2 accounts, 24 tokens, weight 12, 8 blocks, 5 hashes kept |

Why the bounds suffice.

- *Difficulty.* A window of 3 has a first, an inner and a last slot and two
  intervals; more blocks than slots are executed, so that entries are forgotten.
  The times reach from no distance at all to far beyond the target, so that
  both limits are hit. Genesis difficulties from 0 to the overflow bound are
  included. `U256_MAX` is just enough for the pallet's largest product, so the
  overflow of the first block happens. Only blocks at time 0 can share their
  time, since the timestamp pallet takes a stored 0 for none: the state
  constraint `ZeroBound` stops such a chain once its window is full, and cuts
  off nothing else. The proofs cover all other parameters.
- *Mining.* With three headers a build can be taken, replaced while its seal is
  on the way, and mined on a block from the network. The hash function has
  headers that the first nonce solves, that a later one does, and one that at
  the higher difficulty only the last nonce, which the miner never tries, would solve.
- *ForkChoice.* Four blocks make two branches of two; difficulties 1 and 2 let
  a short branch be as heavy as a long one, so that the tie break decides; 0
  lets a block weigh nothing, next to genesis or on top of another.
- *Network.* Two branches fork above a common first block. Their second blocks
  weigh the same, so that the seals decide; then the quick branch gets harder
  and outweighs with three blocks the four of the slow one. Either node may mine any of
  them, and each has two lanes. With genesis difficulty 0 no block can be imported.
- *Moneybag.* Three members of four accounts, so that there is a call after the
  end and a caller who is not a member; amounts on both sides of the half and
  large enough for the sum to overflow; values below, at and above the
  amount; words that hit every position, the one past the end included.
- *Erc20.* Three accounts: owner, spender and a third; every transfer to oneself is included.
  The supply equals the largest balance, so that any token made from nothing overflows.
- *Node.* Two keys, so that a node generates another after the first is lost
  or left behind; two accounts, so that the author of an earlier run is told
  from that of this one; two blocks, so that there is one to revert and one to keep. Every
  combination of role, author option and keystore is a configuration, and the
  number of restarts is not bounded.
- *Runtime.* One of the two accounts is new, so that a transfer creates it, or
  leaves it below the deposit and ends it. The heavy call fills the share of
  normal transactions at once, so that the reserve is used. Hashes are kept for five
  blocks and the benchmark's period is four, so that it ends, and hashes are
  forgotten, within eight blocks; `Era` keeps the code's bounds of a period, 4 and 2^16.
  `LastBlock` bounds the chain.

`CHECK_DEADLOCK FALSE` is set where the instance ends: the finite set of times
is exhausted, all headers have been proposed, or the tokens are spent.

### Findings

- `on_target`: the code sums the 59 intervals between 60 blocks and weighs
  them against 60 block times. Blocks exactly 60 s apart count as too fast: from difficulty 200
  the next one is 201. The interval at which the difficulty stays the same is 60·60/59, about 61 s.
- `moneybag_low_bid`: "Each next bid should be not less than the current
  highest bid" - half of it is enough.
- `moneybag_funds`: tokens sent above the `amount` argument stay in the contract for good.
- `moneybag_winner`: `gen_range` includes both ends and is called with the
  number of members, so that the position can be one past the last; the test
  asserts the contrary. The last bid then traps and is undone.

### Fairness

`Mining`, `Network` and `Node` have liveness properties.

In `Mining`, `WF(Miner)`: the operating system schedules the thread, whose loop
ends only with the process, and the import `submit` waits for finishes.
`WF(Author)`: the task wakes up on every import and at the latest after its
ten-second timeout (`service.rs` 323), and a proposal takes no more than its
build time. Nothing is assumed of the network or of syncing: `MiningResumes`
has as its premise that syncing ends and that from some time on no proposal
fails and the process does not stop; `SolutionFound` has no premise. With
finitely many headers mining ends when all have been used (`AllProposed`).

In `Network`, `WF(Gossip(n))`: a node that lacks a block of a peer is brought
one, which is what syncing is for; `WF(Commit(n, l))`: an import comes to its
end. Mining is not fair, and ends since `Blocks` is finite. `NodesConverge` has
as its premise that from some time on no import fails and no node restarts.

In `Node`, `WF(StartUp)`: `new_full` is straight-line code that runs to its end
unless the process stops. Nothing is assumed of `Run`, `Stop` or the commands.
`AuthorityMines` excepts the case in which all keys of the instance have been
generated, where the code would generate another.

## 4. What is proved

Each theorem is `Spec => []Inv` or `Spec => [][A]_vars` for all values of the constants that satisfy
the named assumptions of the modules. With them every invariant that a run
checks, and the three refinements, are proved. The inductive invariants were
model-checked before they were proved.

- **`SumsProofs`**: a sum is natural, monotone, bounded by its largest value,
  shifts, and changes by the difference when one value is updated; the sum of two
  functions is that of their sums, and equal functions have equal sums. These rest on
  induction over the length with each instance written out, since the sums are recursive functions.
- **`DifficultyProofs`**: `TypeOK`, `WindowChronological` (which no run checks by itself), `MovesTowardTarget`,
  `StepBounded`, `NotStuckAtMinimum`, `LaterIsNoHarder` and
  `OnlyFirstRetargetCanOverflow`. The inductive invariant adds to the types and
  the chronology that every slot is within the limits once the slot of the first block is
  left aside, and that the difficulty is `NextDifficulty` of the stored window: without it nothing
  relates the difficulty to the window after a step. The arithmetic lemmas on `damp`, `clamp` and
  integer division carry the rest. From `PrimitivesAssumption` (positive
  parameters; the largest product fits in a `U256`), `FactorsAssumption` (the
  damping factor divides the window's target; both factors at least 2),
  `ConfigAssumption`, `NoneAssumption`. `OnlyFirstRetargetCanOverflow` covers
  the first block too when the genesis difficulty is at most `MAX_DIFFICULTY`.
  Its other parts show that the assumptions hold for the protocol's real values
  (`RealParametersQualify`), which are too large for TLC; that both chain
  specifications start within the limits (`RealGenesisWithinLimits`), so that
  no block of theirs is refused for an overflow; and that every initial state
  and step of the pallet is one of `Retarget` (`WindowShowsChain`, `Refinement`).
- **`ServiceProofs`**, about `Mining`: `TypeOK`, `SealsMatchParents`, `ProposalImportedOnce`,
  `BuildFitsItsParent`. The inductive invariant adds what the actors hand on to
  each other: a proposal under way belongs to an imported block
  (`ProposalFitsItsParent`), imported headers are proposed ones
  (`ImportedHeaders`), the header of a build is of no imported block and of no
  other build (`BuildsAreNew`), and a build is taken exactly while it is
  imported (`TakenToImport`). Without `BuildsAreNew` a build could be imported
  twice: once from the handle, once by a submission that took it before. From
  `MiningAssumption`; the hash function is arbitrary.
- **`ServiceProofs`**, about `Node`: `NodeTypeOK`, `GeneratedKeysKept`,
  `MinesForItsOperator`. The properties are not inductive: that the thread runs
  for the right author is settled by earlier stages. The invariant adds what each
  stage may rely on (`StagesInOrder`: nobody is mined for before `decode_author`,
  which only an authority reaches, with a keystore that exists), that the author is the configured one from then on
  (`AuthorAsConfigured`), that all keys ever stored on disk are there
  (`LocalKeysOnDisk`), and the author's key somewhere (`AuthorsKeyStored`). From
  `NodeAssumption`: accounts, keys and the special values differ.
- **`ForkChoiceProofs`**: `TypeOK`, `HeaviestUnlessRaced`,
  `HeaviestUnlessStale`, `GenesisIsOutweighed`, `HeaviestNewcomerWins`, and
  that a node with one lane is always on the heaviest block. The inductive
  invariant adds to the types and the two properties of states that the block
  an import was compared with has a weight or is genesis (`SeenHasWeight`), and that an
  import that is alone was compared with the best block (`AloneIsFresh`). From
  `ForkChoiceAssumption`: two blocks' seals do not have the same hash;
  difficulties may be 0.
- **`NetworkProofs`**: `TotalsAreWorkOfChains`, `SameBlocksSameBest`, and
  `EachNodeChoosesForks`: every step of the network is, for every node, a step of
  its `ForkChoice` or none. The inductive invariant says that every
  chain is its parent's with one block more, whose difficulty is the rule's and
  whose time is not before (`ChainsGrowByTheRule`); that an import under way
  has the difficulty of its parent's chain (`ImportsFit`); and that a node that was never stale is on a block
  that outweighs all others (`FreshNodesOnHeaviest`). Totals do not depend on the order of imports, because each
  adds the difficulty of the parent's chain to the parent's total. The
  rule never divides by zero, whatever the times: they do not go back along a
  chain, and a damping factor of at least 2 keeps the damped time positive. From
  `NetworkAssumption`, which asks no more of the parameters than that, and of
  the blocks that numbers follow parents.
- **`RuntimeProofs`**: `TypeOK`, `IssuanceIsHeld`, `EachNonceOnce`,
  `BlockWithinLimits`, `BenchmarkLivesItsPeriod`. The inductive invariant adds
  which hashes the state has kept at each block (`HashesKept`), that the
  benchmark's transaction was signed on a block of the chain with the era of its period
  (`PreparedForTheChain`), and that what is not operational stays within the block's
  weight by itself (`WeightsWithinLimits`), whatever operational transactions came first. That an era's
  birth is the signed block for the length of its period rests on the period being a
  power of two. From `RuntimeAssumption`; `WeightsAssumption` (initialising a
  block leaves it within the limit, and the tenth assumed for that in
  `runtime/src/lib.rs` is no more than the share of normal transactions, three quarters);
  `BlockHashAssumption` (2 to 8192 hashes are kept, 2400 in the code: with 1 the shortest period
  of an era, 4, would outlive the hashes, and above 8192 phases are rounded).
- **`MoneybagProofs`**: `TypeOK`, `GameConsistent`, `CompleteIffPaid`,
  `LogTellsGame`, and `Refinement`: the contract implements `Lottery`. The first three are
  inductive only together: that the unwrap and the maximum are right needs
  that the storage agrees, that no prize is paid twice needs the counter. A call fails, or records a bid
  and places it, or records it and pays (`CallStep`); the refinement maps these
  to a stutter, `Enter`, and the `Enter` that ends the game. From
  `GameAssumption` and `NativeAssumption`.
- **`Erc20Proofs`**: `TypeOK`, `SupplyConserved`, `TransfersNeverTrap`,
  `WithdrawnWithinGrant`, `EventsTellBalances`. The types alone are not inductive: that a balance stays within
  `BALANCE_MAX` follows from the conserved sum. From `TokenAssumption`.

Only model-checked: the four liveness properties, `MiningResumes`,
`SolutionFound`, `NodesConverge` and `AuthorityMines`. Liveness under fairness, `ENABLED` and theorems by induction over data with an
operator as a parameter are out of TLAPS's reach here; recursion is written
with recursive functions, as `RECURSIVE` operators could not be used in proofs.
The violated properties of the findings are, of course, not proved.

## 5. What is assumed and not modelled

- Substrate is external: `sc_consensus_pow` (import, worker, handle), the
  timestamp, balances and contracts pallets are modelled from how the code here
  uses them. The map marks those definitions as external.
- Hash functions are arbitrary functions. Two different seals do not collide under Blake2.
- `Mining` leaves out blocks that were mined off the
  handle's build, other than those the network brings.
- Milliseconds, difficulties and balances are small numbers; TLC's integers have 32 bits, so that `MAX_DIFFICULTY` and
  `U256_MAX` are scaled in `on_target`, far above what the run reaches.
- Flipper is one Boolean and its negation. Chain specifications are static
  data: the endowed accounts of `Runtime` and the initial difficulties of
  `Difficulty` and `Network` come from them. RPC, build scripts and the
  commands that only read keep no state.
- `Runtime` leaves out the configuration of the contracts, nicks and sudo
  pallets (the genesis has no sudo key), contract fees and refunds of unused
  weight, tips, and the calls of its API that only query. The benchmark's
  inherent data is left out: its time is always 0.
- `Node` leaves out keys an operator brings along from elsewhere, and failures
  of the disk. How a text is decoded to an account is left out: it works or it does not.
- `Network` leaves out the contents of messages: a block is at the node or it is
  not. The transaction pool and a finality gadget (there is none) are not modelled.

## 6. Plan

Done, in this order: difficulty pallet with its abstract rule, proof of work
and mining, fork choice, the two contracts, the node's process, the network,
the lottery, the runtime, and the proofs listed above.

Next:

1. An abstract token that `Erc20` implements, and the refinement as a theorem.
2. That the difficulties of `Mining` are those `Network` derives from the chains,
   so that the two can be composed.
3. Safety lemmas towards liveness: that a step of the miner is possible whenever
   `WF(Miner)` relies on it.
