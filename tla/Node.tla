-------------------------------- MODULE Node --------------------------------
(***************************************************************************)
(* The life of a node's process: new_partial, decode_author and new_full   *)
(* of node/src/service.rs and the commands of node/src/command.rs.         *)
(*                                                                         *)
(* A process is started with a configuration, builds its services one      *)
(* after the other and stops when one of them fails, when an essential     *)
(* task ends, or when it is killed, at any point.  What outlives it is the *)
(* database, of which the authors of its blocks are modelled, and the keys *)
(* in a local keystore.  Other commands work on the same files while the   *)
(* node is down.  Keys that operators bring along are left out.            *)
(*                                                                         *)
(* The names of the specification say Node, so that it can be extended     *)
(* together with Mining, which models the same file.                       *)
(***************************************************************************)
EXTENDS Integers, Sequences

CONSTANTS
  Accounts,   \* accounts an operator may name as the author of blocks
  Keys,       \* keys the node may generate
  Foreign,    \* whoever mines the blocks of other nodes
  Invalid,    \* an author option that is no account
  None,       \* no author
  MaxBlocks   \* bound on the length of the chain

ASSUME NodeAssumption ==
  /\ Accounts \cap Keys = {}
  /\ (Accounts \cup Keys) \cap {Foreign, Invalid, None} = {}
  /\ None \notin {Foreign, Invalid}
  /\ MaxBlocks \in Nat

Config == [role     : {"authority", "full"},
           author   : Accounts \cup {Invalid, None},
           keystore : {"local", "in memory", "remote"}]

VARIABLES
  stage,      \* how far new_full has got, or "down"
  config,     \* what the process was started with
  author,     \* whom the process mines for
  mining,     \* is its mining thread running?
  memory,     \* keys in its in-memory keystore
  disk,       \* keys in the local keystore
  chain,      \* the authors of the blocks in the database
  generated,  \* history: the keys generated so far, and where they were stored
  rewarded    \* history: the authors this node has mined blocks for

nodeVars == <<stage, config, author, mining, memory, disk, chain, generated, rewarded>>

files   == <<disk, chain>>
history == <<generated, rewarded>>

StoredIn(place) == {k \in DOMAIN generated : generated[k] = place}

NodeInit ==
  /\ stage = "down"
  /\ config \in Config
  /\ author = None /\ mining = FALSE
  /\ memory = {} /\ disk = {}
  /\ chain = <<>>
  /\ generated = [k \in {} |-> "local"] /\ rewarded = {}
-----------------------------------------------------------------------------
(***************************************************************************)
(* The node: run without a subcommand.                                     *)
(***************************************************************************)
\* The process is gone, and with it what it had in memory.
Gone ==
  /\ stage' = "down" /\ author' = None /\ mining' = FALSE /\ memory' = {}
  /\ UNCHANGED <<config, files, history>>

\* It is killed, an essential task ends, or a service cannot be built.
Stop == stage # "down" /\ Gone

Run(c) ==
  /\ stage = "down"
  /\ stage' = "new_partial" /\ config' = c
  /\ UNCHANGED <<author, mining, memory, files, history>>

new_partial ==
  /\ stage = "new_partial"
  /\ IF config.keystore = "remote"
     THEN Gone
     ELSE stage' = "services" /\ UNCHANGED <<config, author, mining, memory, files, history>>

\* Mutant: the author is not decoded.
SpawnServicesSkipAuthor ==
  /\ stage = "services"
  /\ stage' = IF config.role = "authority" THEN "start_mining" ELSE "start_network"
  /\ UNCHANGED <<config, author, mining, memory, files, history>>

\* Mutant: the role is tested the wrong way round.
SpawnServicesInverted ==
  /\ stage = "services"
  /\ stage' = IF config.role = "authority" THEN "start_network" ELSE "decode_author"
  /\ UNCHANGED <<config, author, mining, memory, files, history>>

\* Network, off-chain workers and RPC; only an authority mines.
SpawnServices ==
  /\ stage = "services"
  /\ stage' = IF config.role = "authority" THEN "decode_author" ELSE "start_network"
  /\ UNCHANGED <<config, author, mining, memory, files, history>>

\* Mutant: an error of the keystore is ignored.
StoreKeyOrNot(k) ==
  \/ IF config.keystore = "local"
     THEN disk' = disk \cup {k} /\ UNCHANGED memory
     ELSE memory' = memory \cup {k} /\ UNCHANGED disk
  \/ UNCHANGED <<disk, memory>>

\* insert_unknown, when it succeeds.
StoreKey(k) ==
  IF config.keystore = "local"
  THEN disk' = disk \cup {k} /\ UNCHANGED memory
  ELSE memory' = memory \cup {k} /\ UNCHANGED disk

GenerateKey(k) ==
  /\ StoreKey(k)
  /\ generated' = [i \in DOMAIN generated \cup {k} |->
                     IF i = k THEN config.keystore ELSE generated[i]]
  /\ author' = k
  /\ stage' = "start_mining"
  /\ UNCHANGED <<config, mining, chain, rewarded>>

UseAuthor ==
  /\ author' = config.author
  /\ stage' = "start_mining"
  /\ UNCHANGED <<config, mining, memory, files, history>>

\* Mutant: an author that cannot be decoded is as good as none.
decode_author_or_generate ==
  /\ stage = "decode_author"
  /\ IF config.author \in {None, Invalid}
     THEN \E k \in Keys \ DOMAIN generated : GenerateKey(k)
     ELSE UseAuthor

\* The author is named and decoded, or generated and stored; an error of the
\* keystore ends the process (see Stop).
decode_author ==
  /\ stage = "decode_author"
  /\ CASE config.author = Invalid -> Gone
       [] config.author = None    -> \E k \in Keys \ DOMAIN generated : GenerateKey(k)
       [] OTHER                   -> UseAuthor

\* The authoring task and the mining thread.
StartMining ==
  /\ stage = "start_mining"
  /\ mining' = TRUE
  /\ stage' = "start_network"
  /\ UNCHANGED <<config, author, memory, files, history>>

StartNetwork ==
  /\ stage = "start_network"
  /\ stage' = "up"
  /\ UNCHANGED <<config, author, mining, memory, files, history>>

\* The thread may find a block before the network is started.  The block
\* carries its author.
MineBlock ==
  /\ mining
  /\ Len(chain) < MaxBlocks
  /\ chain' = Append(chain, author)
  /\ rewarded' = rewarded \cup {author}
  /\ UNCHANGED <<stage, config, author, mining, memory, disk, generated>>

ReceiveForeign ==
  /\ stage = "up"
  /\ Len(chain) < MaxBlocks
  /\ chain' = Append(chain, Foreign)
  /\ UNCHANGED <<stage, config, author, mining, memory, disk, history>>
-----------------------------------------------------------------------------
(***************************************************************************)
(* The other commands that change what is on disk.                         *)
(***************************************************************************)
ChangeChain(c) ==
  /\ stage = "down"
  /\ chain' = c
  /\ UNCHANGED <<stage, config, author, mining, memory, disk, history>>

PurgeChain == ChangeChain(<<>>)

\* Nothing is ever finalized, so any number of blocks can be reverted.
Revert == \E n \in 0 .. Len(chain) : ChangeChain(SubSeq(chain, 1, n))

ImportBlocks == Len(chain) < MaxBlocks /\ ChangeChain(Append(chain, Foreign))

\* key insert, of a key whose seed phrase the operator has written down.
InsertKey(k) ==
  /\ stage = "down"
  /\ disk' = disk \cup {k}
  /\ UNCHANGED <<stage, config, author, mining, memory, chain, history>>
-----------------------------------------------------------------------------
StartUp == new_partial \/ SpawnServices \/ decode_author \/ StartMining \/ StartNetwork

NodeNext ==
  \/ \E c \in Config : Run(c)
  \/ StartUp \/ Stop
  \/ MineBlock \/ ReceiveForeign
  \/ PurgeChain \/ Revert \/ ImportBlocks
  \/ \E k \in Keys \cap DOMAIN generated : InsertKey(k)

NodeSpec == NodeInit /\ [][NodeNext]_nodeVars

\* new_full runs to its end unless the process stops.
NodeFairSpec == NodeSpec /\ WF_nodeVars(StartUp)
-----------------------------------------------------------------------------
(***************************************************************************)
(* Properties.                                                             *)
(***************************************************************************)
\* Every variable has its type; a node that is down has nothing in memory,
\* and the thread runs for an author only.
NodeTypeOK ==
  /\ stage \in {"down", "new_partial", "services", "decode_author", "start_mining",
                "start_network", "up"}
  /\ config \in Config
  /\ author \in Accounts \cup Keys \cup {None}
  /\ mining \in BOOLEAN
  /\ memory \subseteq Keys /\ disk \subseteq Keys
  /\ chain \in Seq(Accounts \cup Keys \cup {Foreign}) /\ Len(chain) <= MaxBlocks
  /\ DOMAIN generated \subseteq Keys
  /\ \A k \in DOMAIN generated : generated[k] \in {"local", "in memory"}
  /\ rewarded \subseteq Accounts \cup Keys
  /\ stage = "down" => ~mining /\ author = None /\ memory = {}
  /\ mining => author # None

\* The node may tell its operator where to find the seed phrase of the key
\* it mines for (line 221): a generated key that blocks are mined for is in
\* the keystore before the first of them and, if that is on disk, it is
\* there for good, whatever fails, is killed, purged or reverted.
GeneratedKeysKept ==
  /\ StoredIn("local") \cap (rewarded \cup {author}) \subseteq disk
  /\ author \in Keys => author \in disk \cup memory

\* Whom a node mines for.  Only authorities mine, and for the author their
\* operator has named for this run, if any: never for one of an earlier run,
\* and for a key the node made up only if none has been named at all.
MinesForItsOperator ==
  mining =>
    /\ config.role = "authority"
    /\ author = config.author \/ (config.author = None /\ author \in Keys)

\* An authority whose process goes on does mine, although mining is started
\* after everything else that can fail.
AuthorityMines ==
  (stage = "new_partial" /\ config.role = "authority")
    ~> (mining \/ stage = "down" \/ DOMAIN generated = Keys)
=============================================================================
