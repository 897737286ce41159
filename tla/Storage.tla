------------------------------ MODULE Storage ------------------------------
(***************************************************************************)
(* What a node keeps on disk and what it finds again: class Storage        *)
(* (core/storage.cpp), and the constructors and destructors of State,      *)
(* rdPoS, ContractManager and EVMHost, which load their part of the state  *)
(* from the database and save it.                                          *)
(*                                                                         *)
(* While a node runs nothing is written.  The destructors write one part   *)
(* after the other, each with a RocksDB batch (atomic) or a put; the       *)
(* process may crash between any two writes.  A start loads the parts in   *)
(* the opposite order and may refuse to go on.                             *)
(*                                                                         *)
(* A hash stands for what it is the hash of, so a block determines all of  *)
(* its ancestors: a block is its height and the contents of the blocks on  *)
(* the way from genesis to it.                                             *)
(***************************************************************************)
EXTENDS Integers, FiniteSets

CONSTANTS
  Contents,      \* what a block may contain, other than its place in the chain
  Txs,           \* transactions
  TxsOf(_, _),   \* the transactions of a block with these contents at this height
  RecentBlocks,  \* 500 in the code: how far back a start loads blocks into memory
  NoBlock,       \* nothing is stored under a key
  Partial,       \* some of the genesis entries of a part are stored
  Mixed,         \* a part that is no longer the state of one chain
  MaxHeight      \* bound: no block is pushed above this height

Blocks == UNION {[height : {h}, path : [1..h -> Contents]] : h \in 0..MaxHeight}

Genesis == [height |-> 0, path |-> [i \in 1..0 |-> NoBlock]]

\* The block of the height k on the way to b.
Ancestor(b, k) == [height |-> k, path |-> [i \in 1..k |-> b.path[i]]]

Ancestors(b) == {Ancestor(b, k) : k \in 0..b.height}

\* The block with contents c on top of b.
Extend(b, c) ==
  [height |-> b.height + 1,
   path |-> [i \in 1..(b.height + 1) |-> IF i = b.height + 1 THEN c ELSE b.path[i]]]

\* Block::getTxs: a sequence, the genesis block has none.
BlockTxs(b) == IF b.height = 0 THEN << >> ELSE TxsOf(b.height, b.path[b.height])

\* What txByHash_ and the database say about the transactions of b.
Entries(b) ==
  {[tx |-> BlockTxs(b)[i], block |-> b, index |-> i] : i \in DOMAIN BlockTxs(b)}

EntriesUpTo(b) == UNION {Entries(a) : a \in Ancestors(b)}

\* The transactions of a chain are different from each other: State refuses one
\* whose nonce is used.
ASSUME TxsAssumption ==
  \A b \in Blocks : \A e, f \in EntriesUpTo(b) : e.tx \in Txs /\ (e.tx = f.tx => e = f)
ASSUME BoundsAssumption == RecentBlocks \in Nat /\ MaxHeight \in Nat
ASSUME NamesAssumption ==
  /\ {NoBlock, Partial, Mixed} \cap Blocks = {}
  /\ NoBlock # Partial /\ NoBlock # Mixed /\ Partial # Mixed

VARIABLES
  pc,            \* where the process is between start and the end of its destructors
  \* in memory
  chain,         \* Storage::chain_, a function of consecutive heights
  blockByHash,   \* Storage::blockByHash_, the blocks it holds
  byHeight,      \* Storage::blockHashByHeight_ and blockHeightByHash_
  txByHash,      \* Storage::txByHash_
  cachedBlocks, cachedTxs,
  parts,         \* the block whose state each other part of the node is in
  \* in the database
  dbLatest, dbHeights, dbBlocks, dbTxs,
  evmLatest,     \* the height that EVMHost has saved
  saved,         \* the block whose state is saved, by part
  torn           \* history: a crash has hit where no later start can notice

chainVars == <<chain, blockByHash, byHeight, txByHash>>
cacheVars == <<cachedBlocks, cachedTxs>>
dbVars    == <<dbLatest, dbHeights, dbBlocks, dbTxs, evmLatest, saved>>
vars == <<pc, chainVars, cacheVars, parts, dbVars, torn>>

Parts == {"accounts", "evm", "contracts", "events", "variables", "validators"}

Empty == [h \in {} |-> NoBlock]

Init ==
  /\ pc = "off"
  /\ chain = Empty /\ blockByHash = {} /\ byHeight = Empty /\ txByHash = {}
  /\ cachedBlocks = {} /\ cachedTxs = {}
  /\ parts = [p \in Parts |-> NoBlock]
  /\ dbLatest = NoBlock /\ dbHeights = Empty /\ dbBlocks = {} /\ dbTxs = {}
  /\ evmLatest = -1
  /\ saved = [p \in Parts |-> IF p \in {"accounts", "validators"} THEN NoBlock ELSE Genesis]
  /\ torn = FALSE

\* Storage::latest
Height == CHOOSE h \in DOMAIN chain : \A k \in DOMAIN chain : k <= h
Latest == chain[Height]

\* A map of the code keeps what it has for a key that is inserted again; a put
\* into the database replaces it.
Insert(map, entries) ==
  map \cup {e \in entries : \A f \in map : f.tx # e.tx}
Put(map, entries) ==
  {f \in map : \A e \in entries : f.tx # e.tx} \cup entries

-----------------------------------------------------------------------------
(* Start: the constructors of Storage, rdPoS, ContractManager, EVMHost, State *)

Goto(from, to) == pc = from /\ pc' = to

Start ==
  /\ Goto("off", IF dbLatest = NoBlock THEN "putLatest" ELSE "load")
  /\ UNCHANGED <<chainVars, cacheVars, parts, dbVars, torn>>

\* Storage::initializeBlockchain: three puts, and only the first is looked for.
PutGenesisLatest ==
  /\ Goto("putLatest", "putHeight")
  /\ dbLatest' = Genesis
  /\ UNCHANGED <<chainVars, cacheVars, parts, dbHeights, dbBlocks, dbTxs, evmLatest,
                 saved, torn>>

PutGenesisHeight ==
  /\ Goto("putHeight", "putBlock")
  /\ dbHeights' = [h \in {0} |-> Genesis]
  /\ UNCHANGED <<chainVars, cacheVars, parts, dbLatest, dbBlocks, dbTxs, evmLatest,
                 saved, torn>>

PutGenesisBlock ==
  /\ Goto("putBlock", "load")
  /\ dbBlocks' = dbBlocks \cup {Genesis}
  /\ UNCHANGED <<chainVars, cacheVars, parts, dbLatest, dbHeights, dbTxs, evmLatest,
                 saved, torn>>

\* The genesis block, or a recent one, cannot be read from the database.
Loaded == {h \in 0..dbLatest.height : h >= dbLatest.height - RecentBlocks}
Unreadable ==
  ~(\A h \in Loaded \cup {0} : h \in DOMAIN dbHeights /\ dbHeights[h] \in dbBlocks)

\* Storage::Storage, after initializeBlockchain.  Blocks are loaded from the latest
\* backwards, RecentBlocks + 1 of them.
LoadChain ==
  /\ Goto("load", "rdPoS")
  /\ ~Unreadable
  /\ byHeight' = dbHeights
  /\ chain' = [h \in Loaded |-> dbHeights[h]]
  /\ blockByHash' = {dbHeights[h] : h \in Loaded}
  /\ txByHash' = UNION {Entries(dbHeights[h]) : h \in Loaded}
  /\ UNCHANGED <<cacheVars, parts, dbVars, torn>>

LoadRefused ==
  /\ Goto("load", "refused")
  /\ Unreadable
  /\ UNCHANGED <<chainVars, cacheVars, parts, dbVars, torn>>

\* rdPoS::initializeBlockchain and State::State put the genesis entries of their
\* part one by one, when there is none.
PutFirst(p) ==
  /\ saved[p] = NoBlock
  /\ saved' = [saved EXCEPT ![p] = Partial]
PutRest(p) ==
  /\ saved' = [saved EXCEPT ![p] = Genesis]

\* What a constructor makes of the entries it finds.  The validators do not change
\* after genesis.
LoadPart(p) ==
  /\ saved[p] # NoBlock
  /\ parts' = [parts EXCEPT ![p] =
       IF p = "validators" /\ saved[p] # Partial THEN Latest ELSE saved[p]]

LoadValidators ==
  \/ /\ Goto("rdPoS", "putValidators") /\ PutFirst("validators")
     /\ UNCHANGED <<chainVars, cacheVars, parts, dbLatest, dbHeights, dbBlocks, dbTxs,
                    evmLatest, torn>>
  \/ /\ Goto("putValidators", "rdPoS") /\ PutRest("validators")
     /\ UNCHANGED <<chainVars, cacheVars, parts, dbLatest, dbHeights, dbBlocks, dbTxs,
                    evmLatest, torn>>
  \/ /\ Goto("rdPoS", "evmHost") /\ LoadPart("validators")
     /\ UNCHANGED <<chainVars, cacheVars, dbVars, torn>>

\* ContractManager::ContractManager, then EVMHost::EVMHost: "Chain height mismatch,
\* DB is corrupted".
HeightMismatch == evmLatest # -1 /\ evmLatest # Height

LoadEvmHost ==
  /\ Goto("evmHost", "accounts")
  /\ ~HeightMismatch
  /\ parts' = [p \in Parts |->
       IF p \in {"evm", "contracts", "events", "variables"} THEN saved[p] ELSE parts[p]]
  /\ UNCHANGED <<chainVars, cacheVars, dbVars, torn>>

EvmHostRefused ==
  /\ Goto("evmHost", "refused")
  /\ HeightMismatch
  /\ UNCHANGED <<chainVars, cacheVars, parts, dbVars, torn>>

LoadAccounts ==
  \/ /\ Goto("accounts", "putAccounts") /\ PutFirst("accounts")
     /\ UNCHANGED <<chainVars, cacheVars, parts, dbLatest, dbHeights, dbBlocks, dbTxs,
                    evmLatest, torn>>
  \/ /\ Goto("putAccounts", "accounts") /\ PutRest("accounts")
     /\ UNCHANGED <<chainVars, cacheVars, parts, dbLatest, dbHeights, dbBlocks, dbTxs,
                    evmLatest, torn>>
  \/ /\ Goto("accounts", "up") /\ LoadPart("accounts")
     /\ UNCHANGED <<chainVars, cacheVars, dbVars, torn>>

StartStep ==
  \/ Start \/ PutGenesisLatest \/ PutGenesisHeight \/ PutGenesisBlock
  \/ LoadChain \/ LoadRefused \/ LoadValidators
  \/ LoadEvmHost \/ EvmHostRefused \/ LoadAccounts

-----------------------------------------------------------------------------
(* A running node *)

\* Mutant: the map from heights to blocks is forgotten.
PushWithoutHeight(b) ==
  /\ chain' = [h \in DOMAIN chain \cup {b.height} |-> IF h = b.height THEN b ELSE chain[h]]
  /\ blockByHash' = blockByHash \cup {b}
  /\ txByHash' = Insert(txByHash, Entries(b))
  /\ UNCHANGED byHeight

\* Storage::pushBack of a block that extends the latest one.
PushBack(b) ==
  /\ chain' = [h \in DOMAIN chain \cup {b.height} |-> IF h = b.height THEN b ELSE chain[h]]
  /\ blockByHash' = blockByHash \cup {b}
  /\ byHeight' = [h \in DOMAIN byHeight \cup {b.height} |->
                    IF h \in DOMAIN byHeight THEN byHeight[h] ELSE b]
  /\ txByHash' = Insert(txByHash, Entries(b))

\* State::processNextBlock takes every part of the state from one block to the
\* next.
ProcessNextBlock(c) ==
  /\ pc = "up" /\ Height < MaxHeight
  /\ PushBack(Extend(Latest, c))
  /\ parts' = [p \in Parts |-> IF parts[p] = Latest THEN Extend(Latest, c) ELSE Mixed]
  /\ UNCHANGED <<pc, cacheVars, dbVars, torn>>

\* Storage::blockExistsInternal, of a hash and of a height
WhereBlock(b) ==
  CASE b \in blockByHash -> "OnChain"
    [] b \notin blockByHash /\ b \in cachedBlocks -> "OnCache"
    [] b \notin blockByHash \cup cachedBlocks /\ b \in dbBlocks -> "OnDB"
    [] OTHER -> "NotFound"

WhereHeight(h) ==
  IF h \notin DOMAIN byHeight THEN "NotFound"
  ELSE IF byHeight[h] \in blockByHash THEN "OnChain"
  ELSE IF byHeight[h] \in cachedBlocks THEN "OnCache" ELSE "OnDB"

\* Storage::txExistsInternal
EntryOf(map, tx) == {e \in map : e.tx = tx}
WhereTx(tx) ==
  CASE EntryOf(txByHash, tx) # {} -> "OnChain"
    [] EntryOf(txByHash, tx) = {} /\ EntryOf(cachedTxs, tx) # {} -> "OnCache"
    [] EntryOf(txByHash \cup cachedTxs, tx) = {} /\ EntryOf(dbTxs, tx) # {} -> "OnDB"
    [] OTHER -> "NotFound"

\* Storage::getBlock, which keeps what it has read from the database.
CacheBlock(b) ==
  /\ cachedBlocks' = cachedBlocks \cup {b}
  /\ UNCHANGED <<pc, chainVars, cachedTxs, parts, dbVars, torn>>

GetBlockByHash(b) == pc = "up" /\ WhereBlock(b) = "OnDB" /\ CacheBlock(b)

GetBlockByHeight(h) ==
  /\ pc = "up" /\ WhereHeight(h) = "OnDB" /\ byHeight[h] \in dbBlocks
  /\ CacheBlock(byHeight[h])

CacheTx(entries) ==
  /\ cachedTxs' = Insert(cachedTxs, entries)
  /\ UNCHANGED <<pc, chainVars, cachedBlocks, parts, dbVars, torn>>

\* Storage::getTx
GetTx(tx) == pc = "up" /\ WhereTx(tx) = "OnDB" /\ CacheTx(EntryOf(dbTxs, tx))

\* Mutant: one transaction too many is skipped.
ReadNextTx(b, i) ==
  LET j == IF i + 1 \in DOMAIN BlockTxs(b) THEN i + 1 ELSE i
  IN  [tx |-> BlockTxs(b)[j], block |-> b, index |-> i]

\* Storage::getTxFromBlockWithIndex skips i transactions of a serialized block.
ReadTx(b, i) == [tx |-> BlockTxs(b)[i], block |-> b, index |-> i]

\* Storage::getTxByBlockHashAndIndex; getTxByBlockNumberAndIndex looks up the hash
\* of the height first.  A block that is not in memory is read from the database.
GetTxByIndex(b, i) == pc = "up" /\ WhereBlock(b) = "OnDB" /\ CacheTx({ReadTx(b, i)})

\* What the two functions answer: from memory by way of txByHash_, and for a block
\* in the cache by way of cachedTxs_, whose at() throws when it has no entry.
Answer(b, i) ==
  CASE WhereBlock(b) = "OnChain" -> EntryOf(txByHash, BlockTxs(b)[i])
    [] WhereBlock(b) = "OnCache" -> EntryOf(cachedTxs, BlockTxs(b)[i])
    [] WhereBlock(b) = "OnDB" ->
         EntryOf(Insert(cachedTxs, {ReadTx(b, i)}), ReadTx(b, i).tx)
    [] OTHER -> {}

LookupStep ==
  \/ \E b \in dbBlocks : \/ GetBlockByHash(b)
                         \/ \E i \in DOMAIN BlockTxs(b) : GetTxByIndex(b, i)
  \/ \E h \in DOMAIN byHeight : GetBlockByHeight(h)
  \/ \E tx \in Txs : GetTx(tx)

-----------------------------------------------------------------------------
(* Shutdown: the destructors, in the order of the members of Blockchain, State *)
(* and ContractManager                                                         *)

Stop ==
  /\ Goto("up", "~State")
  /\ UNCHANGED <<chainVars, cacheVars, parts, dbVars, torn>>

SavePart(p, from, to) ==
  /\ Goto(from, to)
  /\ saved' = [saved EXCEPT ![p] = parts[p]]
  /\ UNCHANGED <<chainVars, cacheVars, parts, dbLatest, dbHeights, dbBlocks, dbTxs,
                 evmLatest, torn>>

\* ~State; ~EVMHost puts its height before its batch; ~ContractManager; and the
\* members of ContractManager: ~EventManager, then the contracts.
SaveAccounts  == SavePart("accounts", "~State", "~EVMHost")
SaveEvm       == SavePart("evm", "evmBatch", "~ContractManager")
SaveContracts == SavePart("contracts", "~ContractManager", "~EventManager")
SaveEvents    == SavePart("events", "~EventManager", "~contracts")
SaveVariables == SavePart("variables", "~contracts", "~rdPoS")
SaveRdPoS     == SavePart("validators", "~rdPoS", "~Storage")

\* Mutant: the height is not saved again, as if the one from the start would do.
SaveNoHeight ==
  /\ Goto("~EVMHost", "evmBatch")
  /\ UNCHANGED <<chainVars, cacheVars, parts, dbVars, torn>>

\* Mutant: currentChainSize() is saved instead.
SaveEvmSize ==
  /\ Goto("~EVMHost", "evmBatch")
  /\ evmLatest' = Height + 1
  /\ UNCHANGED <<chainVars, cacheVars, parts, dbLatest, dbHeights, dbBlocks, dbTxs,
                 saved, torn>>

SaveEvmHeight ==
  /\ Goto("~EVMHost", "evmBatch")
  /\ evmLatest' = Height
  /\ UNCHANGED <<chainVars, cacheVars, parts, dbLatest, dbHeights, dbBlocks, dbTxs,
                 saved, torn>>

\* Mutant: the transactions are not saved with their blocks.
SaveOnlyBlocks ==
  /\ Goto("~Storage", "latest")
  /\ dbBlocks' = dbBlocks \cup {chain[h] : h \in DOMAIN chain}
  /\ dbHeights' = [h \in DOMAIN dbHeights \cup DOMAIN chain |->
                     IF h \in DOMAIN chain THEN chain[h] ELSE dbHeights[h]]
  /\ UNCHANGED <<chainVars, cacheVars, parts, dbLatest, dbTxs, evmLatest, saved, torn>>

\* Storage::~Storage: a batch with the blocks in memory and their transactions ...
SaveBlocks ==
  /\ Goto("~Storage", "latest")
  /\ dbBlocks' = dbBlocks \cup {chain[h] : h \in DOMAIN chain}
  /\ dbHeights' = [h \in DOMAIN dbHeights \cup DOMAIN chain |->
                     IF h \in DOMAIN chain THEN chain[h] ELSE dbHeights[h]]
  /\ dbTxs' = Put(dbTxs, UNION {Entries(chain[h]) : h \in DOMAIN chain})
  /\ UNCHANGED <<chainVars, cacheVars, parts, dbLatest, evmLatest, saved, torn>>

\* What is left in memory when the process has ended.
Forget ==
  /\ chain' = Empty /\ blockByHash' = {} /\ byHeight' = Empty /\ txByHash' = {}
  /\ cachedBlocks' = {} /\ cachedTxs' = {}
  /\ parts' = [p \in Parts |-> NoBlock]

\* ... and then the latest block, with a put.
SaveLatest ==
  /\ Goto("latest", "off")
  /\ dbLatest' = Latest
  /\ Forget
  /\ UNCHANGED <<dbHeights, dbBlocks, dbTxs, evmLatest, saved, torn>>

SaveStep ==
  \/ Stop \/ SaveAccounts \/ SaveEvmHeight \/ SaveEvm \/ SaveContracts \/ SaveEvents
  \/ SaveVariables \/ SaveRdPoS \/ SaveBlocks \/ SaveLatest

\* The points at which a crash leaves a database that a start takes for a good one
\* although it is not: the accounts are written and the height of EVMHost is not
\* yet, or some of the genesis entries are.
Unnoticed == {"~EVMHost", "putValidators", "putAccounts"}

\* The process is killed, the machine fails, or an exception has ended a start.
Crash ==
  /\ pc # "off"
  /\ pc' = "off"
  /\ torn' = (torn \/ pc \in Unnoticed)
  /\ Forget
  /\ UNCHANGED dbVars

-----------------------------------------------------------------------------
Next ==
  \/ StartStep \/ SaveStep \/ LookupStep \/ Crash
  \/ \E c \in Contents : ProcessNextBlock(c)

Spec == Init /\ [][Next]_vars

-----------------------------------------------------------------------------
(* Properties *)

PCs == {"off", "putLatest", "putHeight", "putBlock", "load", "rdPoS", "putValidators",
        "evmHost", "accounts", "putAccounts", "refused", "up", "~State", "~EVMHost",
        "evmBatch", "~ContractManager", "~EventManager", "~contracts", "~rdPoS",
        "~Storage", "latest"}

\* The type invariant of Storage and of what is in the database.
TypeOK ==
  /\ pc \in PCs
  /\ DOMAIN chain \subseteq 0..MaxHeight /\ DOMAIN byHeight \subseteq 0..MaxHeight
  /\ DOMAIN dbHeights \subseteq 0..MaxHeight
  /\ blockByHash \subseteq Blocks /\ cachedBlocks \subseteq Blocks /\ dbBlocks \subseteq Blocks
  /\ dbLatest \in Blocks \cup {NoBlock}
  /\ evmLatest \in -1..MaxHeight
  /\ parts \in [Parts -> Blocks \cup {NoBlock, Partial, Mixed}]
  /\ saved \in [Parts -> Blocks \cup {NoBlock, Partial, Mixed}]
  /\ torn \in BOOLEAN

\* blockExists and getBlock of a running node find the blocks of its chain and no
\* others, by hash and by height, whatever is in memory, in the cache or in the
\* database, and whatever crashes and restarts there were before.
BlocksFound ==
  pc = "up" =>
    /\ \A b \in Blocks : WhereBlock(b) # "NotFound" <=> b \in Ancestors(Latest)
    /\ \A h \in 0..MaxHeight :
         /\ WhereHeight(h) # "NotFound" <=> h <= Height
         /\ h <= Height => byHeight[h] = Ancestor(Latest, h)
         /\ WhereHeight(h) = "OnDB" => byHeight[h] \in dbBlocks

\* getTx finds the transactions of the chain and no others, with their block and
\* index, from memory, cache or database.
TxsFound ==
  pc = "up" =>
    \A tx \in Txs :
      LET found == CASE WhereTx(tx) = "OnChain" -> EntryOf(txByHash, tx)
                     [] WhereTx(tx) = "OnCache" -> EntryOf(cachedTxs, tx)
                     [] OTHER -> EntryOf(dbTxs, tx)
      IN  found = EntryOf(EntriesUpTo(Latest), tx)

\* A lookup by block and index never returns another transaction or place than the
\* one it is asked for; it answers unless the block is in the cache (where at()
\* may throw).
IndexAnswers ==
  pc = "up" =>
    \A b \in Ancestors(Latest) : \A i \in DOMAIN BlockTxs(b) :
      LET right == {e \in Entries(b) : e.index = i}
      IN  Answer(b, i) = right \/ (WhereBlock(b) = "OnCache" /\ Answer(b, i) = {})

\* A node that starts is in the state of its latest block in all of its parts: after
\* a shutdown, and after a crash at any point, in all starts the constructors let
\* pass, but for the points at which a crash goes unnoticed.  These spoil the
\* accounts or the validators only.
StateOfTheChain ==
  pc = "up" =>
    \A p \in Parts : \/ parts[p] = Latest
                     \/ torn /\ p \in {"accounts", "validators"}
=============================================================================
