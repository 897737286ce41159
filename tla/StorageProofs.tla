--------------------------- MODULE StorageProofs ---------------------------
(***************************************************************************)
(* Proofs about Storage for chains of any height, any number of blocks in  *)
(* memory and any number of crashes: a node that runs finds exactly the    *)
(* blocks and the transactions of its chain, and is in the state of its    *)
(* latest block.                                                           *)
(***************************************************************************)
EXTENDS Storage, TLAPS

-----------------------------------------------------------------------------
(* The inductive invariant *)

\* Where the process is: the chain is loaded, the EVM's height has agreed with it,
\* and the height has been saved again.
Loading == {"rdPoS", "putValidators", "evmHost"}
Shutdown == {"evmBatch", "~ContractManager", "~EventManager", "~contracts", "~rdPoS",
             "~Storage", "latest"}
Agreed == {"accounts", "putAccounts", "up", "~State", "~EVMHost"}
Serving == Agreed \cup Shutdown

EvmParts == {"evm", "contracts", "events", "variables"}

\* Where a part has been saved in the shutdown that is under way.
SavedAt(p) ==
  CASE p = "accounts"   -> Shutdown \cup {"~EVMHost"}
    [] p = "evm"        -> Shutdown \ {"evmBatch"}
    [] p = "contracts"  -> {"~EventManager", "~contracts", "~rdPoS", "~Storage", "latest"}
    [] p = "events"     -> {"~contracts", "~rdPoS", "~Storage", "latest"}
    [] p = "variables"  -> {"~rdPoS", "~Storage", "latest"}
    [] p = "validators" -> {"~Storage", "latest"}

\* A map from heights to blocks is the way to b; the database holds that chain.
ChainOf(map, b) == DOMAIN map = 0..b.height /\ \A h \in 0..b.height : map[h] = Ancestor(b, h)
Kept(b) == ChainOf(dbHeights, b) /\ dbBlocks = Ancestors(b) /\ dbTxs = EntriesUpTo(b)

\* The height of the EVM does not contradict the latest block.
Clean == evmLatest \in {-1, dbLatest.height}

\* Nothing has been saved; the accounts and the validators have no entry.
Fresh ==
  /\ dbTxs = {} /\ dbBlocks = {} /\ evmLatest = -1
  /\ \A p \in Parts : saved[p] = IF p \in EvmParts THEN Genesis ELSE NoBlock

\* A database that a start has not set up, or has begun to.
Unborn ==
  /\ Fresh
  /\ \/ dbLatest = NoBlock /\ pc \in {"off", "putLatest"}
     \/ /\ dbLatest = Genesis /\ pc \in {"off", "putHeight", "putBlock", "load", "refused"}
        /\ pc = "putBlock" => ChainOf(dbHeights, Genesis)

\* The accounts are those of the latest block, unless they are being written.
AccountsOK ==
  \/ torn
  \/ pc = "putAccounts" /\ dbLatest = Genesis
  \/ pc = "~EVMHost"
  \/ /\ pc # "putAccounts"
     /\ saved["accounts"] = dbLatest \/ (saved["accounts"] = NoBlock /\ dbLatest = Genesis)

\* A database with a chain.  Either the height of the EVM is that of the latest block,
\* and then everything is of that block, or a start refuses it.
Settled ==
  /\ dbLatest \in Blocks /\ pc \notin {"putLatest", "putHeight", "putBlock"}
  /\ \A h \in 0..dbLatest.height :
       h \in DOMAIN dbHeights /\ dbHeights[h] = Ancestor(dbLatest, h) /\ dbHeights[h] \in dbBlocks
  /\ Clean => /\ Kept(dbLatest) /\ AccountsOK
              /\ \A p \in EvmParts : saved[p] = dbLatest
  /\ pc \in Agreed => Clean
  /\ saved["validators"] = Partial => torn \/ pc = "putValidators"

\* What is in memory, the latest block being b.
MemoryAt(b) ==
  /\ b \in Blocks /\ dbLatest \in Ancestors(b)
  /\ DOMAIN chain = {h \in 0..b.height : h >= dbLatest.height - RecentBlocks}
  /\ \A h \in DOMAIN chain : chain[h] = Ancestor(b, h)
  /\ blockByHash = {chain[h] : h \in DOMAIN chain}
  /\ txByHash = UNION {Entries(chain[h]) : h \in DOMAIN chain}
  /\ pc \in Loading => b = dbLatest /\ byHeight = dbHeights
  /\ pc \in {"accounts", "putAccounts"} => b = dbLatest
  /\ pc \in Serving => ChainOf(byHeight, b)

\* The caches hold what is in the database, the parts are in the state of b.
PartsAt(b) ==
  /\ pc \in Serving \cup {"evmHost"} => parts["validators"] = b \/ torn
  /\ pc \in Serving => \A p \in EvmParts : parts[p] = b
  /\ pc \in Serving \ {"accounts", "putAccounts"} => parts["accounts"] = b \/ torn
  /\ \A p \in Parts : pc \in SavedAt(p) => saved[p] = parts[p]

\* How far the database has been brought to b.
SavingAt(b) ==
  /\ pc \in Serving \ {"latest"} => Kept(dbLatest)
  /\ pc \in Shutdown => evmLatest = b.height
  /\ pc = "latest" => Kept(b)

CachesOK ==
  /\ pc \notin Serving => cachedBlocks = {} /\ cachedTxs = {}
  /\ pc \in Serving => /\ cachedBlocks \subseteq Ancestors(dbLatest)
                       /\ cachedTxs \subseteq EntriesUpTo(dbLatest)

IInv ==
  /\ TypeOK /\ CachesOK
  /\ Unborn \/ Settled
  /\ pc \in Loading \cup Serving => \E b \in Blocks : MemoryAt(b) /\ PartsAt(b) /\ SavingAt(b)

-----------------------------------------------------------------------------
(* Blocks and the chains that lead to them *)

LEMMA BlockForm ==
  ASSUME NEW b \in Blocks
  PROVE  /\ b.height \in 0..MaxHeight /\ b.height \in Nat
         /\ b.path \in [1..b.height -> Contents]
         /\ b = [height |-> b.height, path |-> b.path]
<1>1. PICK h \in 0..MaxHeight : b \in [height : {h}, path : [1..h -> Contents]]
  BY DEF Blocks
<1>. QED BY <1>1, BoundsAssumption

LEMMA BlockMade ==
  ASSUME NEW h \in 0..MaxHeight, NEW f \in [1..h -> Contents]
  PROVE  [height |-> h, path |-> f] \in Blocks
BY DEF Blocks

LEMMA GenesisBlock ==
  /\ Genesis \in Blocks /\ Genesis.height = 0
  /\ Genesis \notin {NoBlock, Partial, Mixed}
  /\ \A b \in Blocks : Ancestor(b, 0) = Genesis
<1>1. 1..0 = {} /\ 0 \in 0..MaxHeight
  BY BoundsAssumption
<1>2. [i \in 1..0 |-> NoBlock] \in [1..0 -> Contents]
  BY <1>1
<1>3. Genesis \in Blocks /\ Genesis.height = 0
  BY <1>1, <1>2, BlockMade DEF Genesis
<1>4. \A b : Ancestor(b, 0) = Genesis
  <2>1. \A b : [i \in 1..0 |-> b.path[i]] = [i \in 1..0 |-> NoBlock]
    BY <1>1
  <2>. QED BY <2>1 DEF Ancestor, Genesis
<1>. QED BY <1>3, <1>4, NamesAssumption

LEMMA AncestorBlock ==
  ASSUME NEW b \in Blocks, NEW k \in 0..b.height
  PROVE  /\ Ancestor(b, k) \in Blocks /\ Ancestor(b, k).height = k
         /\ \A j \in 0..k : Ancestor(Ancestor(b, k), j) = Ancestor(b, j)
<1>1. /\ b.height \in 0..MaxHeight /\ b.height \in Nat /\ MaxHeight \in Nat
      /\ b.path \in [1..b.height -> Contents]
  BY BlockForm, BoundsAssumption
<1>2. k \in 0..MaxHeight /\ [i \in 1..k |-> b.path[i]] \in [1..k -> Contents]
  BY <1>1
<1>3. Ancestor(b, k) \in Blocks /\ Ancestor(b, k).height = k
  BY <1>2, BlockMade DEF Ancestor
<1>4. ASSUME NEW j \in 0..k PROVE Ancestor(Ancestor(b, k), j) = Ancestor(b, j)
  <2>1. [i \in 1..j |-> Ancestor(b, k).path[i]] = [i \in 1..j |-> b.path[i]]
    BY <1>1 DEF Ancestor
  <2>. QED BY <2>1 DEF Ancestor
<1>. QED BY <1>3, <1>4

LEMMA AncestorSelf ==
  ASSUME NEW b \in Blocks
  PROVE  Ancestor(b, b.height) = b /\ b \in Ancestors(b)
<1>1. /\ b.height \in Nat /\ b.path \in [1..b.height -> Contents]
      /\ b = [height |-> b.height, path |-> b.path]
  BY BlockForm
<1>2. [i \in 1..b.height |-> b.path[i]] = b.path
  BY <1>1
<1>3. Ancestor(b, b.height) = b
  BY <1>1, <1>2 DEF Ancestor
<1>. QED BY <1>1, <1>3 DEF Ancestors

\* A block that is on the way to b.
LEMMA AncestorsForm ==
  ASSUME NEW b \in Blocks, NEW a \in Ancestors(b)
  PROVE  /\ a \in Blocks /\ a.height \in 0..b.height /\ a = Ancestor(b, a.height)
         /\ \A j \in 0..a.height : Ancestor(a, j) = Ancestor(b, j)
         /\ Ancestors(a) \subseteq Ancestors(b)
         /\ a.height = b.height => a = b
<1>1. PICK k \in 0..b.height : a = Ancestor(b, k)
  BY DEF Ancestors
<1>2. /\ a \in Blocks /\ a.height = k /\ a = Ancestor(b, a.height)
      /\ \A j \in 0..k : Ancestor(a, j) = Ancestor(b, j)
  BY <1>1, AncestorBlock
<1>3. b.height \in Nat
  BY BlockForm
<1>4. Ancestors(a) \subseteq Ancestors(b)
  BY <1>1, <1>2, <1>3 DEF Ancestors
<1>5. a.height = b.height => a = b
  BY <1>2, AncestorSelf
<1>. QED BY <1>1, <1>2, <1>4, <1>5

LEMMA ExtendBlock ==
  ASSUME NEW b \in Blocks, NEW c \in Contents, b.height < MaxHeight
  PROVE  /\ Extend(b, c) \in Blocks /\ Extend(b, c).height = b.height + 1
         /\ \A k \in 0..b.height : Ancestor(Extend(b, c), k) = Ancestor(b, k)
         /\ Ancestors(Extend(b, c)) = Ancestors(b) \cup {Extend(b, c)}
<1>1. /\ b.height \in 0..MaxHeight /\ b.height \in Nat /\ MaxHeight \in Nat
      /\ b.path \in [1..b.height -> Contents]
  BY BlockForm, BoundsAssumption
<1>2. PICK h \in 0..MaxHeight : h = b.height + 1
  BY <1>1
<1>3. PICK f \in [1..h -> Contents] :
        f = [i \in 1..h |-> IF i = h THEN c ELSE b.path[i]]
  <2>1. [i \in 1..h |-> IF i = h THEN c ELSE b.path[i]] \in [1..h -> Contents]
    BY <1>1, <1>2
  <2>. QED BY <2>1
<1>4. PICK e \in Blocks : e = [height |-> h, path |-> f]
  BY BlockMade
<1>5. Extend(b, c) = e /\ e.height = b.height + 1
  BY <1>2, <1>3, <1>4 DEF Extend
<1>6. ASSUME NEW k \in 0..b.height PROVE Ancestor(e, k) = Ancestor(b, k)
  <2>1. [i \in 1..k |-> e.path[i]] = [i \in 1..k |-> b.path[i]]
    BY <1>1, <1>2, <1>3, <1>4
  <2>. QED BY <2>1 DEF Ancestor
<1>7. Ancestors(e) = Ancestors(b) \cup {e}
  <2>1. 0..e.height = 0..b.height \cup {e.height}
    BY <1>1, <1>5
  <2>2. Ancestor(e, e.height) = e
    BY AncestorSelf
  <2>. QED BY <1>6, <2>1, <2>2 DEF Ancestors
<1>. QED BY <1>5, <1>6, <1>7

\* The transactions of a chain.
LEMMA EntriesForm ==
  ASSUME NEW b, NEW e
  PROVE  e \in Entries(b) <=>
           \E i \in DOMAIN BlockTxs(b) : e = [tx |-> BlockTxs(b)[i], block |-> b, index |-> i]
BY DEF Entries

LEMMA EntriesOfChain ==
  ASSUME NEW b \in Blocks
  PROVE  /\ \A e, f \in EntriesUpTo(b) : e.tx \in Txs /\ (e.tx = f.tx => e = f)
         /\ \A a \in Ancestors(b) : /\ Entries(a) \subseteq EntriesUpTo(b)
                                    /\ EntriesUpTo(a) \subseteq EntriesUpTo(b)
<1>1. \A e, f \in EntriesUpTo(b) : e.tx \in Txs /\ (e.tx = f.tx => e = f)
  BY TxsAssumption
<1>2. ASSUME NEW a \in Ancestors(b)
      PROVE  Entries(a) \subseteq EntriesUpTo(b) /\ EntriesUpTo(a) \subseteq EntriesUpTo(b)
  <2>1. Ancestors(a) \subseteq Ancestors(b)
    BY AncestorsForm
  <2>. QED BY <2>1 DEF EntriesUpTo
<1>. QED BY <1>1, <1>2

LEMMA GenesisChain ==
  /\ Ancestors(Genesis) = {Genesis} /\ EntriesUpTo(Genesis) = {}
<1>1. Genesis \in Blocks /\ Genesis.height = 0 /\ Ancestor(Genesis, 0) = Genesis
  BY GenesisBlock
<1>2. 0..Genesis.height = {0}
  BY <1>1
<1>3. Ancestors(Genesis) = {Genesis}
  BY <1>1, <1>2 DEF Ancestors
<1>4. BlockTxs(Genesis) = << >>
  BY <1>1 DEF BlockTxs
<1>5. DOMAIN BlockTxs(Genesis) = {}
  BY <1>4
<1>6. Entries(Genesis) = {}
  BY <1>5, EntriesForm
<1>. QED BY <1>3, <1>6 DEF EntriesUpTo

-----------------------------------------------------------------------------
(* What a running node finds *)

LEMMA LatestBlock ==
  ASSUME NEW b, MemoryAt(b)
  PROVE  /\ Height = b.height /\ Latest = b
         /\ dbLatest \in Blocks /\ dbLatest.height \in 0..b.height
<1>1. /\ dbLatest \in Blocks /\ dbLatest.height \in 0..b.height /\ b.height \in Nat
      /\ Ancestor(b, b.height) = b
  BY AncestorsForm, BlockForm, AncestorSelf DEF MemoryAt
<1>2. b.height \in DOMAIN chain /\ \A k \in DOMAIN chain : k \in Nat /\ k <= b.height
  BY <1>1, BoundsAssumption DEF MemoryAt
<1>3. Height = b.height
  <2>1. \A h \in DOMAIN chain : (\A k \in DOMAIN chain : k <= h) => h = b.height
    BY <1>1, <1>2
  <2>. QED BY <1>2, <2>1 DEF Height
<1>. QED BY <1>1, <1>2, <1>3 DEF Latest, MemoryAt

\* Memory and the chain of the latest saved block are the chain to b.
LEMMA MemoryCovers ==
  ASSUME NEW b, MemoryAt(b)
  PROVE  /\ Ancestors(b) = blockByHash \cup Ancestors(dbLatest)
         /\ EntriesUpTo(b) = txByHash \cup EntriesUpTo(dbLatest)
         /\ \A a \in blockByHash : Entries(a) \subseteq txByHash
<1>1. /\ b \in Blocks /\ dbLatest \in Ancestors(b) /\ dbLatest \in Blocks
      /\ dbLatest.height \in 0..b.height /\ b.height \in Nat
      /\ Ancestors(dbLatest) \subseteq Ancestors(b)
      /\ \A j \in 0..dbLatest.height : Ancestor(dbLatest, j) = Ancestor(b, j)
  BY AncestorsForm, BlockForm DEF MemoryAt
<1>2. ASSUME NEW h \in 0..b.height
      PROVE  Ancestor(b, h) \in blockByHash \/ Ancestor(b, h) \in Ancestors(dbLatest)
  <2>1. CASE h \in DOMAIN chain
    BY <2>1 DEF MemoryAt
  <2>2. CASE h \notin DOMAIN chain
    <3>1. h < dbLatest.height - RecentBlocks
      BY <1>1, <2>2, BoundsAssumption DEF MemoryAt
    <3>2. h \in 0..dbLatest.height
      BY <1>1, <3>1, BoundsAssumption
    <3>. QED BY <1>1, <3>2 DEF Ancestors
  <2>. QED BY <2>1, <2>2
<1>3. blockByHash \subseteq Ancestors(b)
  BY DEF MemoryAt, Ancestors
<1>4. Ancestors(b) = blockByHash \cup Ancestors(dbLatest)
  BY <1>1, <1>2, <1>3 DEF Ancestors
<1>5. \A e : e \in txByHash <=> \E a \in blockByHash : e \in Entries(a)
  BY DEF MemoryAt
<1>6. EntriesUpTo(b) = txByHash \cup EntriesUpTo(dbLatest)
  BY <1>4, <1>5 DEF EntriesUpTo
<1>. QED BY <1>4, <1>5, <1>6

\* What the invariant says while a node serves.
LEMMA UpForm ==
  ASSUME IInv, pc \in Serving
  PROVE  /\ TypeOK /\ Settled /\ CachesOK
         /\ \E b \in Blocks : MemoryAt(b) /\ PartsAt(b) /\ SavingAt(b)
BY DEF IInv, Unborn, Serving, Agreed, Shutdown

LEMMA FoundBlocks == IInv => BlocksFound
<1>. SUFFICES ASSUME IInv, pc = "up" PROVE BlocksFound
  BY DEF BlocksFound
<1>1. pc \in Serving /\ pc \in Agreed
  BY DEF Serving, Agreed
<1>2. PICK b \in Blocks : MemoryAt(b)
  BY <1>1, UpForm
<1>3. /\ Kept(dbLatest) /\ cachedBlocks \subseteq Ancestors(dbLatest) /\ ChainOf(byHeight, b)
  BY <1>1, <1>2, UpForm DEF Settled, CachesOK, MemoryAt
<1>4. Height = b.height /\ Latest = b /\ b.height \in 0..MaxHeight /\ b.height \in Nat
  BY <1>2, LatestBlock, BlockForm
<1>5. /\ Ancestors(b) = blockByHash \cup Ancestors(dbLatest)
      /\ dbBlocks = Ancestors(dbLatest)
  BY <1>2, <1>3, MemoryCovers DEF Kept
<1>6. ASSUME NEW a \in Blocks PROVE WhereBlock(a) # "NotFound" <=> a \in Ancestors(b)
  <2>1. WhereBlock(a) # "NotFound" <=> a \in blockByHash \cup cachedBlocks \cup dbBlocks
    BY DEF WhereBlock
  <2>. QED BY <1>3, <1>5, <2>1
<1>7. ASSUME NEW h \in 0..MaxHeight
      PROVE  /\ WhereHeight(h) # "NotFound" <=> h <= b.height
             /\ h <= b.height => byHeight[h] = Ancestor(b, h)
             /\ WhereHeight(h) = "OnDB" => byHeight[h] \in dbBlocks
  <2>1. h \in DOMAIN byHeight <=> h <= b.height
    BY <1>3, <1>4, BoundsAssumption DEF ChainOf
  <2>2. h <= b.height => byHeight[h] = Ancestor(b, h)
    BY <1>3, <2>1 DEF ChainOf
  <2>3. WhereHeight(h) # "NotFound" <=> h \in DOMAIN byHeight
    BY DEF WhereHeight
  <2>4. ASSUME WhereHeight(h) = "OnDB" PROVE byHeight[h] \in dbBlocks
    <3>1. h \in DOMAIN byHeight /\ byHeight[h] \notin blockByHash
      BY <2>4 DEF WhereHeight
    <3>2. byHeight[h] \in Ancestors(b)
      BY <1>3, <3>1 DEF ChainOf, Ancestors
    <3>. QED BY <1>5, <3>1, <3>2
  <2>. QED BY <2>1, <2>2, <2>3, <2>4
<1>. QED BY <1>4, <1>6, <1>7 DEF BlocksFound

\* The entries that a part of the entries of a chain has for a transaction.
LEMMA EntryOfPart ==
  ASSUME NEW b \in Blocks, NEW map \in SUBSET EntriesUpTo(b), NEW tx,
         EntryOf(map, tx) # {}
  PROVE  EntryOf(map, tx) = EntryOf(EntriesUpTo(b), tx)
<1>1. PICK e \in map : e.tx = tx
  BY DEF EntryOf
<1>2. \A f \in EntriesUpTo(b) : f.tx = tx => f = e
  BY <1>1, EntriesOfChain
<1>. QED BY <1>1, <1>2 DEF EntryOf

LEMMA FoundTxs == IInv => TxsFound
<1>. SUFFICES ASSUME IInv, pc = "up" PROVE TxsFound
  BY DEF TxsFound
<1>1. pc \in Serving /\ pc \in Agreed
  BY DEF Serving, Agreed
<1>2. PICK b \in Blocks : MemoryAt(b)
  BY <1>1, UpForm
<1>3. /\ dbTxs = EntriesUpTo(dbLatest) /\ cachedTxs \subseteq EntriesUpTo(dbLatest)
      /\ Latest = b
  BY <1>1, <1>2, UpForm, LatestBlock DEF Settled, CachesOK, Kept
<1>4. EntriesUpTo(b) = txByHash \cup dbTxs
  BY <1>2, <1>3, MemoryCovers
<1>5. ASSUME NEW tx \in Txs
      PROVE  (CASE WhereTx(tx) = "OnChain" -> EntryOf(txByHash, tx)
                [] WhereTx(tx) = "OnCache" -> EntryOf(cachedTxs, tx)
                [] OTHER -> EntryOf(dbTxs, tx)) = EntryOf(EntriesUpTo(b), tx)
  <2>1. CASE EntryOf(txByHash, tx) # {}
    <3>1. WhereTx(tx) = "OnChain"
      <4>1. EntryOf(txByHash \cup cachedTxs, tx) # {}
        BY <2>1 DEF EntryOf
      <4>. QED BY <2>1, <4>1 DEF WhereTx
    <3>2. EntryOf(txByHash, tx) = EntryOf(EntriesUpTo(b), tx)
      BY <1>4, <2>1, EntryOfPart
    <3>. QED BY <3>1, <3>2
  <2>2. CASE EntryOf(txByHash, tx) = {} /\ EntryOf(cachedTxs, tx) # {}
    <3>1. WhereTx(tx) = "OnCache"
      <4>1. EntryOf(txByHash \cup cachedTxs, tx) # {}
        BY <2>2 DEF EntryOf
      <4>. QED BY <2>2, <4>1 DEF WhereTx
    <3>2. EntryOf(cachedTxs, tx) = EntryOf(EntriesUpTo(b), tx)
      BY <1>3, <1>4, <2>2, EntryOfPart
    <3>. QED BY <3>1, <3>2
  <2>3. CASE EntryOf(txByHash, tx) = {} /\ EntryOf(cachedTxs, tx) = {}
    <3>1. WhereTx(tx) # "OnChain" /\ WhereTx(tx) # "OnCache"
      BY <2>3 DEF WhereTx
    <3>2. EntryOf(dbTxs, tx) = EntryOf(EntriesUpTo(b), tx)
      BY <1>4, <2>3 DEF EntryOf
    <3>. QED BY <3>1, <3>2
  <2>. QED BY <2>1, <2>2, <2>3
<1>. QED BY <1>3, <1>5 DEF TxsFound

LEMMA IndexFound == IInv => IndexAnswers
<1>. SUFFICES ASSUME IInv, pc = "up" PROVE IndexAnswers
  BY DEF IndexAnswers
<1>1. pc \in Serving /\ pc \in Agreed
  BY DEF Serving, Agreed
<1>2. PICK b \in Blocks : MemoryAt(b)
  BY <1>1, UpForm
<1>3. /\ dbBlocks = Ancestors(dbLatest) /\ cachedTxs \subseteq EntriesUpTo(dbLatest)
      /\ Latest = b
  BY <1>1, <1>2, UpForm, LatestBlock DEF Settled, CachesOK, Kept
<1>4. /\ EntriesUpTo(b) = txByHash \cup EntriesUpTo(dbLatest)
      /\ Ancestors(b) = blockByHash \cup Ancestors(dbLatest)
      /\ \A a \in blockByHash : Entries(a) \subseteq txByHash
  BY <1>2, MemoryCovers
<1>5. SUFFICES ASSUME NEW a \in Ancestors(b), NEW i \in DOMAIN BlockTxs(a)
               PROVE  \/ Answer(a, i) = {e \in Entries(a) : e.index = i}
                      \/ WhereBlock(a) = "OnCache" /\ Answer(a, i) = {}
  BY <1>3 DEF IndexAnswers
<1>6. PICK e : e = ReadTx(a, i)
  OBVIOUS
<1>7. /\ e \in Entries(a) /\ e.tx = BlockTxs(a)[i] /\ e.index = i
      /\ {f \in Entries(a) : f.index = i} = {e}
  <2>1. e = [tx |-> BlockTxs(a)[i], block |-> a, index |-> i]
    BY <1>6 DEF ReadTx
  <2>. QED BY <2>1, EntriesForm
<1>8. e \in EntriesUpTo(b) /\ EntryOf(EntriesUpTo(b), e.tx) = {e}
  <2>1. e \in EntriesUpTo(b)
    BY <1>7, EntriesOfChain
  <2>2. \A f \in EntriesUpTo(b) : f.tx = e.tx => f = e
    BY <2>1, EntriesOfChain
  <2>. QED BY <2>1, <2>2 DEF EntryOf
<1>9. CASE a \in blockByHash
  <2>1. WhereBlock(a) = "OnChain" /\ Answer(a, i) = EntryOf(txByHash, e.tx)
    BY <1>7, <1>9 DEF WhereBlock, Answer
  <2>2. EntryOf(txByHash, e.tx) # {}
    BY <1>4, <1>7, <1>9 DEF EntryOf
  <2>3. EntryOf(txByHash, e.tx) = {e}
    BY <1>4, <1>8, <2>2, EntryOfPart
  <2>. QED BY <1>7, <2>1, <2>3
<1>10. CASE a \notin blockByHash /\ a \in cachedBlocks
  <2>1. WhereBlock(a) = "OnCache"
    BY <1>10 DEF WhereBlock
  <2>2. Answer(a, i) = EntryOf(cachedTxs, e.tx)
    BY <1>7, <2>1 DEF Answer
  <2>3. EntryOf(cachedTxs, e.tx) = {} \/ EntryOf(cachedTxs, e.tx) = {e}
    BY <1>3, <1>4, <1>8, EntryOfPart
  <2>. QED BY <1>7, <2>1, <2>2, <2>3
<1>11. CASE a \notin blockByHash /\ a \notin cachedBlocks
  <2>1. a \in dbBlocks
    BY <1>3, <1>4, <1>11
  <2>2. WhereBlock(a) = "OnDB"
    BY <1>11, <2>1 DEF WhereBlock
  <2>3. Answer(a, i) = EntryOf(Insert(cachedTxs, {e}), e.tx)
    BY <1>6, <2>2 DEF Answer
  <2>4. Insert(cachedTxs, {e}) \subseteq EntriesUpTo(b)
    BY <1>3, <1>4, <1>8 DEF Insert
  <2>5. EntryOf(Insert(cachedTxs, {e}), e.tx) # {}
    BY DEF Insert, EntryOf
  <2>6. EntryOf(Insert(cachedTxs, {e}), e.tx) = {e}
    BY <1>8, <2>4, <2>5, EntryOfPart
  <2>. QED BY <1>7, <2>3, <2>6
<1>. QED BY <1>9, <1>10, <1>11

LEMMA StateFound == IInv => StateOfTheChain
<1>. SUFFICES ASSUME IInv, pc = "up" PROVE StateOfTheChain
  BY DEF StateOfTheChain
<1>1. pc \in Serving /\ pc \in Serving \ {"accounts", "putAccounts"}
  BY DEF Serving, Agreed
<1>2. PICK b \in Blocks : MemoryAt(b) /\ PartsAt(b)
  BY <1>1, UpForm
<1>3. Latest = b
  BY <1>2, LatestBlock
<1>4. /\ parts["validators"] = b \/ torn
      /\ \A p \in EvmParts : parts[p] = b
      /\ parts["accounts"] = b \/ torn
  BY <1>1, <1>2 DEF PartsAt
<1>5. ASSUME NEW p \in Parts
      PROVE  parts[p] = b \/ (torn /\ p \in {"accounts", "validators"})
  BY <1>4 DEF Parts, EvmParts
<1>. QED BY <1>3, <1>5 DEF StateOfTheChain

-----------------------------------------------------------------------------
(* The start *)

LEMMA MemoryFrame ==
  ASSUME NEW b, MemoryAt(b), UNCHANGED <<chainVars, dbLatest>>,
         pc' \in Loading => b = dbLatest /\ byHeight = dbHeights',
         pc' \in {"accounts", "putAccounts"} => b = dbLatest,
         pc' \in Serving => ChainOf(byHeight, b)
  PROVE  MemoryAt(b)'
BY DEF MemoryAt, chainVars, ChainOf

\* A step out of memory: the process ends, or has not loaded anything.
LEMMA NothingLoaded ==
  ASSUME TypeOK', CachesOK', Unborn' \/ Settled', pc' \notin Loading \cup Serving
  PROVE  IInv'
BY DEF IInv

LEMMA StartKeeps ==
  ASSUME IInv, Start PROVE IInv'
<1>. USE DEF chainVars, cacheVars, dbVars, Goto
<1>1. /\ pc = "off" /\ pc' = IF dbLatest = NoBlock THEN "putLatest" ELSE "load"
      /\ UNCHANGED <<chainVars, cacheVars, parts, dbVars, torn>>
  BY DEF Start
<1>2. TypeOK' /\ CachesOK' /\ pc' \notin Loading \cup Serving
  BY <1>1 DEF IInv, TypeOK, PCs, CachesOK, Loading, Serving, Agreed, Shutdown
<1>3. Unborn => Unborn'
  BY <1>1, GenesisBlock DEF Unborn, Fresh
<1>4. Settled => Settled'
  <2>1. SUFFICES ASSUME Settled PROVE Settled'
    OBVIOUS
  <2>2. dbLatest # NoBlock
    BY <2>1, NamesAssumption DEF Settled
  <2>3. pc' = "load"
    BY <1>1, <2>2
  <2>4. AccountsOK => AccountsOK'
    BY <1>1 DEF AccountsOK
  <2>. QED BY <1>1, <2>1, <2>3, <2>4 DEF Settled, Clean, Kept, Agreed
<1>. QED BY <1>2, <1>3, <1>4, NothingLoaded DEF IInv

LEMMA GenesisKeeps ==
  ASSUME IInv, PutGenesisLatest \/ PutGenesisHeight \/ PutGenesisBlock PROVE IInv'
<1>. USE DEF chainVars, cacheVars, Goto
<1>1. /\ pc \in {"putLatest", "putHeight", "putBlock"}
      /\ pc' \in {"putHeight", "putBlock", "load"}
      /\ UNCHANGED <<chainVars, cacheVars, parts, dbTxs, evmLatest, saved, torn>>
  BY DEF PutGenesisLatest, PutGenesisHeight, PutGenesisBlock
<1>2. Unborn
  BY <1>1 DEF IInv, Settled
<1>3. CachesOK' /\ pc' \notin Loading \cup Serving
  BY <1>1 DEF IInv, CachesOK, Loading, Serving, Agreed, Shutdown
<1>4. CASE PutGenesisLatest
  <2>1. /\ pc' = "putHeight" /\ dbLatest' = Genesis /\ UNCHANGED <<dbHeights, dbBlocks>>
    BY <1>4 DEF PutGenesisLatest
  <2>2. TypeOK'
    BY <1>1, <2>1, GenesisBlock DEF IInv, TypeOK, PCs
  <2>3. Unborn'
    BY <1>1, <1>2, <2>1 DEF Unborn, Fresh
  <2>. QED BY <1>3, <2>2, <2>3, NothingLoaded
<1>5. CASE PutGenesisHeight
  <2>1. /\ pc = "putHeight" /\ pc' = "putBlock" /\ dbHeights' = [h \in {0} |-> Genesis]
        /\ UNCHANGED <<dbLatest, dbBlocks>>
    BY <1>5 DEF PutGenesisHeight
  <2>2. DOMAIN dbHeights' = 0..0 /\ dbHeights'[0] = Genesis
    BY <2>1
  <2>3. TypeOK'
    BY <1>1, <2>1, <2>2, BoundsAssumption DEF IInv, TypeOK, PCs
  <2>4. ChainOf(dbHeights', Genesis)
    BY <2>2, GenesisBlock DEF ChainOf
  <2>5. Unborn'
    BY <1>1, <1>2, <2>1, <2>4, GenesisBlock DEF Unborn, Fresh
  <2>. QED BY <1>3, <2>3, <2>5, NothingLoaded
<1>6. CASE PutGenesisBlock
  <2>1. /\ pc = "putBlock" /\ pc' = "load" /\ dbBlocks' = dbBlocks \cup {Genesis}
        /\ UNCHANGED <<dbLatest, dbHeights>>
    BY <1>6 DEF PutGenesisBlock
  <2>2. TypeOK'
    BY <1>1, <2>1, GenesisBlock DEF IInv, TypeOK, PCs
  <2>3. /\ dbLatest = Genesis /\ ChainOf(dbHeights, Genesis) /\ dbBlocks = {} /\ dbTxs = {}
        /\ \A p \in Parts : saved[p] = IF p \in EvmParts THEN Genesis ELSE NoBlock
    BY <1>2, <2>1 DEF Unborn, Fresh
  <2>4. Kept(Genesis)' /\ ChainOf(dbHeights', Genesis)
    BY <1>1, <2>1, <2>3, GenesisChain DEF Kept, ChainOf
  <2>5. /\ \A p \in EvmParts : saved'[p] = Genesis
        /\ saved'["accounts"] = NoBlock /\ saved'["validators"] = NoBlock
    BY <1>1, <2>3 DEF Parts, EvmParts
  <2>6. \A h \in 0..Genesis.height :
          /\ h \in DOMAIN dbHeights' /\ dbHeights'[h] = Ancestor(Genesis, h)
          /\ dbHeights'[h] \in dbBlocks'
    BY <2>1, <2>4, GenesisBlock DEF ChainOf
  <2>7. AccountsOK'
    BY <2>1, <2>3, <2>5 DEF AccountsOK
  <2>8. Settled'
    BY <2>1, <2>3, <2>4, <2>5, <2>6, <2>7, GenesisBlock, NamesAssumption DEF Settled, Agreed
  <2>. QED BY <1>3, <2>2, <2>8, NothingLoaded
<1>. QED BY <1>4, <1>5, <1>6

\* A node can load its chain only when its database is set up.
LEMMA LoadNeedsChain ==
  ASSUME IInv, pc = "load", ~Unreadable PROVE Settled
<1>1. dbBlocks # {}
  <2>1. 0 \in Loaded \cup {0}
    OBVIOUS
  <2>. QED BY <2>1 DEF Unreadable
<1>. QED BY <1>1 DEF IInv, Unborn, Fresh

LEMMA LoadChainKeeps ==
  ASSUME IInv, LoadChain PROVE IInv'
<1>. USE DEF cacheVars, dbVars, Goto
<1>1. /\ pc = "load" /\ pc' = "rdPoS" /\ ~Unreadable
      /\ byHeight' = dbHeights /\ chain' = [h \in Loaded |-> dbHeights[h]]
      /\ blockByHash' = {dbHeights[h] : h \in Loaded}
      /\ txByHash' = UNION {Entries(dbHeights[h]) : h \in Loaded}
      /\ UNCHANGED <<cacheVars, parts, dbVars, torn>>
  BY DEF LoadChain
<1>2. Settled
  BY <1>1, LoadNeedsChain
<1>3. /\ dbLatest \in Blocks /\ dbLatest.height \in 0..MaxHeight /\ dbLatest.height \in Nat
      /\ Loaded = {h \in 0..dbLatest.height : h >= dbLatest.height - RecentBlocks}
  BY <1>2, BlockForm DEF Settled, Loaded
<1>4. \A h \in Loaded : dbHeights[h] = Ancestor(dbLatest, h) /\ dbHeights[h] \in dbBlocks
  BY <1>2, <1>3 DEF Settled
<1>5. TypeOK'
  <2>1. DOMAIN chain' \subseteq 0..MaxHeight
    BY <1>1, <1>3, BoundsAssumption
  <2>2. blockByHash' \subseteq Blocks
    BY <1>1, <1>4 DEF IInv, TypeOK
  <2>. QED BY <1>1, <2>1, <2>2 DEF IInv, TypeOK, PCs
<1>6. Settled'
  <2>1. AccountsOK => AccountsOK'
    BY <1>1 DEF AccountsOK
  <2>. QED BY <1>1, <1>2, <2>1 DEF Settled, Clean, Kept, Agreed
<1>7. CachesOK'
  BY <1>1 DEF IInv, CachesOK, Serving, Agreed, Shutdown
<1>8. MemoryAt(dbLatest)'
  <2>1. dbLatest \in Ancestors(dbLatest)
    BY <1>3, AncestorSelf
  <2>2. DOMAIN chain' = Loaded /\ \A h \in Loaded : chain'[h] = dbHeights[h]
    BY <1>1
  <2>3. /\ blockByHash' = {chain'[h] : h \in DOMAIN chain'}
        /\ txByHash' = UNION {Entries(chain'[h]) : h \in DOMAIN chain'}
    BY <1>1, <2>2
  <2>4. \A h \in DOMAIN chain' : chain'[h] = Ancestor(dbLatest, h)
    BY <1>4, <2>2
  <2>. QED BY <1>1, <1>3, <2>1, <2>2, <2>3, <2>4
    DEF MemoryAt, Loading, Serving, Agreed, Shutdown
<1>9. PartsAt(dbLatest)' /\ SavingAt(dbLatest)'
  BY <1>1 DEF PartsAt, SavingAt, Serving, Agreed, Shutdown, SavedAt, Parts
<1>10. \E b \in Blocks : MemoryAt(b)' /\ PartsAt(b)' /\ SavingAt(b)'
  <2>1. dbLatest' = dbLatest
    BY <1>1
  <2>. QED BY <1>3, <1>8, <1>9, <2>1
<1>. QED BY <1>5, <1>6, <1>7, <1>10 DEF IInv

\* A start that is refused.
LEMMA RefusedKeeps ==
  ASSUME IInv, LoadRefused \/ EvmHostRefused PROVE IInv'
<1>. USE DEF chainVars, cacheVars, dbVars, Goto
<1>1. /\ pc \in {"load", "evmHost"} /\ pc' = "refused"
      /\ UNCHANGED <<chainVars, cacheVars, parts, dbVars, torn>>
  BY DEF LoadRefused, EvmHostRefused
<1>2. TypeOK' /\ CachesOK' /\ pc' \notin Loading \cup Serving
  BY <1>1 DEF IInv, TypeOK, PCs, CachesOK, Loading, Serving, Agreed, Shutdown
<1>3. Unborn => Unborn'
  BY <1>1, GenesisBlock DEF Unborn, Fresh
<1>4. Settled => Settled'
  <2>1. AccountsOK => AccountsOK'
    BY <1>1 DEF AccountsOK
  <2>. QED BY <1>1, <2>1 DEF Settled, Clean, Kept, Agreed
<1>. QED BY <1>2, <1>3, <1>4, NothingLoaded DEF IInv

\* What the invariant says while the chain is in memory.
LEMMA LoadedForm ==
  ASSUME IInv, pc \in Loading \cup Serving
  PROVE  /\ TypeOK /\ Settled /\ CachesOK
         /\ \E b \in Blocks : MemoryAt(b) /\ PartsAt(b) /\ SavingAt(b)
BY DEF IInv, Unborn, Loading, Serving, Agreed, Shutdown

\* An entry of a part is written: the chain and what else is saved stay.
LEMMA SettledFrame ==
  ASSUME Settled, UNCHANGED <<dbLatest, dbHeights, dbBlocks, dbTxs, evmLatest>>,
         pc' \notin {"putLatest", "putHeight", "putBlock"},
         pc' \in Agreed => Clean,
         Clean => AccountsOK' /\ \A p \in EvmParts : saved'[p] = dbLatest,
         saved'["validators"] = Partial => torn' \/ pc' = "putValidators"
  PROVE  Settled'
BY DEF Settled, Clean, Kept, ChainOf

LEMMA LoadValidatorsKeeps ==
  ASSUME IInv, LoadValidators PROVE IInv'
<1>. USE DEF chainVars, cacheVars, dbVars, Goto
<1>1. /\ pc \in {"rdPoS", "putValidators"} /\ pc' \in {"rdPoS", "putValidators", "evmHost"}
      /\ UNCHANGED <<chainVars, cacheVars, dbLatest, dbHeights, dbBlocks, dbTxs, evmLatest, torn>>
  BY DEF LoadValidators
<1>2. pc \in Loading /\ pc' \in Loading /\ pc' \notin Serving /\ pc' \notin Agreed
  BY <1>1 DEF Loading, Serving, Agreed, Shutdown
<1>3. PICK b \in Blocks : MemoryAt(b)
  BY <1>2, LoadedForm
<1>4. TypeOK /\ Settled /\ CachesOK /\ Latest = b /\ b = dbLatest
  BY <1>2, <1>3, LoadedForm, LatestBlock DEF MemoryAt
<1>5. /\ \/ pc' = "putValidators" /\ saved' = [saved EXCEPT !["validators"] = Partial]
         \/ pc' = "rdPoS" /\ saved' = [saved EXCEPT !["validators"] = Genesis]
         \/ pc' = "evmHost" /\ saved' = saved
      /\ \/ parts' = parts /\ pc' # "evmHost"
         \/ /\ pc = "rdPoS" /\ pc' = "evmHost"
            /\ parts' = [parts EXCEPT !["validators"] =
                           IF saved["validators"] # Partial THEN b ELSE Partial]
  BY <1>4 DEF LoadValidators, PutFirst, PutRest, LoadPart
<1>6. TypeOK'
  <2>1. saved' \in [Parts -> Blocks \cup {NoBlock, Partial, Mixed}]
    BY <1>4, <1>5, GenesisBlock DEF TypeOK
  <2>2. parts' \in [Parts -> Blocks \cup {NoBlock, Partial, Mixed}]
    BY <1>4, <1>5 DEF TypeOK
  <2>. QED BY <1>1, <1>4, <2>1, <2>2 DEF TypeOK, PCs
<1>7. Settled'
  <2>1. \A p \in Parts : p # "validators" => saved'[p] = saved[p]
    BY <1>4, <1>5 DEF TypeOK
  <2>2. saved'["accounts"] = saved["accounts"] /\ \A p \in EvmParts : saved'[p] = saved[p]
    BY <2>1 DEF Parts, EvmParts
  <2>3. AccountsOK => AccountsOK'
    BY <1>1, <2>2 DEF AccountsOK
  <2>4. saved'["validators"] = Partial => torn' \/ pc' = "putValidators"
    <3>1. CASE pc' = "putValidators"
      BY <3>1
    <3>2. CASE pc' = "rdPoS"
      BY <1>4, <1>5, <3>2, GenesisBlock DEF TypeOK, Parts
    <3>3. CASE pc' = "evmHost"
      BY <1>1, <1>4, <1>5, <3>3 DEF Settled
    <3>. QED BY <1>1, <3>1, <3>2, <3>3
  <2>5. Clean => AccountsOK' /\ \A p \in EvmParts : saved'[p] = dbLatest
    BY <1>4, <2>2, <2>3 DEF Settled
  <2>. QED BY <1>1, <1>2, <1>4, <2>4, <2>5, SettledFrame
<1>8. CachesOK'
  BY <1>1, <1>2, <1>4 DEF CachesOK, Loading, Serving, Agreed, Shutdown
<1>9. MemoryAt(b)'
  <2>1. b = dbLatest /\ byHeight = dbHeights'
    BY <1>1, <1>2, <1>3 DEF MemoryAt
  <2>. QED BY <1>1, <1>2, <1>3, <2>1, MemoryFrame
<1>10. PartsAt(b)'
  <2>1. ASSUME pc' = "evmHost" PROVE parts'["validators"] = b \/ torn'
    <3>1. saved["validators"] = Partial => torn
      BY <1>4, <1>5, <2>1 DEF Settled
    <3>2. "validators" \in Parts
      BY DEF Parts
    <3>. QED BY <1>1, <1>4, <1>5, <2>1, <3>1, <3>2 DEF TypeOK
  <2>. QED BY <1>1, <1>2, <2>1 DEF PartsAt, SavedAt, Parts, Shutdown
<1>11. SavingAt(b)'
  BY <1>2 DEF SavingAt, Serving, Shutdown
<1>. QED BY <1>6, <1>7, <1>8, <1>9, <1>10, <1>11 DEF IInv

\* The height of the EVM agrees with the chain: the database is one of its latest block.
LEMMA LoadEvmHostKeeps ==
  ASSUME IInv, LoadEvmHost PROVE IInv'
<1>. USE DEF chainVars, cacheVars, dbVars, Goto
<1>1. /\ pc = "evmHost" /\ pc' = "accounts" /\ ~HeightMismatch
      /\ parts' = [p \in Parts |-> IF p \in EvmParts THEN saved[p] ELSE parts[p]]
      /\ UNCHANGED <<chainVars, cacheVars, dbVars, torn>>
  BY DEF LoadEvmHost, EvmParts
<1>2. /\ pc \in Loading /\ pc' \in Serving /\ pc' \in Agreed /\ pc' \notin Loading
      /\ pc' \notin Shutdown /\ pc \notin Serving
  BY <1>1 DEF Loading, Serving, Agreed, Shutdown
<1>3. PICK b \in Blocks : MemoryAt(b) /\ PartsAt(b)
  BY <1>2, LoadedForm
<1>4. /\ TypeOK /\ Settled /\ CachesOK /\ Height = b.height /\ b = dbLatest
      /\ byHeight = dbHeights
  BY <1>2, <1>3, LoadedForm, LatestBlock DEF MemoryAt
<1>5. Clean
  BY <1>1, <1>4 DEF HeightMismatch, Clean
<1>6. Kept(dbLatest) /\ AccountsOK /\ \A p \in EvmParts : saved[p] = dbLatest
  BY <1>4, <1>5 DEF Settled
<1>7. TypeOK'
  BY <1>1, <1>4 DEF TypeOK, PCs
<1>8. Settled'
  <2>1. AccountsOK'
    BY <1>1, <1>6 DEF AccountsOK
  <2>2. saved'["validators"] = Partial => torn' \/ pc' = "putValidators"
    BY <1>1, <1>4 DEF Settled
  <2>3. \A p \in EvmParts : saved'[p] = dbLatest
    BY <1>1, <1>6
  <2>. QED BY <1>1, <1>4, <1>5, <2>1, <2>2, <2>3, SettledFrame
<1>9. CachesOK'
  BY <1>1, <1>2, <1>4 DEF CachesOK
<1>10. MemoryAt(b)'
  BY <1>1, <1>2, <1>3, <1>4, <1>6, MemoryFrame DEF Kept
<1>11. PartsAt(b)'
  <2>1. parts'["validators"] = b \/ torn'
    BY <1>1, <1>3 DEF PartsAt, Parts, EvmParts
  <2>2. \A p \in EvmParts : parts'[p] = b
    BY <1>1, <1>4, <1>6 DEF Parts, EvmParts
  <2>3. \A p \in Parts : pc' \notin SavedAt(p)
    BY <1>1 DEF Parts, SavedAt, Shutdown
  <2>. QED BY <1>1, <2>1, <2>2, <2>3 DEF PartsAt
<1>12. SavingAt(b)'
  BY <1>1, <1>2, <1>6 DEF SavingAt, Kept, ChainOf
<1>. QED BY <1>7, <1>8, <1>9, <1>10, <1>11, <1>12 DEF IInv

LEMMA LoadAccountsKeeps ==
  ASSUME IInv, LoadAccounts PROVE IInv'
<1>. USE DEF chainVars, cacheVars, dbVars, Goto
<1>1. /\ pc \in {"accounts", "putAccounts"} /\ pc' \in {"accounts", "putAccounts", "up"}
      /\ UNCHANGED <<chainVars, cacheVars, dbLatest, dbHeights, dbBlocks, dbTxs, evmLatest, torn>>
  BY DEF LoadAccounts
<1>2. /\ pc \in Serving /\ pc' \in Serving /\ pc \in Agreed /\ pc' \in Agreed
      /\ pc' \notin Loading /\ pc' \notin Shutdown /\ pc' # "latest" /\ pc # "latest"
  BY <1>1 DEF Loading, Serving, Agreed, Shutdown
<1>3. PICK b \in Blocks : MemoryAt(b) /\ PartsAt(b) /\ SavingAt(b)
  BY <1>2, LoadedForm
<1>4. TypeOK /\ Settled /\ CachesOK /\ b = dbLatest /\ ChainOf(byHeight, b)
  BY <1>1, <1>2, <1>3, LoadedForm DEF MemoryAt
<1>5. /\ Clean /\ Kept(dbLatest) /\ AccountsOK /\ \A p \in EvmParts : saved[p] = dbLatest
  BY <1>2, <1>4 DEF Settled
<1>6. \/ /\ pc = "accounts" /\ pc' = "putAccounts" /\ saved["accounts"] = NoBlock
         /\ saved' = [saved EXCEPT !["accounts"] = Partial] /\ parts' = parts
      \/ /\ pc = "putAccounts" /\ pc' = "accounts" /\ parts' = parts
         /\ saved' = [saved EXCEPT !["accounts"] = Genesis]
      \/ /\ pc = "accounts" /\ pc' = "up" /\ saved' = saved /\ saved["accounts"] # NoBlock
         /\ parts' = [parts EXCEPT !["accounts"] = saved["accounts"]]
  BY DEF LoadAccounts, PutFirst, PutRest, LoadPart
<1>7. saved["accounts"] \in Blocks \cup {NoBlock, Partial, Mixed} /\ "accounts" \in Parts
  BY <1>4 DEF TypeOK, Parts
<1>8. /\ saved' \in [Parts -> Blocks \cup {NoBlock, Partial, Mixed}]
      /\ parts' \in [Parts -> Blocks \cup {NoBlock, Partial, Mixed}]
      /\ \A p \in Parts : p # "accounts" => saved'[p] = saved[p] /\ parts'[p] = parts[p]
  BY <1>4, <1>6, <1>7, GenesisBlock DEF TypeOK
<1>9. TypeOK'
  BY <1>1, <1>4, <1>8 DEF TypeOK, PCs
<1>10. AccountsOK' /\ (pc' = "up" => parts'["accounts"] = b \/ torn)
  <2>1. CASE pc' = "putAccounts"
    <3>1. torn \/ dbLatest = Genesis
      <4>1. saved["accounts"] = NoBlock /\ dbLatest # NoBlock
        BY <1>4, <1>6, <2>1, NamesAssumption
      <4>. QED BY <1>1, <1>5, <4>1 DEF AccountsOK
    <3>. QED BY <1>1, <2>1, <3>1 DEF AccountsOK
  <2>2. CASE pc' = "accounts"
    <3>1. saved'["accounts"] = Genesis /\ pc = "putAccounts"
      BY <1>4, <1>6, <1>7, <2>2 DEF TypeOK
    <3>2. torn \/ dbLatest = Genesis
      BY <1>5, <3>1 DEF AccountsOK
    <3>. QED BY <1>1, <2>2, <3>1, <3>2 DEF AccountsOK
  <2>3. CASE pc' = "up"
    <3>1. /\ pc = "accounts" /\ saved' = saved /\ saved["accounts"] # NoBlock
          /\ parts'["accounts"] = saved["accounts"]
      BY <1>4, <1>6, <1>7, <2>3 DEF TypeOK
    <3>2. torn \/ saved["accounts"] = dbLatest
      BY <1>5, <3>1 DEF AccountsOK
    <3>. QED BY <1>1, <1>4, <2>3, <3>1, <3>2 DEF AccountsOK
  <2>. QED BY <1>1, <2>1, <2>2, <2>3
<1>11. Settled'
  <2>1. \A p \in EvmParts : saved'[p] = dbLatest
    BY <1>5, <1>8 DEF EvmParts, Parts
  <2>2. saved'["validators"] = saved["validators"]
    BY <1>8 DEF Parts
  <2>3. saved'["validators"] = Partial => torn' \/ pc' = "putValidators"
    BY <1>1, <1>4, <2>2 DEF Settled
  <2>. QED BY <1>1, <1>4, <1>5, <1>10, <2>1, <2>3, SettledFrame
<1>12. CachesOK'
  BY <1>1, <1>2, <1>4 DEF CachesOK
<1>13. MemoryAt(b)'
  BY <1>1, <1>2, <1>3, <1>4, MemoryFrame
<1>14. PartsAt(b)'
  <2>1. /\ parts'["validators"] = parts["validators"]
        /\ \A p \in EvmParts : parts'[p] = parts[p]
    BY <1>8 DEF Parts, EvmParts
  <2>2. \A p \in Parts : pc' \notin SavedAt(p)
    BY <1>1 DEF Parts, SavedAt, Shutdown
  <2>. QED BY <1>1, <1>2, <1>3, <1>10, <2>1, <2>2 DEF PartsAt
<1>15. SavingAt(b)'
  BY <1>1, <1>2, <1>5 DEF SavingAt, Kept, ChainOf
<1>. QED BY <1>9, <1>11, <1>12, <1>13, <1>14, <1>15 DEF IInv

-----------------------------------------------------------------------------
(* A running node *)

\* processNextBlock takes memory and the parts to the new block.
LEMMA ProcessKeeps ==
  ASSUME IInv, NEW c \in Contents, ProcessNextBlock(c) PROVE IInv'
<1>. USE DEF chainVars, cacheVars, dbVars
<1>1. pc = "up" /\ pc' = "up" /\ UNCHANGED <<cacheVars, dbVars, torn>>
  BY DEF ProcessNextBlock
<1>2. /\ pc \in Serving /\ pc \in Agreed /\ pc \notin Loading /\ pc \notin Shutdown
      /\ pc \notin {"accounts", "putAccounts", "latest"}
  BY <1>1 DEF Loading, Serving, Agreed, Shutdown
<1>3. PICK b \in Blocks : MemoryAt(b) /\ PartsAt(b) /\ SavingAt(b)
  BY <1>2, LoadedForm
<1>4. /\ TypeOK /\ Settled /\ CachesOK /\ ChainOf(byHeight, b)
      /\ Height = b.height /\ Latest = b /\ b.height \in Nat
      /\ dbLatest \in Blocks /\ dbLatest.height \in 0..b.height
  BY <1>2, <1>3, LoadedForm, LatestBlock, BlockForm DEF MemoryAt
<1>5. PICK e \in Blocks : /\ e = Extend(b, c) /\ e.height = b.height + 1
                          /\ \A k \in 0..b.height : Ancestor(e, k) = Ancestor(b, k)
                          /\ Ancestors(e) = Ancestors(b) \cup {e}
  BY <1>1, <1>4, ExtendBlock DEF ProcessNextBlock
<1>6. PushBack(e) /\ parts' = [p \in Parts |-> IF parts[p] = b THEN e ELSE Mixed]
  BY <1>4, <1>5 DEF ProcessNextBlock
<1>7. /\ e.height \in 0..MaxHeight /\ e.height \in Nat /\ Ancestor(e, e.height) = e
  BY BlockForm, AncestorSelf
<1>8. /\ DOMAIN chain' = DOMAIN chain \cup {e.height} /\ chain'[e.height] = e
      /\ \A h \in DOMAIN chain : h # e.height => chain'[h] = chain[h]
      /\ \A h \in DOMAIN chain : h # e.height /\ h \in 0..b.height
  <2>1. \A h \in DOMAIN chain : h # e.height /\ h \in 0..b.height
    BY <1>3, <1>4, <1>5 DEF MemoryAt
  <2>. QED BY <1>6, <2>1 DEF PushBack
<1>9. /\ DOMAIN byHeight' = 0..e.height /\ byHeight'[e.height] = e
      /\ \A h \in 0..b.height : byHeight'[h] = Ancestor(e, h)
  <2>1. DOMAIN byHeight = 0..b.height /\ \A h \in 0..b.height : byHeight[h] = Ancestor(b, h)
    BY <1>4 DEF ChainOf
  <2>2. 0..e.height = 0..b.height \cup {e.height} /\ e.height \notin 0..b.height
    BY <1>4, <1>5
  <2>3. /\ DOMAIN byHeight' = 0..e.height
        /\ \A h \in 0..e.height : byHeight'[h] = IF h \in 0..b.height THEN byHeight[h] ELSE e
    BY <1>6, <2>1, <2>2 DEF PushBack
  <2>. QED BY <1>5, <2>1, <2>2, <2>3
<1>10. TypeOK'
  <2>1. blockByHash' \subseteq Blocks /\ DOMAIN chain' \subseteq 0..MaxHeight
    BY <1>4, <1>6, <1>7, <1>8 DEF PushBack, TypeOK
  <2>2. DOMAIN byHeight' \subseteq 0..MaxHeight
    BY <1>7, <1>9, BoundsAssumption
  <2>3. parts' \in [Parts -> Blocks \cup {NoBlock, Partial, Mixed}]
    BY <1>6
  <2>. QED BY <1>1, <1>4, <2>1, <2>2, <2>3 DEF TypeOK
<1>11. Settled'
  BY <1>1, <1>4 DEF Settled, Clean, Kept, ChainOf, AccountsOK
<1>12. CachesOK'
  BY <1>1, <1>4 DEF CachesOK
<1>13. MemoryAt(e)'
  <2>1. dbLatest' \in Ancestors(e)
    BY <1>1, <1>3, <1>5 DEF MemoryAt
  <2>2. DOMAIN chain' = {h \in 0..e.height : h >= dbLatest'.height - RecentBlocks}
    <3>1. DOMAIN chain = {h \in 0..b.height : h >= dbLatest.height - RecentBlocks}
      BY <1>3 DEF MemoryAt
    <3>2. e.height >= dbLatest.height - RecentBlocks
      BY <1>4, <1>5, BoundsAssumption
    <3>3. 0..e.height = 0..b.height \cup {e.height}
      BY <1>4, <1>5
    <3>. QED BY <1>1, <1>8, <3>1, <3>2, <3>3
  <2>3. \A h \in DOMAIN chain' : chain'[h] = Ancestor(e, h)
    <3>1. \A h \in DOMAIN chain : chain[h] = Ancestor(b, h)
      BY <1>3 DEF MemoryAt
    <3>. QED BY <1>5, <1>7, <1>8, <3>1
  <2>4. blockByHash' = {chain'[h] : h \in DOMAIN chain'}
    <3>1. blockByHash = {chain[h] : h \in DOMAIN chain} /\ blockByHash' = blockByHash \cup {e}
      BY <1>3, <1>6 DEF MemoryAt, PushBack
    <3>. QED BY <1>8, <3>1
  <2>5. txByHash' = UNION {Entries(chain'[h]) : h \in DOMAIN chain'}
    <3>1. txByHash' = txByHash \cup Entries(e)
      <4>1. txByHash \subseteq EntriesUpTo(e) /\ Entries(e) \subseteq EntriesUpTo(e)
        <5>1. txByHash \subseteq EntriesUpTo(b)
          BY <1>3, MemoryCovers
        <5>2. b \in Ancestors(e) /\ e \in Ancestors(e)
          BY <1>5, AncestorSelf
        <5>. QED BY <5>1, <5>2, EntriesOfChain
      <4>2. \A f \in txByHash, g \in Entries(e) : f.tx = g.tx => f = g
        BY <4>1, EntriesOfChain
      <4>3. txByHash' = txByHash \cup {g \in Entries(e) : \A f \in txByHash : f.tx # g.tx}
        BY <1>6 DEF PushBack, Insert
      <4>. QED BY <4>2, <4>3
    <3>2. \A x : x \in txByHash <=> \E h \in DOMAIN chain : x \in Entries(chain[h])
      BY <1>3 DEF MemoryAt
    <3>3. \A x : x \in txByHash' <=> \E h \in DOMAIN chain' : x \in Entries(chain'[h])
      BY <1>8, <3>1, <3>2
    <3>. QED BY <3>3
  <2>6. ChainOf(byHeight', e)
    BY <1>4, <1>5, <1>7, <1>9 DEF ChainOf
  <2>. QED BY <1>1, <1>2, <2>1, <2>2, <2>3, <2>4, <2>5, <2>6 DEF MemoryAt
<1>14. PartsAt(e)'
  <2>1. \A p \in Parts : parts[p] = b => parts'[p] = e
    BY <1>6
  <2>2. /\ parts["validators"] = b \/ torn
        /\ \A p \in EvmParts : parts[p] = b
        /\ parts["accounts"] = b \/ torn
    BY <1>2, <1>3 DEF PartsAt
  <2>3. /\ parts'["validators"] = e \/ torn'
        /\ \A p \in EvmParts : parts'[p] = e
        /\ parts'["accounts"] = e \/ torn'
    BY <1>1, <2>1, <2>2 DEF Parts, EvmParts
  <2>4. \A p \in Parts : pc' \notin SavedAt(p)
    BY <1>1 DEF Parts, SavedAt, Shutdown
  <2>. QED BY <2>3, <2>4 DEF PartsAt
<1>15. SavingAt(e)'
  BY <1>1, <1>2, <1>3 DEF SavingAt, Kept, ChainOf
<1>. QED BY <1>10, <1>11, <1>12, <1>13, <1>14, <1>15 DEF IInv

\* getBlock and getTx fill the caches from the database.
LEMMA LookupKeeps ==
  ASSUME IInv, LookupStep PROVE IInv'
<1>. USE DEF chainVars, cacheVars, dbVars
<1>1. pc = "up" /\ UNCHANGED <<pc, chainVars, parts, dbVars, torn>>
  BY DEF LookupStep, GetBlockByHash, GetBlockByHeight, GetTx, GetTxByIndex, CacheBlock, CacheTx
<1>2. pc \in Serving /\ pc \in Agreed
  BY <1>1 DEF Serving, Agreed
<1>3. TypeOK /\ Settled /\ CachesOK
  BY <1>2, LoadedForm
<1>4. /\ dbBlocks = Ancestors(dbLatest) /\ dbTxs = EntriesUpTo(dbLatest)
      /\ cachedBlocks \subseteq Ancestors(dbLatest) /\ cachedTxs \subseteq EntriesUpTo(dbLatest)
  BY <1>2, <1>3 DEF Settled, Kept, CachesOK
<1>5. cachedBlocks' \subseteq Ancestors(dbLatest)
  BY <1>4 DEF LookupStep, GetBlockByHash, GetBlockByHeight, GetTx, GetTxByIndex,
              CacheBlock, CacheTx
<1>6. cachedTxs' \subseteq EntriesUpTo(dbLatest)
  <2>1. CASE cachedTxs' = cachedTxs
    BY <1>4, <2>1
  <2>2. ASSUME NEW tx \in Txs, GetTx(tx) PROVE cachedTxs' \subseteq EntriesUpTo(dbLatest)
    BY <1>4, <2>2 DEF GetTx, CacheTx, Insert, EntryOf
  <2>3. ASSUME NEW a \in dbBlocks, NEW i \in DOMAIN BlockTxs(a), GetTxByIndex(a, i)
        PROVE  cachedTxs' \subseteq EntriesUpTo(dbLatest)
    <3>1. ReadTx(a, i) \in Entries(a)
      BY EntriesForm DEF ReadTx
    <3>2. Entries(a) \subseteq EntriesUpTo(dbLatest)
      BY <1>4 DEF EntriesUpTo
    <3>3. cachedTxs' = Insert(cachedTxs, {ReadTx(a, i)})
      BY <2>3 DEF GetTxByIndex, CacheTx
    <3>. QED BY <1>4, <3>1, <3>2, <3>3 DEF Insert
  <2>4. \/ cachedTxs' = cachedTxs
        \/ \E tx \in Txs : GetTx(tx)
        \/ \E a \in dbBlocks : \E i \in DOMAIN BlockTxs(a) : GetTxByIndex(a, i)
    BY DEF LookupStep, GetBlockByHash, GetBlockByHeight, CacheBlock
  <2>. QED BY <2>1, <2>2, <2>3, <2>4
<1>7. CachesOK'
  BY <1>1, <1>2, <1>5, <1>6 DEF CachesOK
<1>8. cachedBlocks' \subseteq Blocks
  BY <1>3, <1>4, <1>5 DEF TypeOK
<1>9. TypeOK'
  BY <1>1, <1>3, <1>8 DEF TypeOK
<1>10. Settled'
  BY <1>1, <1>3 DEF Settled, Clean, Kept, ChainOf, AccountsOK
<1>11. PICK b \in Blocks : MemoryAt(b) /\ PartsAt(b) /\ SavingAt(b)
  BY <1>2, LoadedForm
<1>12. MemoryAt(b)' /\ PartsAt(b)' /\ SavingAt(b)'
  BY <1>1, <1>11 DEF MemoryAt, PartsAt, SavingAt, Kept, ChainOf
<1>. QED BY <1>7, <1>9, <1>10, <1>12 DEF IInv

-----------------------------------------------------------------------------
(* The shutdown *)

\* A step of the shutdown that saves no block.
LEMMA ShutdownStep ==
  ASSUME IInv, NEW b \in Blocks, MemoryAt(b), PartsAt(b), SavingAt(b),
         pc \in Serving \ {"accounts", "putAccounts", "latest"},
         pc' \in Serving \ {"accounts", "putAccounts", "latest"}, pc' \in PCs,
         UNCHANGED <<chainVars, cacheVars, parts, dbLatest, dbHeights, dbBlocks, dbTxs, torn>>,
         evmLatest' \in -1..MaxHeight, pc' \in Shutdown => evmLatest' = b.height,
         saved' \in [Parts -> Blocks \cup {NoBlock, Partial, Mixed}],
         \A p \in Parts : pc' \in SavedAt(p) => saved'[p] = parts[p],
         Settled'
  PROVE  IInv'
<1>. USE DEF chainVars, cacheVars
<1>1. TypeOK /\ CachesOK /\ ChainOf(byHeight, b)
  BY LoadedForm DEF MemoryAt
<1>2. pc' \notin Loading /\ pc' \in Serving /\ pc \in Serving
  BY DEF Loading, Serving, Agreed, Shutdown
<1>3. TypeOK'
  BY <1>1 DEF TypeOK
<1>4. CachesOK'
  BY <1>1, <1>2 DEF CachesOK
<1>5. MemoryAt(b)'
  BY <1>1, <1>2, MemoryFrame
<1>6. PartsAt(b)'
  BY <1>2 DEF PartsAt
<1>7. SavingAt(b)'
  BY DEF SavingAt, Kept, ChainOf
<1>. QED BY <1>3, <1>4, <1>5, <1>6, <1>7 DEF IInv

\* When the height of the EVM is saved, the database contradicts itself unless no
\* block has been processed since the start.
LEMMA CleanShutdown ==
  ASSUME NEW b, MemoryAt(b), SavingAt(b), pc \in Shutdown, Clean
  PROVE  b = dbLatest
<1>1. dbLatest \in Blocks /\ b \in Blocks /\ dbLatest \in Ancestors(b) /\ b.height \in Nat
  BY LatestBlock, BlockForm DEF MemoryAt
<1>2. evmLatest = b.height /\ evmLatest # -1
  BY <1>1 DEF SavingAt
<1>3. dbLatest.height = b.height
  BY <1>2 DEF Clean
<1>. QED BY <1>1, <1>3, AncestorsForm

LEMMA StopKeeps ==
  ASSUME IInv, Stop PROVE IInv'
<1>. USE DEF chainVars, cacheVars, dbVars, Goto
<1>1. /\ pc = "up" /\ pc' = "~State"
      /\ UNCHANGED <<chainVars, cacheVars, parts, dbVars, torn>>
  BY DEF Stop
<1>2. /\ pc \in Serving \ {"accounts", "putAccounts", "latest"} /\ pc \in Agreed
      /\ pc' \in Serving \ {"accounts", "putAccounts", "latest"} /\ pc' \in PCs
      /\ pc' \notin Shutdown /\ pc \in Serving
  BY <1>1 DEF Serving, Agreed, Shutdown, PCs
<1>3. PICK b \in Blocks : MemoryAt(b) /\ PartsAt(b) /\ SavingAt(b)
  BY <1>2, LoadedForm
<1>4. TypeOK /\ Settled /\ Clean
  BY <1>2, LoadedForm DEF Settled
<1>5. Settled'
  <2>1. AccountsOK' /\ \A p \in EvmParts : saved'[p] = dbLatest
    BY <1>1, <1>4 DEF Settled, AccountsOK
  <2>2. saved'["validators"] = Partial => torn'
    BY <1>1, <1>4 DEF Settled
  <2>. QED BY <1>1, <1>4, <2>1, <2>2, SettledFrame
<1>6. \A p \in Parts : pc' \notin SavedAt(p)
  BY <1>1 DEF Parts, SavedAt, Shutdown
<1>7. evmLatest' \in -1..MaxHeight /\ saved' \in [Parts -> Blocks \cup {NoBlock, Partial, Mixed}]
  BY <1>1, <1>4 DEF TypeOK
<1>. QED BY <1>1, <1>2, <1>3, <1>5, <1>6, <1>7, ShutdownStep

LEMMA SavePartKeeps ==
  ASSUME IInv, NEW p \in Parts, NEW from, NEW to, SavePart(p, from, to),
         \/ p = "accounts" /\ from = "~State" /\ to = "~EVMHost"
         \/ p = "evm" /\ from = "evmBatch" /\ to = "~ContractManager"
         \/ p = "contracts" /\ from = "~ContractManager" /\ to = "~EventManager"
         \/ p = "events" /\ from = "~EventManager" /\ to = "~contracts"
         \/ p = "variables" /\ from = "~contracts" /\ to = "~rdPoS"
         \/ p = "validators" /\ from = "~rdPoS" /\ to = "~Storage"
  PROVE  IInv'
<1>. USE DEF chainVars, cacheVars, Goto
<1>1. /\ pc = from /\ pc' = to /\ saved' = [saved EXCEPT ![p] = parts[p]]
      /\ UNCHANGED <<chainVars, cacheVars, parts, dbLatest, dbHeights, dbBlocks, dbTxs,
                     evmLatest, torn>>
  BY DEF SavePart
<1>2. /\ pc \in Serving \ {"accounts", "putAccounts", "latest"} /\ pc \in Serving
      /\ pc' \in Serving \ {"accounts", "putAccounts", "latest"} /\ pc' \in PCs
  BY <1>1 DEF Serving, Agreed, Shutdown, PCs
<1>3. PICK b \in Blocks : MemoryAt(b) /\ PartsAt(b) /\ SavingAt(b)
  BY <1>2, LoadedForm
<1>4. TypeOK /\ Settled
  BY <1>2, LoadedForm
<1>5. /\ saved' \in [Parts -> Blocks \cup {NoBlock, Partial, Mixed}]
      /\ saved'[p] = parts[p] /\ \A q \in Parts : q # p => saved'[q] = saved[q]
  BY <1>1, <1>4 DEF TypeOK
<1>6. \A q \in Parts : pc' \in SavedAt(q) => saved'[q] = parts[q]
  <2>1. \A q \in Parts : pc \in SavedAt(q) => saved[q] = parts[q]
    BY <1>3 DEF PartsAt
  <2>2. \A q \in Parts : pc' \in SavedAt(q) => pc \in SavedAt(q) \/ q = p
    BY <1>1 DEF Parts, SavedAt, Shutdown
  <2>. QED BY <1>5, <2>1, <2>2
<1>7. evmLatest' \in -1..MaxHeight /\ (pc' \in Shutdown => evmLatest' = b.height)
  <2>1. pc' \in Shutdown => pc \in Shutdown
    BY <1>1 DEF Shutdown
  <2>. QED BY <1>1, <1>3, <1>4, <2>1 DEF TypeOK, SavingAt
<1>8. Settled'
  <2>1. pc' \notin {"putLatest", "putHeight", "putBlock"}
    BY <1>1
  <2>2. pc' \in Agreed => Clean
    <3>1. pc' \in Agreed => pc \in Agreed
      BY <1>1 DEF Agreed
    <3>. QED BY <1>4, <3>1 DEF Settled
  <2>3. saved'["validators"] = Partial => torn' \/ pc' = "putValidators"
    <3>1. CASE p = "validators"
      <4>1. parts["validators"] = b \/ torn
        BY <1>2, <1>3 DEF PartsAt
      <4>. QED BY <1>1, <1>5, <3>1, <4>1, NamesAssumption
    <3>2. CASE p # "validators"
      <4>1. saved'["validators"] = saved["validators"]
        BY <1>5, <3>2 DEF Parts
      <4>. QED BY <1>1, <1>4, <4>1 DEF Settled
    <3>. QED BY <3>1, <3>2
  <2>4. ASSUME Clean PROVE AccountsOK' /\ \A q \in EvmParts : saved'[q] = dbLatest
    <3>1. AccountsOK /\ \A q \in EvmParts : saved[q] = dbLatest
      BY <1>4, <2>4 DEF Settled
    <3>2. CASE p = "accounts"
      <4>1. pc' = "~EVMHost"
        BY <1>1, <3>2
      <4>2. \A q \in EvmParts : q \in Parts /\ q # p
        BY <3>2 DEF EvmParts, Parts
      <4>. QED BY <1>5, <3>1, <4>1, <4>2 DEF AccountsOK
    <3>3. CASE p # "accounts"
      <4>1. pc \in Shutdown /\ pc # "putAccounts" /\ pc # "~EVMHost" /\ pc' # "putAccounts"
        BY <1>1, <3>3 DEF Shutdown
      <4>2. b = dbLatest
        BY <1>3, <2>4, <4>1, CleanShutdown
      <4>3. saved'["accounts"] = saved["accounts"]
        BY <1>5, <3>3 DEF Parts
      <4>4. AccountsOK'
        BY <1>1, <3>1, <4>1, <4>3 DEF AccountsOK
      <4>5. \A q \in EvmParts : parts[q] = b /\ q \in Parts
        BY <1>2, <1>3 DEF PartsAt, EvmParts, Parts
      <4>. QED BY <1>5, <3>1, <4>2, <4>4, <4>5
    <3>. QED BY <3>2, <3>3
  <2>. QED BY <1>1, <1>4, <2>1, <2>2, <2>3, <2>4, SettledFrame
<1>. QED BY <1>1, <1>2, <1>3, <1>5, <1>6, <1>7, <1>8, ShutdownStep

\* From here on the database is refused by a start, if there is a new block.
LEMMA SaveHeightKeeps ==
  ASSUME IInv, SaveEvmHeight PROVE IInv'
<1>. USE DEF chainVars, cacheVars, Goto
<1>1. /\ pc = "~EVMHost" /\ pc' = "evmBatch" /\ evmLatest' = Height
      /\ UNCHANGED <<chainVars, cacheVars, parts, dbLatest, dbHeights, dbBlocks, dbTxs,
                     saved, torn>>
  BY DEF SaveEvmHeight
<1>2. /\ pc \in Serving \ {"accounts", "putAccounts", "latest"} /\ pc \in Agreed
      /\ pc' \in Serving \ {"accounts", "putAccounts", "latest"} /\ pc' \in PCs
      /\ pc \in Serving /\ pc' \notin Agreed
  BY <1>1 DEF Serving, Agreed, Shutdown, PCs
<1>3. PICK b \in Blocks : MemoryAt(b) /\ PartsAt(b) /\ SavingAt(b)
  BY <1>2, LoadedForm
<1>4. TypeOK /\ Settled /\ Clean
  BY <1>2, LoadedForm DEF Settled
<1>5. /\ evmLatest' = b.height /\ b.height \in 0..MaxHeight /\ b.height \in Nat
      /\ dbLatest \in Ancestors(b)
  BY <1>1, <1>3, LatestBlock, BlockForm DEF MemoryAt
<1>6. evmLatest' \in -1..MaxHeight
  BY <1>5, BoundsAssumption
<1>7. \A q \in Parts : pc' \in SavedAt(q) => saved'[q] = parts[q]
  <2>1. \A q \in Parts : pc \in SavedAt(q) => saved[q] = parts[q]
    BY <1>3 DEF PartsAt
  <2>2. \A q \in Parts : pc' \in SavedAt(q) => pc \in SavedAt(q)
    BY <1>1 DEF Parts, SavedAt, Shutdown
  <2>. QED BY <1>1, <2>1, <2>2
<1>8. Settled'
  <2>1. ASSUME Clean' PROVE AccountsOK'
    <3>1. dbLatest = b
      BY <1>1, <1>3, <1>5, <2>1, AncestorsForm DEF Clean
    <3>2. parts["accounts"] = b \/ torn
      BY <1>2, <1>3 DEF PartsAt
    <3>3. "accounts" \in Parts /\ pc' \in SavedAt("accounts")
      BY <1>1 DEF Parts, SavedAt, Shutdown
    <3>4. saved'["accounts"] = parts["accounts"]
      BY <1>7, <3>3
    <3>. QED BY <1>1, <3>1, <3>2, <3>4 DEF AccountsOK
  <2>2. Kept(dbLatest)' /\ \A p \in EvmParts : saved'[p] = dbLatest
    BY <1>1, <1>4 DEF Settled, Kept, ChainOf
  <2>. QED BY <1>1, <1>2, <1>4, <2>1, <2>2 DEF Settled
<1>9. saved' \in [Parts -> Blocks \cup {NoBlock, Partial, Mixed}]
  BY <1>1, <1>4 DEF TypeOK
<1>. QED BY <1>1, <1>2, <1>3, <1>5, <1>6, <1>7, <1>8, <1>9, ShutdownStep

LEMMA SaveBlocksKeeps ==
  ASSUME IInv, SaveBlocks PROVE IInv'
<1>. USE DEF chainVars, cacheVars, Goto
<1>1. /\ pc = "~Storage" /\ pc' = "latest"
      /\ dbBlocks' = dbBlocks \cup {chain[h] : h \in DOMAIN chain}
      /\ dbHeights' = [h \in DOMAIN dbHeights \cup DOMAIN chain |->
                         IF h \in DOMAIN chain THEN chain[h] ELSE dbHeights[h]]
      /\ dbTxs' = Put(dbTxs, UNION {Entries(chain[h]) : h \in DOMAIN chain})
      /\ UNCHANGED <<chainVars, cacheVars, parts, dbLatest, evmLatest, saved, torn>>
  BY DEF SaveBlocks
<1>2. /\ pc \in Serving \ {"accounts", "putAccounts", "latest"} /\ pc \in Shutdown
      /\ pc' \in Serving /\ pc' \in Shutdown /\ pc' \notin Agreed /\ pc' \notin Loading
      /\ pc' \in PCs /\ pc \in Serving
  BY <1>1 DEF Loading, Serving, Agreed, Shutdown, PCs
<1>3. PICK b \in Blocks : MemoryAt(b) /\ PartsAt(b) /\ SavingAt(b)
  BY <1>2, LoadedForm
<1>4. /\ TypeOK /\ Settled /\ CachesOK /\ ChainOf(byHeight, b)
      /\ Kept(dbLatest) /\ evmLatest = b.height
  BY <1>2, <1>3, LoadedForm DEF MemoryAt, SavingAt
<1>5. /\ dbLatest \in Blocks /\ dbLatest \in Ancestors(b) /\ dbLatest.height \in 0..b.height
      /\ b.height \in Nat /\ b.height \in 0..MaxHeight
      /\ \A j \in 0..dbLatest.height : Ancestor(dbLatest, j) = Ancestor(b, j)
  BY <1>3, LatestBlock, AncestorsForm, BlockForm DEF MemoryAt
<1>6. /\ Ancestors(b) = blockByHash \cup Ancestors(dbLatest)
      /\ EntriesUpTo(b) = txByHash \cup EntriesUpTo(dbLatest)
      /\ blockByHash = {chain[h] : h \in DOMAIN chain}
      /\ txByHash = UNION {Entries(chain[h]) : h \in DOMAIN chain}
  BY <1>3, MemoryCovers DEF MemoryAt
<1>7. dbBlocks' = Ancestors(b)
  BY <1>1, <1>4, <1>6 DEF Kept
<1>8. dbTxs' = EntriesUpTo(b)
  <2>1. /\ dbTxs' = {f \in dbTxs : \A e \in txByHash : f.tx # e.tx} \cup txByHash
        /\ EntriesUpTo(b) = txByHash \cup dbTxs
    BY <1>1, <1>4, <1>6 DEF Put, Kept
  <2>2. \A f \in dbTxs, e \in txByHash : f.tx = e.tx => f = e
    BY <2>1, EntriesOfChain
  <2>. QED BY <2>1, <2>2
<1>9. ChainOf(dbHeights', b)
  <2>1. DOMAIN dbHeights = 0..dbLatest.height
    BY <1>4 DEF Kept, ChainOf
  <2>2. 0..dbLatest.height \cup DOMAIN chain = 0..b.height
    <3>1. DOMAIN chain = {h \in 0..b.height : h >= dbLatest.height - RecentBlocks}
      BY <1>3 DEF MemoryAt
    <3>2. dbLatest.height \in Nat /\ dbLatest.height <= b.height
      BY <1>5
    <3>. QED BY <1>5, <3>1, <3>2, BoundsAssumption
  <2>3. \A h \in 0..b.height : dbHeights'[h] = IF h \in DOMAIN chain THEN chain[h] ELSE dbHeights[h]
    BY <1>1, <2>1, <2>2
  <2>4. \A h \in DOMAIN chain : chain[h] = Ancestor(b, h)
    BY <1>3 DEF MemoryAt
  <2>5. \A h \in 0..dbLatest.height : dbHeights[h] = Ancestor(b, h)
    BY <1>4, <1>5 DEF Kept, ChainOf
  <2>6. DOMAIN dbHeights' = 0..b.height
    BY <1>1, <2>1, <2>2
  <2>. QED BY <2>1, <2>2, <2>3, <2>4, <2>5, <2>6 DEF ChainOf
<1>10. Kept(b)'
  BY <1>7, <1>8, <1>9 DEF Kept, ChainOf
<1>11. TypeOK'
  <2>1. dbBlocks' \subseteq Blocks
    BY <1>1, <1>4, <1>6 DEF TypeOK
  <2>2. DOMAIN dbHeights' \subseteq 0..MaxHeight
    BY <1>5, <1>9, BoundsAssumption DEF ChainOf
  <2>. QED BY <1>1, <1>2, <1>4, <2>1, <2>2 DEF TypeOK
<1>12. Settled'
  <2>1. \A h \in 0..dbLatest.height :
          h \in DOMAIN dbHeights' /\ dbHeights'[h] = Ancestor(dbLatest, h) /\ dbHeights'[h] \in dbBlocks'
    <3>1. ASSUME NEW h \in 0..dbLatest.height PROVE h \in 0..b.height
      BY <1>5
    <3>2. \A h \in 0..b.height : Ancestor(b, h) \in Ancestors(b)
      BY DEF Ancestors
    <3>. QED BY <1>5, <1>7, <1>9, <3>1, <3>2 DEF ChainOf
  <2>2. ASSUME Clean
        PROVE  /\ b = dbLatest /\ AccountsOK' /\ \A p \in EvmParts : saved'[p] = dbLatest
    <3>1. b = dbLatest
      BY <1>2, <1>3, <2>2, CleanShutdown
    <3>2. AccountsOK'
      BY <1>1, <1>4, <2>2 DEF Settled, AccountsOK
    <3>. QED BY <1>1, <1>4, <2>2, <3>1, <3>2 DEF Settled
  <2>3. Clean' <=> Clean
    BY <1>1 DEF Clean
  <2>4. dbLatest' = dbLatest /\ dbLatest \in Blocks /\ pc' = "latest"
    BY <1>1, <1>5
  <2>5. saved'["validators"] = Partial => torn' \/ pc' = "putValidators"
    BY <1>1, <1>4 DEF Settled
  <2>6. Clean => Kept(dbLatest)'
    BY <1>10, <2>2, <2>4
  <2>. QED BY <1>2, <2>1, <2>2, <2>3, <2>4, <2>5, <2>6 DEF Settled
<1>13. CachesOK'
  BY <1>1, <1>2, <1>4 DEF CachesOK
<1>14. MemoryAt(b)'
  BY <1>1, <1>2, <1>3, <1>4, MemoryFrame
<1>15. PartsAt(b)'
  <2>1. \A q \in Parts : pc' \in SavedAt(q) => pc \in SavedAt(q)
    BY <1>1 DEF Parts, SavedAt, Shutdown
  <2>. QED BY <1>1, <1>2, <1>3, <2>1 DEF PartsAt
<1>16. SavingAt(b)'
  BY <1>1, <1>4, <1>10 DEF SavingAt
<1>. QED BY <1>11, <1>12, <1>13, <1>14, <1>15, <1>16 DEF IInv

\* The put of the latest block makes the database one of the new chain.
LEMMA SaveLatestKeeps ==
  ASSUME IInv, SaveLatest PROVE IInv'
<1>. USE DEF Goto
<1>1. /\ pc = "latest" /\ pc' = "off" /\ dbLatest' = Latest /\ Forget
      /\ UNCHANGED <<dbHeights, dbBlocks, dbTxs, evmLatest, saved, torn>>
  BY DEF SaveLatest
<1>2. pc \in Serving /\ pc \in Shutdown /\ pc \in Serving \ {"accounts", "putAccounts"}
  BY <1>1 DEF Serving, Shutdown
<1>3. PICK b \in Blocks : MemoryAt(b) /\ PartsAt(b) /\ SavingAt(b)
  BY <1>2, LoadedForm
<1>4. TypeOK /\ Settled /\ Latest = b /\ Kept(b) /\ evmLatest = b.height
  BY <1>1, <1>2, <1>3, LoadedForm, LatestBlock DEF SavingAt
<1>5. TypeOK' /\ CachesOK' /\ pc' \notin Loading \cup Serving
  BY <1>1, <1>4, NamesAssumption
     DEF Forget, TypeOK, PCs, CachesOK, Empty, Loading, Serving, Agreed, Shutdown
<1>6. \A p \in Parts : saved[p] = parts[p]
  <2>1. \A p \in Parts : pc \in SavedAt(p)
    BY <1>1 DEF Parts, SavedAt, Shutdown
  <2>. QED BY <1>3, <2>1 DEF PartsAt
<1>7. /\ \A p \in EvmParts : saved[p] = b
      /\ saved["accounts"] = b \/ torn
      /\ saved["validators"] = b \/ torn
  <2>1. /\ parts["validators"] = b \/ torn
        /\ \A p \in EvmParts : parts[p] = b
        /\ parts["accounts"] = b \/ torn
    BY <1>2, <1>3 DEF PartsAt
  <2>. QED BY <1>6, <2>1 DEF Parts, EvmParts
<1>8. Kept(b)' /\ dbLatest' = b
  BY <1>1, <1>4 DEF Kept, ChainOf
<1>9. \A h \in 0..b.height :
        h \in DOMAIN dbHeights' /\ dbHeights'[h] = Ancestor(b, h) /\ dbHeights'[h] \in dbBlocks'
  BY <1>1, <1>4 DEF Kept, ChainOf, Ancestors
<1>10. AccountsOK'
  BY <1>1, <1>7, <1>8 DEF AccountsOK
<1>11. saved'["validators"] = Partial => torn'
  BY <1>1, <1>4, <1>7, NamesAssumption DEF Settled
<1>12. Settled'
  BY <1>1, <1>7, <1>8, <1>9, <1>10, <1>11 DEF Settled, Agreed
<1>. QED BY <1>5, <1>12, NothingLoaded

\* A crash leaves the database as it is.
LEMMA CrashKeeps ==
  ASSUME IInv, Crash PROVE IInv'
<1>. USE DEF dbVars
<1>1. /\ pc # "off" /\ pc' = "off" /\ torn' = (torn \/ pc \in Unnoticed) /\ Forget
      /\ UNCHANGED dbVars
  BY DEF Crash
<1>2. TypeOK' /\ CachesOK' /\ pc' \notin Loading \cup Serving
  BY <1>1, NamesAssumption
     DEF IInv, Forget, TypeOK, PCs, CachesOK, Empty, Loading, Serving, Agreed, Shutdown
<1>3. Unborn => Unborn'
  BY <1>1, GenesisBlock DEF Unborn, Fresh
<1>4. Settled => Settled'
  <2>1. AccountsOK => AccountsOK'
    BY <1>1 DEF AccountsOK, Unnoticed
  <2>2. ASSUME Settled, saved["validators"] = Partial PROVE torn'
    BY <1>1, <2>2 DEF Settled, Unnoticed
  <2>. QED BY <1>1, <2>1, <2>2 DEF Settled, Clean, Kept, ChainOf, Agreed
<1>. QED BY <1>2, <1>3, <1>4, NothingLoaded DEF IInv

-----------------------------------------------------------------------------
(* The theorems *)

LEMMA InitIInv == Init => IInv
<1>. SUFFICES ASSUME Init PROVE IInv
  OBVIOUS
<1>1. TypeOK
  <2>1. /\ DOMAIN chain = {} /\ DOMAIN byHeight = {} /\ DOMAIN dbHeights = {}
        /\ blockByHash = {} /\ cachedBlocks = {} /\ dbBlocks = {}
    BY DEF Init, Empty
  <2>2. evmLatest \in -1..MaxHeight
    BY BoundsAssumption DEF Init
  <2>3. /\ parts \in [Parts -> Blocks \cup {NoBlock, Partial, Mixed}]
        /\ saved \in [Parts -> Blocks \cup {NoBlock, Partial, Mixed}]
    BY GenesisBlock DEF Init
  <2>4. pc \in PCs /\ dbLatest \in Blocks \cup {NoBlock} /\ torn \in BOOLEAN
    BY DEF Init, PCs
  <2>. QED BY <2>1, <2>2, <2>3, <2>4 DEF TypeOK
<1>2. CachesOK /\ pc \notin Loading \cup Serving
  BY DEF Init, CachesOK, Loading, Serving, Agreed, Shutdown
<1>3. Unborn
  BY DEF Init, Unborn, Fresh, Parts, EvmParts
<1>. QED BY <1>1, <1>2, <1>3 DEF IInv

LEMMA NextIInv == IInv /\ [Next]_vars => IInv'
<1>. SUFFICES ASSUME IInv, [Next]_vars PROVE IInv'
  OBVIOUS
<1>1. CASE UNCHANGED vars
  <2>1. /\ TypeOK' /\ CachesOK' /\ (Unborn => Unborn') /\ (Settled => Settled')
    BY <1>1 DEF IInv, vars, chainVars, cacheVars, dbVars, TypeOK, CachesOK, Unborn, Fresh,
      Settled, Clean, Kept, ChainOf, AccountsOK
  <2>2. \A b : (MemoryAt(b) /\ PartsAt(b) /\ SavingAt(b))
                 => MemoryAt(b)' /\ PartsAt(b)' /\ SavingAt(b)'
    BY <1>1 DEF vars, chainVars, cacheVars, dbVars, MemoryAt, PartsAt, SavingAt, Kept, ChainOf
  <2>3. pc' = pc
    BY <1>1 DEF vars
  <2>. QED BY <2>1, <2>2, <2>3 DEF IInv
<1>2. CASE StartStep
  BY <1>2, StartKeeps, GenesisKeeps, LoadChainKeeps, RefusedKeeps, LoadValidatorsKeeps,
     LoadEvmHostKeeps, LoadAccountsKeeps DEF StartStep
<1>3. CASE SaveStep
  <2>1. CASE SaveAccounts \/ SaveEvm \/ SaveContracts \/ SaveEvents \/ SaveVariables \/ SaveRdPoS
    BY <2>1, SavePartKeeps
       DEF SaveAccounts, SaveEvm, SaveContracts, SaveEvents, SaveVariables, SaveRdPoS, Parts
  <2>2. CASE Stop \/ SaveEvmHeight \/ SaveBlocks \/ SaveLatest
    BY <2>2, StopKeeps, SaveHeightKeeps, SaveBlocksKeeps, SaveLatestKeeps
  <2>. QED BY <1>3, <2>1, <2>2 DEF SaveStep
<1>4. CASE LookupStep
  BY <1>4, LookupKeeps
<1>5. CASE Crash
  BY <1>5, CrashKeeps
<1>6. ASSUME NEW c \in Contents, ProcessNextBlock(c) PROVE IInv'
  BY <1>6, ProcessKeeps
<1>. QED BY <1>1, <1>2, <1>3, <1>4, <1>5, <1>6 DEF Next

\* The invariant of the database, of memory and of the parts at every point at which
\* the process can be.
THEOREM Invariance == Spec => []IInv
BY InitIInv, NextIInv, PTL DEF Spec

\* Storage keeps its types in memory and in the database.
THEOREM TypeCorrect == Spec => []TypeOK
<1>1. IInv => TypeOK
  BY DEF IInv
<1>. QED BY <1>1, Invariance, PTL

\* blockExists and getBlock find the blocks of the chain and no others, by hash and by
\* height, after any sequence of shutdowns and crashes.
THEOREM ChainIsFound == Spec => []BlocksFound
BY FoundBlocks, Invariance, PTL

\* getTx finds the transactions of the chain and no others, with block and index.
THEOREM TransactionsAreFound == Spec => []TxsFound
BY FoundTxs, Invariance, PTL

\* getTxByBlockHashAndIndex never answers with another transaction.
THEOREM IndexIsRight == Spec => []IndexAnswers
BY IndexFound, Invariance, PTL

\* A node that the constructors let start is in the state of its latest block in every
\* part, unless a crash has hit one of the three points that no start can notice.
THEOREM StartsWhereItStopped == Spec => []StateOfTheChain
BY StateFound, Invariance, PTL
=============================================================================
