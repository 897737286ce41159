# Verification of OrbiterSDK (C++/EVM)

TLA+ models of the node in `src/src`, checked with TLC on small networks, and proofs about
them checked with TLAPS. Paths below are relative to `src/src`.

## The system and its parts

An OrbiterSDK node keeps a blockchain whose blocks are created by a validator that the
randomness of the previous block elects (rdPoS). Main parts:

| Part | State it keeps | Operations | Interacts with |
|---|---|---|---|
| `rdPoS` (core/rdpos) | `validators_`, `randomList_`, `validatorMempool_`, `bestRandomSeed_` | `validateBlock`, `processBlock`, `signBlock`, `addValidatorTx` | called by State under `stateMutex_`; reads Storage |
| `rdPoSWorker` (core/rdpos) | `latestBlock_`, `canCreateBlock_`, `stopWorker_` | its thread: creator waits for the transactions, participant commits and reveals a seed | State, P2P (broadcast, request) |
| `Syncer` (core/blockchain) | `latestBlock_`, `stopSyncer_` | its thread: build, sign, validate, process, broadcast a block | worker's flag, State, Storage, P2P |
| `State` (core/state) | accounts (in EVMHost), `mempool_` | `validateNextBlock`, `processNextBlock`, `addTx`, `ethCall`, `estimateGas` | rdPoS, ContractManager, EVMHost, Storage |
| `EVMHost` (core/evmhost) | accounts with original and current values, lists of what was touched | the EVM's callbacks, commit, revert | State, evmone |
| `Storage` (core/storage) | `chain_`, maps by hash and height, caches | `pushBack`, `pushFront`, `pop*`, `latest`, `getBlock`, `getTx`, save in the destructor | DB |
| P2P (net/p2p) | `sessions_`, `requests_`, `broadcastedMessages_`, write queues | handshake, requests and answers, broadcasts, discovery | State, Storage |
| Contracts (contract) | contracts, `Safe*` variables, call logger, events | create, call, commit or revert | State |
| HTTP JSON-RPC (net/http) | none | parse, call State or Storage, format | State, Storage |
| SnowmanVM (core/snowmanVM) | block trees, preferred block | AvalancheGo's VM interface | gRPC |

What is hard: three kinds of threads (worker, syncer, P2P handlers) and the main thread share
State, rdPoS and Storage with several mutexes; snapshots (the latest block, the list, the
mempool, the ready flag) are used long after they were read; broadcasts are sent once, arrive in
any order or not at all; shutdown races all of it. For each part, what makes it correct:

- consensus: no fork; the chain of a node only grows; rounds go on; seeds are committed before any
  is revealed; a validated block is still valid when it is applied;
- State: nodes with the same chain have the same accounts; a block holds valid transactions; a
  failed call leaves no trace but the fee; a simulated call leaves none at all;
- Storage: every block is found by hash and by height from memory, cache or DB; what is saved is
  what is loaded;
- P2P: what is registered is alive, what is queued is sent, answers match requests, a stopped manager
  keeps nothing;
- contracts: a call commits all of its changes or none; the templates keep their books: tokens are
  covered, and nobody loses by another's call.

## Modules

| Module | Models |
|---|---|
| `RdPoS` | a network of nodes: rdPoS, its worker, the Syncer, the block part of State and Storage, the broadcasts of ManagerNormal, and shutdown |
| `Ledger` | the abstract specification: one ledger, extended by the elected node only, read by all |
| `RdPoSInv` | the inductive invariant of `RdPoS` |
| `RdPoSProofs` | theorems and proofs about `RdPoS`: its invariants, that it implements `Ledger`, and what holds within a round |
| `MCRdPoS` | shuffles for the small networks of the runs |
| `State` | the accounts and the mempool of user transactions of several nodes: addTx, blocks, processTransaction, simulated calls, restart |
| `StateProofs` | theorems and proofs about `State` |
| `MCState` | the transactions and calls of the runs |
| `Storage` | what a node writes to its database and finds again: genesis, loading, lookups, saving by the destructors, crashes between any two writes |
| `StorageProofs` | theorems and proofs about `Storage` |
| `MCStorage` | blocks of two branches that share transactions |
| `P2P` | the sessions of several nodes: connecting, handshake, registration, reading, the write queue, errors, closing, requests and answers, stop |
| `P2PProofs` | theorems and proofs about `P2P` |
| `MCP2P` | two nodes with up to two connections |
| `ContractCalls` | calls and simulated calls of C++ contracts: `Safe*` variables, call logger, factory, native balances, events, commit and revert |
| `AtomicCalls` | the abstract specification: a call works on a copy, which is what it sees; the copy replaces the store as a whole, but for erased map entries and unpaid native transfers, or is dropped |
| `ContractCallsProofs` | theorems and proofs about `ContractCalls` |
| `MCContractCalls` | one deployed contract, one that calls can create, a user |
| `Dex` | ERC20, NativeWrapper, DEXV2Factory, DEXV2Pair, DEXV2Library and DEXV2Router02 with one pair |
| `DexProofs` | theorems and proofs about `Dex` |
| `MCDex` | its instance |
| `ERC721Mint` | ERC721 and ERC721Mint: mint, transfer, approvals, pre-burn and burn, and a restart |
| `ERC721MintProofs` | theorems and proofs about `ERC721Mint` |
| `MCERC721Mint` | its instance |
| `Sums` | lemmas about sums of functions over finite sets, used by `ContractCallsProofs` and `DexProofs` |

How they fit together. `RdPoS` decides which block comes next, and lets the user transactions of a block fail or
not; `State` decides which of the two happens and takes the elected creators from `RdPoS`. `State` treats a call of a
C++ contract as one step that succeeds or fails, which `ContractCalls` justifies (`ImplementsAtomicCalls`); `Dex`
and `ERC721Mint` rely on the same atomicity. `Storage` has every part of the node as "the state of block b", which is what
`State` and `RdPoS` hold between two blocks. `P2P` is the carrier: the loss and reordering that `RdPoS` assumes
of messages are what sessions that fail and reconnect produce.

### RdPoS: state and actions

Hashes and signatures are perfect: a block contains its parent instead of the parent's hash, a
`randomHash` transaction contains the value its seed must match, and the creator of a signed
block is a field. The randomness of a block is the sequence of its seeds, and `Shuffle` is any
function from randomness to a permutation of the validators.

- Per node, `height`, `chain`, `randomList`, `validatorMempool` are what Storage and rdPoS hold.
  `lock` is `stateMutex_` as held by `processNextBlock`, the one critical section that is split in
  two steps, because the code changes rdPoS (mempool cleared, list shuffled) before Storage has
  the block, and the worker reads both without `stateMutex_`.
- `wpc` and the `w...` variables are the worker: `loop` (`WorkerCheck`), `creation`/`ready`
  (`doBlockCreation`), `commit`/`hashes`/`reveal` (`doTxCreation`), `scan` (the rest of the for loop),
  `wait` (for the next block), `done`, `dead` (an exception ended the thread). `answer` is what a peer
  has answered to `requestValidatorTxs`; the transactions are added one at a time.
- `spc` and the `s...` variables are the syncer, one value of `spc` for each statement of
  `doValidatorBlock` between which another thread may matter. `sMempool` and `sList` are its copies.
- `hpc`, `hBlock` are the one handler that may be inside `blockBroadcastMutex_`. `net` is the set of
  messages in flight, delivered in any order: the P2P threads give no order either. `broadcasted` is
  `broadcastedMessages_`.
- `phase`, `stopWorker` are `Syncer::stop` and `rdPoSWorker::stop` on the main thread.

Steps that are one action although the code makes several: `validateNextBlock` reads the latest
block, then the list, and the caller validates twice. A handler holds `blockBroadcastMutex_`, so only
the node's own syncer could store a block in between; and it does so only when the node is the
creator of the round, in which case the handler's block, made by another node, is refused by either
validation (lemma `HandlerNotCreator` of `RdPoSProofs`). For the syncer's own block the same argument
holds the other way round. Messages that can have no effect any more are taken off `net` at once
(`NoEffect`), which changes no behaviour and keeps the state space small.

User transactions are an input here: `SyncerHaveTx` may find one at any time, and at the nodes in `Throwing` one of a
block's transactions may throw out of `processNextBlock` (`core/state.cpp:132`, reached by two transactions with one nonce
that are each valid, see `ProcessThrows` of `State`). The exception ends the creator's syncer (`SyncerThrows`), since nothing
catches it, and makes a handler forget the block (`HandlerThrows`); rdPoS and Storage have not changed by then. A node that
refuses a block because of its user transactions forgets it in the same way. `State` models the transactions themselves, and
takes in turn the elected creators from here (its constant `Creator`).

### State: state and actions

Per node:

- `curr` and `orig` are the two values of `EVMAccount::balance`; `noted` is `accessedAccountsBalances`, the
  addresses that the next commit or revert applies to; `nonce`, `code`, `shouldRevert` as in EVMHost;
- `mempool` is `mempool_`; `adding` holds the transactions that a thread inside `addTx` has validated
  under the shared lock and not yet inserted under the unique one (`AddTxValidate`, `AddTxInsert`);
- `pc`, `block`, `todo` are the thread that applies blocks: `FillBlock` (creator) or `ReceiveBlock`
  (others), `ValidateNextBlock`, `ProcessNextBlock` (takes `stateMutex_`), one `ProcessTx` or
  `ProcessThrows` per transaction, `FinishBlock` (`refreshMempool`, store, broadcast). `refused` and
  `broken` are final but for a restart: a broadcast block is handled once and there is no other way
  to get it. `applied` is the height; `ledger` the blocks that were broadcast;
- `checked` are the calls whose balance `estimateGas` has checked under the shared lock before it takes
  the unique one.

A transaction says what the code it calls will do (fail, self-destruct, pay out), so that every
node that runs it sees the same. `ProcessTx` follows `processTransaction`: the EVM branch moves the value
before its `try`, the other one inside it; the two `catch` blocks undo different things; only the listed
addresses are committed. `ProcessTx` is one step because all readers take `stateMutex_`. `Simulate` is the common
part of `ethCall` and `estimateGas` from the unique lock to `revert`.

Abstractions and assumptions:

- The caller of `processNextBlock` validates the block and `processNextBlock` validates it again; the
  model validates once, and `addTx` may still act between validation and the lock.
- `AfterUnderflow` is external: `uint256_t` throws on a subtraction below zero, and the left operand is
  then what the library computed in place (the magnitude of the difference).
- A simulated creation with value is left out: it takes a mutex that the thread holds, which is
  undefined and does not return normally.
- `addBalance` (a faucet for tests), storage slots of contracts, the random generator of the EVM and
  the calls from one contract to another are left out.

### Storage: state and actions

A hash stands for what it is the hash of, so a block is its height and the contents on the way to it, and a
part of the node (`accounts`, `evm`, `contracts`, `events`, `variables`, `validators`) is represented by the block whose
state it is in.

- In memory: `chain`, `blockByHash`, `byHeight`, `txByHash` and the two caches; `parts`. In the database: `dbLatest`,
  `dbHeights`, `dbBlocks`, `dbTxs`, `evmLatest`, `saved`.
- `pc` walks through the constructors (`StartStep`: genesis puts, `LoadChain`, `LoadValidators`, `LoadEvmHost`,
  `LoadAccounts`; `LoadRefused` and `EvmHostRefused` are their exceptions) and through the destructors
  (`SaveStep`). A RocksDB batch is one step, and so is a put; `Crash` may come between any two.
- While the node is up, `ProcessNextBlock` pushes a block and moves all parts; the `Get...` actions are the
  lookups, which fill the caches.
- `torn` is a history variable: it records the three points at which a crash cannot be noticed by a later start
  (accounts saved but not the EVM's height; genesis validators or accounts half written).

`popBack`, `popFront` and `periodicSaveToDB` have no caller. Lookups are atomic: they hold the locks of what
they read. Transactions of a chain are assumed to be different from each other, which State's nonces give.

### P2P: state and actions

A connection has two ends. For each end: `st` (handshake, open, closed), `rd` and `wr` (its asynchronous read and
write, with a result that waits for its callback), `closing` (`do_close` is posted), `out` (the message being written
and the queue behind it), `wire` (what the other end wrote and this one has not read). For each node: `sessions`,
`requests`, `tasks` (the thread pool) and `stopPc` (how far `ManagerBase::stop` is).

- Connecting and handshake: `ConnectToServer`, `OnAccept`, `FinishHandshake` (which registers the session, or closes
  it when there is one with that node already), `HandshakeFails`.
- io threads: `OnRead`, `AsyncHandleMessage`, `ReadFails`, `HandleReadError`, `WriteDone`, `WriteFails`,
  `HandleWriteError`, `DoClose`.
- Callers and pool: `SendRequestTo`, `BroadcastMessage`, `HandleRequest`, `HandleAnswer`, `HandleRefused` (a broadcast that
  the handler throws on, which disconnects its sender), `DropTask` (the manager is stopped).
- `StopBegin`, `StopClear`, `StopJoin` are `stop`.

`Write` is `Session::write`: a message is queued whatever has become of the write before it. When that write was cancelled by
`do_close`, or has failed, `outboundMessage_` is never null again (`wr` is `stuck`), and what is queued then stays in
`outboundMessages_` until the session is gone (`net/p2p/session.cpp:191`); `DoClose` and `HandleWriteError` leave the queue alone.
A node still writes to such a session when it is registered, which is the case after a message that was too large
(`net/p2p/session.cpp:92`).

A caller may give a request up at any time (most wait for two seconds, `ping` for ever): its entry stays in `requests_`, so no
separate action is needed, a late answer finds the entry as an early one does. Connections are reused once both ends
have forgotten them, so behaviours are not bounded by the number of connections.

### ContractCalls: state and actions

Each contract has a plain variable (`value`, `valuePtr`: the code of SafeUint, SafeInt, SafeBool, SafeString) and a map
(`map`, `mapPtr`, `erasedKeys`: SafeUnorderedMap). `used` and `registered` are the logger's list and the variables' flags;
`balances` the logger's native balances; `recent` the contracts of the running call.

- `BeginCall`, `BeginSimulation`: `callContract` for a transaction, `validateCallContractWithTx` for `eth_estimateGas`.
- What a running function does: `UseVariables` (read, assign, write or erase a key), `SendTokens`, `SendNative`,
  `CreateContract`, `EmitEvent`. Nested calls share the logger, and an exception ends the whole call.
- `View`: an `eth_call` on another thread, which copies a variable into its temporary next to a simulation.
- `Succeed`, `Fail`, then one `CommitStep` or `RevertStep` per variable and `CommitEnd` or `RevertEnd`: the destructor of the
  logger, in its order (variables, then contracts, then events).

What a running function sees is `Find` and `Read`: a temporary comes before `erasedKeys_`, as in `checkKeyAndCopy`. What a commit
leaves is `Merged`: an erased key goes, whatever its temporary is. The two differ for a key that was written after it had been
erased, see Contracts below.

### Dex: state and actions

A contract function is an operator from a state to the set of states it may end in: one, or none when it throws,
in which case the call is undone and is no step. `dex` holds balances and supplies of the three tokens (the pair is
one), native balances, the pair's reserves and `kLast`, the factory's `feeTo`. The actions are the functions that
the contracts register: `TokenCall` (transfer, deposit, withdraw), `FactoryCall`, `PairCall` (mint, burn, swap, skim, sync,
called directly, past the router), `LiquidityCall`, `NativeLiquidityCall`, `SwapCall` (the router).

The reserves are `uint112_t`, and the conversion of a balance to one is checked (`contract/templates/dexv2/dexv2pair.cpp:126`): `Update` is
the end of mint, burn, swap and sync, and throws when a balance is above `MaxReserve`. Balances are natural numbers: a sum above
256 bits would throw as well, which only takes steps away.

Left out: allowances (`approve` lets an owner set any allowance at any time), deadlines, price accumulators, paths of
more than two tokens, and ERC20Wrapper.

### ERC721Mint: state and actions

`owners`, `balances`, `approvals`, `operators`, `counter`, `byOwner`, `preBurned`, `burned` are the contract's maps, with
`Zero` for a missing entry. `dbPreBurned` is the one map in the database that may differ from memory: it alone loses
entries, and the destructor deletes nothing. `grantor` is a history variable (the owner at the time of an approval). The actions are the
functions that the contracts register, and `Restart`. Left out: rarity and URIs of tokens, `_ownedTokensIndex`, which nothing
reads, and `_ownedTokens` (below); a burn is one with a valid signature, the others throw.

## Runs

`CHECK_DEADLOCK FALSE` wherever the system may come to rest: a network at the height bound or shut down, nodes
that have refused a block, a bound on calls. `Restarts` checks deadlock: a process can always be started,
killed or go on.

| Run | Instance | Shows |
|---|---|---|
| `Pair` | `RdPoS`: 2 validators, one of them starting and stoppable; answers, lost transactions, fair | `SyncerSurvives`: block creation throws no exception; `StopEnds`: `Syncer::stop` returns; `ChainGrows`: all heights are reached unless a node is stopped |
| `Trio` | `RdPoS`: 3 validators, the creator changes, blocks may be lost, transactions may throw at one node | `Agreement`, `MempoolOfTheRound`, `ImplementsLedger` |
| `TrioCommitReveal` | `RdPoS`: 3 validators, 2 participants per round that change places, clocks that may be slow, 3 rounds | `CommitBeforeReveal` |
| `ObserverFaults` | `RdPoS`: 2 validators that change places, transactions may throw at one of them, and an observer that starts and stops | `IInv`, the inductive invariant, which contains `TypeOK`; `ProcessedBlockExtends` |
| `Replicas` | `State`: 2 nodes that take turns, conflicting transactions, creation, failed call, simulated calls, restart | `TypeOK`, `MempoolNeverAhead`, `MempoolPayable`, `UsersAgree`, `FailedTxReverted` |
| `Restarts` | `Storage`: a node that is started, stopped and killed at any write | `BlocksFound`, `TxsFound`, `IndexAnswers`: lookups find the chain and nothing else; `StateOfTheChain`: all parts are in the state of the latest block, but for the unnoticed crashes; `TypeOK` |
| `Sessions` | `P2P`: 2 nodes, 2 connections; one connects, requests, broadcasts, the other one may stop; fair | `RegisteredLive`, `StoppedEmpty`, `AnswersExpected`; `QueueDrains`: a queue has a write under way unless its session is closed or about to be; `DeadRemoved`: a session whose peer is gone is removed; `TypeOK` |
| `ContractCalls` | `ContractCalls`: two calls of up to three operations, with a contract to create, and views | `IInv`; `NativeConserved`; `ImplementsAtomicCalls`: all that a function saw takes effect, or nothing, but for erased entries that were written again |
| `Dex` | `Dex`: one user, who may also collect the protocol fee, seven calls | `Solvent`, `Supplies`, `FeeBase`, `QuoteHonoured`; `ShareKept`: no call lowers what a share is worth; `TypeOK` |
| `Tokens` | `ERC721Mint`: two users, two tokens, any number of calls and restarts | `BalancesMatch`; `LifeCycle`: owned or pre-burned, never both; `ApprovalsOfOwner`; `BurnFinal`; `TypeOK` |

Runs in which the code disagrees with what the repository says (each a finding in `PROJECT.json`):

| Run | The repository says | The code |
|---|---|---|
| `DocReadyFlag` | the flag says the worker is ready | it is stale in the next round, and the syncer spins for ever |
| `DocFailedTx` | the changes of a failed transaction are reverted | a failed call of a C++ contract refunds the value without taking it back, or twice |

`Replicas` is restricted to what is not known to go wrong (`DocFailedTx`, and under State below): no calls of C++ contracts that fail
or pay out, and simulated calls of `alice` that she can pay for and that do not self-destruct.

`StopEnds` holds for a pair of validators. With three, the ready flag may be stale (`DocReadyFlag`) and a worker may die
(below), so it is not claimed for three. `SyncerSurvives` is proved for any number (`SyncerNeverThrows`).

### Bounds

`RdPoS`: `MaxHeight` (no round is begun above it; 2 or 3) is the only bound on a counter. Two rounds are
needed for anything stale to meet something new, which is what the races above need. Two nodes are
enough for creator and participant to change places, three for a participant to keep its role while
the creator changes, or for two participants to depend on each other. `Seeds` with two values lets
the seeds decide who is elected; with one value the order still rotates with `Orders`. A node that
takes no part in a round may lag a block behind, which is what the observer is for. One node in `Throwing` is at times the
creator and at times not, so that both the syncer and the handler meet the exception. The runs split stops, losses,
answers, clocks and exceptions among them to keep each short; the theorems cover all of them at once.

`Replicas`: `MaxHeight` 2 gives each node one block to create and one to receive, and lets a
simulated call or an `addTx` begun before a block end after it. `MaxAdding` 1: threads inside `addTx` share
nothing but the two locks, so one that is stale is enough. Only `node1` simulates calls, so that a trace
left by one shows as a difference to `node2`; only `node2` restarts. The transactions are chosen to
conflict: two creations with one nonce of which one empties the account, a call that fails after its
value moved, and a transfer to the account under test. The theorems have no such bounds.

`Restarts`: `RecentBlocks` 1 and `MaxHeight` 3 put some blocks in memory and others in the database only. A height
may be reached more than once, because a crash loses the blocks since the last shutdown; the second content lets
the chain continue differently after it, with a transaction in another block and at another index, so that a
leftover of the first branch would show. The number of starts and crashes is not bounded.

`Sessions`: two connections at a time let one begin while another one ends, in particular a rejected duplicate
next to the registered one. `MaxMessages` 2 gives a queue behind a write, two requests whose answers cross, or
a request behind a refused or oversized broadcast. Only one node connects: see cross-connections below.

`ContractCalls`: two calls are needed for anything left by one to show in the other, three operations to
write, erase and write again (the last write is seen and then lost), or to create, write and pay. One key, since keys are independent of each other.

`Dex`: amounts are chosen so that divisions round in both directions; `MINIMUM_LIQUIDITY` is 1 instead of 1000, which
only scales. `MaxReserve` is 27 where a user starts with 30, so that balances above it come about by direct transfers and by
liquidity. Seven calls: deposit, create, fund, swap, switch the fee, mint or burn, and one more.

`Tokens`: one token more than needed, so that a call on one is seen to leave the other alone; the
theorems have no bound.

### Fairness

`RdPoS` (`FairSpec`): weak fairness of each thread of each node (the operating system schedules
them, and none of their steps can be disabled for ever by others except by waiting that the code
does), of the delivery of messages on a link (a session writes its queue in order, or closes), and of
each peer's answer for the nodes in `Answering` (the polling loops ask every session again and again).
User transactions keep coming because `SyncerHaveTx` is part of the syncer. Blocks are not lost in
`Pair`: the code cannot recover a lost block (`Syncer::doSync` is a TODO).

`P2P` (`FairSpec`): weak fairness of the callbacks of each end (reading, closing), of the thread pool and of the
second step of `stop`: threads that run. Nothing is assumed of the network (a write may never be done), of callers, or of
the join at the end of `stop`, which may wait for ever (below).

## Proofs

`RdPoSProofs` proves for every finite set of validators, every `MinValidators` below their number, any
shuffle, any seeds, any losses, stops, slow clocks and transactions that throw, and no bound on the height other than the
constant `MaxHeight`:

- `Invariance`: `Spec => []IInv`
- `TypeCorrect`: `Spec => []TypeOK`
- `NoFork`: `Spec => []Agreement`
- `NoStaleProcess`: `Spec => []ProcessedBlockExtends`
- `MempoolCurrent`: `Spec => []MempoolOfTheRound`
- `Refinement`: `Spec => ImplementsLedger`
- `RoundInvariance`: `Spec => []RoundInv`
- `SyncerNeverThrows`: `Spec => []SyncerSurvives`, provided that no clock is behind the timestamp of the parent
  (`ClockOutcomes = {TRUE}`; `validateNextBlock` compares timestamps, so a slow clock does make the creator throw) and that no user
  transaction throws out of `processNextBlock` (`Throwing = {}`)
- `CommittedFirst`: `Spec => []CommitBeforeReveal`, provided that nobody is shut down (`Stoppable = {}`; a stop ends the
  wait for the hashes and the seed is revealed anyway, see below)

Assumptions are those named in `RdPoS`: the validators are finitely many nodes, there are more of
them than `MinValidators`, and `Shuffle` returns permutations.

`Agreement` is not inductive. The argument: a block is created only by the validator its parent
elects, and every block anywhere (in a chain, on a link, at a handler) is in its creator's own chain
at its height (`CreatorHas`). If two nodes agree up to k-1, their blocks k have the same parent, so
the same creator, and both equal the block k of that creator. It remains that a creator never stores
two blocks of one height: it stores its own only on top of its own latest block (`Extends`, kept from
validation to `pushBack` by `HandlerOK` and `SyncerAt`), and the handler cannot move the latest block
under the syncer, because a handler that validated a block of another creator means that this node
is not the one its list elects (`SyncerAt`: while the syncer creates, the list says so; `ListOK`: the list
is that of the latest block unless one is being applied). These are the conjuncts of `IInv`: types,
messages, worker, linked chain, lock, list, handler, syncer, mempool.

The proof has one lemma per group of actions that touch the same state (`WorkerLocal`, `WorkerAdds`,
`SyncerLocal`, `HandleTxKeeps`, `HandleBlockKeeps`, `ProcessStep`, `PushStep`, ...), and frame lemmas for the
parts an action leaves alone.

`Refinement` maps the ledger to the longest chain. That it is one ledger is `Agreement`; what is added is that a
longest chain exists and that a step makes it at most one block longer, by the node that its last block elects.

The rounds. `RoundInv` says that a worker signs one value per height and keeps it until it is revealed (`RoundsOK`), that what
the syncer has copied is of the round it builds the block for (`SnapshotAt`), and that nobody has a block before its creator has
broadcast it (`UnseenAt`). From it follows that the hashes and seeds of a block match each other, so the block that the creator
builds is valid and stays so while it is signed (`BuiltInv`), which is `SyncerNeverThrows`. For `CommittedFirst`, `CommitInv` follows a
transaction wherever it may be (mempool, answer, link, copy, block): a hash that is known has been broadcast by its author, and a seed
that is known means that all participants have broadcast their hashes. The worker counts transactions of any kind while it waits
for the hashes; this turns out to be enough, because the first seed of a round can only follow the last hash.

`StateProofs` proves for all nodes, users, finite sets of signed transactions, calls, creators and
bounds:

- `TypeCorrect`: `Spec => []TypeOK`. The hard part is that a balance is never negative on any path
  through the refunds of `processTransaction`;
- `NeverAhead`: `Spec => []MempoolNeverAhead`, from `TypeOK`: `addTx` and `refreshMempool` only let in what has
  the nonce of its account, and no action lowers a nonce, so a thread between its two locks holds
  at worst a transaction that is too old;
- `StaysPayable`: `[]MempoolPayable`, from `PayableInv`: what is in the mempool or between the locks is covered by the balance of its
  signer (`Payable`), and at a node that is not broken nothing is noted between transactions and the original balance of
  a user is the current one (`Tidy`). Only a transaction of the account itself lowers its balance, and that uses up the nonce.
  Its hypotheses exclude what does break it, see State below: users are not contracts and are not paid by C++ contracts (`UsersApart`,
  `PayeesApart`: such a payment is not noted), and the value of a simulated call can be paid (`SimulationsPaid`: a debit
  that throws stays);
- `ReplicasAgree`: `[]UsersAgree`, under the same hypotheses and `CallsApart` (no simulated call is made in the name of a C++ contract, or
  self-destructs: `shouldRevert` would stay set). Two nodes may be many blocks apart, so an invariant that compares nodes
  cannot be inductive. `AgreeInv` says instead that there is a history H, with H[k][i] the accounts after i transactions of
  block k, that replays the ledger, and that every node that is not broken is somewhere in it: between two blocks at H[k][0], inside
  a block as far as it has come. A step of a node moves it along H, and the creator of a new block extends H. It
  needs that the outcome of a transaction depends only on the code, the nonces and the balances of users and C++
  contracts (`EvmRunAgrees`, `ClassicRunAgrees`), that a simulated call changes none of these (`SimulateView`), and that only the
  elected node can be inside a block that the ledger does not have (`OneExtends`);
- `FailuresRevert`: `Spec => FailedTxReverted` when C++ contracts do not fail (`ProgramsSucceed`; `DocFailedTx` shows what happens when they do)
  and the gas used is within the limit (`FeesLimited`; `gasUsed` is the limit less what is left). The catch block of EVM calls
  undoes the transfer exactly, by arithmetic that holds for all balances (`EvmReverts`).

`ContractCallsProofs` proves for any addresses, deployed contracts, users, keys, values, balances and numbers of calls
and operations (`ConstantsAssumption` only says that these sets fit together):

- `CallsInvariant`: `Spec => []IInv`
- `CallsAreAtomic`: `Spec => ImplementsAtomicCalls`
- `NativeIsConserved`: `Spec => []NativeConserved`. The invariant adds that what `processContractPayable` would write, the logger's
  balances over the accounts, has the same sum at any time during a call; a transfer changes two entries of it

What makes a call atomic is that commit and revert miss no variable. Atomicity is not inductive: a temporary that
differs from its value must belong to a variable on the logger's list (`CopiesFaithful`, which must allow the copies
that views leave behind and the erased keys that outlive a commit), the list has each variable once, with its flag
set (`UsedOnce`), its contracts exist (`UsedVarsOwned`), nothing is left of a call that is over or of a contract that was
destroyed (`NothingLeft`), and the balances have been applied when the logger commits (`CallState`). The refinement
maps `store` to what the next call and the views see: while the variables are being committed, one after the other, it already
is the state with all of them committed (`Committing`), while a call runs or is reverted the state before it. `working` is what
the running function sees (`Seen`), by the reads of the variables and not by what a commit would keep, and `erased` are the
entries in `erasedKeys_`. So the step that commits is `Succeed`, at which the abstract call drops exactly the erased entries, and
every step of the logger's destructor is invisible.

`ERC721MintProofs` proves for any users and any maximum supply `TypeCorrect`, `BalancesCorrect` (`BalancesMatch`), `LifeCycleCorrect`
(`LifeCycle`), `ApprovalsCorrect` (`ApprovalsOfOwner`) and `BurnsFinal` (`BurnFinal`). `LifeCycle` is not inductive because of the
restart: `OneClaim` adds that memory and database name the same user for a token, and that what the database has as pre-burned
is pre-burned or burned in memory. `BalancesMatch` is kept because `update_` moves one token between two sets and one unit
between two balances.

`StorageProofs` proves for any contents of blocks, any number of blocks kept in memory, and any sequence of starts, shutdowns and
crashes: `TypeCorrect`, `ChainIsFound` (`BlocksFound`), `TransactionsAreFound` (`TxsFound`), `IndexIsRight` (`IndexAnswers`) and
`StartsWhereItStopped` (`StateOfTheChain`), all from `Invariance`. The lookups are about a node that is up, which says nothing of the
database between two batches, so `IInv` says at each `pc` how database and memory are related: the database is that of an
unfinished genesis (`Unborn`) or holds the chain that ends at `dbLatest` (`Settled`); memory holds a chain that continues it (`MemoryAt`); the parts
are those of its last block as far as they are loaded (`PartsAt`) and saved (`SavingAt`). What makes the EVM's height a seal is that it is written after the parts it stands for: if it is the height
of the chain, and no crash was torn, everything saved is of that block (`Clean`).

`P2PProofs` proves for any nodes, connections, callers, requests and lengths of queues: `TypeCorrect`, `SessionsAlive` (`RegisteredLive`),
`StopIsFinal` (`StoppedEmpty`), `QueuesServed` (`QueueDrains`) from `SessionsInvariance`, and `AnswersAwaited` (`AnswersExpected`) from `Invariance`.
`QueueDrains` says for a session that is not closed that `outboundMessage_` is null exactly when nothing is queued, so a message
that comes between the last write and its callback has a write of its own; and that a queue left without one is of a session that
is closed or about to be, registered only if a message that was too large has closed it.
`SessionsInv` adds to the four invariants what the two ends of a connection know of each other (`SocketsOK`). An answer may
arrive over another connection than the request left on, so `AnswersExpected` needs a statement about the whole network: each
request is in at most one message, wherever that message is (a write queue, a wire, a thread pool), and only while the node that
asked has it in `requests_` without an answer (`TokensOK`), and messages are on their way to the node they are for (`AddressesOK`).

`DexProofs` proves for any users, amounts, `MINIMUM_LIQUIDITY`, `MaxReserve` and number of calls (`AddressesAssumption`: contracts have addresses of their
own): `TypeCorrect`, `Solvency` (`Solvent`), `SuppliesAdd` (`Supplies`), `FeeIsOfGrowth` (`FeeBase`), `SharesKeepWorth` (`ShareKept`) and `QuotesHonoured`
(`QuoteHonoured`). Each contract function is shown to keep `Good`: types (no checked subtraction hides a negative balance, and the reserves fit),
reserves covered by balances, wrapped tokens by native ones, `kLast` at most K, reserves only in a created pair, supplies the sums
of balances. `SharesKeepWorth` is about products of three variables, so the arithmetic is in lemmas of its own (what
rounding down a division may lose, that the protocol fee dilutes by no more than it measures), which the proof applies
function by function. `QuotesHonoured` shows that `getAmountOut` and `getAmountIn` round against the caller by enough for
the check of K in `swap`; that the new balance fits a reserve is a condition of the property.

`Sums` gives `NativeIsConserved` and `SuppliesAdd` what they need of `SumFunction`: unchanged outside an entry, changed by the
difference there. An induction over the set is replaced by a smallest counterexample, which needs only that the
natural numbers are well-founded.

Only model-checked: `ChainGrows`, `StopEnds` and `DeadRemoved`, since liveness under fairness is out of the prover's reach. Every other
property of a passing run is stated by a theorem. The history of `AgreeInv` is quantified over all functions, which TLC cannot
enumerate; TLC checks its consequence `UsersAgree`, and the hypotheses of the theorem hold in `Replicas`.

## Disagreements met without a run of their own

These were found while the code was modelled. The models either contain the behaviour, or leave the input out that
leads to it, as said.

Consensus:

- A second match in the worker's for loop unlocks a free mutex and throws (`core/rdpos.cpp:366`), although the loop is
  said to return "`true` when done running." (`core/rdpos.h:84`). In `RdPoS` the worker is then `dead`: the node signs nothing in
  later rounds, and no property says that a network of three goes on.
- A stop ends the wait for the other hashes (`core/rdpos.cpp:492`) and the seed is still revealed, so nobody stops in
  `TrioCommitReveal`. A stop before the start of the worker (`core/rdpos.cpp:526`) does nothing, and it then runs on.

State:

- A transaction that another thread has validated in `addTx` before a block and inserts after it stays in the mempool with a used
  nonce (`core/state.cpp:380`). Whatever is in the mempool is taken for valid (`core/state.cpp:76`), so the node puts it into its next
  block and applies it, although "The block will be rejected if there are invalid transactions in it" (`core/state.h:135`). Nodes
  without it refuse the block. `Replicas` has this behaviour (`refused`), and its properties hold in spite of it.
- A simulated call undoes too much or too little: who is paid by a C++ contract is not noted (`core/state.cpp:562`), so its original balance
  stays behind and a simulation that touches the account restores it; and a debit that throws in `ethCall` (`core/state.cpp:429`) leaves
  before anything is noted. Both are in the model; the inputs of `Replicas` leave them out.
- A contract creation moves its value to the new address but notes `tx.getTo()` (`core/state.cpp:133`), so the original balance of the
  new contract stays behind and a simulated call with value restores it. `Replicas` has this, and the contract's balance may
  differ between nodes; `UsersAgree` is about users.
- Two transactions of one account with one nonce may both be in a block; when the second one cannot be paid any more, the debit
  throws out of `processNextBlock` (`core/state.cpp:132`) with the accounts half changed. `ProcessThrows` has it, the node is `broken`, and
  `MempoolPayable` and `UsersAgree` except it; `RdPoS` has what follows for the threads (`Throwing`).
- `estimateGas` and `ethCall` leave `shouldRevert` set (`core/state.cpp:537`), although "the state is ALWAYS reverted"
  (`core/state.h:223`); the next transaction of an EVM contract then fails at this node only.

Storage:

- A crash between the puts of genesis (`core/storage.cpp:99`) leaves a database that no start accepts. One between the puts of the
  genesis validators (`core/rdpos.cpp:294`) or accounts leaves some of them, which every later start takes for all; one after the
  accounts are saved and before the EVM's height leaves accounts of a later block. `StateOfTheChain` excepts these three (`Unnoticed`).
- The lookups by block and index read a cached block with `at()` on maps that do not hold it, which throws; an index out of
  range is not checked. `IndexAnswers` speaks of the other cases.
- The constructor loads 501 blocks, not 500 (`core/storage.cpp:42`).

P2P:

- When both nodes connect to each other, each end may register a different connection and reject the other; both are
  then closed, although the comment says that the older one is kept (`net/p2p/managerbase.cpp:16`). In `Sessions` only one
  node connects.
- A read and a write that both fail deregister the session twice (`net/p2p/session.cpp:19`), and the second time it is by node
  id, whatever connection is registered by then.
- `stop` holds `stateMutex_` while it joins the io threads, one of which may wait for that mutex in `asyncHandleMessage`
  (`net/p2p/managerbase.cpp:110`, `128`). `StopJoin` has this wait, so `stop` is not claimed to return.
- A message that is too large ends the reading and closes the socket without unregistering the session (`net/p2p/session.cpp:92`), which
  `RegisteredLive` and `DeadRemoved` except. If a write was under way it is cancelled, and messages that are written to the
  registered session afterwards are queued and never sent, nor is the session ever removed by them; `QueueDrains` says that this
  is the only registered session of a running node to which it happens.
- An answer is sent to the session registered for the node id, not to the one that asked; `AnswersExpected` holds in spite of it.
- `maxConnections` is read once per pass of the discovery, and inbound connections are not limited. Nodes that were asked
  are forgotten after 10 seconds, where the comment says 60.

Contracts:

- A key that is written after it was erased is lost. `commit` of a map erases the keys in `erasedKeys_` after it has stored the
  temporaries, and does not clear `erasedKeys_` (`contract/variables/safeunorderedmap.h:149`), although its comment says "Commit the value. Updates the
  values from the pointers, nullifies them and unregisters the variable." (`safeunorderedmap.h:146`). The function that writes the key, in the same call or in
  one after a committed erase, and until the next revert of the map, sees it; after a successful commit it is gone. `ContractCalls` has it, and
  `AtomicCalls` states it: an entry in `erased` does not get into the store. The only contract of the repository that erases keys is
  ERC721Mint (`contract/templates/erc721mint.cpp:430`), from `preBurnedTokens_`; a burned token is not pre-burned again (`LifeCycle`), so no
  key of it is written after its erase, and `ERC721Mint` may treat the map as a plain one.
- SafeAddress, SafeTuple, SafeArray and SafeVector never reset `registered_`, although commit and revert are to do so
  (`contract/variables/safebase.h:85`, `94`). What a second call changes in such a variable is seen but neither committed nor
  reverted. DEXV2Factory keeps `allPairs_` in a SafeVector and `feeTo_` in a SafeAddress. No `assign` of SafeVector registers the
  variable at all (`contract/variables/safevector.h:123`). None of these variables is in `ContractCalls`; `Dex` has `feeTo_` as calls see it.
- The native transfers of a function that is not payable are dropped (`contract/contractmanager.cpp:154`). The model has it.
- A constructor that throws leaves the logger with variables that are gone (`contract/contractfactory.h:132`, a TODO). In the
  model constructors do not throw.
- The call variables (`callVars`) of a contract are not restored after a nested call into it; the destructors of contracts that a failed call has
  created write to the database; concurrent `estimateGas` calls replace each other's logger; a view reads what a
  simulation has written. The model has the last one and one simulation at a time.

Dex:

- `getReserves` of the library does not sort, although "Fetches and sorts the reserves for a pair."
  (`contract/templates/dexv2/dexv2library.h:44`), and `_addLiquidity` relies on it. The model follows the code; `QuoteHonoured` is about paths
  in the order of the pair.
- `swap` throws when the pair holds more than its reserve and pays out less than the surplus
  (`contract/templates/dexv2/dexv2pair.cpp:237`); its check of the liquidity joins the two tokens with `&&`.
- `swapNativeForExactTokens` returns no excess, `addLiquidityNative` takes `amountNativeMin` for the amount desired,
  `removeLiquidityNative` pays the caller and not `to`, `setFeeTo` may be called by anybody. All are in the model.
- ERC20Wrapper's withdraw refuses to withdraw everything (`<=`); the destructor of the factory never increments the
  index it saves `allPairs_` under. Neither is modelled.

ERC721:

- `totalSupply_`, "How many tokens exist." (`contract/templates/erc721mint.h:29`), is not lowered when a token is burned; nor was it in
  the Solidity contract it is taken from.
- The pre-burned entry of a burned token is erased from memory (`contract/templates/erc721mint.cpp:430`) but never from the
  database, so it comes back at a node that restarts. The model has it, and `LifeCycle` and `BurnFinal` hold in spite of it.
- `_ownedTokens` is written by mint only and overwritten after a transfer, and `getAllTokensOwnedByUser` returns its indices
  (`contract/templates/erc721mint.cpp:372`). Nothing else reads the map, and it is not modelled.
- The rarity "gold" is never given: a number divisible by 1000 is divisible by 100, which is tested first
  (`contract/templates/erc721mint.cpp:379`).

Merkle:

- Sorted pairs make the root independent of the order of two siblings, so a root fixes the transactions of a block but not
  their order; `getProof` reads past the end of a layer for a leaf without a sibling (`utils/merkle.cpp:50`). Not modelled.

Data races and locks, which have no outcome that could be enumerated and are taken as atomic in the models:

- `rdposGetRandomList` returns a reference that is copied without the lock (`core/state.h:91`); the counter of a
  broadcast is incremented after the lock has been released (`net/p2p/managernormal.cpp:132`); `estimateGas` replaces
  `currentRandomGen_` without a lock (`core/state.cpp:499`); views write the temporaries of variables under a shared lock
  (`contract/variables/safeuint.h:56`).
- `currentChainSize` locks `chainLock_` shared twice (`core/storage.cpp:451`), which may block when a writer waits in between;
  `ethCall` and `estimateGas` lock `stateMutex_` shared while they hold it exclusively (`core/state.cpp:428`).

## Plan

1. Storage slots of EVM contracts in `State`.
2. SafeVector (that a contract sees what a `std::vector` would hold, whatever is still in the temporary), SafeArray and SafeTuple;
   Merkle proofs; paths of several pairs in `Dex`.

## Not modelled

- SnowmanVM and gRPC: commented out of the build (`core/CMakeLists.txt:4`).
- HTTP JSON-RPC, ABI, hex, strings, JSON: conversions without state, which unit tests check; their operations are those
  of State and Storage.
- The database wrapper: I/O over a library; `Storage` uses its puts and batches as atomic steps.
- Serialization and Merkle trees: pure functions, which unit tests check; hashes are perfect in the models.
- The arithmetic operators of `SafeUint_t` and `SafeInt_t`: each is a checked operation of the big-integer library on the
  temporary; the models have what they do to the temporary.
- The EVM and cryptography: libraries, used through what they return.
- Executables, and vendored code. The latter (a JSON library, a test framework) is most of the lines under `src/src`, so
  the models stand for a small share of all lines and for most of the node's own stateful code in `core`, `net/p2p` and
  `contract`.
