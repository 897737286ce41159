------------------------------- MODULE RdPoS -------------------------------
(***************************************************************************)
(* The rdPoS consensus of a network of OrbiterSDK nodes.                   *)
(*                                                                         *)
(* Every node runs three threads over the state shared by State, rdPoS and *)
(* Storage:                                                                *)
(*   - the rdPoS worker  (rdPoSWorker::workerLoop, core/rdpos.cpp),        *)
(*   - the syncer        (Syncer::validatorLoop, core/blockchain.cpp),     *)
(*   - the P2P handlers of broadcast messages (net/p2p/managernormal.cpp), *)
(* and the main thread may shut the node down (Syncer::stop).              *)
(*                                                                         *)
(* Hashes and signatures are taken to be perfect: a hash stands for the    *)
(* value it is the hash of (a block holds its parent in "prev", a          *)
(* randomHash transaction holds the value its seed has to match) and a     *)
(* signed value holds its signer.  User transactions are left out of the   *)
(* blocks; that one is there to be put into a block is an input.           *)
(***************************************************************************)
EXTENDS Integers, FiniteSets

CONSTANTS
  Nodes,          \* all nodes of the network
  Validators,     \* the nodes that hold a validator key (rdPoS::validators_)
  MinValidators,  \* rdPoS::minValidators_
  Seeds,          \* the values Hash::random() may return in doTxCreation
  NoSeed,         \* the worker holds no seed
  Shuffle(_),     \* randomness |-> RandomGen::shuffle of validators_ seeded with it
  ClockOutcomes,  \* may a creator's clock be behind its parent's timestamp?
  Starting,       \* the nodes that are still starting, the others are in their loops
  Stoppable,      \* the nodes whose operator may shut them down
  Answering,      \* the nodes whose answers to requests arrive within 2 seconds
  LossyKinds,     \* which broadcasts may be lost on a link: "tx", "block"
  Throwing,       \* the nodes at which a user transaction of a block may throw
  MaxHeight       \* bound: no round is started for a block above this height

NumValidators == Cardinality(Validators)

\* The vectors of validators, indexed from 0 as in the code.
ValidatorLists == [0..(NumValidators - 1) -> Validators]

\* The randomness of a block: its seeds in block order, none for genesis.
Randomnesses == [1..MinValidators -> Seeds] \cup {<<>>}

ASSUME NodesAssumption == Validators \subseteq Nodes /\ IsFiniteSet(Validators)
ASSUME MinAssumption == MinValidators \in Nat \ {0} /\ MinValidators < NumValidators
ASSUME ShuffleAssumption ==
  \A r \in Randomnesses :
    /\ Shuffle(r) \in ValidatorLists
    /\ \A i, j \in 0..(NumValidators - 1) : Shuffle(r)[i] = Shuffle(r)[j] => i = j
ASSUME SeedsAssumption == NoSeed \notin Seeds
ASSUME ClockAssumption == ClockOutcomes \subseteq BOOLEAN
ASSUME SubsetsAssumption ==
  /\ Starting \subseteq Nodes /\ Stoppable \subseteq Nodes
  /\ Answering \subseteq Nodes /\ Throwing \subseteq Nodes
ASSUME LossyAssumption == LossyKinds \subseteq {"tx", "block"}
ASSUME MaxHeightAssumption == MaxHeight \in Nat

VARIABLES
  \* Storage, State and rdPoS of each node
  height,           \* storage_.latest()->getNHeight()
  chain,            \* Storage::chain_, a function of the heights 0..height
  randomList,       \* rdPoS::randomList_
  validatorMempool, \* rdPoS::validatorMempool_
  lock,             \* who is inside processNextBlock with stateMutex_ held
  \* rdPoSWorker
  wpc, wHeight, wCreator, wIndex, wSeed, answer, canCreateBlock,
  \* Syncer
  spc, sHeight, sMempool, sList, sBlock,
  \* ManagerNormal: the block handler, broadcastedMessages_, the links
  hpc, hBlock, broadcasted, net,
  \* Syncer::stop, run by the main thread
  phase, stopWorker

storeVars   == <<height, chain, randomList, validatorMempool, lock>>
workerVars  == <<wpc, wHeight, wCreator, wIndex, wSeed, answer>>
syncerVars  == <<spc, sHeight, sMempool, sList, sBlock>>
handlerVars == <<hpc, hBlock>>
netVars     == <<broadcasted, net>>
stopVars    == <<phase, stopWorker>>
vars == <<storeVars, workerVars, canCreateBlock, syncerVars, handlerVars,
          netVars, stopVars>>

-----------------------------------------------------------------------------
(* Transactions, blocks and the tests the code makes on them *)

Functions == {"hash", "seed"}  \* randomHash 0xcfffe746, random 0x6fc5a2d6

\* A TxValidator: "value" is the seed, or what the seed's Sha3 has to match.
TxValidators == [from : Validators, fn : Functions, height : Nat, value : Seeds]

NoBlock == [height |-> -1]

Genesis == [height |-> 0, prev |-> NoBlock, creator |-> NoBlock,
            txs |-> <<>>, finalized |-> TRUE]

\* rdPoS::parseTxSeedList on the transactions of a block, in block order.
ParseTxSeedList(txs) ==
  IF txs = <<>> THEN <<>>
  ELSE [i \in 1..MinValidators |-> txs[MinValidators + i].value]

\* The list that rdPoS builds once b is the latest block.
ListAfter(b) == Shuffle(ParseTxSeedList(b.txs))

\* The validators that make the random transactions of a round.
Participants(list) == {list[i] : i \in 1..MinValidators}

Latest(n) == chain[n][height[n]]

\* Storage::blockExists
BlockExists(n, b) == \E k \in 0..height[n] : chain[n][k] = b

\* rdPoS::validateBlock
ValidateBlock(list, b) ==
  /\ b.finalized
  /\ b.creator = list[0]
  /\ DOMAIN b.txs = 1..(2 * MinValidators)
  /\ \A i \in 1..(2 * MinValidators) : b.txs[i].height = b.height
  /\ \A i \in 1..MinValidators :
       LET hashTx == b.txs[i]
           seedTx == b.txs[MinValidators + i]
       IN  /\ hashTx.from = list[i] /\ seedTx.from = list[i]
           /\ hashTx.fn = "hash" /\ seedTx.fn = "seed"
           /\ seedTx.value = hashTx.value

\* State::validateNextBlock.  The timestamp test is the "finalized" one: a block
\* that is finalized carries a timestamp not below its parent's.
ValidateNextBlock(n, b) ==
  /\ b.height = height[n] + 1
  /\ b.prev = Latest(n)
  /\ ValidateBlock(randomList[n], b)

-----------------------------------------------------------------------------
(* What the threads share: the validator mempool, blocks and broadcasts *)

\* Mutant: the test that the transaction is for the next block is missing.
AcceptsAnyHeight(n, tx) ==
  \/ tx \in validatorMempool[n]
  \/ LET sameSender == {t \in validatorMempool[n] : t.from = tx.from}
     IN  /\ tx.from \in Participants(randomList[n])
         /\ Cardinality(sameSender) < 2
         /\ \A t \in sameSender : t.fn # tx.fn

\* rdPoS::addValidatorTx: does it return true?
Accepts(n, tx) ==
  \/ tx \in validatorMempool[n]
  \/ LET sameSender == {t \in validatorMempool[n] : t.from = tx.from}
     IN  /\ tx.height = height[n] + 1
         /\ tx.from \in Participants(randomList[n])
         /\ Cardinality(sameSender) < 2
         /\ \A t \in sameSender : t.fn # tx.fn

\* State::addValidatorTx, which needs stateMutex_.
AddValidatorTx(n, tx) ==
  /\ lock[n] = "free"
  /\ validatorMempool' =
       [validatorMempool EXCEPT ![n] = IF Accepts(n, tx) THEN @ \cup {tx} ELSE @]
  /\ UNCHANGED <<height, chain, randomList, lock>>

\* Mutant: the creator does not shuffle the list for its own block.
BeginUnshuffled(n, b, owner) ==
  /\ lock[n] = "free"
  /\ lock' = [lock EXCEPT ![n] = owner]
  /\ validatorMempool' = [validatorMempool EXCEPT ![n] = {}]
  /\ randomList' = [randomList EXCEPT ![n] = IF owner = "syncer" THEN @ ELSE ListAfter(b)]
  /\ UNCHANGED <<height, chain>>

\* State::processNextBlock from the moment it holds stateMutex_ to the end of
\* rdPoS::processBlock: the new block is not in Storage yet.  The user transactions
\* of the block have been processed; TransactionThrows is the case that one has thrown.
BeginProcess(n, b, owner) ==
  /\ lock[n] = "free"
  /\ lock' = [lock EXCEPT ![n] = owner]
  /\ validatorMempool' = [validatorMempool EXCEPT ![n] = {}]
  /\ randomList' = [randomList EXCEPT ![n] = ListAfter(b)]
  /\ UNCHANGED <<height, chain>>

\* A user transaction of the block throws out of processNextBlock (ProcessThrows of
\* State): stateMutex_ is free again, and neither rdPoS nor Storage has changed.
TransactionThrows(n) == n \in Throwing /\ lock[n] = "free"

\* What Storage::pushBack requires; it throws otherwise.
Extends(n, b) == b.prev = Latest(n) /\ b.height = height[n] + 1

\* Mutant: the block is appended, what latest() returns is not moved to it.
FinishWithoutLatest(n, b) ==
  /\ chain' = [chain EXCEPT ![n] =
                 [k \in 0..b.height |-> IF k = b.height THEN b ELSE @[k]]]
  /\ lock' = [lock EXCEPT ![n] = "free"]
  /\ UNCHANGED <<height, randomList, validatorMempool>>

\* Storage::pushBack and the release of stateMutex_.
FinishProcess(n, b) ==
  /\ IF Extends(n, b)
     THEN /\ height' = [height EXCEPT ![n] = b.height]
          /\ chain' = [chain EXCEPT ![n] =
                         [k \in 0..b.height |-> IF k = b.height THEN b ELSE @[k]]]
     ELSE UNCHANGED <<height, chain>>
  /\ lock' = [lock EXCEPT ![n] = "free"]
  /\ UNCHANGED <<randomList, validatorMempool>>

TxMessage(tx) == [kind |-> "tx", tx |-> tx]
BlockMessage(b) == [kind |-> "block", block |-> b]

\* A message that can have no effect at n any more: handleBroadcast drops what n
\* has broadcast itself, addValidatorTx refuses what is not for the next height
\* (h being the height of n), and a node that is down receives nothing.  The
\* model takes these off the links at once, and forgets what n has broadcast
\* for a height that is over.
Outdated(h, body) == body.kind = "tx" /\ body.tx.height <= h
NoEffect(n, h, body) ==
  body \in broadcasted[n] \/ phase[n] = "down" \/ Outdated(h, body)

\* ManagerNormal::broadcastMessage by n, with "seen" as broadcastedMessages_ of
\* the nodes and "pending" as the other messages on the links.
BroadcastMessage(n, body, seen, pending) ==
  IF body \in seen[n] \/ phase[n] = "down"
  THEN broadcasted' = seen /\ net' = pending
  ELSE /\ broadcasted' = [seen EXCEPT ![n] = @ \cup {body}]
       /\ net' = {m \in pending : ~(m.to = n /\ m.body = body)} \cup
            {[from |-> n, to |-> p, body |-> body] :
               p \in {q \in Nodes \ {n} : ~NoEffect(q, height[q], body)}}

\* What is left when n reaches the height h.
StillPending(n, h) == {m \in net : ~(m.to = n /\ NoEffect(n, h, m.body))}
StillSeen(n, h) ==
  [broadcasted EXCEPT ![n] = {body \in @ : ~Outdated(h, body)}]

StopSyncer(n) == phase[n] # "run"  \* Syncer::stopSyncer_

-----------------------------------------------------------------------------
Init ==
  /\ height = [n \in Nodes |-> 0]
  /\ chain = [n \in Nodes |-> [k \in 0..0 |-> Genesis]]
  /\ randomList = [n \in Nodes |-> ListAfter(Genesis)]
  /\ validatorMempool = [n \in Nodes |-> {}]
  /\ lock = [n \in Nodes |-> "free"]
  /\ wpc = [n \in Nodes |-> IF n \in Validators \ Starting THEN "loop" ELSE "off"]
  /\ wHeight = [n \in Nodes |-> 0]
  /\ wCreator = [n \in Nodes |-> FALSE]
  /\ wIndex = [n \in Nodes |-> 0]
  /\ wSeed = [n \in Nodes |-> NoSeed]
  /\ answer = [n \in Nodes |-> {}]
  /\ canCreateBlock = [n \in Nodes |-> FALSE]
  /\ spc = [n \in Nodes |-> IF n \in Starting THEN "init"
                           ELSE IF n \in Validators THEN "loop" ELSE "idle"]
  /\ sHeight = [n \in Nodes |-> 0]
  /\ sMempool = [n \in Nodes |-> {}]
  /\ sList = [n \in Nodes |-> ListAfter(Genesis)]
  /\ sBlock = [n \in Nodes |-> NoBlock]
  /\ hpc = [n \in Nodes |-> "idle"]
  /\ hBlock = [n \in Nodes |-> NoBlock]
  /\ broadcasted = [n \in Nodes |-> {}]
  /\ net = {}
  /\ phase = [n \in Nodes |-> "run"]
  /\ stopWorker = [n \in Nodes |-> FALSE]

-----------------------------------------------------------------------------
(* rdPoSWorker *)

\* The thread starts: workerLoop reads the latest block.
WorkerBegin(n) ==
  /\ wpc[n] = "begin"
  /\ wHeight' = [wHeight EXCEPT ![n] = height[n]]
  /\ wpc' = [wpc EXCEPT ![n] = "loop"]
  /\ UNCHANGED <<storeVars, wCreator, wIndex, wSeed, answer, canCreateBlock,
                 syncerVars, handlerVars, netVars, stopVars>>

\* The top of the loop: who am I in the current list?
WorkerCheck(n) ==
  /\ wpc[n] = "loop" /\ ~stopWorker[n]
  /\ wHeight[n] < MaxHeight
  /\ LET mine == {i \in 1..MinValidators : randomList[n][i] = n}
     IN  \/ /\ randomList[n][0] = n
            /\ wpc' = [wpc EXCEPT ![n] = "creation"]
            /\ wCreator' = [wCreator EXCEPT ![n] = TRUE]
            /\ UNCHANGED wIndex
         \/ /\ randomList[n][0] # n
            /\ \E i \in mine :
                 /\ \A j \in mine : i <= j
                 /\ wIndex' = [wIndex EXCEPT ![n] = i]
            /\ wpc' = [wpc EXCEPT ![n] = "commit"]
            /\ UNCHANGED wCreator
         \/ /\ randomList[n][0] # n /\ mine = {}
            /\ wpc' = [wpc EXCEPT ![n] = "wait"]
            /\ UNCHANGED <<wCreator, wIndex>>
  /\ UNCHANGED <<storeVars, wHeight, wSeed, answer, canCreateBlock, syncerVars,
                 handlerVars, netVars, stopVars>>

WorkerExit(n) ==
  /\ wpc[n] = "loop" /\ stopWorker[n]
  /\ wpc' = [wpc EXCEPT ![n] = "done"]
  /\ UNCHANGED <<storeVars, wHeight, wCreator, wIndex, wSeed, answer,
                 canCreateBlock, syncerVars, handlerVars, netVars, stopVars>>

\* requestValidatorTxs: the peer's mempool as it was when it answered.  The
\* transactions already in the mempool are left out, adding them changes nothing.
\* A request that fails or times out returns nothing.
WorkerRequest(n, m) ==
  /\ \/ wpc[n] \in {"creation", "ready", "hashes", "reveal"}
     \/ /\ wpc[n] = "wait" /\ height[n] = wHeight[n]
        /\ Cardinality(validatorMempool[n]) < MinValidators
  /\ ~stopWorker[n] /\ m \in Answering /\ phase[m] # "down"
  /\ answer[n] = {}
  /\ answer' = [answer EXCEPT ![n] = validatorMempool[m] \ validatorMempool[n]]
  /\ answer'[n] # {}
  /\ UNCHANGED <<storeVars, wpc, wHeight, wCreator, wIndex, wSeed,
                 canCreateBlock, syncerVars, handlerVars, netVars, stopVars>>

\* The loop that adds the answered transactions one by one.
WorkerAddAnswered(n) ==
  /\ \E tx \in answer[n] :
       /\ AddValidatorTx(n, tx)
       /\ answer' = [answer EXCEPT ![n] = @ \ {tx}]
  /\ UNCHANGED <<wpc, wHeight, wCreator, wIndex, wSeed, canCreateBlock,
                 syncerVars, handlerVars, netVars, stopVars>>

\* doBlockCreation: the mempool is read full, the peers are polled once more ...
CreationRead(n) ==
  /\ wpc[n] = "creation" /\ answer[n] = {} /\ ~stopWorker[n]
  /\ Cardinality(validatorMempool[n]) = 2 * MinValidators
  /\ wpc' = [wpc EXCEPT ![n] = "ready"]
  /\ UNCHANGED <<storeVars, wHeight, wCreator, wIndex, wSeed, answer,
                 canCreateBlock, syncerVars, handlerVars, netVars, stopVars>>

\* ... and only then the syncer is told.
CreationReady(n) ==
  /\ wpc[n] = "ready" /\ answer[n] = {}
  /\ canCreateBlock' = [canCreateBlock EXCEPT ![n] = TRUE]
  /\ wpc' = [wpc EXCEPT ![n] = "wait"]
  /\ UNCHANGED <<storeVars, wHeight, wCreator, wIndex, wSeed, answer,
                 syncerVars, handlerVars, netVars, stopVars>>

\* A stop seen by the loop condition still sets the flag, one seen while the
\* peers are polled returns without doing so.
CreationStop(n) ==
  /\ wpc[n] \in {"creation", "ready"} /\ answer[n] = {} /\ stopWorker[n]
  /\ \E b \in {TRUE, canCreateBlock[n]} :
       canCreateBlock' = [canCreateBlock EXCEPT ![n] = b]
  /\ wpc' = [wpc EXCEPT ![n] = "wait"]
  /\ UNCHANGED <<storeVars, wHeight, wCreator, wIndex, wSeed, answer,
                 syncerVars, handlerVars, netVars, stopVars>>

\* Where the for loop of workerLoop goes after it is done with the index i.
AfterIndex(i) == IF i = MinValidators THEN "wait" ELSE "scan"

\* doTxCreation makes its transactions for the height after latestBlock_, which
\* the worker has read before it looked at the list.
WorkerTx(n, fn, seed) ==
  [from |-> n, fn |-> fn, height |-> wHeight[n] + 1, value |-> seed]

CommitHash(n) ==
  /\ wpc[n] = "commit"
  /\ \E s \in Seeds :
       /\ wSeed' = [wSeed EXCEPT ![n] = s]
       /\ AddValidatorTx(n, WorkerTx(n, "hash", s))
       /\ BroadcastMessage(n, TxMessage(WorkerTx(n, "hash", s)), broadcasted, net)
  /\ wpc' = [wpc EXCEPT ![n] = "hashes"]
  /\ UNCHANGED <<wHeight, wCreator, wIndex, answer, canCreateBlock, syncerVars,
                 handlerVars, stopVars>>

\* Mutants: the wait ends one transaction too early, or one too late.
HashesMissing(n) ==
  /\ wpc[n] = "hashes" /\ answer[n] = {} /\ ~stopWorker[n]
  /\ Cardinality(validatorMempool[n]) >= MinValidators - 1
  /\ wpc' = [wpc EXCEPT ![n] = "reveal"]
  /\ UNCHANGED <<storeVars, wHeight, wCreator, wIndex, wSeed, answer,
                 canCreateBlock, syncerVars, handlerVars, netVars, stopVars>>

HashesTooMany(n) ==
  /\ wpc[n] = "hashes" /\ answer[n] = {} /\ ~stopWorker[n]
  /\ Cardinality(validatorMempool[n]) > MinValidators
  /\ wpc' = [wpc EXCEPT ![n] = "reveal"]
  /\ UNCHANGED <<storeVars, wHeight, wCreator, wIndex, wSeed, answer,
                 canCreateBlock, syncerVars, handlerVars, netVars, stopVars>>

\* "Wait until we received all randomHash transactions": the code waits until
\* the mempool holds MinValidators transactions.
HashesSeen(n) ==
  /\ wpc[n] = "hashes" /\ answer[n] = {} /\ ~stopWorker[n]
  /\ Cardinality(validatorMempool[n]) >= MinValidators
  /\ wpc' = [wpc EXCEPT ![n] = "reveal"]
  /\ UNCHANGED <<storeVars, wHeight, wCreator, wIndex, wSeed, answer,
                 canCreateBlock, syncerVars, handlerVars, netVars, stopVars>>

\* A stop ends the wait: seen by the loop condition it goes on to reveal the
\* seed, seen while the peers are polled it returns.
HashesStop(n) ==
  /\ answer[n] = {} /\ stopWorker[n]
  /\ \/ /\ wpc[n] = "hashes"
        /\ wpc' = [wpc EXCEPT ![n] = "reveal"]
     \/ /\ wpc[n] \in {"hashes", "reveal"}
        /\ wpc' = [wpc EXCEPT ![n] = AfterIndex(wIndex[n])]
  /\ UNCHANGED <<storeVars, wHeight, wCreator, wIndex, wSeed, answer,
                 canCreateBlock, syncerVars, handlerVars, netVars, stopVars>>

RevealSeed(n) ==
  /\ wpc[n] = "reveal" /\ answer[n] = {}
  /\ AddValidatorTx(n, WorkerTx(n, "seed", wSeed[n]))
  /\ BroadcastMessage(n, TxMessage(WorkerTx(n, "seed", wSeed[n])), broadcasted, net)
  /\ wpc' = [wpc EXCEPT ![n] = AfterIndex(wIndex[n])]
  /\ wSeed' = [wSeed EXCEPT ![n] = NoSeed]
  /\ UNCHANGED <<wHeight, wCreator, wIndex, answer, canCreateBlock,
                 syncerVars, handlerVars, stopVars>>

\* The for loop goes on without the mutex it has unlocked: a second match unlocks
\* it again, which throws.
WorkerScan(n) ==
  /\ wpc[n] = "scan"
  /\ wIndex' = [wIndex EXCEPT ![n] = @ + 1]
  /\ wpc' = [wpc EXCEPT ![n] = IF randomList[n][wIndex[n] + 1] = n THEN "dead"
                              ELSE AfterIndex(wIndex[n] + 1)]
  /\ UNCHANGED <<storeVars, wHeight, wCreator, wSeed, answer, canCreateBlock,
                 syncerVars, handlerVars, netVars, stopVars>>

\* The wait for the next block at the end of workerLoop.
WorkerNextBlock(n) ==
  /\ wpc[n] = "wait" /\ answer[n] = {}
  /\ height[n] # wHeight[n] \/ stopWorker[n]
  /\ canCreateBlock' = [canCreateBlock EXCEPT ![n] = @ /\ ~wCreator[n]]
  /\ wCreator' = [wCreator EXCEPT ![n] = FALSE]
  /\ wHeight' = [wHeight EXCEPT ![n] = height[n]]
  /\ wpc' = [wpc EXCEPT ![n] = "loop"]
  /\ UNCHANGED <<storeVars, wIndex, wSeed, answer, syncerVars, handlerVars,
                 netVars, stopVars>>

WorkerStep(n) ==
  \/ WorkerBegin(n) \/ WorkerCheck(n) \/ WorkerExit(n) \/ WorkerAddAnswered(n)
  \/ CreationRead(n) \/ CreationReady(n) \/ CreationStop(n)
  \/ CommitHash(n) \/ HashesSeen(n) \/ HashesStop(n) \/ RevealSeed(n)
  \/ WorkerScan(n) \/ WorkerNextBlock(n)

-----------------------------------------------------------------------------
(* Syncer: spc is where its thread is in syncerLoop, validatorLoop and         *)
(* doValidatorBlock.                                                           *)

\* A step of the syncer that only moves its program counter.
SyncerGoto(n, from, to) ==
  /\ spc[n] = from
  /\ spc' = [spc EXCEPT ![n] = to]
  /\ UNCHANGED <<storeVars, workerVars, canCreateBlock, sHeight, sMempool, sList,
                 sBlock, handlerVars, netVars, stopVars>>

\* After doSync: the last test of stopSyncer_ before the node starts.
SyncerSynced(n) ==
  \/ StopSyncer(n) /\ SyncerGoto(n, "init", "done")
  \/ ~StopSyncer(n) /\ n \in Validators /\ SyncerGoto(n, "init", "start")
  \/ ~StopSyncer(n) /\ n \notin Validators /\ SyncerGoto(n, "init", "idle")

\* nonValidatorLoop
SyncerIdleStop(n) == StopSyncer(n) /\ SyncerGoto(n, "idle", "done")

\* validatorLoop starts the rdPoS worker (rdPoSWorker::start).
SyncerStartWorker(n) ==
  /\ spc[n] = "start"
  /\ spc' = [spc EXCEPT ![n] = "loop"]
  /\ wpc' = [wpc EXCEPT ![n] = "begin"]
  /\ UNCHANGED <<storeVars, wHeight, wCreator, wIndex, wSeed, answer,
                 canCreateBlock, sHeight, sMempool, sList, sBlock, handlerVars,
                 netVars, stopVars>>

\* The loop of validatorLoop, from its wait for the next block to the choice of
\* what to do.  It reads the latest block, then the list: a block that is
\* processed between the two reads has the effect of both being made while the
\* block is processed.
SyncerLoop(n) ==
  \/ StopSyncer(n) /\ (SyncerGoto(n, "loop", "done") \/ SyncerGoto(n, "wait", "done"))
  \/ /\ ~StopSyncer(n)
     /\ spc[n] = "loop" \/ (spc[n] = "wait" /\ height[n] # sHeight[n])
     /\ sHeight' = [sHeight EXCEPT ![n] = height[n]]
     /\ spc' = [spc EXCEPT ![n] = IF randomList[n][0] = n THEN "waitReady" ELSE "wait"]
     /\ UNCHANGED <<storeVars, workerVars, canCreateBlock, sMempool, sList,
                    sBlock, handlerVars, netVars, stopVars>>

\* Mutant: the wait for the worker does not look at stopSyncer_.
SyncerReadyDeaf(n) == canCreateBlock[n] /\ SyncerGoto(n, "waitReady", "waitTx")

\* doValidatorBlock waits for the worker ...
SyncerReady(n) ==
  \/ canCreateBlock[n] /\ SyncerGoto(n, "waitReady", "waitTx")
  \/ ~canCreateBlock[n] /\ StopSyncer(n) /\ SyncerGoto(n, "waitReady", "done")

\* ... and for a user transaction (an input).
SyncerHaveTx(n) ==
  \/ ~StopSyncer(n) /\ SyncerGoto(n, "waitTx", "mempool")
  \/ StopSyncer(n) /\ SyncerGoto(n, "waitTx", "done")

SyncerGetMempool(n) ==
  /\ spc[n] = "mempool"
  /\ sMempool' = [sMempool EXCEPT ![n] = validatorMempool[n]]
  /\ spc' = [spc EXCEPT ![n] = "getList"]
  /\ UNCHANGED <<storeVars, workerVars, canCreateBlock, sHeight, sList, sBlock,
                 handlerVars, netVars, stopVars>>

SyncerGetList(n) ==
  /\ spc[n] = "getList"
  /\ sList' = [sList EXCEPT ![n] = randomList[n]]
  /\ spc' = [spc EXCEPT ![n] = "orderHash"]
  /\ UNCHANGED <<storeVars, workerVars, canCreateBlock, sHeight, sMempool,
                 sBlock, handlerVars, netVars, stopVars>>

\* Mutant: the function of the transaction is not looked at.
CandidatesAnyFunction(n, i, fn) == {tx \in sMempool[n] : tx.from = sList[n][i]}

\* The transactions that the ordering loops may take for the index i.
Candidates(n, i, fn) ==
  {tx \in sMempool[n] : tx.from = sList[n][i] /\ tx.fn = fn}

AllFound(n, fn) == \A i \in 1..MinValidators : Candidates(n, i, fn) # {}

\* The first ordering loop spins until every randomHash is found, and looks at
\* stopSyncer_ only while it has a transaction to look at.
SyncerOrderHash(n) ==
  \/ AllFound(n, "hash") /\ SyncerGoto(n, "orderHash", "orderSeed")
  \/ /\ StopSyncer(n) /\ sMempool[n] # {}
     /\ SyncerGoto(n, "orderHash", "done")

\* The second one never does.  Then the block is built on the latest block.
SyncerOrderSeed(n) ==
  /\ spc[n] = "orderSeed" /\ AllFound(n, "seed")
  /\ \/ /\ StopSyncer(n)
        /\ spc' = [spc EXCEPT ![n] = "done"]
        /\ UNCHANGED sBlock
     \/ /\ ~StopSyncer(n)
        /\ \E txs \in [1..(2 * MinValidators) -> sMempool[n]] :
             /\ \A i \in 1..MinValidators :
                  /\ txs[i] \in Candidates(n, i, "hash")
                  /\ txs[MinValidators + i] \in Candidates(n, i, "seed")
             /\ sBlock' = [sBlock EXCEPT ![n] =
                  [height |-> height[n] + 1, prev |-> Latest(n),
                   creator |-> n, txs |-> txs, finalized |-> FALSE]]
        /\ spc' = [spc EXCEPT ![n] = "sign"]
  /\ UNCHANGED <<storeVars, workerVars, canCreateBlock, sHeight, sMempool, sList,
                 handlerVars, netVars, stopVars>>

\* rdPoS::signBlock: Block::finalize leaves the block as it is when the clock
\* is behind the parent's timestamp; the flag is reset in any case.
SyncerSign(n) ==
  /\ spc[n] = "sign"
  /\ \E clockOk \in ClockOutcomes :
       sBlock' = [sBlock EXCEPT ![n].finalized = clockOk]
  /\ canCreateBlock' = [canCreateBlock EXCEPT ![n] = FALSE]
  /\ spc' = [spc EXCEPT ![n] = "validate"]
  /\ UNCHANGED <<storeVars, workerVars, sHeight, sMempool, sList, handlerVars,
                 netVars, stopVars>>

\* An invalid block makes doValidatorBlock, or processNextBlock that validates it
\* again, throw, which ends the thread: the model validates once.
SyncerValidate(n) ==
  /\ spc[n] = "validate"
  /\ \/ /\ ValidateNextBlock(n, sBlock[n])
        /\ \/ StopSyncer(n) /\ SyncerGoto(n, "validate", "done")
           \/ ~StopSyncer(n) /\ SyncerGoto(n, "validate", "process")
     \/ ~ValidateNextBlock(n, sBlock[n]) /\ SyncerGoto(n, "validate", "dead")

SyncerProcess(n) ==
  /\ spc[n] = "process"
  /\ BeginProcess(n, sBlock[n], "syncer")
  /\ spc' = [spc EXCEPT ![n] = "push"]
  /\ UNCHANGED <<workerVars, canCreateBlock, sHeight, sMempool, sList, sBlock,
                 handlerVars, netVars, stopVars>>

\* Nothing catches what processNextBlock throws: the thread ends.
SyncerThrows(n) == TransactionThrows(n) /\ SyncerGoto(n, "process", "dead")

SyncerPush(n) ==
  /\ spc[n] = "push"
  /\ FinishProcess(n, sBlock[n])
  /\ spc' = [spc EXCEPT ![n] = IF Extends(n, sBlock[n]) THEN "confirm" ELSE "dead"]
  /\ IF Extends(n, sBlock[n])
     THEN /\ net' = StillPending(n, sBlock[n].height)
          /\ broadcasted' = StillSeen(n, sBlock[n].height)
     ELSE UNCHANGED netVars
  /\ UNCHANGED <<workerVars, canCreateBlock, sHeight, sMempool, sList, sBlock,
                 handlerVars, stopVars>>

\* The test that the latest block is the one just processed, and the broadcast.
\* The snapshots are dead from here on and are forgotten.
SyncerBroadcast(n) ==
  /\ spc[n] = "confirm"
  /\ spc' = [spc EXCEPT ![n] = IF Latest(n) # sBlock[n] THEN "dead"
                              ELSE IF StopSyncer(n) THEN "done" ELSE "wait"]
  /\ IF Latest(n) = sBlock[n] /\ ~StopSyncer(n)
     THEN BroadcastMessage(n, BlockMessage(sBlock[n]), broadcasted, net)
     ELSE UNCHANGED netVars
  /\ sMempool' = [sMempool EXCEPT ![n] = {}]
  /\ sList' = [sList EXCEPT ![n] = ListAfter(Genesis)]
  /\ sBlock' = [sBlock EXCEPT ![n] = NoBlock]
  /\ UNCHANGED <<storeVars, workerVars, canCreateBlock, sHeight, handlerVars,
                 stopVars>>

SyncerStep(n) ==
  \/ SyncerSynced(n) \/ SyncerIdleStop(n) \/ SyncerStartWorker(n)
  \/ SyncerLoop(n) \/ SyncerReady(n) \/ SyncerHaveTx(n)
  \/ SyncerGetMempool(n) \/ SyncerGetList(n) \/ SyncerOrderHash(n)
  \/ SyncerOrderSeed(n) \/ SyncerSign(n) \/ SyncerValidate(n)
  \/ SyncerProcess(n) \/ SyncerThrows(n) \/ SyncerPush(n) \/ SyncerBroadcast(n)

-----------------------------------------------------------------------------
(* ManagerNormal: the broadcasts that arrive at a node *)

\* A session is closed with the message still queued.
LoseMessage(m) ==
  /\ m \in net /\ m.body.kind \in LossyKinds
  /\ net' = net \ {m}
  /\ UNCHANGED <<storeVars, workerVars, canCreateBlock, syncerVars, handlerVars,
                 broadcasted, stopVars>>

\* handleTxValidatorBroadcast
HandleTxValidatorBroadcast(m) ==
  LET n == m.to IN
  /\ m \in net /\ m.body.kind = "tx"
  /\ AddValidatorTx(n, m.body.tx)
  /\ IF Accepts(n, m.body.tx)
     THEN BroadcastMessage(n, m.body, broadcasted, net \ {m})
     ELSE net' = net \ {m} /\ UNCHANGED broadcasted
  /\ UNCHANGED <<workerVars, canCreateBlock, syncerVars, handlerVars, stopVars>>

\* Mutant: a broadcast block is taken once it is known not to be stored.
HandleUnvalidated(m) ==
  LET n == m.to
      b == m.body.block
  IN
  /\ m \in net /\ m.body.kind = "block"
  /\ hpc[n] = "idle"
  /\ net' = net \ {m}
  /\ IF ~BlockExists(n, b)
     THEN /\ hpc' = [hpc EXCEPT ![n] = "process"]
          /\ hBlock' = [hBlock EXCEPT ![n] = b]
     ELSE UNCHANGED handlerVars
  /\ UNCHANGED <<storeVars, workerVars, canCreateBlock, syncerVars, broadcasted,
                 stopVars>>

\* handleBlockBroadcast until processNextBlock waits for stateMutex_; hpc is "idle"
\* when blockBroadcastMutex_ is free.  A block that is stored already, or not
\* valid, is forgotten.  The handler validates the block and processNextBlock does
\* so again: either failure has the same outcome, so the model validates once.
HandleBlockBroadcast(m) ==
  LET n == m.to
      b == m.body.block
  IN
  /\ m \in net /\ m.body.kind = "block"
  /\ hpc[n] = "idle"
  /\ net' = net \ {m}
  /\ IF ~BlockExists(n, b) /\ ValidateNextBlock(n, b)
     THEN /\ hpc' = [hpc EXCEPT ![n] = "process"]
          /\ hBlock' = [hBlock EXCEPT ![n] = b]
     ELSE UNCHANGED handlerVars
  /\ UNCHANGED <<storeVars, workerVars, canCreateBlock, syncerVars, broadcasted,
                 stopVars>>

HandlerProcess(n) ==
  /\ hpc[n] = "process"
  /\ BeginProcess(n, hBlock[n], "handler")
  /\ hpc' = [hpc EXCEPT ![n] = "push"]
  /\ UNCHANGED <<workerVars, canCreateBlock, syncerVars, hBlock, netVars, stopVars>>

\* handleBlockBroadcast catches the exception, and the block is forgotten.
HandlerThrows(n) ==
  /\ hpc[n] = "process" /\ TransactionThrows(n)
  /\ hpc' = [hpc EXCEPT ![n] = "idle"]
  /\ hBlock' = [hBlock EXCEPT ![n] = NoBlock]
  /\ UNCHANGED <<storeVars, workerVars, canCreateBlock, syncerVars, netVars, stopVars>>

\* A block that was stored is broadcast again.
HandlerPush(n) ==
  /\ hpc[n] = "push"
  /\ FinishProcess(n, hBlock[n])
  /\ IF Extends(n, hBlock[n])
     THEN BroadcastMessage(n, BlockMessage(hBlock[n]),
            StillSeen(n, hBlock[n].height), StillPending(n, hBlock[n].height))
     ELSE UNCHANGED netVars
  /\ hpc' = [hpc EXCEPT ![n] = "idle"]
  /\ hBlock' = [hBlock EXCEPT ![n] = NoBlock]
  /\ UNCHANGED <<workerVars, canCreateBlock, syncerVars, stopVars>>

HandlerStep(n) == HandlerProcess(n) \/ HandlerThrows(n) \/ HandlerPush(n)

Deliver(m) == HandleTxValidatorBroadcast(m) \/ HandleBlockBroadcast(m)

-----------------------------------------------------------------------------
(* Syncer::stop and the rest of Blockchain::stop, run by the main thread *)

StopBegin(n) ==
  /\ n \in Stoppable /\ phase[n] = "run"
  /\ phase' = [phase EXCEPT ![n] = "stopWorker"]
  /\ UNCHANGED <<storeVars, workerVars, canCreateBlock, syncerVars, handlerVars,
                 netVars, stopWorker>>

\* rdPoSWorker::stop does nothing when the worker has not been started.
StopTheWorker(n) ==
  /\ phase[n] = "stopWorker"
  /\ \/ /\ wpc[n] = "off"
        /\ phase' = [phase EXCEPT ![n] = "joinSyncer"]
        /\ UNCHANGED stopWorker
     \/ /\ wpc[n] # "off"
        /\ phase' = [phase EXCEPT ![n] = "joinWorker"]
        /\ stopWorker' = [stopWorker EXCEPT ![n] = TRUE]
  /\ UNCHANGED <<storeVars, workerVars, canCreateBlock, syncerVars, handlerVars,
                 netVars>>

\* workerFuture_.get() rethrows what has killed the worker.
JoinWorker(n) ==
  /\ phase[n] = "joinWorker"
  /\ \/ wpc[n] = "done" /\ phase' = [phase EXCEPT ![n] = "joinSyncer"]
     \/ wpc[n] = "dead" /\ phase' = [phase EXCEPT ![n] = "threw"]
  /\ UNCHANGED <<storeVars, workerVars, canCreateBlock, syncerVars, handlerVars,
                 netVars, stopWorker>>

\* Then the HTTP server and the P2P manager are stopped.
JoinSyncer(n) ==
  /\ phase[n] = "joinSyncer" /\ spc[n] \in {"done", "dead"}
  /\ phase' = [phase EXCEPT ![n] = "down"]
  /\ net' = {m \in net : m.to # n}
  /\ UNCHANGED <<storeVars, workerVars, canCreateBlock, syncerVars, handlerVars,
                 broadcasted, stopWorker>>

StopStep(n) == StopTheWorker(n) \/ JoinWorker(n) \/ JoinSyncer(n)

-----------------------------------------------------------------------------
Next ==
  \/ \E n \in Nodes :
       \/ WorkerStep(n) \/ SyncerStep(n) \/ HandlerStep(n)
       \/ StopBegin(n) \/ StopStep(n)
       \/ \E m \in Nodes \ {n} : WorkerRequest(n, m)
  \/ \E m \in net : Deliver(m) \/ LoseMessage(m)

Spec == Init /\ [][Next]_vars

\* Every thread keeps running, a message that is on a link is handled or lost in
\* the end, the loops that poll the peers come to each of them again and again,
\* and user transactions keep coming.
Fairness ==
  /\ \A n \in Nodes : /\ WF_vars(WorkerStep(n)) /\ WF_vars(SyncerStep(n))
                      /\ WF_vars(HandlerStep(n)) /\ WF_vars(StopStep(n))
  /\ \A n \in Nodes :
       WF_vars(\E m \in net : m.to = n /\ (Deliver(m) \/ LoseMessage(m)))
  /\ \A n \in Nodes : \A m \in Nodes \ {n} : WF_vars(WorkerRequest(n, m))

FairSpec == Spec /\ Fairness

-----------------------------------------------------------------------------
(* Properties *)

WorkerPcs == {"off", "begin", "loop", "creation", "ready", "commit", "hashes",
              "reveal", "scan", "wait", "done", "dead"}
SyncerPcs == {"init", "idle", "start", "loop", "waitReady", "waitTx", "mempool",
              "getList", "orderHash", "orderSeed", "sign", "validate", "process",
              "push", "confirm", "wait", "done", "dead"}
Phases == {"run", "stopWorker", "joinWorker", "joinSyncer", "threw", "down"}

\* Type correctness of the state of State, rdPoS, the worker and the syncer.
TypeOK ==
  /\ height \in [Nodes -> Nat]
  /\ DOMAIN chain = Nodes
  /\ \A n \in Nodes : DOMAIN chain[n] = 0..height[n]
  /\ randomList \in [Nodes -> ValidatorLists]
  /\ validatorMempool \in [Nodes -> SUBSET TxValidators]
  /\ lock \in [Nodes -> {"free", "syncer", "handler"}]
  /\ wpc \in [Nodes -> WorkerPcs]
  /\ wHeight \in [Nodes -> Nat]
  /\ wCreator \in [Nodes -> BOOLEAN]
  /\ wIndex \in [Nodes -> 0..MinValidators]
  /\ wSeed \in [Nodes -> Seeds \cup {NoSeed}]
  /\ answer \in [Nodes -> SUBSET TxValidators]
  /\ canCreateBlock \in [Nodes -> BOOLEAN]
  /\ spc \in [Nodes -> SyncerPcs]
  /\ sHeight \in [Nodes -> Nat]
  /\ sMempool \in [Nodes -> SUBSET TxValidators]
  /\ sList \in [Nodes -> ValidatorLists]
  /\ hpc \in [Nodes -> {"idle", "process", "push"}]
  /\ phase \in [Nodes -> Phases]
  /\ stopWorker \in [Nodes -> BOOLEAN]

\* No fork: two nodes that both have a block of some height (Storage::chain_)
\* have the same one, whatever broadcasts were lost, late or out of order.
Agreement ==
  \A n, m \in Nodes : \A k \in 0..height[n] :
    k <= height[m] => chain[n][k] = chain[m][k]

\* The block that processNextBlock is applying under stateMutex_ still extends the
\* latest block, although it was validated before the mutex was taken: pushBack
\* never throws after rdPoS and State have been changed.
ProcessedBlockExtends ==
  \A n \in Nodes : /\ lock[n] = "syncer" => Extends(n, sBlock[n])
                   /\ lock[n] = "handler" => Extends(n, hBlock[n])

\* "not allowing a race condition of adding transactions that are not for the
\* current block height" (rdPoS::addValidatorTx): the validator mempool holds
\* transactions of the round after the latest block only, from its participants,
\* at most one of each function per participant, none while a block is applied.
MempoolOfTheRound ==
  \A n \in Nodes : \A tx \in validatorMempool[n] :
    /\ tx.height = height[n] + 1
    /\ tx.from \in Participants(ListAfter(Latest(n)))
    /\ \A t \in validatorMempool[n] : t.from = tx.from /\ t.fn = tx.fn => t = tx
    /\ lock[n] = "free"

\* Has p broadcast its randomHash for the block of height h?
Committed(p, h) ==
  \/ height[p] >= h
  \/ \E body \in broadcasted[p] :
       /\ body.kind = "tx"
       /\ body.tx.from = p /\ body.tx.fn = "hash" /\ body.tx.height = h

\* Commit before reveal (doTxCreation): once a node holds a seed of a round, every
\* participant of the round has committed to its own, so nobody can choose a seed
\* that knows another one.
CommitBeforeReveal ==
  \A n \in Nodes : \A tx \in validatorMempool[n] :
    tx.fn = "seed" =>
      \A p \in Participants(randomList[n]) : Committed(p, tx.height)

\* The ordering loops of doValidatorBlock find every transaction they look for in
\* the mempool they have copied: canCreateBlock_ was not stale, they do not spin.
OrderingEnds ==
  \A n \in Nodes : spc[n] \in {"orderHash", "orderSeed"} =>
                     AllFound(n, "hash") /\ AllFound(n, "seed")

\* doValidatorBlock does not throw: the block that the creator has built from its
\* mempool is valid, and still the latest one after it was processed.  It holds
\* where no user transaction throws (Throwing), which is a cause of its own.
SyncerSurvives == \A n \in Nodes : spc[n] # "dead"

\* The chain that the nodes share: that of a node with the most blocks.
Longest == CHOOSE n \in Nodes : \A m \in Nodes : height[m] <= height[n]

\* The network implements the abstract ledger: only the validator that the latest
\* block elects appends to it, and every node follows it block by block.
TheLedger == INSTANCE Ledger WITH
  Elected <- LAMBDA blk : ListAfter(blk)[0],
  length <- height[Longest], ledger <- chain[Longest], view <- height
ImplementsLedger == TheLedger!Spec

\* The rounds go on: unless an operator shuts a node down, every node reaches every
\* height users ask for.
ChainGrows ==
  \/ <>(\A n \in Nodes : height[n] = MaxHeight)
  \/ <>(\E n \in Nodes : phase[n] # "run")

\* Syncer::stop returns: no thread of the node is left waiting for ever.
StopEnds == \A n \in Nodes : phase[n] = "stopWorker" ~> phase[n] = "down"
=============================================================================
