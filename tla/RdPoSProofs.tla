---------------------------- MODULE RdPoSProofs ----------------------------
(***************************************************************************)
(* Proofs about RdPoS for every network: any number of nodes and           *)
(* validators, any MinValidators, any shuffle, any loss, any schedule.     *)
(***************************************************************************)
EXTENDS RdPoSInv, FiniteSetTheorems, TLAPS

-----------------------------------------------------------------------------
(* Facts about the data *)

\* The transactions of a block give a randomness, hence a list (parseTxSeedList
\* and the shuffle of processBlock).
LEMMA ListType ==
  ASSUME NEW txs, txs \in TxLists \/ txs = <<>>
  PROVE  Shuffle(ParseTxSeedList(txs)) \in ValidatorLists
<1>1. ParseTxSeedList(txs) \in Randomnesses
  <2>1. CASE txs = <<>>
    BY <2>1 DEF ParseTxSeedList, Randomnesses
  <2>2. CASE txs # <<>> /\ txs \in TxLists
    <3>1. ASSUME NEW i \in 1..MinValidators
          PROVE  txs[MinValidators + i].value \in Seeds
      <4>1. MinValidators + i \in 1..(2 * MinValidators)
        BY MinAssumption
      <4>2. txs[MinValidators + i] \in TxValidators
        BY <4>1, <2>2 DEF TxLists
      <4>. QED BY <4>2 DEF TxValidators
    <3>. QED BY <2>2, <3>1 DEF ParseTxSeedList, Randomnesses
  <2>. QED BY <2>1, <2>2
<1>. QED BY <1>1, ShuffleAssumption

\* The list of the round that starts with a block has a creator at index 0.
LEMMA HeadType ==
  ASSUME NEW list \in ValidatorLists
  PROVE  list[0] \in Validators /\ \A i \in 1..MinValidators : list[i] \in Validators
<1>1. NumValidators \in Nat
  BY NodesAssumption, FS_CardinalityType DEF NumValidators
<1>2. 0 \in 0..(NumValidators - 1) /\ \A i \in 1..MinValidators : i \in 0..(NumValidators - 1)
  BY <1>1, MinAssumption
<1>. QED BY <1>2 DEF ValidatorLists

-----------------------------------------------------------------------------
(* Appending a block *)

\* Storage::pushBack only adds to a chain: what a creator has it keeps.
LEMMA PushKeeps ==
  ASSUME TypeOK, NEW n \in Nodes, NEW b, b.height = height[n] + 1,
         height' = [height EXCEPT ![n] = b.height],
         chain' = [chain EXCEPT ![n] =
                     [k \in 0..b.height |-> IF k = b.height THEN b ELSE @[k]]]
  PROVE  /\ \A m \in Nodes : height'[m] = IF m = n THEN height[n] + 1 ELSE height[m]
         /\ \A m \in Nodes : \A k \in 0..height[m] : chain'[m][k] = chain[m][k]
         /\ chain'[n][height[n] + 1] = b
         /\ \A m \in Nodes : DOMAIN chain'[m] = 0..height'[m]
         /\ \A x : CreatorHas(x) => CreatorHas(x)'
<1>1. height[n] \in Nat /\ \A m \in Nodes : height[m] \in Nat
  BY DEF TypeOK
<1>2. \A m \in Nodes : height'[m] = IF m = n THEN height[n] + 1 ELSE height[m]
  BY DEF TypeOK
<1>3. chain'[n] = [k \in 0..b.height |-> IF k = b.height THEN b ELSE chain[n][k]]
  BY DEF TypeOK
<1>4. \A m \in Nodes : m # n => chain'[m] = chain[m]
  BY DEF TypeOK
<1>5. \A m \in Nodes : \A k \in 0..height[m] : chain'[m][k] = chain[m][k]
  BY <1>1, <1>3, <1>4
<1>6. chain'[n][height[n] + 1] = b
  BY <1>1, <1>3
<1>7. \A m \in Nodes : DOMAIN chain'[m] = 0..height'[m]
  BY <1>1, <1>2, <1>3, <1>4 DEF TypeOK
<1>8. ASSUME NEW x, CreatorHas(x) PROVE CreatorHas(x)'
  <2>1. x.creator \in Nodes /\ x.height \in 0..height[x.creator]
    BY <1>1, <1>8 DEF CreatorHas, IsBlock
  <2>. QED BY <1>1, <1>2, <1>5, <1>8, <2>1 DEF CreatorHas
<1>. QED BY <1>2, <1>5, <1>6, <1>7, <1>8

\* The chain of the creator settles what the chain of every node holds: a block
\* created by the elected validator, and in its chain unless it is its own new
\* one, keeps the chains linked and in agreement.
LEMMA PushAgrees ==
  ASSUME TypeOK, ChainLinked, Agreement,
         NEW n \in Nodes, NEW b, Extends(n, b), IsBlock(b),
         b.creator = ListAfter(Latest(n))[0],
         b.creator = n \/ CreatorHas(b),
         height' = [height EXCEPT ![n] = b.height],
         chain' = [chain EXCEPT ![n] =
                     [k \in 0..b.height |-> IF k = b.height THEN b ELSE @[k]]]
  PROVE  ChainLinked' /\ Agreement' /\ CreatorHas(b)'
<1>1. b.height = height[n] + 1 /\ b.prev = chain[n][height[n]]
  BY DEF Extends, Latest
<1>2. /\ \A m \in Nodes : height'[m] = IF m = n THEN height[n] + 1 ELSE height[m]
      /\ \A m \in Nodes : \A k \in 0..height[m] : chain'[m][k] = chain[m][k]
      /\ chain'[n][height[n] + 1] = b
      /\ \A x : CreatorHas(x) => CreatorHas(x)'
  BY <1>1, PushKeeps
<1>3. \A m \in Nodes : height[m] \in Nat
  BY DEF TypeOK
<1>4. CreatorHas(b)'
  <2>1. CASE CreatorHas(b)
    BY <1>2, <2>1
  <2>2. CASE b.creator = n
    BY <1>1, <1>2, <1>3, <2>2 DEF CreatorHas
  <2>. QED BY <2>1, <2>2
<1>5. ChainLinked'
  <2>1. ASSUME NEW m \in Nodes PROVE chain'[m][0] = Genesis
    BY <1>2, <1>3 DEF ChainLinked
  <2>2. ASSUME NEW m \in Nodes, NEW k \in 1..height[m]
        PROVE  /\ chain'[m][k].height = k
               /\ chain'[m][k].prev = chain'[m][k - 1]
               /\ chain'[m][k].creator = ListAfter(chain'[m][k - 1])[0]
               /\ CreatorHas(chain[m][k])'
    <3>1. chain'[m][k] = chain[m][k] /\ chain'[m][k - 1] = chain[m][k - 1]
      BY <1>2, <1>3
    <3>2. /\ chain[m][k].height = k
          /\ chain[m][k].prev = chain[m][k - 1]
          /\ chain[m][k].creator = ListAfter(chain[m][k - 1])[0]
          /\ CreatorHas(chain[m][k])
      BY DEF ChainLinked
    <3>3. CreatorHas(chain[m][k])'
      <4>1. PICK x : x = chain[m][k]
        OBVIOUS
      <4>2. CreatorHas(x)'
        BY <1>2, <3>2, <4>1
      <4>. QED BY <3>1, <4>1, <4>2 DEF CreatorHas
    <3>. QED BY <3>1, <3>2, <3>3
  <2>3. /\ b.height = height[n] + 1
        /\ b.prev = chain'[n][height[n]]
        /\ b.creator = ListAfter(chain'[n][height[n]])[0]
    BY <1>1, <1>2, <1>3 DEF Latest
  <2>4. ASSUME NEW m \in Nodes, NEW k \in 1..height'[m]
        PROVE  /\ chain'[m][k].height = k
               /\ chain'[m][k].prev = chain'[m][k - 1]
               /\ chain'[m][k].creator = ListAfter(chain'[m][k - 1])[0]
               /\ CreatorHas(chain[m][k])'
    <3>1. CASE k \in 1..height[m]
      BY <2>2, <3>1
    <3>2. CASE m = n /\ k = height[n] + 1
      <4>1. k - 1 = height[n] /\ chain'[m][k] = b
        BY <1>2, <1>3, <3>2
      <4>2. CreatorHas(chain[m][k])'
        BY <1>4, <4>1 DEF CreatorHas
      <4>. QED BY <2>3, <3>2, <4>1, <4>2
    <3>. QED BY <1>2, <1>3, <3>1, <3>2
  <2>. QED BY <2>1, <2>4 DEF ChainLinked
<1>6. ASSUME NEW m \in Nodes, height[m] > height[n]
      PROVE  chain[m][height[n] + 1] = b
  <2>1. height[n] + 1 \in 1..height[m] /\ height[n] \in 0..height[n]
    BY <1>3, <1>6
  <2>2. chain[m][height[n]] = chain[n][height[n]]
    BY <1>3, <1>6 DEF Agreement
  <2>3. /\ chain[m][height[n] + 1].creator = ListAfter(chain[m][height[n]])[0]
        /\ chain[m][height[n] + 1].height = height[n] + 1
        /\ CreatorHas(chain[m][height[n] + 1])
    BY <1>3, <2>1 DEF ChainLinked
  <2>4. chain[m][height[n] + 1].creator = b.creator
    BY <2>2, <2>3 DEF Latest
  <2>5. /\ height[n] + 1 <= height[b.creator]
        /\ chain[b.creator][height[n] + 1] = chain[m][height[n] + 1]
    BY <2>3, <2>4 DEF CreatorHas
  <2>6. b.creator # n
    BY <1>3, <2>5
  <2>. QED BY <1>1, <2>5, <2>6 DEF CreatorHas
<1>7. Agreement'
  <2>1. ASSUME NEW p \in Nodes, NEW q \in Nodes, NEW k \in 0..height'[p],
               k <= height'[q]
        PROVE  chain'[p][k] = chain'[q][k]
    <3>1. CASE k <= height[p] /\ k <= height[q]
      BY <1>2, <1>3, <2>1, <3>1 DEF Agreement
    <3>2. CASE p = n /\ k = height[n] + 1 /\ q # n
      BY <1>2, <1>3, <1>6, <2>1, <3>2
    <3>3. CASE q = n /\ k = height[n] + 1 /\ p # n
      BY <1>2, <1>3, <1>6, <2>1, <3>3
    <3>4. CASE p = q
      BY <3>4
    <3>. QED BY <1>2, <1>3, <2>1, <3>1, <3>2, <3>3, <3>4
  <2>. QED BY <2>1 DEF Agreement
<1>. QED BY <1>4, <1>5, <1>7

-----------------------------------------------------------------------------
(* What a step that leaves parts of the state alone cannot disturb *)

\* The steps of the worker, of the stop and of the links that leave the chain,
\* the list, the lock, the syncer and the block handler alone.
LEMMA WorkerFrame ==
  ASSUME IInv, UNCHANGED <<height, chain, randomList, lock, syncerVars, handlerVars>>,
         TypeOK', MessagesOK', WorkerOK', MempoolOfTheRound'
  PROVE  IInv'
<1>. USE DEF syncerVars, handlerVars
<1>1. DomainsOK' /\ Agreement'
  BY DEF IInv, DomainsOK, Agreement
<1>2. ChainLinked'
  BY DEF IInv, ChainLinked, CreatorHas
<1>3. LockOK' /\ ListOK'
  BY DEF IInv, LockOK, ListOK, Latest
<1>4. HandlerOK'
  BY DEF IInv, HandlerOK, CreatorHas, Extends, Latest
<1>5. SyncerOK'
  BY DEF IInv, SyncerOK, SyncerAt, CreatorHas, Extends, Latest
<1>. QED BY <1>1, <1>2, <1>3, <1>4, <1>5 DEF IInv

\* The steps that leave the mempool and the links alone as well.
LEMMA LocalFrame ==
  ASSUME IInv, UNCHANGED <<storeVars, syncerVars, handlerVars, net>>,
         TypeOK', WorkerOK'
  PROVE  IInv'
<1>1. MessagesOK'
  BY DEF IInv, MessagesOK, CreatorHas, storeVars
<1>2. MempoolOfTheRound'
  BY DEF IInv, MempoolOfTheRound, Latest, storeVars
<1>. QED BY <1>1, <1>2, WorkerFrame DEF storeVars

\* The steps of the syncer between its accesses to State.
LEMMA SyncerFrame ==
  ASSUME IInv, UNCHANGED <<storeVars, handlerVars, net>>,
         TypeOK', DomainsOK', WorkerOK', LockOK', SyncerOK',
         \A n \in Nodes : lock[n] = "syncer" => sBlock'[n] = sBlock[n]
  PROVE  IInv'
<1>. USE DEF storeVars, handlerVars
<1>1. MessagesOK'
  BY DEF IInv, MessagesOK, CreatorHas
<1>2. MempoolOfTheRound'
  BY DEF IInv, MempoolOfTheRound, Latest
<1>3. ChainLinked'
  BY DEF IInv, ChainLinked, CreatorHas
<1>4. ListOK' /\ Agreement'
  BY DEF IInv, ListOK, Agreement, Latest
<1>5. HandlerOK'
  BY DEF IInv, HandlerOK, CreatorHas, Extends, Latest
<1>. QED BY <1>1, <1>2, <1>3, <1>4, <1>5 DEF IInv

-----------------------------------------------------------------------------
(* The worker *)

\* The steps of the worker that change its own state only.
LEMMA WorkerLocal ==
  ASSUME IInv, NEW n \in Nodes,
         \/ WorkerBegin(n) \/ WorkerCheck(n) \/ WorkerExit(n)
         \/ CreationRead(n) \/ CreationReady(n) \/ CreationStop(n)
         \/ HashesSeen(n) \/ HashesStop(n) \/ WorkerScan(n) \/ WorkerNextBlock(n)
  PROVE  IInv'
<1>. USE DEF syncerVars, handlerVars, storeVars, netVars, stopVars
<1>0. MinValidators \in Nat \ {0}
  BY MinAssumption
<1>1. CASE WorkerBegin(n)
  <2>1. TypeOK'
    BY <1>1 DEF IInv, TypeOK, WorkerBegin, WorkerPcs
  <2>2. WorkerOK'
    BY <1>1 DEF IInv, TypeOK, WorkerOK, WorkerBegin
  <2>. QED BY <1>1, <2>1, <2>2, LocalFrame DEF WorkerBegin
<1>2. CASE WorkerCheck(n)
  <2>1. TypeOK'
    <3>1. wpc' \in [Nodes -> WorkerPcs] /\ wIndex' \in [Nodes -> 0..MinValidators]
      <4>1. PICK pc \in WorkerPcs : wpc' = [wpc EXCEPT ![n] = pc]
        BY <1>2 DEF WorkerCheck, WorkerPcs
      <4>2. CASE wIndex' = wIndex
        BY <4>1, <4>2 DEF IInv, TypeOK
      <4>3. CASE \E i \in 1..MinValidators : wIndex' = [wIndex EXCEPT ![n] = i]
        BY <1>0, <4>1, <4>3 DEF IInv, TypeOK
      <4>. QED BY <1>2, <4>2, <4>3 DEF WorkerCheck
    <3>2. wCreator' \in [Nodes -> BOOLEAN]
      BY <1>2 DEF IInv, TypeOK, WorkerCheck
    <3>. QED BY <1>2, <3>1, <3>2 DEF IInv, TypeOK, WorkerCheck
  <2>2. WorkerOK'
    BY <1>0, <1>2 DEF IInv, TypeOK, WorkerOK, WorkerCheck
  <2>. QED BY <1>2, <2>1, <2>2, LocalFrame DEF WorkerCheck
<1>3. CASE WorkerExit(n)
  <2>1. TypeOK'
    BY <1>3 DEF IInv, TypeOK, WorkerExit, WorkerPcs
  <2>2. WorkerOK'
    BY <1>3 DEF IInv, TypeOK, WorkerOK, WorkerExit
  <2>. QED BY <1>3, <2>1, <2>2, LocalFrame DEF WorkerExit
<1>4. CASE CreationRead(n)
  <2>1. TypeOK'
    BY <1>4 DEF IInv, TypeOK, CreationRead, WorkerPcs
  <2>2. WorkerOK'
    BY <1>4 DEF IInv, TypeOK, WorkerOK, CreationRead
  <2>. QED BY <1>4, <2>1, <2>2, LocalFrame DEF CreationRead
<1>5. CASE CreationReady(n)
  <2>1. TypeOK'
    BY <1>5 DEF IInv, TypeOK, CreationReady, WorkerPcs
  <2>2. WorkerOK'
    BY <1>5 DEF IInv, TypeOK, WorkerOK, CreationReady
  <2>. QED BY <1>5, <2>1, <2>2, LocalFrame DEF CreationReady
<1>6. CASE CreationStop(n)
  <2>1. TypeOK'
    <3>1. PICK flag \in BOOLEAN : canCreateBlock' = [canCreateBlock EXCEPT ![n] = flag]
      BY <1>6 DEF IInv, TypeOK, CreationStop
    <3>. QED BY <1>6, <3>1 DEF IInv, TypeOK, CreationStop, WorkerPcs
  <2>2. WorkerOK'
    BY <1>6 DEF IInv, TypeOK, WorkerOK, CreationStop
  <2>. QED BY <1>6, <2>1, <2>2, LocalFrame DEF CreationStop
<1>7. CASE HashesSeen(n)
  <2>1. TypeOK'
    BY <1>7 DEF IInv, TypeOK, HashesSeen, WorkerPcs
  <2>2. WorkerOK'
    BY <1>7 DEF IInv, TypeOK, WorkerOK, HashesSeen
  <2>. QED BY <1>7, <2>1, <2>2, LocalFrame DEF HashesSeen
<1>8. CASE HashesStop(n)
  <2>1. TypeOK'
    <3>1. PICK pc \in WorkerPcs : wpc' = [wpc EXCEPT ![n] = pc]
      BY <1>8 DEF HashesStop, AfterIndex, WorkerPcs
    <3>. QED BY <1>8, <3>1 DEF IInv, TypeOK, HashesStop
  <2>2. WorkerOK'
    BY <1>0, <1>8 DEF IInv, TypeOK, WorkerOK, HashesStop, AfterIndex
  <2>. QED BY <1>8, <2>1, <2>2, LocalFrame DEF HashesStop
<1>9. CASE WorkerScan(n)
  <2>0. wIndex[n] + 1 \in 1..MinValidators
    BY <1>0, <1>9 DEF IInv, WorkerOK, WorkerScan
  <2>1. TypeOK'
    BY <1>0, <1>9, <2>0 DEF IInv, TypeOK, WorkerScan, AfterIndex, WorkerPcs
  <2>2. WorkerOK'
    BY <1>0, <1>9, <2>0 DEF IInv, TypeOK, WorkerOK, WorkerScan, AfterIndex
  <2>. QED BY <1>9, <2>1, <2>2, LocalFrame DEF WorkerScan
<1>10. CASE WorkerNextBlock(n)
  <2>1. TypeOK'
    BY <1>10 DEF IInv, TypeOK, WorkerNextBlock, WorkerPcs
  <2>2. WorkerOK'
    BY <1>10 DEF IInv, TypeOK, WorkerOK, WorkerNextBlock
  <2>. QED BY <1>10, <2>1, <2>2, LocalFrame DEF WorkerNextBlock
<1>. QED BY <1>1, <1>2, <1>3, <1>4, <1>5, <1>6, <1>7, <1>8, <1>9, <1>10

\* A broadcast puts nothing but its message on the links.
LEMMA BroadcastBody ==
  ASSUME NEW n, NEW body, NEW seen, NEW pending,
         BroadcastMessage(n, body, seen, pending)
  PROVE  \A m \in net' : m \in pending \/ (m.to \in Nodes /\ m.body = body)
BY DEF BroadcastMessage

\* What the links carry stays what it is while the chains are.
LEMMA MessagesKept ==
  ASSUME IInv, UNCHANGED <<height, chain>>,
         \A m \in net' : \/ m \in net
                         \/ m.to \in Nodes /\ \E tx \in TxValidators : m.body = TxMessage(tx)
  PROVE  MessagesOK'
<1>1. ASSUME NEW m \in net'
      PROVE  /\ m.to \in Nodes
             /\ m.body.kind = "tx" => m.body.tx \in TxValidators
             /\ m.body.kind = "block" => CreatorHas(m.body.block)
  <2>1. CASE m \in net
    BY <2>1 DEF IInv, MessagesOK
  <2>2. CASE m.to \in Nodes /\ \E tx \in TxValidators : m.body = TxMessage(tx)
    BY <2>2 DEF TxMessage
  <2>. QED BY <2>1, <2>2
<1>. QED BY <1>1 DEF MessagesOK, CreatorHas

\* rdPoS::addValidatorTx keeps the mempool a set of transactions of the round.
LEMMA AddKeeps ==
  ASSUME IInv, NEW n \in Nodes, NEW tx \in TxValidators, AddValidatorTx(n, tx)
  PROVE  /\ validatorMempool' \in [Nodes -> SUBSET TxValidators]
         /\ MempoolOfTheRound'
<1>1. validatorMempool' \in [Nodes -> SUBSET TxValidators]
  BY DEF IInv, TypeOK, AddValidatorTx
<1>2. CASE validatorMempool' = validatorMempool
  <2>1. MempoolOfTheRound'
    BY <1>2 DEF IInv, AddValidatorTx, MempoolOfTheRound, Latest
  <2>. QED BY <1>1, <2>1
<1>3. CASE Accepts(n, tx) /\ tx \notin validatorMempool[n]
  <2>1. /\ validatorMempool'[n] = validatorMempool[n] \cup {tx}
        /\ \A m \in Nodes : m # n => validatorMempool'[m] = validatorMempool[m]
    BY <1>3 DEF IInv, TypeOK, AddValidatorTx
  <2>2. /\ tx.height = height[n] + 1
        /\ tx.from \in Participants(ListAfter(Latest(n)))
        /\ \A t \in validatorMempool[n] : t.from = tx.from => t.fn # tx.fn
        /\ lock[n] = "free"
    BY <1>3 DEF Accepts, AddValidatorTx, IInv, ListOK
  <2>3. UNCHANGED <<height, chain, lock>>
    BY DEF AddValidatorTx
  <2>4. ASSUME NEW m \in Nodes, NEW x \in validatorMempool'[m]
        PROVE  /\ x.height = height[m] + 1
               /\ x.from \in Participants(ListAfter(Latest(m)))
               /\ \A t \in validatorMempool'[m] : t.from = x.from /\ t.fn = x.fn => t = x
               /\ lock[m] = "free"
    <3>1. CASE x \in validatorMempool[m]
      BY <2>1, <2>2, <3>1 DEF IInv, MempoolOfTheRound
    <3>2. CASE m = n /\ x = tx
      BY <2>1, <2>2, <3>2 DEF IInv, MempoolOfTheRound
    <3>. QED BY <2>1, <2>4, <3>1, <3>2
  <2>5. MempoolOfTheRound'
    BY <2>3, <2>4 DEF MempoolOfTheRound, Latest
  <2>. QED BY <1>1, <2>5
<1>4. CASE Accepts(n, tx) /\ tx \in validatorMempool[n]
  <2>1. validatorMempool' = validatorMempool
    BY <1>4 DEF AddValidatorTx, IInv, TypeOK
  <2>. QED BY <1>2, <2>1
<1>5. CASE ~Accepts(n, tx)
  <2>1. validatorMempool' = validatorMempool
    BY <1>5 DEF AddValidatorTx, IInv, TypeOK
  <2>. QED BY <1>2, <2>1
<1>. QED BY <1>3, <1>4, <1>5

\* The transactions that doTxCreation makes.
LEMMA WorkerTxType ==
  ASSUME IInv, NEW n \in Validators, NEW fn \in Functions, NEW s \in Seeds
  PROVE  WorkerTx(n, fn, s) \in TxValidators
BY NodesAssumption DEF IInv, TypeOK, WorkerTx, TxValidators

\* The steps of the worker, and of the handler of its transactions, that add to
\* the mempool.
LEMMA WorkerAdds ==
  ASSUME IInv, NEW n \in Nodes,
         WorkerAddAnswered(n) \/ CommitHash(n) \/ RevealSeed(n)
  PROVE  IInv'
<1>. USE DEF netVars, stopVars
<1>1. CASE WorkerAddAnswered(n)
  <2>1. PICK tx \in answer[n] : /\ AddValidatorTx(n, tx)
                                /\ answer' = [answer EXCEPT ![n] = @ \ {tx}]
    BY <1>1 DEF WorkerAddAnswered
  <2>2. tx \in TxValidators
    BY DEF IInv, TypeOK
  <2>3. validatorMempool' \in [Nodes -> SUBSET TxValidators] /\ MempoolOfTheRound'
    BY <2>1, <2>2, AddKeeps
  <2>4. UNCHANGED <<height, chain, randomList, lock, syncerVars, handlerVars, net>>
    BY <1>1, <2>1 DEF WorkerAddAnswered, AddValidatorTx
  <2>5. TypeOK'
    BY <1>1, <2>1, <2>3 DEF IInv, TypeOK, WorkerAddAnswered, AddValidatorTx, syncerVars,
                            handlerVars
  <2>6. WorkerOK'
    BY <1>1 DEF IInv, WorkerOK, WorkerAddAnswered, syncerVars
  <2>7. MessagesOK'
    BY <2>4, MessagesKept
  <2>. QED BY <2>3, <2>4, <2>5, <2>6, <2>7, WorkerFrame
<1>2. CASE CommitHash(n)
  <2>1. PICK s \in Seeds :
          /\ wSeed' = [wSeed EXCEPT ![n] = s]
          /\ AddValidatorTx(n, WorkerTx(n, "hash", s))
          /\ BroadcastMessage(n, TxMessage(WorkerTx(n, "hash", s)), broadcasted, net)
    BY <1>2 DEF CommitHash
  <2>2. n \in Validators /\ wIndex[n] \in 1..MinValidators
    BY <1>2 DEF CommitHash, IInv, WorkerOK
  <2>3. WorkerTx(n, "hash", s) \in TxValidators
    BY <2>2, WorkerTxType DEF Functions
  <2>4. validatorMempool' \in [Nodes -> SUBSET TxValidators] /\ MempoolOfTheRound'
    BY <2>1, <2>3, AddKeeps
  <2>5. UNCHANGED <<height, chain, randomList, lock, syncerVars, handlerVars>>
    BY <1>2, <2>1 DEF CommitHash, AddValidatorTx
  <2>6. TypeOK'
    BY <1>2, <2>1, <2>4 DEF IInv, TypeOK, CommitHash, AddValidatorTx, syncerVars,
                            handlerVars, WorkerPcs
  <2>7. WorkerOK'
    BY <1>2, <2>1, <2>2 DEF IInv, TypeOK, WorkerOK, CommitHash, syncerVars
  <2>8. \A m \in net' : m \in net \/ (m.to \in Nodes /\ m.body = TxMessage(WorkerTx(n, "hash", s)))
    BY <2>1, BroadcastBody
  <2>9. MessagesOK'
    BY <2>3, <2>5, <2>8, MessagesKept
  <2>. QED BY <2>4, <2>5, <2>6, <2>7, <2>9, WorkerFrame
<1>3. CASE RevealSeed(n)
  <2>1. n \in Validators /\ wIndex[n] \in 1..MinValidators /\ wSeed[n] \in Seeds
    BY <1>3 DEF RevealSeed, IInv, WorkerOK
  <2>2. WorkerTx(n, "seed", wSeed[n]) \in TxValidators
    BY <2>1, WorkerTxType DEF Functions
  <2>3. /\ AddValidatorTx(n, WorkerTx(n, "seed", wSeed[n]))
        /\ BroadcastMessage(n, TxMessage(WorkerTx(n, "seed", wSeed[n])), broadcasted, net)
    BY <1>3 DEF RevealSeed
  <2>4. validatorMempool' \in [Nodes -> SUBSET TxValidators] /\ MempoolOfTheRound'
    BY <2>2, <2>3, AddKeeps
  <2>5. UNCHANGED <<height, chain, randomList, lock, syncerVars, handlerVars>>
    BY <1>3, <2>3 DEF RevealSeed, AddValidatorTx
  <2>6. TypeOK'
    <3>1. AfterIndex(wIndex[n]) \in WorkerPcs
      BY DEF AfterIndex, WorkerPcs
    <3>2. wpc' \in [Nodes -> WorkerPcs] /\ wSeed' \in [Nodes -> Seeds \cup {NoSeed}]
      BY <1>3, <3>1 DEF IInv, TypeOK, RevealSeed
    <3>. QED BY <1>3, <2>4, <2>5, <3>2
             DEF IInv, TypeOK, RevealSeed, syncerVars, handlerVars
  <2>7. WorkerOK'
    BY <1>3, <2>1, MinAssumption DEF IInv, TypeOK, WorkerOK, RevealSeed, AfterIndex, syncerVars
  <2>8. \A m \in net' : \/ m \in net
                        \/ m.to \in Nodes /\ m.body = TxMessage(WorkerTx(n, "seed", wSeed[n]))
    BY <2>3, BroadcastBody
  <2>9. MessagesOK'
    BY <2>2, <2>5, <2>8, MessagesKept
  <2>. QED BY <2>4, <2>5, <2>6, <2>7, <2>9, WorkerFrame
<1>. QED BY <1>1, <1>2, <1>3

\* requestValidatorTxs fills the answer of the worker with transactions.
LEMMA RequestKeeps ==
  ASSUME IInv, NEW n \in Nodes, NEW m \in Nodes, WorkerRequest(n, m)
  PROVE  IInv'
<1>. USE DEF syncerVars, handlerVars, storeVars, netVars, stopVars
<1>1. answer' = [answer EXCEPT ![n] = validatorMempool[m] \ validatorMempool[n]]
  BY DEF WorkerRequest
<1>2. answer' \in [Nodes -> SUBSET TxValidators]
  BY <1>1 DEF IInv, TypeOK
<1>3. TypeOK'
  BY <1>2 DEF IInv, TypeOK, WorkerRequest
<1>4. WorkerOK'
  BY DEF IInv, WorkerOK, WorkerRequest
<1>. QED BY <1>3, <1>4, LocalFrame DEF WorkerRequest

-----------------------------------------------------------------------------
(* The stop and the links *)

\* Syncer::stop touches no chain, list or lock, and a node that goes down only
\* takes messages off the links.
LEMMA StopKeeps ==
  ASSUME IInv, NEW n \in Nodes, StopBegin(n) \/ StopStep(n)
  PROVE  IInv'
<1>. USE DEF syncerVars, handlerVars, storeVars, netVars, stopVars, workerVars
<1>1. ASSUME StopBegin(n) \/ StopTheWorker(n) \/ JoinWorker(n)
      PROVE  IInv'
  <2>1. TypeOK'
    <3>1. PICK p \in Phases : phase' = [phase EXCEPT ![n] = p]
      BY <1>1 DEF StopBegin, StopTheWorker, JoinWorker, Phases
    <3>2. stopWorker' \in [Nodes -> BOOLEAN]
      BY <1>1 DEF IInv, TypeOK, StopBegin, StopTheWorker, JoinWorker
    <3>. QED BY <1>1, <3>1, <3>2 DEF IInv, TypeOK, StopBegin, StopTheWorker, JoinWorker
  <2>2. WorkerOK'
    BY <1>1 DEF IInv, WorkerOK, StopBegin, StopTheWorker, JoinWorker
  <2>. QED BY <1>1, <2>1, <2>2, LocalFrame DEF StopBegin, StopTheWorker, JoinWorker
<1>2. CASE JoinSyncer(n)
  <2>1. TypeOK'
    BY <1>2 DEF IInv, TypeOK, JoinSyncer, Phases
  <2>2. WorkerOK'
    BY <1>2 DEF IInv, WorkerOK, JoinSyncer
  <2>3. MessagesOK'
    BY <1>2, MessagesKept DEF JoinSyncer
  <2>4. MempoolOfTheRound'
    BY <1>2 DEF IInv, MempoolOfTheRound, Latest, JoinSyncer
  <2>. QED BY <1>2, <2>1, <2>2, <2>3, <2>4, WorkerFrame DEF JoinSyncer
<1>. QED BY <1>1, <1>2 DEF StopStep

\* A lost broadcast leaves every node as it is.
LEMMA LoseKeeps ==
  ASSUME IInv, NEW m \in net, LoseMessage(m)
  PROVE  IInv'
<1>. USE DEF syncerVars, handlerVars, storeVars, stopVars, workerVars
<1>1. TypeOK'
  BY DEF IInv, TypeOK, LoseMessage
<1>2. WorkerOK'
  BY DEF IInv, WorkerOK, LoseMessage
<1>3. MessagesOK'
  BY MessagesKept DEF LoseMessage
<1>4. MempoolOfTheRound'
  BY DEF IInv, MempoolOfTheRound, Latest, LoseMessage
<1>. QED BY <1>1, <1>2, <1>3, <1>4, WorkerFrame DEF LoseMessage

\* handleTxValidatorBroadcast adds the transaction and broadcasts it again.
LEMMA HandleTxKeeps ==
  ASSUME IInv, NEW m \in net, HandleTxValidatorBroadcast(m)
  PROVE  IInv'
<1>. USE DEF stopVars, workerVars
<1>1. /\ m.body.kind = "tx"
      /\ AddValidatorTx(m.to, m.body.tx)
      /\ \/ BroadcastMessage(m.to, m.body, broadcasted, net \ {m})
         \/ net' = net \ {m}
      /\ UNCHANGED <<workerVars, canCreateBlock, syncerVars, handlerVars, stopVars>>
  BY DEF HandleTxValidatorBroadcast
<1>2. m.to \in Nodes /\ m.body.tx \in TxValidators
  BY <1>1 DEF IInv, MessagesOK
<1>3. validatorMempool' \in [Nodes -> SUBSET TxValidators] /\ MempoolOfTheRound'
  BY <1>1, <1>2, AddKeeps
<1>4. UNCHANGED <<height, chain, randomList, lock>>
  BY <1>1 DEF AddValidatorTx
<1>5. TypeOK'
  BY <1>1, <1>3, <1>4 DEF IInv, TypeOK, syncerVars, handlerVars
<1>6. WorkerOK'
  BY <1>1 DEF IInv, WorkerOK, syncerVars
<1>7. \A x \in net' : x \in net \/ (x.to \in Nodes /\ x.body = m.body)
  BY <1>1, BroadcastBody
<1>8. MessagesOK'
  <2>1. ASSUME NEW x \in net'
        PROVE  /\ x.to \in Nodes
               /\ x.body.kind = "tx" => x.body.tx \in TxValidators
               /\ x.body.kind = "block" => CreatorHas(x.body.block)
    BY <1>1, <1>2, <1>7 DEF IInv, MessagesOK
  <2>. QED BY <1>4, <2>1 DEF MessagesOK, CreatorHas
<1>. QED BY <1>1, <1>3, <1>4, <1>5, <1>6, <1>8, WorkerFrame

-----------------------------------------------------------------------------
(* The syncer *)

\* What is known of a syncer depends on its own node only.
LEMMA SyncerAtKept ==
  ASSUME NEW m \in Nodes, SyncerAt(m), UNCHANGED <<height, chain>>,
         spc'[m] = spc[m], sMempool'[m] = sMempool[m], sBlock'[m] = sBlock[m],
         lock'[m] = lock[m], randomList'[m] = randomList[m]
  PROVE  SyncerAt(m)'
BY DEF SyncerAt, Extends, Latest, CreatorHas

\* A step of the syncer that only moves its program counter.
LEMMA GotoKeeps ==
  ASSUME IInv, NEW n \in Nodes, NEW from,
         NEW to \in {"idle", "start", "waitTx", "mempool", "orderSeed", "process",
                     "done", "dead"},
         SyncerGoto(n, from, to), from # "push",
         to = "start" => n \in Validators,
         to = "waitTx" => from = "waitReady",
         to = "mempool" => from = "waitTx",
         to = "orderSeed" => from = "orderHash",
         to = "process" => from = "validate" /\ Extends(n, sBlock[n]),
         to = "dead" => from \in {"validate", "process"}
  PROVE  IInv'
<1>. USE DEF handlerVars, storeVars, netVars, stopVars, workerVars
<1>1. /\ spc[n] = from /\ spc' = [spc EXCEPT ![n] = to]
      /\ spc'[n] = to /\ \A m \in Nodes : m # n => spc'[m] = spc[m]
      /\ UNCHANGED <<storeVars, workerVars, canCreateBlock, sHeight, sMempool, sList,
                     sBlock, handlerVars, netVars, stopVars>>
  BY DEF SyncerGoto, IInv, TypeOK
<1>2. TypeOK'
  BY <1>1 DEF IInv, TypeOK, SyncerPcs
<1>3. DomainsOK'
  BY <1>1 DEF IInv, DomainsOK
<1>4. WorkerOK'
  BY <1>1 DEF IInv, WorkerOK
<1>5. LockOK'
  BY <1>1 DEF IInv, LockOK
<1>6. SyncerOK'
  <2>1. \A m \in Nodes : m # n => SyncerAt(m)'
    BY <1>1, SyncerAtKept DEF IInv, SyncerOK
  <2>2. /\ to \in Creating => randomList[n][0] = n
        /\ to = "orderSeed" /\ sMempool[n] # {} => lock[n] = "free"
    BY <1>1 DEF IInv, SyncerOK, SyncerAt, Creating
  <2>3. to = "process" => /\ IsBlock(sBlock[n]) /\ sBlock[n].creator = n
                          /\ Extends(n, sBlock[n]) /\ ListAfter(Latest(n))[0] = n
    BY <1>1 DEF IInv, SyncerOK, SyncerAt, ListOK, Creating
  <2>4. SyncerAt(n)'
    BY <1>1, <2>2, <2>3 DEF SyncerAt, Extends, Latest
  <2>. QED BY <2>1, <2>4 DEF SyncerOK
<1>. QED BY <1>1, <1>2, <1>3, <1>4, <1>5, <1>6, SyncerFrame

\* The other steps of the syncer that leave State alone: the start of the worker,
\* the choice of what to do, the two snapshots, the new block and its signature.
LEMMA SyncerLocal ==
  ASSUME IInv, NEW n \in Nodes,
         \/ SyncerStartWorker(n) \/ SyncerGetMempool(n) \/ SyncerGetList(n)
         \/ SyncerOrderSeed(n) \/ SyncerSign(n)
         \/ /\ spc[n] \in {"loop", "wait"}
            /\ SyncerLoop(n) /\ spc'[n] # "done"
  PROVE  IInv'
<1>. USE DEF handlerVars, storeVars, netVars, stopVars, workerVars
<1>1. CASE SyncerStartWorker(n)
  <2>1. TypeOK'
    BY <1>1 DEF IInv, TypeOK, SyncerStartWorker, WorkerPcs, SyncerPcs
  <2>2. DomainsOK'
    BY <1>1 DEF IInv, DomainsOK, SyncerStartWorker
  <2>3. WorkerOK'
    BY <1>1 DEF IInv, TypeOK, WorkerOK, SyncerStartWorker
  <2>4. LockOK'
    BY <1>1 DEF IInv, TypeOK, LockOK, SyncerStartWorker
  <2>5. SyncerOK'
    <3>1. \A m \in Nodes : m # n => SyncerAt(m)'
      BY <1>1, SyncerAtKept DEF IInv, TypeOK, SyncerOK, SyncerStartWorker
    <3>2. SyncerAt(n)'
      BY <1>1 DEF IInv, TypeOK, SyncerAt, SyncerStartWorker, Creating
    <3>. QED BY <3>1, <3>2 DEF SyncerOK
  <2>. QED BY <1>1, <2>1, <2>2, <2>3, <2>4, <2>5, SyncerFrame DEF SyncerStartWorker
<1>2. CASE SyncerGetMempool(n)
  <2>1. TypeOK'
    BY <1>2 DEF IInv, TypeOK, SyncerGetMempool, SyncerPcs
  <2>2. DomainsOK'
    BY <1>2 DEF IInv, DomainsOK, SyncerGetMempool
  <2>3. WorkerOK'
    BY <1>2 DEF IInv, TypeOK, WorkerOK, SyncerGetMempool
  <2>4. LockOK'
    BY <1>2 DEF IInv, TypeOK, LockOK, SyncerGetMempool
  <2>5. SyncerOK'
    <3>1. \A m \in Nodes : m # n => SyncerAt(m)'
      BY <1>2, SyncerAtKept DEF IInv, TypeOK, SyncerOK, SyncerGetMempool
    <3>2. randomList[n][0] = n /\ (validatorMempool[n] # {} => lock[n] = "free")
      BY <1>2 DEF IInv, SyncerOK, SyncerAt, MempoolOfTheRound, SyncerGetMempool, Creating
    <3>3. SyncerAt(n)'
      BY <1>2, <3>2 DEF IInv, TypeOK, SyncerAt, SyncerGetMempool, Creating
    <3>. QED BY <3>1, <3>3 DEF SyncerOK
  <2>. QED BY <1>2, <2>1, <2>2, <2>3, <2>4, <2>5, SyncerFrame DEF SyncerGetMempool
<1>3. CASE SyncerGetList(n)
  <2>1. TypeOK'
    BY <1>3 DEF IInv, TypeOK, SyncerGetList, SyncerPcs
  <2>2. DomainsOK'
    BY <1>3 DEF IInv, DomainsOK, SyncerGetList
  <2>3. WorkerOK'
    BY <1>3 DEF IInv, TypeOK, WorkerOK, SyncerGetList
  <2>4. LockOK'
    BY <1>3 DEF IInv, TypeOK, LockOK, SyncerGetList
  <2>5. SyncerOK'
    <3>1. \A m \in Nodes : m # n => SyncerAt(m)'
      BY <1>3, SyncerAtKept DEF IInv, TypeOK, SyncerOK, SyncerGetList
    <3>2. randomList[n][0] = n /\ (sMempool[n] # {} => lock[n] = "free")
      BY <1>3 DEF IInv, SyncerOK, SyncerAt, SyncerGetList, Creating
    <3>3. SyncerAt(n)'
      BY <1>3, <3>2 DEF IInv, TypeOK, SyncerAt, SyncerGetList, Creating
    <3>. QED BY <3>1, <3>3 DEF SyncerOK
  <2>. QED BY <1>3, <2>1, <2>2, <2>3, <2>4, <2>5, SyncerFrame DEF SyncerGetList
<1>4. CASE SyncerOrderSeed(n) /\ StopSyncer(n)
  <2>1. SyncerGoto(n, "orderSeed", "done")
    BY <1>4 DEF SyncerOrderSeed, SyncerGoto
  <2>. QED BY <2>1, GotoKeeps
<1>5. CASE SyncerOrderSeed(n) /\ ~StopSyncer(n)
  <2>0. PICK txs \in [1..(2 * MinValidators) -> sMempool[n]] :
          sBlock' = [sBlock EXCEPT ![n] =
            [height |-> height[n] + 1, prev |-> Latest(n),
             creator |-> n, txs |-> txs, finalized |-> FALSE]]
    BY <1>5 DEF SyncerOrderSeed
  <2>1. /\ spc[n] = "orderSeed" /\ spc' = [spc EXCEPT ![n] = "sign"]
        /\ UNCHANGED <<storeVars, workerVars, canCreateBlock, sHeight, sMempool,
                       sList, handlerVars, netVars, stopVars>>
    BY <1>5 DEF SyncerOrderSeed
  <2>2. TypeOK'
    BY <2>1 DEF IInv, TypeOK, SyncerPcs
  <2>3. DomainsOK'
    BY <2>0, <2>1 DEF IInv, DomainsOK
  <2>4. WorkerOK'
    BY <2>1 DEF IInv, TypeOK, WorkerOK
  <2>5. LockOK' /\ lock[n] # "syncer"
    BY <2>1 DEF IInv, TypeOK, LockOK
  <2>6. SyncerOK'
    <3>1. \A m \in Nodes : m # n => SyncerAt(m)'
      BY <2>0, <2>1, SyncerAtKept DEF IInv, TypeOK, DomainsOK, SyncerOK
    <3>2. txs \in TxLists /\ sMempool[n] # {}
      <4>1. 1 \in 1..(2 * MinValidators)
        BY MinAssumption
      <4>2. sMempool[n] \subseteq TxValidators
        BY DEF IInv, TypeOK
      <4>. QED BY <4>1, <4>2 DEF TxLists
    <3>3. randomList[n][0] = n /\ lock[n] = "free"
      BY <2>1, <3>2 DEF IInv, SyncerOK, SyncerAt, Creating
    <3>4. IsBlock(sBlock[n])' /\ sBlock'[n].creator = n
      BY <2>0, <3>2 DEF IsBlock, IInv, TypeOK, DomainsOK
    <3>5. SyncerAt(n)'
      BY <2>1, <3>3, <3>4 DEF IInv, TypeOK, SyncerAt, Creating
    <3>. QED BY <3>1, <3>5 DEF SyncerOK
  <2>. QED BY <2>0, <2>1, <2>2, <2>3, <2>4, <2>5, <2>6, SyncerFrame DEF IInv, DomainsOK
<1>6. CASE SyncerSign(n)
  <2>0. PICK ok \in BOOLEAN : sBlock' = [sBlock EXCEPT ![n].finalized = ok]
    BY <1>6, ClockAssumption DEF SyncerSign
  <2>1. /\ spc[n] = "sign" /\ spc' = [spc EXCEPT ![n] = "validate"]
        /\ canCreateBlock' = [canCreateBlock EXCEPT ![n] = FALSE]
        /\ UNCHANGED <<storeVars, workerVars, sHeight, sMempool, sList, handlerVars,
                       netVars, stopVars>>
    BY <1>6 DEF SyncerSign
  <2>2. TypeOK'
    BY <2>1 DEF IInv, TypeOK, SyncerPcs
  <2>3. DomainsOK'
    BY <2>0, <2>1 DEF IInv, DomainsOK
  <2>4. WorkerOK'
    BY <2>1 DEF IInv, TypeOK, WorkerOK
  <2>5. LockOK' /\ lock[n] # "syncer"
    BY <2>1 DEF IInv, TypeOK, LockOK
  <2>6. SyncerOK'
    <3>1. \A m \in Nodes : m # n => SyncerAt(m)'
      BY <2>0, <2>1, SyncerAtKept DEF IInv, TypeOK, DomainsOK, SyncerOK
    <3>2. /\ randomList[n][0] = n /\ lock[n] = "free"
          /\ IsBlock(sBlock[n]) /\ sBlock[n].creator = n
      BY <2>1 DEF IInv, SyncerOK, SyncerAt, Creating
    <3>3. IsBlock(sBlock[n])' /\ sBlock'[n].creator = n
      BY <2>0, <3>2 DEF IsBlock, IInv, DomainsOK
    <3>4. SyncerAt(n)'
      BY <2>1, <3>2, <3>3 DEF IInv, TypeOK, SyncerAt, Creating
    <3>. QED BY <3>1, <3>4 DEF SyncerOK
  <2>. QED BY <2>0, <2>1, <2>2, <2>3, <2>4, <2>5, <2>6, SyncerFrame DEF IInv, DomainsOK
<1>7. CASE /\ spc[n] \in {"loop", "wait"}
           /\ SyncerLoop(n) /\ spc'[n] # "done"
  <2>1. /\ sHeight' = [sHeight EXCEPT ![n] = height[n]]
        /\ spc' = [spc EXCEPT ![n] = IF randomList[n][0] = n THEN "waitReady" ELSE "wait"]
        /\ UNCHANGED <<storeVars, workerVars, canCreateBlock, sMempool, sList,
                       sBlock, handlerVars, netVars, stopVars>>
    BY <1>7 DEF SyncerLoop, SyncerGoto, IInv, TypeOK
  <2>2. TypeOK'
    BY <2>1 DEF IInv, TypeOK, SyncerPcs
  <2>3. DomainsOK'
    BY <2>1 DEF IInv, DomainsOK
  <2>4. WorkerOK'
    BY <1>7, <2>1 DEF IInv, TypeOK, WorkerOK
  <2>5. LockOK'
    BY <1>7, <2>1 DEF IInv, TypeOK, LockOK
  <2>6. SyncerOK'
    <3>1. \A m \in Nodes : m # n => SyncerAt(m)'
      BY <2>1, SyncerAtKept DEF IInv, TypeOK, SyncerOK
    <3>2. SyncerAt(n)'
      BY <2>1 DEF IInv, TypeOK, SyncerAt, Creating
    <3>. QED BY <3>1, <3>2 DEF SyncerOK
  <2>. QED BY <2>1, <2>2, <2>3, <2>4, <2>5, <2>6, SyncerFrame
<1>. QED BY <1>1, <1>2, <1>3, <1>4, <1>5, <1>6, <1>7

-----------------------------------------------------------------------------
(* Blocks that are applied *)

\* The block that the handler applies was created by the validator that the latest
\* block elects, which has it in its chain already and hence is another node: the
\* handler and the syncer of a node never apply a block at the same height.
LEMMA HandlerNotCreator ==
  ASSUME IInv, NEW n \in Nodes, hpc[n] # "idle"
  PROVE  /\ hBlock[n].creator = ListAfter(Latest(n))[0]
         /\ ListAfter(Latest(n))[0] # n
         /\ spc[n] \notin {"process", "push"}
<1>1. CreatorHas(hBlock[n]) /\ Extends(n, hBlock[n])
  BY DEF IInv, HandlerOK
<1>2. \A m \in Nodes : height[m] \in Nat
  BY DEF IInv, TypeOK
<1>3. PICK c \in Nodes : c = hBlock[n].creator
  BY <1>1 DEF CreatorHas, IsBlock
<1>4. PICK h \in 1..height[c] : h = hBlock[n].height
  BY <1>1, <1>2, <1>3 DEF CreatorHas, IsBlock
<1>5. chain[c][h] = hBlock[n]
  BY <1>1, <1>3, <1>4 DEF CreatorHas
<1>6. chain[c][h].prev = chain[c][h - 1] /\ chain[c][h].creator = ListAfter(chain[c][h - 1])[0]
  BY <1>4 DEF IInv, ChainLinked
<1>7. c = ListAfter(Latest(n))[0]
  BY <1>1, <1>3, <1>5, <1>6 DEF Extends
<1>8. c # n
  BY <1>1, <1>2, <1>4 DEF Extends
<1>. QED BY <1>3, <1>7, <1>8 DEF IInv, SyncerOK, SyncerAt

\* Storage::pushBack and the unlock, by the syncer or by the handler.
LEMMA PushStep ==
  ASSUME IInv, NEW n \in Nodes, NEW b, lock[n] # "free",
         FinishProcess(n, b), Extends(n, b), IsBlock(b),
         b.creator = ListAfter(Latest(n))[0], b.creator = n \/ CreatorHas(b),
         randomList[n] = ListAfter(b), sBlock' = sBlock,
         \A m \in Nodes : m # n => hBlock'[m] = hBlock[m]
  PROVE  /\ ChainLinked' /\ Agreement' /\ CreatorHas(b)' /\ ListOK' /\ MempoolOfTheRound'
         /\ \A x : CreatorHas(x) => CreatorHas(x)'
         /\ \A m \in Nodes : m # n => /\ height'[m] = height[m] /\ lock'[m] = lock[m]
                                      /\ Latest(m)' = Latest(m)
         /\ lock'[n] = "free"
         /\ height' \in [Nodes -> Nat] /\ DOMAIN chain' = Nodes
         /\ \A m \in Nodes : DOMAIN chain'[m] = 0..height'[m]
         /\ lock' \in [Nodes -> {"free", "syncer", "handler"}]
<1>1. /\ height' = [height EXCEPT ![n] = b.height]
      /\ chain' = [chain EXCEPT ![n] =
                     [k \in 0..b.height |-> IF k = b.height THEN b ELSE @[k]]]
      /\ lock' = [lock EXCEPT ![n] = "free"]
      /\ UNCHANGED <<randomList, validatorMempool>>
  BY DEF FinishProcess
<1>2. b.height = height[n] + 1
  BY DEF Extends
<1>3. TypeOK /\ ChainLinked /\ Agreement
  BY DEF IInv
<1>4. /\ \A m \in Nodes : height'[m] = IF m = n THEN height[n] + 1 ELSE height[m]
      /\ \A m \in Nodes : \A k \in 0..height[m] : chain'[m][k] = chain[m][k]
      /\ chain'[n][height[n] + 1] = b
      /\ \A m \in Nodes : DOMAIN chain'[m] = 0..height'[m]
      /\ \A x : CreatorHas(x) => CreatorHas(x)'
  BY <1>1, <1>2, <1>3, PushKeeps
<1>5. ChainLinked' /\ Agreement' /\ CreatorHas(b)'
  BY <1>1, <1>3, PushAgrees
<1>6. \A m \in Nodes : height[m] \in Nat
  BY <1>3 DEF TypeOK
<1>7. /\ lock'[n] = "free"
      /\ \A m \in Nodes : m # n => lock'[m] = lock[m]
      /\ lock' \in [Nodes -> {"free", "syncer", "handler"}]
  BY <1>1, <1>3 DEF TypeOK
<1>8. \A m \in Nodes : m # n => height'[m] = height[m] /\ Latest(m)' = Latest(m)
  BY <1>4, <1>6 DEF Latest
<1>9. Latest(n)' = b
  BY <1>4, <1>6 DEF Latest
<1>10. ListOK'
  BY <1>1, <1>7, <1>8, <1>9 DEF IInv, ListOK
<1>11. MempoolOfTheRound'
  <2>1. validatorMempool[n] = {}
    BY DEF IInv, MempoolOfTheRound
  <2>2. ASSUME NEW m \in Nodes, m # n, NEW tx \in validatorMempool[m]
        PROVE  /\ tx.height = height'[m] + 1
               /\ tx.from \in Participants(ListAfter(Latest(m)'))
               /\ \A t \in validatorMempool[m] : t.from = tx.from /\ t.fn = tx.fn => t = tx
               /\ lock'[m] = "free"
    BY <1>7, <1>8, <2>2 DEF IInv, MempoolOfTheRound
  <2>. QED BY <1>1, <2>1, <2>2 DEF MempoolOfTheRound, Latest
<1>12. height' \in [Nodes -> Nat] /\ DOMAIN chain' = Nodes
  BY <1>1, <1>2, <1>3, <1>6 DEF TypeOK
<1>. QED BY <1>4, <1>5, <1>7, <1>8, <1>10, <1>11, <1>12

\* processNextBlock takes stateMutex_, for the syncer or for the handler.
LEMMA ProcessStep ==
  ASSUME IInv, NEW n \in Nodes, NEW b, IsBlock(b),
         NEW owner \in {"syncer", "handler"}, BeginProcess(n, b, owner),
         owner = "syncer" => b = sBlock[n], owner = "handler" => b = hBlock[n],
         UNCHANGED <<workerVars, canCreateBlock, sHeight, sMempool, sList, sBlock,
                     hBlock, netVars, stopVars>>,
         spc' \in [Nodes -> SyncerPcs], hpc' \in [Nodes -> {"idle", "process", "push"}]
  PROVE  /\ TypeOK' /\ DomainsOK' /\ MessagesOK' /\ ChainLinked' /\ ListOK'
         /\ MempoolOfTheRound' /\ Agreement'
<1>. USE DEF workerVars, netVars, stopVars
<1>1. /\ lock[n] = "free"
      /\ lock' = [lock EXCEPT ![n] = owner]
      /\ validatorMempool' = [validatorMempool EXCEPT ![n] = {}]
      /\ randomList' = [randomList EXCEPT ![n] = ListAfter(b)]
      /\ UNCHANGED <<height, chain>>
  BY DEF BeginProcess
<1>2. ListAfter(b) \in ValidatorLists
  BY ListType DEF IsBlock, ListAfter
<1>3. TypeOK'
  BY <1>1, <1>2 DEF IInv, TypeOK
<1>4. DomainsOK'
  BY DEF IInv, DomainsOK
<1>5. MessagesOK'
  BY <1>1 DEF IInv, MessagesOK, CreatorHas
<1>6. ChainLinked' /\ Agreement'
  BY <1>1 DEF IInv, ChainLinked, Agreement, CreatorHas
<1>7. ListOK'
  BY <1>1 DEF IInv, TypeOK, ListOK, Latest
<1>8. MempoolOfTheRound'
  <2>1. \A m \in Nodes : m # n => lock'[m] = lock[m] /\ validatorMempool'[m] = validatorMempool[m]
    BY <1>1 DEF IInv, TypeOK
  <2>2. validatorMempool'[n] = {}
    BY <1>1 DEF IInv, TypeOK
  <2>. QED BY <1>1, <2>1, <2>2 DEF IInv, MempoolOfTheRound, Latest
<1>. QED BY <1>3, <1>4, <1>5, <1>6, <1>7, <1>8

\* The syncer applies its own block.
LEMMA SyncerProcessKeeps ==
  ASSUME IInv, NEW n \in Nodes, SyncerProcess(n)
  PROVE  IInv'
<1>. USE DEF workerVars, netVars, stopVars, handlerVars
<1>1. /\ spc[n] = "process" /\ spc' = [spc EXCEPT ![n] = "push"]
      /\ BeginProcess(n, sBlock[n], "syncer")
      /\ UNCHANGED <<workerVars, canCreateBlock, sHeight, sMempool, sList, sBlock,
                     handlerVars, netVars, stopVars>>
  BY DEF SyncerProcess
<1>2. /\ IsBlock(sBlock[n]) /\ sBlock[n].creator = n
      /\ Extends(n, sBlock[n]) /\ ListAfter(Latest(n))[0] = n
  BY <1>1 DEF IInv, SyncerOK, SyncerAt
<1>3. hpc[n] = "idle"
  BY <1>1, HandlerNotCreator
<1>4. spc' \in [Nodes -> SyncerPcs] /\ hpc' \in [Nodes -> {"idle", "process", "push"}]
  BY <1>1 DEF IInv, TypeOK, SyncerPcs
<1>5. /\ TypeOK' /\ DomainsOK' /\ MessagesOK' /\ ChainLinked' /\ ListOK'
      /\ MempoolOfTheRound' /\ Agreement'
  BY <1>1, <1>2, <1>4, ProcessStep
<1>6. WorkerOK'
  BY <1>1 DEF IInv, TypeOK, WorkerOK
<1>7. LockOK'
  BY <1>1, <1>3 DEF IInv, TypeOK, LockOK, BeginProcess
<1>8. HandlerOK'
  BY <1>1 DEF IInv, HandlerOK, CreatorHas, Extends, Latest, BeginProcess
<1>9. SyncerOK'
  <2>1. \A m \in Nodes : m # n => SyncerAt(m)'
    BY <1>1, SyncerAtKept DEF IInv, TypeOK, SyncerOK, BeginProcess
  <2>2. SyncerAt(n)'
    BY <1>1, <1>2 DEF IInv, TypeOK, SyncerAt, Extends, Latest, Creating, BeginProcess
  <2>. QED BY <2>1, <2>2 DEF SyncerOK
<1>. QED BY <1>5, <1>6, <1>7, <1>8, <1>9 DEF IInv

\* The handler applies a block of another node.
LEMMA HandlerProcessKeeps ==
  ASSUME IInv, NEW n \in Nodes, HandlerProcess(n)
  PROVE  IInv'
<1>. USE DEF workerVars, netVars, stopVars, syncerVars
<1>1. /\ hpc[n] = "process" /\ hpc' = [hpc EXCEPT ![n] = "push"]
      /\ BeginProcess(n, hBlock[n], "handler")
      /\ UNCHANGED <<workerVars, canCreateBlock, syncerVars, hBlock, netVars, stopVars>>
  BY DEF HandlerProcess
<1>2. CreatorHas(hBlock[n]) /\ IsBlock(hBlock[n]) /\ Extends(n, hBlock[n])
  BY <1>1 DEF IInv, HandlerOK, CreatorHas
<1>3. /\ ListAfter(Latest(n))[0] # n
      /\ spc[n] \notin {"process", "push"}
  BY <1>1, HandlerNotCreator
<1>4. spc[n] \notin Creating
  <2>1. randomList[n] = ListAfter(Latest(n))
    BY <1>1 DEF IInv, ListOK, BeginProcess
  <2>. QED BY <1>3, <2>1 DEF IInv, SyncerOK, SyncerAt
<1>5. spc' \in [Nodes -> SyncerPcs] /\ hpc' \in [Nodes -> {"idle", "process", "push"}]
  BY <1>1 DEF IInv, TypeOK
<1>6. /\ TypeOK' /\ DomainsOK' /\ MessagesOK' /\ ChainLinked' /\ ListOK'
      /\ MempoolOfTheRound' /\ Agreement'
  BY <1>1, <1>2, <1>5, ProcessStep
<1>7. WorkerOK'
  BY <1>1 DEF IInv, WorkerOK
<1>8. LockOK'
  BY <1>1, <1>3 DEF IInv, TypeOK, LockOK, BeginProcess
<1>9. HandlerOK'
  <2>1. \A m \in Nodes : hpc'[m] # "idle" => hpc[m] # "idle"
    BY <1>1 DEF IInv, TypeOK
  <2>. QED BY <1>1, <2>1 DEF IInv, HandlerOK, CreatorHas, Extends, Latest, BeginProcess
<1>10. SyncerOK'
  <2>1. \A m \in Nodes : m # n => SyncerAt(m)'
    BY <1>1, SyncerAtKept DEF IInv, TypeOK, SyncerOK, BeginProcess
  <2>2. spc[n] = "confirm" => CreatorHas(sBlock[n])'
    BY <1>1 DEF IInv, SyncerOK, SyncerAt, CreatorHas, BeginProcess
  <2>3. SyncerAt(n)'
    BY <1>1, <1>3, <1>4, <2>2 DEF SyncerAt, Creating
  <2>. QED BY <2>1, <2>3 DEF SyncerOK
<1>. QED BY <1>6, <1>7, <1>8, <1>9, <1>10 DEF IInv

\* A user transaction of the block throws in the handler: the block is forgotten.
LEMMA HandlerThrowsKeeps ==
  ASSUME IInv, NEW n \in Nodes, HandlerThrows(n)
  PROVE  IInv'
<1>. USE DEF workerVars, netVars, stopVars, syncerVars, storeVars
<1>1. /\ hpc[n] = "process" /\ hpc' = [hpc EXCEPT ![n] = "idle"]
      /\ hBlock' = [hBlock EXCEPT ![n] = NoBlock] /\ lock[n] = "free"
      /\ UNCHANGED <<storeVars, workerVars, canCreateBlock, syncerVars, netVars, stopVars>>
  BY DEF HandlerThrows, TransactionThrows
<1>2. TypeOK'
  BY <1>1 DEF IInv, TypeOK
<1>3. DomainsOK'
  BY <1>1 DEF IInv, DomainsOK
<1>4. MessagesOK' /\ WorkerOK' /\ ChainLinked' /\ Agreement'
  BY <1>1 DEF IInv, MessagesOK, WorkerOK, ChainLinked, Agreement, CreatorHas
<1>5. LockOK'
  BY <1>1 DEF IInv, TypeOK, LockOK
<1>6. ListOK'
  BY <1>1 DEF IInv, ListOK, Latest, DomainsOK
<1>7. HandlerOK'
  <2>1. \A m \in Nodes : hpc'[m] # "idle" => hpc[m] # "idle" /\ hBlock'[m] = hBlock[m]
    BY <1>1 DEF IInv, TypeOK, DomainsOK
  <2>. QED BY <1>1, <2>1 DEF IInv, HandlerOK, CreatorHas, Extends, Latest
<1>8. SyncerOK'
  BY <1>1, SyncerAtKept DEF IInv, SyncerOK
<1>9. MempoolOfTheRound'
  BY <1>1 DEF IInv, MempoolOfTheRound, Latest
<1>. QED BY <1>2, <1>3, <1>4, <1>5, <1>6, <1>7, <1>8, <1>9 DEF IInv

\* The syncer appends its own block.
LEMMA SyncerPushKeeps ==
  ASSUME IInv, NEW n \in Nodes, SyncerPush(n)
  PROVE  IInv'
<1>. USE DEF workerVars, netVars, stopVars, handlerVars
<1>1. spc[n] = "push" /\ lock[n] = "syncer" /\ FinishProcess(n, sBlock[n])
  BY DEF SyncerPush, IInv, LockOK
<1>2. /\ IsBlock(sBlock[n]) /\ sBlock[n].creator = n
      /\ Extends(n, sBlock[n]) /\ ListAfter(Latest(n))[0] = n
      /\ randomList[n] = ListAfter(sBlock[n])
  BY <1>1 DEF IInv, SyncerOK, SyncerAt, ListOK
<1>3. hpc[n] = "idle"
  BY <1>1, HandlerNotCreator
<1>4. /\ spc' = [spc EXCEPT ![n] = "confirm"]
      /\ net' \subseteq net
      /\ UNCHANGED <<workerVars, canCreateBlock, sHeight, sMempool, sList, sBlock,
                     handlerVars, stopVars>>
  BY <1>2 DEF SyncerPush, StillPending
<1>5. UNCHANGED <<randomList, validatorMempool>>
  BY <1>1 DEF FinishProcess
<1>6. PICK b : b = sBlock[n]
  OBVIOUS
<1>7. /\ ChainLinked' /\ Agreement' /\ CreatorHas(b)' /\ ListOK' /\ MempoolOfTheRound'
      /\ \A x : CreatorHas(x) => CreatorHas(x)'
      /\ \A m \in Nodes : m # n => /\ height'[m] = height[m] /\ lock'[m] = lock[m]
                                   /\ Latest(m)' = Latest(m)
      /\ lock'[n] = "free"
      /\ height' \in [Nodes -> Nat] /\ DOMAIN chain' = Nodes
      /\ \A m \in Nodes : DOMAIN chain'[m] = 0..height'[m]
      /\ lock' \in [Nodes -> {"free", "syncer", "handler"}]
  BY <1>1, <1>2, <1>4, <1>6, PushStep
<1>8. TypeOK'
  BY <1>4, <1>5, <1>7 DEF IInv, TypeOK, SyncerPcs
<1>9. DomainsOK'
  BY <1>4 DEF IInv, DomainsOK
<1>10. MessagesOK'
  BY <1>4, <1>7 DEF IInv, MessagesOK
<1>11. WorkerOK'
  BY <1>1, <1>4 DEF IInv, TypeOK, WorkerOK
<1>12. LockOK'
  BY <1>1, <1>3, <1>4, <1>7 DEF IInv, TypeOK, LockOK
<1>13. HandlerOK'
  <2>1. ASSUME NEW m \in Nodes, hpc[m] # "idle"
        PROVE  CreatorHas(hBlock[m]) /\ Extends(m, hBlock[m]) /\ m # n
    BY <1>3, <2>1 DEF IInv, HandlerOK
  <2>2. ASSUME NEW m \in Nodes, hpc[m] # "idle"
        PROVE  CreatorHas(hBlock[m])' /\ Extends(m, hBlock[m])'
    <3>1. PICK x : x = hBlock[m]
      OBVIOUS
    <3>2. CreatorHas(x)' /\ x = hBlock'[m]
      BY <1>4, <1>7, <2>1, <2>2, <3>1
    <3>3. CreatorHas(hBlock[m])'
      BY <3>2 DEF CreatorHas
    <3>. QED BY <1>4, <1>7, <2>1, <2>2, <3>3 DEF Extends
  <2>. QED BY <1>4, <2>2 DEF HandlerOK
<1>14. SyncerOK'
  <2>1. ASSUME NEW m \in Nodes, m # n PROVE SyncerAt(m)'
    <3>1. SyncerAt(m) /\ spc'[m] = spc[m]
      BY <1>4, <2>1 DEF IInv, TypeOK, SyncerOK
    <3>2. Extends(m, sBlock[m])' = Extends(m, sBlock[m])
      BY <1>4, <1>7, <2>1 DEF Extends
    <3>3. spc[m] = "confirm" => CreatorHas(sBlock[m])'
      <4>1. PICK x : x = sBlock[m]
        OBVIOUS
      <4>2. spc[m] = "confirm" => CreatorHas(x)' /\ x = sBlock'[m]
        BY <1>4, <1>7, <3>1, <4>1 DEF SyncerAt
      <4>. QED BY <4>2 DEF CreatorHas
    <3>. QED BY <1>4, <1>5, <1>7, <2>1, <3>1, <3>2, <3>3 DEF SyncerAt
  <2>2. spc'[n] = "confirm" /\ sBlock'[n] = b
    BY <1>4, <1>6 DEF IInv, TypeOK
  <2>3. CreatorHas(sBlock[n])'
    BY <1>7, <2>2 DEF CreatorHas
  <2>4. SyncerAt(n)'
    BY <2>2, <2>3 DEF SyncerAt, Creating
  <2>. QED BY <2>1, <2>4 DEF SyncerOK
<1>. QED BY <1>7, <1>8, <1>9, <1>10, <1>11, <1>12, <1>13, <1>14 DEF IInv

\* The handler appends a block of another node and broadcasts it again.
LEMMA HandlerPushKeeps ==
  ASSUME IInv, NEW n \in Nodes, HandlerPush(n)
  PROVE  IInv'
<1>. USE DEF workerVars, stopVars, syncerVars
<1>1. hpc[n] = "push" /\ lock[n] = "handler" /\ FinishProcess(n, hBlock[n])
  BY DEF HandlerPush, IInv, LockOK
<1>2. /\ CreatorHas(hBlock[n]) /\ IsBlock(hBlock[n]) /\ Extends(n, hBlock[n])
      /\ randomList[n] = ListAfter(hBlock[n])
  BY <1>1 DEF IInv, HandlerOK, ListOK, CreatorHas
<1>3. /\ hBlock[n].creator = ListAfter(Latest(n))[0]
      /\ spc[n] \notin {"process", "push"}
  BY <1>1, HandlerNotCreator
<1>4. /\ hpc' = [hpc EXCEPT ![n] = "idle"] /\ hBlock' = [hBlock EXCEPT ![n] = NoBlock]
      /\ BroadcastMessage(n, BlockMessage(hBlock[n]),
            StillSeen(n, hBlock[n].height), StillPending(n, hBlock[n].height))
      /\ UNCHANGED <<workerVars, canCreateBlock, syncerVars, stopVars>>
  BY <1>2 DEF HandlerPush
<1>5. UNCHANGED <<randomList, validatorMempool>>
  BY <1>1 DEF FinishProcess
<1>6. PICK b : b = hBlock[n]
  OBVIOUS
<1>7. /\ ChainLinked' /\ Agreement' /\ CreatorHas(b)' /\ ListOK' /\ MempoolOfTheRound'
      /\ \A x : CreatorHas(x) => CreatorHas(x)'
      /\ \A m \in Nodes : m # n => /\ height'[m] = height[m] /\ lock'[m] = lock[m]
                                   /\ Latest(m)' = Latest(m)
      /\ lock'[n] = "free"
      /\ height' \in [Nodes -> Nat] /\ DOMAIN chain' = Nodes
      /\ \A m \in Nodes : DOMAIN chain'[m] = 0..height'[m]
      /\ lock' \in [Nodes -> {"free", "syncer", "handler"}]
  <2>1. \A m \in Nodes : m # n => hBlock'[m] = hBlock[m]
    BY <1>4 DEF IInv, DomainsOK
  <2>. QED BY <1>1, <1>2, <1>3, <1>4, <1>6, <2>1, PushStep
<1>8. TypeOK'
  BY <1>4, <1>5, <1>7 DEF IInv, TypeOK
<1>9. DomainsOK'
  BY <1>4 DEF IInv, DomainsOK
<1>10. MessagesOK'
  <2>1. \A m \in net' : m \in net \/ (m.to \in Nodes /\ m.body = BlockMessage(b))
    BY <1>4, <1>6, BroadcastBody DEF StillPending
  <2>2. BlockMessage(b).kind = "block" /\ BlockMessage(b).block = b
    BY DEF BlockMessage
  <2>3. ASSUME NEW m \in net'
        PROVE  /\ m.to \in Nodes
               /\ m.body.kind = "tx" => m.body.tx \in TxValidators
               /\ m.body.kind = "block" => CreatorHas(m.body.block)'
    BY <1>7, <2>1, <2>2 DEF IInv, MessagesOK
  <2>. QED BY <2>3 DEF MessagesOK
<1>11. WorkerOK'
  BY <1>4 DEF IInv, WorkerOK
<1>12. LockOK'
  BY <1>1, <1>3, <1>4, <1>7 DEF IInv, TypeOK, LockOK
<1>13. HandlerOK'
  <2>1. ASSUME NEW m \in Nodes, hpc'[m] # "idle"
        PROVE  /\ CreatorHas(hBlock[m]) /\ Extends(m, hBlock[m]) /\ m # n
               /\ hBlock'[m] = hBlock[m]
    BY <1>4, <2>1 DEF IInv, HandlerOK, TypeOK, DomainsOK
  <2>2. ASSUME NEW m \in Nodes, hpc'[m] # "idle"
        PROVE  CreatorHas(hBlock[m])' /\ Extends(m, hBlock[m])'
    <3>1. PICK x : x = hBlock[m]
      OBVIOUS
    <3>2. CreatorHas(x)' /\ x = hBlock'[m]
      BY <1>7, <2>1, <2>2, <3>1
    <3>3. CreatorHas(hBlock[m])'
      BY <3>2 DEF CreatorHas
    <3>. QED BY <1>7, <2>1, <2>2, <3>3 DEF Extends
  <2>. QED BY <2>2 DEF HandlerOK
<1>14. SyncerOK'
  <2>1. ASSUME NEW m \in Nodes PROVE SyncerAt(m)'
    <3>1. SyncerAt(m)
      BY DEF IInv, SyncerOK
    <3>2. m # n => Extends(m, sBlock[m])' = Extends(m, sBlock[m])
      BY <1>4, <1>7, <2>1 DEF Extends
    <3>3. spc[m] = "confirm" => CreatorHas(sBlock[m])'
      <4>1. PICK x : x = sBlock[m]
        OBVIOUS
      <4>2. spc[m] = "confirm" => CreatorHas(x)' /\ x = sBlock'[m]
        BY <1>4, <1>7, <3>1, <4>1 DEF SyncerAt
      <4>. QED BY <4>2 DEF CreatorHas
    <3>4. CASE m = n
      BY <1>3, <1>4, <1>5, <1>7, <3>1, <3>3, <3>4 DEF SyncerAt
    <3>5. CASE m # n
      BY <1>4, <1>5, <1>7, <3>1, <3>2, <3>3, <3>5 DEF SyncerAt
    <3>. QED BY <3>4, <3>5
  <2>. QED BY <2>1 DEF SyncerOK
<1>. QED BY <1>7, <1>8, <1>9, <1>10, <1>11, <1>12, <1>13, <1>14 DEF IInv

\* The syncer broadcasts the block that it has appended.
LEMMA SyncerBroadcastKeeps ==
  ASSUME IInv, NEW n \in Nodes, SyncerBroadcast(n)
  PROVE  IInv'
<1>. USE DEF workerVars, stopVars, handlerVars, storeVars, netVars
<1>1. /\ spc[n] = "confirm"
      /\ sMempool' = [sMempool EXCEPT ![n] = {}]
      /\ sList' = [sList EXCEPT ![n] = ListAfter(Genesis)]
      /\ sBlock' = [sBlock EXCEPT ![n] = NoBlock]
      /\ UNCHANGED <<storeVars, workerVars, canCreateBlock, sHeight, handlerVars, stopVars>>
  BY DEF SyncerBroadcast
<1>2. PICK pc \in {"dead", "done", "wait"} : spc' = [spc EXCEPT ![n] = pc]
  BY DEF SyncerBroadcast
<1>3. CreatorHas(sBlock[n]) /\ lock[n] # "syncer"
  BY <1>1 DEF IInv, SyncerOK, SyncerAt, LockOK
<1>4. ListAfter(Genesis) \in ValidatorLists
  BY ListType DEF ListAfter, Genesis
<1>5. TypeOK'
  <2>1. spc' \in [Nodes -> SyncerPcs]
    BY <1>2 DEF IInv, TypeOK, SyncerPcs
  <2>. QED BY <1>1, <1>4, <2>1 DEF IInv, TypeOK
<1>6. DomainsOK'
  BY <1>1 DEF IInv, DomainsOK
<1>7. MessagesOK'
  <2>1. \A m \in net' : m \in net \/ (m.to \in Nodes /\ m.body = BlockMessage(sBlock[n]))
    BY BroadcastBody DEF SyncerBroadcast
  <2>2. BlockMessage(sBlock[n]).kind = "block" /\ BlockMessage(sBlock[n]).block = sBlock[n]
    BY DEF BlockMessage
  <2>3. ASSUME NEW m \in net'
        PROVE  /\ m.to \in Nodes
               /\ m.body.kind = "tx" => m.body.tx \in TxValidators
               /\ m.body.kind = "block" => CreatorHas(m.body.block)
    BY <1>3, <2>1, <2>2 DEF IInv, MessagesOK
  <2>. QED BY <1>1, <2>3 DEF MessagesOK, CreatorHas
<1>8. WorkerOK'
  BY <1>1, <1>2 DEF IInv, TypeOK, WorkerOK
<1>9. ChainLinked' /\ Agreement'
  BY <1>1 DEF IInv, ChainLinked, Agreement, CreatorHas
<1>10. LockOK'
  BY <1>1, <1>2 DEF IInv, TypeOK, LockOK
<1>11. ListOK'
  BY <1>1, <1>3 DEF IInv, ListOK, Latest, DomainsOK
<1>12. HandlerOK'
  BY <1>1 DEF IInv, HandlerOK, CreatorHas, Extends, Latest
<1>13. SyncerOK'
  <2>1. \A m \in Nodes : m # n => SyncerAt(m)'
    BY <1>1, <1>2, SyncerAtKept DEF IInv, TypeOK, DomainsOK, SyncerOK
  <2>2. SyncerAt(n)'
    BY <1>2 DEF IInv, TypeOK, SyncerAt, Creating
  <2>. QED BY <2>1, <2>2 DEF SyncerOK
<1>14. MempoolOfTheRound'
  BY <1>1 DEF IInv, MempoolOfTheRound, Latest
<1>. QED BY <1>5, <1>6, <1>7, <1>8, <1>9, <1>10, <1>11, <1>12, <1>13, <1>14 DEF IInv

\* handleBlockBroadcast accepts a block only if it is the next one.
LEMMA HandleBlockKeeps ==
  ASSUME IInv, NEW m \in net, HandleBlockBroadcast(m)
  PROVE  IInv'
<1>. USE DEF workerVars, stopVars, syncerVars, storeVars
<1>1. PICK n \in Nodes : n = m.to
  BY DEF IInv, MessagesOK
<1>2. CreatorHas(m.body.block)
  BY DEF HandleBlockBroadcast, IInv, MessagesOK
<1>3. /\ hpc[n] = "idle" /\ net' \subseteq net
      /\ UNCHANGED <<storeVars, workerVars, canCreateBlock, syncerVars, broadcasted, stopVars>>
  BY <1>1 DEF HandleBlockBroadcast
<1>4. lock[n] # "handler"
  BY <1>3 DEF IInv, LockOK
<1>5. \/ UNCHANGED <<hpc, hBlock>>
      \/ /\ hpc' = [hpc EXCEPT ![n] = "process"]
         /\ hBlock' = [hBlock EXCEPT ![n] = m.body.block]
         /\ Extends(n, m.body.block)
  BY <1>1 DEF HandleBlockBroadcast, handlerVars, ValidateNextBlock, Extends
<1>6. TypeOK'
  BY <1>3, <1>5 DEF IInv, TypeOK
<1>7. DomainsOK'
  BY <1>3, <1>5 DEF IInv, DomainsOK
<1>8. MessagesOK'
  BY <1>3, MessagesKept
<1>9. WorkerOK' /\ ChainLinked' /\ Agreement'
  BY <1>3 DEF IInv, WorkerOK, ChainLinked, Agreement, CreatorHas
<1>10. LockOK'
  BY <1>3, <1>4, <1>5 DEF IInv, TypeOK, LockOK
<1>11. ListOK'
  BY <1>3, <1>4, <1>5 DEF IInv, ListOK, Latest, DomainsOK
<1>12. HandlerOK'
  <2>1. ASSUME NEW p \in Nodes, hpc'[p] # "idle"
        PROVE  CreatorHas(hBlock'[p]) /\ Extends(p, hBlock'[p])
    BY <1>2, <1>3, <1>5, <2>1 DEF IInv, TypeOK, DomainsOK, HandlerOK
  <2>. QED BY <1>3, <2>1 DEF HandlerOK, CreatorHas, Extends, Latest
<1>13. SyncerOK'
  BY <1>3, SyncerAtKept DEF IInv, SyncerOK
<1>14. MempoolOfTheRound'
  BY <1>3 DEF IInv, MempoolOfTheRound, Latest
<1>. QED BY <1>6, <1>7, <1>8, <1>9, <1>10, <1>11, <1>12, <1>13, <1>14 DEF IInv

-----------------------------------------------------------------------------
(* The theorems *)

\* The state of freshly started nodes.
LEMMA InitIInv == Init => IInv
<1>. SUFFICES ASSUME Init PROVE IInv
  OBVIOUS
<1>1. ListAfter(Genesis) \in ValidatorLists
  BY ListType DEF ListAfter, Genesis
<1>2. TypeOK
  BY <1>1, MinAssumption DEF Init, TypeOK, WorkerPcs, SyncerPcs, Phases
<1>3. DomainsOK /\ MessagesOK /\ WorkerOK
  BY DEF Init, DomainsOK, MessagesOK, WorkerOK
<1>4. ChainLinked /\ LockOK /\ ListOK /\ HandlerOK /\ Agreement
  BY DEF Init, ChainLinked, LockOK, ListOK, HandlerOK, Agreement, Latest
<1>5. SyncerOK /\ MempoolOfTheRound
  BY DEF Init, SyncerOK, SyncerAt, MempoolOfTheRound, Creating
<1>. QED BY <1>2, <1>3, <1>4, <1>5 DEF IInv

\* Every step of the syncer.
LEMMA SyncerKeeps ==
  ASSUME IInv, NEW n \in Nodes, SyncerStep(n)
  PROVE  IInv'
<1>1. CASE SyncerSynced(n) \/ SyncerIdleStop(n)
  BY <1>1, GotoKeeps DEF SyncerSynced, SyncerIdleStop
<1>2. CASE SyncerLoop(n)
  <2>1. CASE SyncerGoto(n, "loop", "done") \/ SyncerGoto(n, "wait", "done")
    BY <2>1, GotoKeeps
  <2>2. CASE ~(SyncerGoto(n, "loop", "done") \/ SyncerGoto(n, "wait", "done"))
    <3>1. spc[n] \in {"loop", "wait"} /\ spc'[n] # "done"
      BY <1>2, <2>2 DEF SyncerLoop, IInv, TypeOK
    <3>. QED BY <1>2, <3>1, SyncerLocal
  <2>. QED BY <2>1, <2>2
<1>3. CASE SyncerReady(n) \/ SyncerHaveTx(n) \/ SyncerOrderHash(n)
  BY <1>3, GotoKeeps DEF SyncerReady, SyncerHaveTx, SyncerOrderHash
<1>4. CASE SyncerValidate(n)
  <2>1. ValidateNextBlock(n, sBlock[n]) => Extends(n, sBlock[n])
    BY DEF ValidateNextBlock, Extends
  <2>. QED BY <1>4, <2>1, GotoKeeps DEF SyncerValidate
<1>7. CASE SyncerThrows(n)
  BY <1>7, GotoKeeps DEF SyncerThrows
<1>5. CASE \/ SyncerStartWorker(n) \/ SyncerGetMempool(n) \/ SyncerGetList(n)
           \/ SyncerOrderSeed(n) \/ SyncerSign(n)
  BY <1>5, SyncerLocal
<1>6. CASE SyncerProcess(n) \/ SyncerPush(n) \/ SyncerBroadcast(n)
  BY <1>6, SyncerProcessKeeps, SyncerPushKeeps, SyncerBroadcastKeeps
<1>. QED BY <1>1, <1>2, <1>3, <1>4, <1>5, <1>6, <1>7 DEF SyncerStep

\* Every step of the network keeps the invariant.
LEMMA NextIInv == IInv /\ [Next]_vars => IInv'
<1>. SUFFICES ASSUME IInv, [Next]_vars PROVE IInv'
  OBVIOUS
<1>1. CASE UNCHANGED vars
  <2>. USE <1>1 DEF vars, storeVars, workerVars, syncerVars, handlerVars, netVars, stopVars
  <2>1. TypeOK' /\ WorkerOK'
    BY DEF IInv, TypeOK, WorkerOK
  <2>. QED BY <2>1, LocalFrame
<1>2. ASSUME NEW n \in Nodes, WorkerStep(n) PROVE IInv'
  BY <1>2, WorkerLocal, WorkerAdds DEF WorkerStep
<1>3. ASSUME NEW n \in Nodes, SyncerStep(n) PROVE IInv'
  BY <1>3, SyncerKeeps
<1>4. ASSUME NEW n \in Nodes, HandlerStep(n) PROVE IInv'
  BY <1>4, HandlerProcessKeeps, HandlerThrowsKeeps, HandlerPushKeeps DEF HandlerStep
<1>5. ASSUME NEW n \in Nodes, StopBegin(n) \/ StopStep(n) PROVE IInv'
  BY <1>5, StopKeeps
<1>6. ASSUME NEW n \in Nodes, NEW m \in Nodes, WorkerRequest(n, m) PROVE IInv'
  BY <1>6, RequestKeeps
<1>7. ASSUME NEW m \in net, Deliver(m) \/ LoseMessage(m) PROVE IInv'
  BY <1>7, HandleTxKeeps, HandleBlockKeeps, LoseKeeps DEF Deliver
<1>. QED BY <1>1, <1>2, <1>3, <1>4, <1>5, <1>6, <1>7 DEF Next

\* The inductive invariant holds in every state of every run.
THEOREM Invariance == Spec => []IInv
BY InitIInv, NextIInv, PTL DEF Spec

\* Type correctness, for every network.
THEOREM TypeCorrect == Spec => []TypeOK
<1>1. IInv => TypeOK
  BY DEF IInv
<1>. QED BY <1>1, Invariance, PTL

\* Safety of the consensus: two nodes never store different blocks of one height,
\* for any number of nodes and validators, any shuffle, any delay, reordering or
\* loss of the broadcasts, and any interleaving of the threads and of shutdowns.
THEOREM NoFork == Spec => []Agreement
<1>1. IInv => Agreement
  BY DEF IInv
<1>. QED BY <1>1, Invariance, PTL

\* pushBack never throws in the middle of processNextBlock: the check made before
\* stateMutex_ was taken still holds when the block is appended.
THEOREM NoStaleProcess == Spec => []ProcessedBlockExtends
<1>1. IInv => ProcessedBlockExtends
  BY DEF IInv, LockOK, HandlerOK, SyncerOK, SyncerAt, ProcessedBlockExtends
<1>. QED BY <1>1, Invariance, PTL

\* The validator mempool holds transactions of the current round only.
THEOREM MempoolCurrent == Spec => []MempoolOfTheRound
<1>1. IInv => MempoolOfTheRound
  BY DEF IInv
<1>. QED BY <1>1, Invariance, PTL

-----------------------------------------------------------------------------
(* RdPoS implements Ledger: the chains of a network of any size are views  *)
(* of one ledger, which only the elected validator extends.                *)

\* Some node has the longest chain.  The set of nodes may be infinite, so that
\* this is an invariant and not a fact about every function of the nodes.
HasLongest == \E n \in Nodes : \A m \in Nodes : height[m] <= height[n]

\* A chain is determined by its blocks.
ChainsAreFunctions == \A n \in Nodes : chain[n] = [k \in 0..height[n] |-> chain[n][k]]

\* b is appended to the chain of n (Storage::pushBack).
PushedBy(n, b) ==
  /\ Extends(n, b)
  /\ height' = [height EXCEPT ![n] = b.height]
  /\ chain' = [chain EXCEPT ![n] =
                 [k \in 0..b.height |-> IF k = b.height THEN b ELSE @[k]]]

-----------------------------------------------------------------------------
(* Which steps append a block *)

\* Only the push of the syncer and that of the handler change Storage.
LEMMA StoreSteps ==
  ASSUME [Next]_vars
  PROVE  \/ UNCHANGED <<height, chain>>
         \/ \E n \in Nodes : SyncerPush(n) \/ HandlerPush(n)
<1>. USE DEF storeVars
<1>1. CASE UNCHANGED vars
  BY <1>1 DEF vars
<1>2. ASSUME NEW n \in Nodes, WorkerStep(n)
      PROVE  UNCHANGED <<height, chain>>
  <2>1. CASE WorkerAddAnswered(n) \/ CommitHash(n) \/ RevealSeed(n)
    BY <2>1 DEF WorkerAddAnswered, CommitHash, RevealSeed, AddValidatorTx
  <2>2. CASE \/ WorkerBegin(n) \/ WorkerCheck(n) \/ WorkerExit(n) \/ WorkerScan(n)
             \/ WorkerNextBlock(n)
    BY <2>2 DEF WorkerBegin, WorkerCheck, WorkerExit, WorkerScan, WorkerNextBlock
  <2>3. CASE \/ CreationRead(n) \/ CreationReady(n) \/ CreationStop(n)
             \/ HashesSeen(n) \/ HashesStop(n)
    BY <2>3 DEF CreationRead, CreationReady, CreationStop, HashesSeen, HashesStop
  <2>. QED BY <1>2, <2>1, <2>2, <2>3 DEF WorkerStep
<1>3. ASSUME NEW n \in Nodes, SyncerStep(n)
      PROVE  UNCHANGED <<height, chain>> \/ SyncerPush(n)
  <2>1. ASSUME NEW from, NEW to, SyncerGoto(n, from, to)
        PROVE  UNCHANGED <<height, chain>>
    BY <2>1 DEF SyncerGoto
  <2>2. CASE SyncerSynced(n) \/ SyncerIdleStop(n) \/ SyncerReady(n) \/ SyncerHaveTx(n)
             \/ SyncerOrderHash(n) \/ SyncerValidate(n) \/ SyncerThrows(n)
    BY <2>1, <2>2 DEF SyncerSynced, SyncerIdleStop, SyncerReady, SyncerHaveTx,
                      SyncerOrderHash, SyncerValidate, SyncerThrows
  <2>3. CASE SyncerLoop(n)
    BY <2>1, <2>3 DEF SyncerLoop
  <2>4. CASE \/ SyncerStartWorker(n) \/ SyncerGetMempool(n) \/ SyncerGetList(n)
             \/ SyncerOrderSeed(n) \/ SyncerSign(n) \/ SyncerBroadcast(n)
    BY <2>4 DEF SyncerStartWorker, SyncerGetMempool, SyncerGetList,
                SyncerOrderSeed, SyncerSign, SyncerBroadcast
  <2>5. CASE SyncerProcess(n)
    BY <2>5 DEF SyncerProcess, BeginProcess
  <2>. QED BY <1>3, <2>2, <2>3, <2>4, <2>5 DEF SyncerStep
<1>4. ASSUME NEW n \in Nodes, HandlerStep(n)
      PROVE  UNCHANGED <<height, chain>> \/ HandlerPush(n)
  BY <1>4 DEF HandlerStep, HandlerProcess, HandlerThrows, storeVars, BeginProcess
<1>5. ASSUME NEW n \in Nodes, StopBegin(n) \/ StopStep(n)
      PROVE  UNCHANGED <<height, chain>>
  BY <1>5 DEF StopBegin, StopStep, StopTheWorker, JoinWorker, JoinSyncer
<1>6. ASSUME NEW n \in Nodes, NEW m \in Nodes, WorkerRequest(n, m)
      PROVE  UNCHANGED <<height, chain>>
  BY <1>6 DEF WorkerRequest
<1>7. ASSUME NEW m \in net, Deliver(m) \/ LoseMessage(m)
      PROVE  UNCHANGED <<height, chain>>
  BY <1>7 DEF Deliver, LoseMessage, HandleTxValidatorBroadcast, HandleBlockBroadcast,
              AddValidatorTx
<1>. QED BY <1>1, <1>2, <1>3, <1>4, <1>5, <1>6, <1>7 DEF Next

\* doValidatorBlock appends a block on a node that the latest block elects.
LEMMA SyncerPushes ==
  ASSUME IInv, NEW n \in Nodes, SyncerPush(n)
  PROVE  PushedBy(n, sBlock[n]) /\ ListAfter(Latest(n))[0] = n
<1>1. spc[n] = "push" /\ FinishProcess(n, sBlock[n])
  BY DEF SyncerPush
<1>2. Extends(n, sBlock[n]) /\ ListAfter(Latest(n))[0] = n
  BY <1>1 DEF IInv, SyncerOK, SyncerAt
<1>. QED BY <1>1, <1>2 DEF FinishProcess, PushedBy

\* handleBlockBroadcast appends a block that its creator has already.
LEMMA HandlerPushes ==
  ASSUME IInv, NEW n \in Nodes, HandlerPush(n)
  PROVE  PushedBy(n, hBlock[n]) /\ \E c \in Nodes : height[n] < height[c]
<1>1. hpc[n] = "push" /\ FinishProcess(n, hBlock[n])
  BY DEF HandlerPush
<1>2. CreatorHas(hBlock[n]) /\ Extends(n, hBlock[n])
  BY <1>1 DEF IInv, HandlerOK
<1>3. hBlock[n].creator \in Nodes /\ hBlock[n].height <= height[hBlock[n].creator]
  BY <1>2 DEF CreatorHas, IsBlock
<1>4. height[n] < height[hBlock[n].creator]
  BY <1>2, <1>3 DEF Extends, IInv, TypeOK
<1>. QED BY <1>1, <1>2, <1>3, <1>4 DEF FinishProcess, PushedBy

\* The validator that the latest block of its own chain elects is behind nobody: a
\* block above it would be one that it has created, and it has what it creates.
LEMMA ElectedIsLongest ==
  ASSUME IInv, NEW n \in Nodes, ListAfter(Latest(n))[0] = n, NEW m \in Nodes
  PROVE  height[m] <= height[n]
<1>1. height[n] \in Nat /\ height[m] \in Nat
  BY DEF IInv, TypeOK
<1>. SUFFICES ASSUME height[m] > height[n] PROVE FALSE
  BY <1>1
<1>2. height[n] + 1 \in 1..height[m] /\ height[n] \in 0..height[m]
  BY <1>1
<1>3. chain[m][height[n]] = Latest(n)
  BY <1>1, <1>2 DEF IInv, Agreement, Latest
<1>4. /\ chain[m][height[n] + 1].height = height[n] + 1
      /\ chain[m][height[n] + 1].creator = ListAfter(chain[m][height[n]])[0]
      /\ CreatorHas(chain[m][height[n] + 1])
  BY <1>1, <1>2 DEF IInv, ChainLinked
<1>. QED BY <1>1, <1>3, <1>4 DEF CreatorHas

-----------------------------------------------------------------------------
(* The node with the longest chain *)

\* What Longest denotes once there is a longest chain.
LEMMA LongestProperty ==
  ASSUME HasLongest
  PROVE  Longest \in Nodes /\ \A m \in Nodes : height[m] <= height[Longest]
BY DEF HasLongest, Longest

LEMMA LongestPrime ==
  ASSUME HasLongest'
  PROVE  Longest' \in Nodes /\ \A m \in Nodes : height'[m] <= height'[Longest']
BY DEF HasLongest, Longest

\* It stays there: one step lengthens one chain.
LEMMA LongestKept ==
  ASSUME IInv, HasLongest, [Next]_vars
  PROVE  HasLongest'
<1>1. \A m \in Nodes : height[m] \in Nat
  BY DEF IInv, TypeOK
<1>2. PICK l \in Nodes : \A m \in Nodes : height[m] <= height[l]
  BY DEF HasLongest
<1>3. CASE UNCHANGED <<height, chain>>
  BY <1>3 DEF HasLongest
<1>4. ASSUME NEW n \in Nodes, NEW b, PushedBy(n, b)
      PROVE  HasLongest'
  <2>1. height' = [height EXCEPT ![n] = height[n] + 1]
    BY <1>4 DEF PushedBy, Extends
  <2>2. \A m \in Nodes : height'[m] = IF m = n THEN height[n] + 1 ELSE height[m]
    BY <2>1 DEF IInv, TypeOK
  <2>3. CASE height[n] = height[l]
    <3>1. \A m \in Nodes : height'[m] <= height'[n]
      BY <1>1, <1>2, <2>2, <2>3
    <3>. QED BY <3>1 DEF HasLongest
  <2>4. CASE height[n] < height[l]
    <3>1. \A m \in Nodes : height'[m] <= height'[l]
      BY <1>1, <1>2, <2>2, <2>4
    <3>. QED BY <3>1 DEF HasLongest
  <2>. QED BY <1>1, <1>2, <2>3, <2>4
<1>. QED BY <1>3, <1>4, StoreSteps, SyncerPushes, HandlerPushes

LEMMA FunctionsKept ==
  ASSUME IInv, ChainsAreFunctions, [Next]_vars
  PROVE  ChainsAreFunctions'
<1>1. CASE UNCHANGED <<height, chain>>
  BY <1>1 DEF ChainsAreFunctions
<1>2. ASSUME NEW n \in Nodes, NEW b, PushedBy(n, b)
      PROVE  ChainsAreFunctions'
  <2>1. \A m \in Nodes : m # n => chain'[m] = chain[m] /\ height'[m] = height[m]
    BY <1>2 DEF IInv, TypeOK, PushedBy
  <2>2. PICK c : /\ c = [k \in 0..b.height |-> IF k = b.height THEN b ELSE chain[n][k]]
                 /\ chain'[n] = c /\ height'[n] = b.height
    BY <1>2 DEF IInv, TypeOK, PushedBy
  <2>3. c = [k \in 0..b.height |-> c[k]]
    BY <2>2
  <2>. QED BY <2>1, <2>2, <2>3 DEF ChainsAreFunctions
<1>. QED BY <1>1, <1>2, StoreSteps, SyncerPushes, HandlerPushes

\* Two nodes of the same height have the same chain: it does not matter which of
\* them Longest is.
LEMMA SameChain ==
  ASSUME TypeOK, Agreement, NEW n \in Nodes, NEW m \in Nodes,
         height[n] = height[m], NEW k \in 0..height[n]
  PROVE  chain[n][k] = chain[m][k]
BY DEF TypeOK, Agreement

-----------------------------------------------------------------------------
(* The refinement *)

\* Freshly started nodes have the genesis block only.
LEMMA InitLedger ==
  ASSUME Init
  PROVE  HasLongest /\ ChainsAreFunctions /\ TheLedger!Init
<1>1. PICK v \in Nodes : TRUE
  <2>1. Validators # {}
    BY NodesAssumption, MinAssumption, FS_EmptySet DEF NumValidators
  <2>. QED BY <2>1, NodesAssumption
<1>2. \A m \in Nodes : height[m] = 0
  BY DEF Init
<1>3. HasLongest
  BY <1>1, <1>2 DEF HasLongest
<1>4. Longest \in Nodes
  BY <1>3, LongestProperty
<1>5. ChainsAreFunctions
  BY DEF Init, ChainsAreFunctions
<1>. QED BY <1>3, <1>4, <1>5 DEF Init, TheLedger!Init

\* A step that appends no block changes neither the ledger nor a view.
LEMMA StutterStep ==
  ASSUME UNCHANGED <<height, chain>>
  PROVE  UNCHANGED TheLedger!vars
<1>1. Longest' = Longest
  BY DEF Longest
<1>. QED BY <1>1 DEF TheLedger!vars

\* A block appended by the syncer extends the ledger.
LEMMA ExtendStep ==
  ASSUME IInv, IInv', HasLongest, HasLongest', NEW n \in Nodes, SyncerPush(n)
  PROVE  TheLedger!Extend(n)
<1>1. PushedBy(n, sBlock[n]) /\ ListAfter(Latest(n))[0] = n
  BY SyncerPushes
<1>2. /\ height' = [height EXCEPT ![n] = height[n] + 1]
      /\ \A m \in Nodes : height'[m] = IF m = n THEN height[n] + 1 ELSE height[m]
      /\ \A m \in Nodes : \A k \in 0..height[m] : chain'[m][k] = chain[m][k]
      /\ \A m \in Nodes : DOMAIN chain'[m] = 0..height'[m]
  BY <1>1, PushKeeps DEF PushedBy, Extends, IInv
<1>3. \A m \in Nodes : height[m] \in Nat
  BY DEF IInv, TypeOK
<1>4. \A m \in Nodes : height[m] <= height[n]
  BY <1>1, ElectedIsLongest
<1>5. Longest \in Nodes /\ height[Longest] = height[n]
  BY <1>3, <1>4, LongestProperty
<1>6. Longest' = n
  <2>1. Longest' \in Nodes /\ height'[n] <= height'[Longest']
    BY LongestPrime
  <2>. QED BY <1>2, <1>3, <1>4, <2>1
<1>7. \A k \in 0..height[n] : chain[Longest][k] = chain[n][k]
  BY <1>5, SameChain DEF IInv
<1>8. n = ListAfter(chain[Longest][height[Longest]])[0]
  BY <1>1, <1>3, <1>5, <1>7 DEF Latest
<1>9. \A k \in 0..height[Longest] : chain'[Longest'][k] = chain[Longest][k]
  BY <1>2, <1>5, <1>6, <1>7
<1>10. height'[Longest'] = height[Longest] + 1
  BY <1>2, <1>5, <1>6
<1>11. DOMAIN chain'[Longest'] = 0..height'[Longest']
  BY <1>2, <1>6
<1>12. height' = [height EXCEPT ![n] = height'[Longest']]
  BY <1>2, <1>5, <1>10
<1>. QED BY <1>5, <1>8, <1>9, <1>10, <1>11, <1>12 DEF TheLedger!Extend

\* A block appended by the handler is read from the ledger.
LEMMA ReadStep ==
  ASSUME IInv, IInv', HasLongest, HasLongest',
         ChainsAreFunctions, ChainsAreFunctions', NEW n \in Nodes, HandlerPush(n)
  PROVE  TheLedger!Read(n)
<1>1. PushedBy(n, hBlock[n]) /\ \E c \in Nodes : height[n] < height[c]
  BY HandlerPushes
<1>2. /\ height' = [height EXCEPT ![n] = height[n] + 1]
      /\ \A m \in Nodes : height'[m] = IF m = n THEN height[n] + 1 ELSE height[m]
      /\ \A m \in Nodes : \A k \in 0..height[m] : chain'[m][k] = chain[m][k]
  BY <1>1, PushKeeps DEF PushedBy, Extends, IInv
<1>3. \A m \in Nodes : height[m] \in Nat
  BY DEF IInv, TypeOK
<1>4. Longest \in Nodes /\ \A m \in Nodes : height[m] <= height[Longest]
  BY LongestProperty
<1>5. height[n] < height[Longest]
  BY <1>1, <1>3, <1>4
<1>6. Longest' \in Nodes /\ \A m \in Nodes : height'[m] <= height'[Longest']
  BY LongestPrime
<1>7. height'[Longest'] = height[Longest]
  <2>1. height'[Longest] = height[Longest]
    BY <1>2, <1>3, <1>4, <1>5
  <2>2. height'[Longest'] <= height[Longest]
    BY <1>2, <1>3, <1>4, <1>5, <1>6
  <2>3. height'[Longest'] \in Nat
    BY <1>6 DEF IInv, TypeOK
  <2>. QED BY <1>3, <1>4, <1>6, <2>1, <2>2, <2>3
<1>8. chain'[Longest'] = chain[Longest]
  <2>1. \A k \in 0..height[Longest] : chain'[Longest'][k] = chain[Longest][k]
    <3>1. height'[Longest] = height[Longest]
      BY <1>2, <1>3, <1>4, <1>5
    <3>2. \A k \in 0..height[Longest] : chain'[Longest][k] = chain[Longest][k]
      BY <1>2, <1>4
    <3>3. \A k \in 0..height'[Longest'] : chain'[Longest'][k] = chain'[Longest][k]
      BY <1>4, <1>6, <1>7, <3>1 DEF IInv, Agreement, TypeOK
    <3>. QED BY <1>7, <3>2, <3>3
  <2>2. chain[Longest] = [k \in 0..height[Longest] |-> chain[Longest][k]]
    BY <1>4 DEF ChainsAreFunctions
  <2>3. chain'[Longest'] = [k \in 0..height'[Longest'] |-> chain'[Longest'][k]]
    BY <1>6 DEF ChainsAreFunctions
  <2>. QED BY <1>7, <2>1, <2>2, <2>3
<1>. QED BY <1>2, <1>5, <1>7, <1>8 DEF TheLedger!Read

\* Every step of the network is a step of the ledger or a stuttering one.
LEMMA NextLedger ==
  ASSUME IInv, HasLongest, ChainsAreFunctions, [Next]_vars
  PROVE  HasLongest' /\ ChainsAreFunctions' /\ [TheLedger!Next]_(TheLedger!vars)
<1>1. IInv'
  BY NextIInv
<1>2. HasLongest' /\ ChainsAreFunctions'
  BY LongestKept, FunctionsKept
<1>3. CASE UNCHANGED <<height, chain>>
  BY <1>2, <1>3, StutterStep
<1>4. ASSUME NEW n \in Nodes, SyncerPush(n) PROVE TheLedger!Next
  BY <1>1, <1>2, <1>4, ExtendStep DEF TheLedger!Next
<1>5. ASSUME NEW n \in Nodes, HandlerPush(n) PROVE TheLedger!Next
  BY <1>1, <1>2, <1>5, ReadStep DEF TheLedger!Next
<1>. QED BY <1>2, <1>3, <1>4, <1>5, StoreSteps

\* rdPoS implements the abstract ledger: in every network, whatever is lost, late
\* or stopped, the chains that Storage holds are prefixes of one chain that grows at
\* its end only, one block at a time, by the validator that its last block elects.
THEOREM Refinement == Spec => ImplementsLedger
<1>1. Init => HasLongest /\ ChainsAreFunctions /\ TheLedger!Init
  BY InitLedger
<1>2. IInv /\ HasLongest /\ ChainsAreFunctions /\ [Next]_vars =>
        HasLongest' /\ ChainsAreFunctions' /\ [TheLedger!Next]_(TheLedger!vars)
  BY NextLedger
<1>. QED BY <1>1, <1>2, Invariance, PTL DEF Spec, ImplementsLedger, TheLedger!Spec

-----------------------------------------------------------------------------
(* The rounds: what the workers sign, what the syncer builds of it, and    *)
(* the order of commitments and seeds.  The inductive invariants:          *)

\* A validator transaction that is somewhere: in the mempool of a node, in an answer
\* that its worker is adding, in the copy that its syncer has made, on a link.
Known(tx) ==
  \/ \E n \in Nodes : tx \in validatorMempool[n] \cup answer[n] \cup sMempool[n]
  \/ \E m \in net : m.body.kind = "tx" /\ m.body.tx = tx

\* Where the worker that has signed tx is: it has not come to another round that has
\* the height of tx, and it holds the seed it has committed to until it reveals it.
AuthorAt(tx) ==
  LET n == tx.from IN
  /\ tx.height <= wHeight[n] + 1
  /\ tx.height = wHeight[n] + 1 =>
       /\ wpc[n] \notin {"off", "begin", "commit"}
       /\ wpc[n] = "loop" => stopWorker[n]
       /\ wpc[n] \in {"hashes", "reveal"} => tx.fn = "hash" /\ tx.value = wSeed[n]

\* A worker is started once, follows its own chain and signs one value per height.
RoundsOK ==
  /\ \A n \in Nodes : /\ spc[n] \in {"init", "start"} => wpc[n] = "off"
                      /\ wHeight[n] <= height[n]
  /\ \A tx \in TxValidators : Known(tx) => AuthorAt(tx)
  /\ \A tx, t \in TxValidators :
       Known(tx) /\ Known(t) /\ tx.from = t.from /\ tx.height = t.height => tx.value = t.value

\* What the syncer has copied is of the round after the latest block.
SnapshotAt(n) ==
  /\ spc[n] \in {"getList", "orderHash", "orderSeed"} =>
       \A tx \in sMempool[n] : tx.height = height[n] + 1
  /\ spc[n] \in {"orderHash", "orderSeed"} /\ sMempool[n] # {} => sList[n] = randomList[n]

\* A block that is stored but not broadcast is the latest one, and nobody else has it
\* or one above it.
UnseenAt(n) ==
  spc[n] = "confirm" =>
    /\ Latest(n) = sBlock[n]
    /\ \A m \in Nodes \ {n} : height[m] < height[n]
    /\ \A m \in net : m.body.kind = "block" => m.body.block.height < height[n]
    /\ \A m \in Nodes : hpc[m] # "idle" => hBlock[m].height < height[n]

RoundInv == RoundsOK /\ \A n \in Nodes : SnapshotAt(n) /\ UnseenAt(n)

\* The block that the creator has built is valid, and stays valid while it is signed.
BuiltAt(n) ==
  /\ spc[n] = "sign" => ValidateNextBlock(n, [sBlock[n] EXCEPT !.finalized = TRUE])
  /\ spc[n] = "validate" => ValidateNextBlock(n, sBlock[n])
BuiltInv == \A n \in Nodes : BuiltAt(n) /\ spc[n] # "dead"

\* All participants of the round after the block b have committed to their seeds.
AllCommitted(b, h) == \A p \in Participants(ListAfter(b)) : Committed(p, h)

\* Nobody is shut down (and broadcastedMessages_ has an entry for each node).
Running ==
  DOMAIN broadcasted = Nodes /\ \A n \in Nodes : phase[n] = "run" /\ ~stopWorker[n]

\* A hash is known only when its author has broadcast it, a seed only when all
\* participants of its round have broadcast their hashes.
HashesCommitted ==
  \A tx \in TxValidators : Known(tx) /\ tx.fn = "hash" => Committed(tx.from, tx.height)
SeedsCommitted ==
  \A tx \in TxValidators : Known(tx) /\ tx.fn = "seed" /\ tx.height > 0 =>
    AllCommitted(chain[tx.from][tx.height - 1], tx.height)

\* So have those of a round whose block is stored or built, or in which a worker is
\* about to reveal its seed.
ChainCommitted == \A n \in Nodes : \A k \in 1..height[n] : AllCommitted(chain[n][k - 1], k)
RevealCommitted ==
  \A n \in Nodes : wpc[n] = "reveal" => AllCommitted(chain[n][wHeight[n]], wHeight[n] + 1)
BuiltCommitted ==
  \A n \in Nodes : spc[n] \in {"sign", "validate", "process", "push"} =>
    AllCommitted(Latest(n), height[n] + 1)

CommitInv == /\ Running /\ HashesCommitted /\ SeedsCommitted
             /\ ChainCommitted /\ RevealCommitted /\ BuiltCommitted

-----------------------------------------------------------------------------
(* Where transactions come from *)

\* The worker of n signs tx in this step (doTxCreation).
Signs(n, tx) ==
  \/ CommitHash(n) /\ tx = WorkerTx(n, "hash", wSeed'[n])
  \/ RevealSeed(n) /\ tx = WorkerTx(n, "seed", wSeed[n])

\* What is known after a step that puts nothing new but T anywhere.
LEMMA KnownFrom ==
  ASSUME NEW T,
         \A n \in Nodes :
           \A x \in validatorMempool'[n] \cup answer'[n] \cup sMempool'[n] : Known(x) \/ x \in T,
         \A m \in net' : m.body.kind = "tx" => Known(m.body.tx) \/ m.body.tx \in T,
         NEW tx, Known(tx)'
  PROVE  Known(tx) \/ tx \in T
<1>1. \/ \E n \in Nodes : tx \in validatorMempool'[n] \cup answer'[n] \cup sMempool'[n]
      \/ \E m \in net' : m.body.kind = "tx" /\ m.body.tx = tx
  BY DEF Known
<1>. QED BY <1>1

\* ... in particular after one that leaves mempools, answers and copies alone and puts
\* no transaction on the links.
LEMMA KnownStays ==
  ASSUME UNCHANGED <<validatorMempool, answer, sMempool>>,
         \A m \in net' : m \in net \/ m.body.kind = "block",
         NEW tx, Known(tx)'
  PROVE  Known(tx)
<1>1. \/ \E n \in Nodes : tx \in validatorMempool[n] \cup answer[n] \cup sMempool[n]
      \/ \E m \in net' : m.body.kind = "tx" /\ m.body.tx = tx
  BY DEF Known
<1>. QED BY <1>1 DEF Known

\* AddValidatorTx adds the one transaction at most.
LEMMA AddedOnly ==
  ASSUME IInv, NEW n \in Nodes, NEW t, AddValidatorTx(n, t), NEW m \in Nodes
  PROVE  \A x \in validatorMempool'[m] : x \in validatorMempool[m] \/ x = t
BY DEF AddValidatorTx, IInv, TypeOK

LEMMA WorkerSources ==
  ASSUME IInv, NEW n \in Nodes, WorkerStep(n), NEW tx, Known(tx)'
  PROVE  Known(tx) \/ Signs(n, tx)
<1>. USE DEF storeVars, syncerVars, netVars
<1>1. CASE WorkerAddAnswered(n)
  <2>1. PICK t \in answer[n] : /\ AddValidatorTx(n, t)
                               /\ answer' = [answer EXCEPT ![n] = @ \ {t}]
    BY <1>1 DEF WorkerAddAnswered
  <2>2. UNCHANGED <<sMempool, net>> /\ Known(t)
    BY <1>1, <2>1 DEF WorkerAddAnswered, Known
  <2>3. ASSUME NEW m \in Nodes, NEW x \in validatorMempool'[m] \cup answer'[m] \cup sMempool'[m]
        PROVE  Known(x)
    <3>1. \A y \in answer'[m] : y \in answer[m]
      BY <2>1 DEF IInv, TypeOK
    <3>2. x \in validatorMempool[m] \cup answer[m] \cup sMempool[m] \/ x = t
      BY <2>1, <2>2, <2>3, <3>1, AddedOnly
    <3>. QED BY <2>2, <3>2 DEF Known
  <2>4. \A m \in net' : m.body.kind = "tx" => Known(m.body.tx)
    BY <2>2 DEF Known
  <2>. QED BY <2>3, <2>4, KnownFrom
<1>2. ASSUME NEW t, AddValidatorTx(n, t), BroadcastMessage(n, TxMessage(t), broadcasted, net),
             UNCHANGED <<answer, sMempool>>
      PROVE  Known(tx) \/ tx = t
  <2>1. ASSUME NEW m \in Nodes, NEW x \in validatorMempool'[m] \cup answer'[m] \cup sMempool'[m]
        PROVE  Known(x) \/ x = t
    <3>1. x \in validatorMempool[m] \cup answer[m] \cup sMempool[m] \/ x = t
      BY <1>2, <2>1, AddedOnly
    <3>. QED BY <3>1 DEF Known
  <2>2. \A m \in net' : m \in net \/ m.body = TxMessage(t)
    BY <1>2, BroadcastBody
  <2>3. \A m \in net' : m.body.kind = "tx" => Known(m.body.tx) \/ m.body.tx = t
    BY <2>2 DEF Known, TxMessage
  <2>4. Known(tx) \/ tx \in {t}
    BY <2>1, <2>3, KnownFrom
  <2>. QED BY <2>4
<1>3. CASE CommitHash(n)
  <2>1. PICK s \in Seeds : /\ wSeed' = [wSeed EXCEPT ![n] = s]
                           /\ AddValidatorTx(n, WorkerTx(n, "hash", s))
                           /\ BroadcastMessage(n, TxMessage(WorkerTx(n, "hash", s)),
                                               broadcasted, net)
    BY <1>3 DEF CommitHash
  <2>2. wSeed'[n] = s
    BY <2>1 DEF IInv, TypeOK
  <2>3. UNCHANGED <<answer, sMempool>>
    BY <1>3 DEF CommitHash
  <2>4. Known(tx) \/ tx = WorkerTx(n, "hash", s)
    BY <1>2, <2>1, <2>3
  <2>. QED BY <1>3, <2>2, <2>4 DEF Signs
<1>4. CASE RevealSeed(n)
  <2>1. Known(tx) \/ tx = WorkerTx(n, "seed", wSeed[n])
    BY <1>2, <1>4 DEF RevealSeed
  <2>. QED BY <1>4, <2>1 DEF Signs
<1>5. CASE UNCHANGED <<validatorMempool, answer, sMempool, net>>
  BY <1>5, KnownStays
<1>6. CASE \/ WorkerBegin(n) \/ WorkerCheck(n) \/ WorkerExit(n) \/ WorkerScan(n)
           \/ WorkerNextBlock(n)
  BY <1>5, <1>6 DEF WorkerBegin, WorkerCheck, WorkerExit, WorkerScan, WorkerNextBlock
<1>7. CASE \/ CreationRead(n) \/ CreationReady(n) \/ CreationStop(n)
           \/ HashesSeen(n) \/ HashesStop(n)
  BY <1>5, <1>7 DEF CreationRead, CreationReady, CreationStop, HashesSeen, HashesStop
<1>. QED BY <1>1, <1>3, <1>4, <1>6, <1>7 DEF WorkerStep

LEMMA SyncerSources ==
  ASSUME IInv, NEW n \in Nodes, SyncerStep(n), NEW tx, Known(tx)'
  PROVE  Known(tx)
<1>. USE DEF storeVars, workerVars, netVars
<1>1. CASE UNCHANGED <<validatorMempool, answer, sMempool, net>>
  BY <1>1, KnownStays
<1>2. ASSUME NEW from, NEW to, SyncerGoto(n, from, to)
      PROVE  Known(tx)
  BY <1>1, <1>2 DEF SyncerGoto
<1>3. CASE SyncerSynced(n) \/ SyncerIdleStop(n) \/ SyncerReady(n) \/ SyncerHaveTx(n)
           \/ SyncerOrderHash(n) \/ SyncerValidate(n) \/ SyncerThrows(n)
  BY <1>2, <1>3 DEF SyncerSynced, SyncerIdleStop, SyncerReady, SyncerHaveTx,
                    SyncerOrderHash, SyncerValidate, SyncerThrows
<1>4. CASE \/ SyncerStartWorker(n) \/ SyncerGetList(n) \/ SyncerOrderSeed(n) \/ SyncerSign(n)
  BY <1>1, <1>4 DEF SyncerStartWorker, SyncerGetList, SyncerOrderSeed, SyncerSign
<1>5. CASE SyncerLoop(n)
  BY <1>1, <1>2, <1>5 DEF SyncerLoop
<1>6. CASE SyncerGetMempool(n)
  <2>1. \A m \in Nodes : \A x \in validatorMempool'[m] \cup answer'[m] \cup sMempool'[m] : Known(x)
    BY <1>6 DEF SyncerGetMempool, Known, IInv, TypeOK
  <2>2. \A m \in net' : m.body.kind = "tx" => Known(m.body.tx)
    BY <1>6 DEF SyncerGetMempool, Known
  <2>. QED BY <2>1, <2>2, KnownFrom
<1>7. CASE SyncerProcess(n)
  <2>1. \A m \in Nodes : \A x \in validatorMempool'[m] \cup answer'[m] \cup sMempool'[m] : Known(x)
    BY <1>7 DEF SyncerProcess, BeginProcess, Known, IInv, TypeOK
  <2>2. \A m \in net' : m.body.kind = "tx" => Known(m.body.tx)
    BY <1>7 DEF SyncerProcess, Known
  <2>. QED BY <2>1, <2>2, KnownFrom
<1>8. CASE SyncerPush(n)
  <2>1. UNCHANGED <<validatorMempool, answer, sMempool>>
    BY <1>8 DEF SyncerPush, FinishProcess
  <2>2. \A m \in net' : m \in net
    BY <1>8 DEF SyncerPush, StillPending
  <2>. QED BY <2>1, <2>2, KnownStays
<1>9. CASE SyncerBroadcast(n)
  <2>1. \A m \in net' : m \in net \/ m.body.kind = "block"
    <3>1. CASE BroadcastMessage(n, BlockMessage(sBlock[n]), broadcasted, net)
      BY <3>1, BroadcastBody DEF BlockMessage
    <3>2. CASE UNCHANGED netVars
      BY <3>2
    <3>. QED BY <1>9, <3>1, <3>2 DEF SyncerBroadcast
  <2>2. \A m \in Nodes : \A x \in validatorMempool'[m] \cup answer'[m] \cup sMempool'[m] : Known(x)
    BY <1>9 DEF SyncerBroadcast, Known, IInv, TypeOK
  <2>3. \A m \in net' : m.body.kind = "tx" => Known(m.body.tx)
    BY <2>1 DEF Known
  <2>. QED BY <2>2, <2>3, KnownFrom
<1>. QED BY <1>3, <1>4, <1>5, <1>6, <1>7, <1>8, <1>9 DEF SyncerStep

LEMMA HandlerSources ==
  ASSUME IInv, NEW n \in Nodes, HandlerStep(n), NEW tx, Known(tx)'
  PROVE  Known(tx)
<1>. USE DEF syncerVars, workerVars, netVars
<1>1. CASE HandlerProcess(n)
  <2>1. \A m \in Nodes : \A x \in validatorMempool'[m] \cup answer'[m] \cup sMempool'[m] : Known(x)
    BY <1>1 DEF HandlerProcess, BeginProcess, Known, IInv, TypeOK
  <2>2. \A m \in net' : m.body.kind = "tx" => Known(m.body.tx)
    BY <1>1 DEF HandlerProcess, Known
  <2>. QED BY <2>1, <2>2, KnownFrom
<1>2. CASE HandlerPush(n)
  <2>1. UNCHANGED <<validatorMempool, answer, sMempool>>
    BY <1>2 DEF HandlerPush, FinishProcess
  <2>2. \A m \in net' : m \in net \/ m.body.kind = "block"
    <3>1. CASE BroadcastMessage(n, BlockMessage(hBlock[n]),
                 StillSeen(n, hBlock[n].height), StillPending(n, hBlock[n].height))
      BY <3>1, BroadcastBody DEF BlockMessage, StillPending
    <3>2. CASE UNCHANGED netVars
      BY <3>2
    <3>. QED BY <1>2, <3>1, <3>2 DEF HandlerPush
  <2>. QED BY <2>1, <2>2, KnownStays
<1>3. CASE HandlerThrows(n)
  <2>1. UNCHANGED <<validatorMempool, answer, sMempool, net>>
    BY <1>3 DEF HandlerThrows, storeVars
  <2>. QED BY <2>1, KnownStays
<1>. QED BY <1>1, <1>2, <1>3 DEF HandlerStep

LEMMA MessageSources ==
  ASSUME IInv, NEW m \in net, Deliver(m) \/ LoseMessage(m), NEW tx, Known(tx)'
  PROVE  Known(tx)
<1>. USE DEF storeVars, syncerVars, workerVars
<1>1. CASE LoseMessage(m)
  <2>1. UNCHANGED <<validatorMempool, answer, sMempool>> /\ \A x \in net' : x \in net
    BY <1>1 DEF LoseMessage
  <2>. QED BY <2>1, KnownStays
<1>2. CASE HandleBlockBroadcast(m)
  <2>1. UNCHANGED <<validatorMempool, answer, sMempool>> /\ \A x \in net' : x \in net
    BY <1>2 DEF HandleBlockBroadcast
  <2>. QED BY <2>1, KnownStays
<1>3. CASE HandleTxValidatorBroadcast(m)
  <2>1. /\ m.body.kind = "tx" /\ AddValidatorTx(m.to, m.body.tx)
        /\ UNCHANGED <<answer, sMempool>> /\ m.to \in Nodes
    BY <1>3 DEF HandleTxValidatorBroadcast, IInv, MessagesOK
  <2>2. Known(m.body.tx)
    BY <2>1 DEF Known
  <2>3. ASSUME NEW k \in Nodes, NEW x \in validatorMempool'[k] \cup answer'[k] \cup sMempool'[k]
        PROVE  Known(x)
    <3>1. x \in validatorMempool[k] \cup answer[k] \cup sMempool[k] \/ x = m.body.tx
      BY <2>1, <2>3, AddedOnly
    <3>. QED BY <2>2, <3>1 DEF Known
  <2>4. \A x \in net' : x \in net \/ x.body = m.body
    <3>1. CASE BroadcastMessage(m.to, m.body, broadcasted, net \ {m})
      BY <3>1, BroadcastBody
    <3>2. CASE net' = net \ {m}
      BY <3>2
    <3>. QED BY <1>3, <3>1, <3>2 DEF HandleTxValidatorBroadcast
  <2>5. \A x \in net' : x.body.kind = "tx" => Known(x.body.tx)
    BY <2>2, <2>4 DEF Known
  <2>. QED BY <2>3, <2>5, KnownFrom
<1>. QED BY <1>1, <1>2, <1>3 DEF Deliver

\* A transaction is copied, answered, delivered and broadcast again, but made only by
\* the worker that signs it.
LEMMA Sources ==
  ASSUME IInv, [Next]_vars, NEW tx, Known(tx)'
  PROVE  Known(tx) \/ \E n \in Nodes : Signs(n, tx)
<1>. USE DEF storeVars, syncerVars, workerVars, netVars
<1>1. CASE UNCHANGED vars
  BY <1>1, KnownStays DEF vars
<1>2. ASSUME NEW n \in Nodes, StopBegin(n) \/ StopStep(n) PROVE Known(tx)
  <2>1. UNCHANGED <<validatorMempool, answer, sMempool>> /\ \A x \in net' : x \in net
    BY <1>2 DEF StopBegin, StopStep, StopTheWorker, JoinWorker, JoinSyncer
  <2>. QED BY <2>1, KnownStays
<1>3. ASSUME NEW n \in Nodes, NEW m \in Nodes, WorkerRequest(n, m) PROVE Known(tx)
  <2>1. \A k \in Nodes : \A x \in validatorMempool'[k] \cup answer'[k] \cup sMempool'[k] : Known(x)
    BY <1>3 DEF WorkerRequest, Known, IInv, TypeOK
  <2>2. \A k \in net' : k.body.kind = "tx" => Known(k.body.tx)
    BY <1>3 DEF WorkerRequest, Known
  <2>. QED BY <2>1, <2>2, KnownFrom
<1>. QED BY <1>1, <1>2, <1>3, WorkerSources, SyncerSources, HandlerSources, MessageSources DEF Next

-----------------------------------------------------------------------------
(* Which thread moves *)

\* The worker of n is moved by itself, or started by the syncer of n.
LEMMA WorkerOf ==
  ASSUME IInv, [Next]_vars, NEW n \in Nodes
  PROVE  /\ \/ wpc'[n] = wpc[n] /\ wHeight'[n] = wHeight[n] /\ wSeed'[n] = wSeed[n]
            \/ WorkerStep(n) \/ SyncerStartWorker(n)
         /\ stopWorker[n] => stopWorker'[n]
<1>. USE DEF workerVars, stopVars
<1>. DEFINE Same == /\ wpc'[n] = wpc[n] /\ wHeight'[n] = wHeight[n] /\ wSeed'[n] = wSeed[n]
                    /\ stopWorker[n] => stopWorker'[n]
<1>1. CASE UNCHANGED vars
  BY <1>1 DEF vars
<1>2. ASSUME NEW k \in Nodes, WorkerStep(k)
      PROVE  Same \/ (WorkerStep(n) /\ (stopWorker[n] => stopWorker'[n]))
  <2>1. CASE WorkerAddAnswered(k) \/ CommitHash(k) \/ RevealSeed(k)
    BY <1>2, <2>1 DEF WorkerAddAnswered, CommitHash, RevealSeed, IInv, TypeOK
  <2>2. CASE \/ WorkerBegin(k) \/ WorkerCheck(k) \/ WorkerExit(k) \/ WorkerScan(k)
             \/ WorkerNextBlock(k)
    BY <1>2, <2>2 DEF WorkerBegin, WorkerCheck, WorkerExit, WorkerScan, WorkerNextBlock,
                      IInv, TypeOK
  <2>3. CASE \/ CreationRead(k) \/ CreationReady(k) \/ CreationStop(k)
             \/ HashesSeen(k) \/ HashesStop(k)
    BY <1>2, <2>3 DEF CreationRead, CreationReady, CreationStop, HashesSeen, HashesStop,
                      IInv, TypeOK
  <2>. QED BY <1>2, <2>1, <2>2, <2>3 DEF WorkerStep
<1>3. ASSUME NEW k \in Nodes, SyncerStep(k)
      PROVE  Same \/ (SyncerStartWorker(n) /\ (stopWorker[n] => stopWorker'[n]))
  <2>1. ASSUME NEW from, NEW to, SyncerGoto(k, from, to) PROVE Same
    BY <2>1 DEF SyncerGoto
  <2>2. CASE SyncerSynced(k) \/ SyncerIdleStop(k) \/ SyncerReady(k) \/ SyncerHaveTx(k)
             \/ SyncerOrderHash(k) \/ SyncerValidate(k) \/ SyncerThrows(k)
    BY <2>1, <2>2 DEF SyncerSynced, SyncerIdleStop, SyncerReady, SyncerHaveTx,
                      SyncerOrderHash, SyncerValidate, SyncerThrows
  <2>3. CASE SyncerLoop(k)
    BY <2>1, <2>3 DEF SyncerLoop
  <2>4. CASE \/ SyncerGetMempool(k) \/ SyncerGetList(k) \/ SyncerOrderSeed(k) \/ SyncerSign(k)
             \/ SyncerProcess(k) \/ SyncerPush(k) \/ SyncerBroadcast(k)
    BY <2>4 DEF SyncerGetMempool, SyncerGetList, SyncerOrderSeed, SyncerSign,
                SyncerProcess, SyncerPush, SyncerBroadcast
  <2>5. CASE SyncerStartWorker(k)
    BY <2>5 DEF SyncerStartWorker, IInv, TypeOK
  <2>. QED BY <1>3, <2>2, <2>3, <2>4, <2>5 DEF SyncerStep
<1>4. ASSUME NEW k \in Nodes, HandlerStep(k) PROVE Same
  BY <1>4 DEF HandlerStep, HandlerProcess, HandlerThrows, HandlerPush
<1>5. ASSUME NEW k \in Nodes, StopBegin(k) \/ StopStep(k) PROVE Same
  BY <1>5 DEF StopBegin, StopStep, StopTheWorker, JoinWorker, JoinSyncer, IInv, TypeOK
<1>6. ASSUME NEW k \in Nodes, NEW m \in Nodes, WorkerRequest(k, m) PROVE Same
  BY <1>6 DEF WorkerRequest
<1>7. ASSUME NEW m \in net, Deliver(m) \/ LoseMessage(m) PROVE Same
  BY <1>7 DEF Deliver, LoseMessage, HandleTxValidatorBroadcast, HandleBlockBroadcast
<1>. QED BY <1>1, <1>2, <1>3, <1>4, <1>5, <1>6, <1>7 DEF Next

\* The syncer of n is moved by itself.
LEMMA SyncerOf ==
  ASSUME IInv, [Next]_vars, NEW n \in Nodes
  PROVE  \/ /\ spc'[n] = spc[n] /\ sMempool'[n] = sMempool[n]
            /\ sList'[n] = sList[n] /\ sBlock'[n] = sBlock[n]
         \/ SyncerStep(n)
<1>. USE DEF syncerVars
<1>. DEFINE Same == /\ spc'[n] = spc[n] /\ sMempool'[n] = sMempool[n]
                    /\ sList'[n] = sList[n] /\ sBlock'[n] = sBlock[n]
<1>1. CASE UNCHANGED vars
  BY <1>1 DEF vars
<1>2. ASSUME NEW k \in Nodes, WorkerStep(k) PROVE Same
  <2>1. CASE WorkerAddAnswered(k) \/ CommitHash(k) \/ RevealSeed(k)
    BY <2>1 DEF WorkerAddAnswered, CommitHash, RevealSeed
  <2>2. CASE \/ WorkerBegin(k) \/ WorkerCheck(k) \/ WorkerExit(k) \/ WorkerScan(k)
             \/ WorkerNextBlock(k)
    BY <2>2 DEF WorkerBegin, WorkerCheck, WorkerExit, WorkerScan, WorkerNextBlock
  <2>3. CASE \/ CreationRead(k) \/ CreationReady(k) \/ CreationStop(k)
             \/ HashesSeen(k) \/ HashesStop(k)
    BY <2>3 DEF CreationRead, CreationReady, CreationStop, HashesSeen, HashesStop
  <2>. QED BY <1>2, <2>1, <2>2, <2>3 DEF WorkerStep
<1>3. ASSUME NEW k \in Nodes, SyncerStep(k), k # n PROVE Same
  <2>0. /\ DOMAIN sBlock = Nodes /\ DOMAIN sMempool = Nodes
        /\ DOMAIN spc = Nodes /\ DOMAIN sList = Nodes
    BY DEF IInv, TypeOK, DomainsOK
  <2>1. ASSUME NEW from, NEW to, SyncerGoto(k, from, to) PROVE Same
    BY <1>3, <2>0, <2>1 DEF SyncerGoto
  <2>2. CASE SyncerSynced(k) \/ SyncerIdleStop(k) \/ SyncerReady(k) \/ SyncerHaveTx(k)
             \/ SyncerOrderHash(k) \/ SyncerValidate(k) \/ SyncerThrows(k)
    BY <2>1, <2>2 DEF SyncerSynced, SyncerIdleStop, SyncerReady, SyncerHaveTx,
                      SyncerOrderHash, SyncerValidate, SyncerThrows
  <2>3. CASE SyncerLoop(k)
    BY <1>3, <2>0, <2>1, <2>3 DEF SyncerLoop
  <2>4. CASE \/ SyncerStartWorker(k) \/ SyncerGetMempool(k) \/ SyncerGetList(k)
             \/ SyncerOrderSeed(k)
    BY <1>3, <2>0, <2>4 DEF SyncerStartWorker, SyncerGetMempool, SyncerGetList, SyncerOrderSeed
  <2>5. CASE \/ SyncerSign(k) \/ SyncerProcess(k) \/ SyncerPush(k) \/ SyncerBroadcast(k)
    BY <1>3, <2>0, <2>5 DEF SyncerSign, SyncerProcess, SyncerPush, SyncerBroadcast
  <2>. QED BY <1>3, <2>2, <2>3, <2>4, <2>5 DEF SyncerStep
<1>4. ASSUME NEW k \in Nodes, HandlerStep(k) PROVE Same
  BY <1>4 DEF HandlerStep, HandlerProcess, HandlerThrows, HandlerPush
<1>5. ASSUME NEW k \in Nodes, StopBegin(k) \/ StopStep(k) PROVE Same
  BY <1>5 DEF StopBegin, StopStep, StopTheWorker, JoinWorker, JoinSyncer
<1>6. ASSUME NEW k \in Nodes, NEW m \in Nodes, WorkerRequest(k, m) PROVE Same
  BY <1>6 DEF WorkerRequest
<1>7. ASSUME NEW m \in net, Deliver(m) \/ LoseMessage(m) PROVE Same
  BY <1>7 DEF Deliver, LoseMessage, HandleTxValidatorBroadcast, HandleBlockBroadcast
<1>. QED BY <1>1, <1>2, <1>3, <1>4, <1>5, <1>6, <1>7 DEF Next

\* While nobody holds the mutex of n before and after a step, its list stays; while
\* nobody holds it before, its chain does.
LEMMA StoreOf ==
  ASSUME IInv, [Next]_vars, NEW n \in Nodes, lock[n] = "free"
  PROVE  /\ height'[n] = height[n] /\ chain'[n] = chain[n]
         /\ lock'[n] = "free" => randomList'[n] = randomList[n]
<1>. USE DEF storeVars
<1>. DEFINE Same == /\ height'[n] = height[n] /\ chain'[n] = chain[n]
                    /\ lock'[n] = "free" => randomList'[n] = randomList[n]
<1>1. CASE UNCHANGED vars
  BY <1>1 DEF vars
<1>2. ASSUME NEW k \in Nodes, WorkerStep(k) PROVE Same
  <2>1. CASE WorkerAddAnswered(k) \/ CommitHash(k) \/ RevealSeed(k)
    BY <2>1 DEF WorkerAddAnswered, CommitHash, RevealSeed, AddValidatorTx
  <2>2. CASE \/ WorkerBegin(k) \/ WorkerCheck(k) \/ WorkerExit(k) \/ WorkerScan(k)
             \/ WorkerNextBlock(k)
    BY <2>2 DEF WorkerBegin, WorkerCheck, WorkerExit, WorkerScan, WorkerNextBlock
  <2>3. CASE \/ CreationRead(k) \/ CreationReady(k) \/ CreationStop(k)
             \/ HashesSeen(k) \/ HashesStop(k)
    BY <2>3 DEF CreationRead, CreationReady, CreationStop, HashesSeen, HashesStop
  <2>. QED BY <1>2, <2>1, <2>2, <2>3 DEF WorkerStep
<1>3. ASSUME NEW k \in Nodes, NEW b, NEW owner \in {"syncer", "handler"},
             BeginProcess(k, b, owner)
      PROVE  Same
  BY <1>3 DEF BeginProcess, IInv, TypeOK
<1>4. ASSUME NEW k \in Nodes, NEW b, lock[k] # "free", FinishProcess(k, b) PROVE Same
  BY <1>4 DEF FinishProcess, IInv, TypeOK
<1>5. ASSUME NEW k \in Nodes, SyncerStep(k) PROVE Same
  <2>1. ASSUME NEW from, NEW to, SyncerGoto(k, from, to) PROVE Same
    BY <2>1 DEF SyncerGoto
  <2>2. CASE SyncerSynced(k) \/ SyncerIdleStop(k) \/ SyncerReady(k) \/ SyncerHaveTx(k)
             \/ SyncerOrderHash(k) \/ SyncerValidate(k) \/ SyncerThrows(k)
    BY <2>1, <2>2 DEF SyncerSynced, SyncerIdleStop, SyncerReady, SyncerHaveTx,
                      SyncerOrderHash, SyncerValidate, SyncerThrows
  <2>3. CASE SyncerLoop(k)
    BY <2>1, <2>3 DEF SyncerLoop
  <2>4. CASE \/ SyncerStartWorker(k) \/ SyncerGetMempool(k) \/ SyncerGetList(k)
             \/ SyncerOrderSeed(k) \/ SyncerSign(k) \/ SyncerBroadcast(k)
    BY <2>4 DEF SyncerStartWorker, SyncerGetMempool, SyncerGetList, SyncerOrderSeed,
                SyncerSign, SyncerBroadcast
  <2>5. CASE SyncerProcess(k)
    BY <1>3, <2>5 DEF SyncerProcess
  <2>6. CASE SyncerPush(k)
    BY <1>4, <2>6 DEF SyncerPush, IInv, LockOK
  <2>. QED BY <1>5, <2>2, <2>3, <2>4, <2>5, <2>6 DEF SyncerStep
<1>6. ASSUME NEW k \in Nodes, HandlerStep(k) PROVE Same
  <2>1. CASE HandlerProcess(k)
    BY <1>3, <2>1 DEF HandlerProcess
  <2>2. CASE HandlerPush(k)
    BY <1>4, <2>2 DEF HandlerPush, IInv, LockOK
  <2>3. CASE HandlerThrows(k)
    BY <2>3 DEF HandlerThrows
  <2>. QED BY <1>6, <2>1, <2>2, <2>3 DEF HandlerStep
<1>7. ASSUME NEW k \in Nodes, StopBegin(k) \/ StopStep(k) PROVE Same
  BY <1>7 DEF StopBegin, StopStep, StopTheWorker, JoinWorker, JoinSyncer
<1>8. ASSUME NEW k \in Nodes, NEW m \in Nodes, WorkerRequest(k, m) PROVE Same
  BY <1>8 DEF WorkerRequest
<1>9. ASSUME NEW m \in net, Deliver(m) \/ LoseMessage(m) PROVE Same
  BY <1>9 DEF Deliver, LoseMessage, HandleTxValidatorBroadcast, HandleBlockBroadcast,
              AddValidatorTx
<1>. QED BY <1>1, <1>2, <1>5, <1>6, <1>7, <1>8, <1>9 DEF Next

\* Chains only grow.
LEMMA ChainsGrow ==
  ASSUME IInv, [Next]_vars, NEW n \in Nodes
  PROVE  /\ height[n] \in Nat /\ height'[n] \in Nat /\ height[n] <= height'[n]
         /\ \A k \in 0..height[n] : chain'[n][k] = chain[n][k]
<1>1. \A m \in Nodes : height[m] \in Nat
  BY DEF IInv, TypeOK
<1>2. CASE UNCHANGED <<height, chain>>
  BY <1>1, <1>2
<1>3. ASSUME NEW m \in Nodes, NEW b, PushedBy(m, b)
      PROVE  /\ height'[n] \in Nat /\ height[n] <= height'[n]
             /\ \A k \in 0..height[n] : chain'[n][k] = chain[n][k]
  <2>1. TypeOK /\ b.height = height[m] + 1
    BY <1>3 DEF PushedBy, Extends, IInv
  <2>2. /\ height'[n] = IF n = m THEN height[m] + 1 ELSE height[n]
        /\ \A k \in 0..height[n] : chain'[n][k] = chain[n][k]
    BY <1>3, <2>1, PushKeeps DEF PushedBy
  <2>. QED BY <1>1, <2>2
<1>. QED BY <1>1, <1>2, <1>3, StoreSteps, SyncerPushes, HandlerPushes

\* The statements after which the syncer is at each place of doValidatorBlock.
LEMMA SyncerArrives ==
  ASSUME IInv, NEW n \in Nodes, SyncerStep(n)
  PROVE  /\ spc'[n] # "init" /\ (spc'[n] = "start" => spc[n] = "init")
         /\ spc'[n] = "getList" => SyncerGetMempool(n)
         /\ spc'[n] = "orderHash" => SyncerGetList(n)
         /\ spc'[n] = "orderSeed" => SyncerGoto(n, "orderHash", "orderSeed")
         /\ spc'[n] = "sign" => SyncerOrderSeed(n)
         /\ spc'[n] = "validate" => SyncerSign(n)
         /\ spc'[n] = "process" => SyncerGoto(n, "validate", "process")
         /\ spc'[n] = "push" => SyncerProcess(n)
         /\ spc'[n] = "confirm" => SyncerPush(n)
         /\ spc'[n] = "dead" => \/ spc[n] = "validate" /\ ~ValidateNextBlock(n, sBlock[n])
                                \/ spc[n] = "process" /\ n \in Throwing
                                \/ spc[n] = "push" /\ ~Extends(n, sBlock[n])
                                \/ spc[n] = "confirm" /\ Latest(n) # sBlock[n]
<1>0. DOMAIN spc = Nodes
  BY DEF IInv, TypeOK
<1>1. ASSUME NEW from, NEW to, SyncerGoto(n, from, to)
      PROVE  spc'[n] = to /\ spc[n] = from
  BY <1>0, <1>1 DEF SyncerGoto
<1>2. CASE SyncerSynced(n) \/ SyncerIdleStop(n) \/ SyncerReady(n) \/ SyncerHaveTx(n)
  BY <1>1, <1>2 DEF SyncerSynced, SyncerIdleStop, SyncerReady, SyncerHaveTx
<1>3. CASE SyncerOrderHash(n) \/ SyncerValidate(n) \/ SyncerThrows(n)
  BY <1>1, <1>3 DEF SyncerOrderHash, SyncerValidate, SyncerThrows, TransactionThrows
<1>4. CASE SyncerLoop(n)
  BY <1>0, <1>1, <1>4 DEF SyncerLoop
<1>5. CASE \/ SyncerStartWorker(n) \/ SyncerGetMempool(n) \/ SyncerGetList(n)
           \/ SyncerOrderSeed(n)
  BY <1>0, <1>5 DEF SyncerStartWorker, SyncerGetMempool, SyncerGetList, SyncerOrderSeed
<1>6. CASE \/ SyncerSign(n) \/ SyncerProcess(n) \/ SyncerPush(n) \/ SyncerBroadcast(n)
  BY <1>0, <1>6 DEF SyncerSign, SyncerProcess, SyncerPush, SyncerBroadcast
<1>. QED BY <1>2, <1>3, <1>4, <1>5, <1>6 DEF SyncerStep

-----------------------------------------------------------------------------
(* One value per worker and height *)

\* The worker that has signed a transaction does not come back to its height.
LEMMA AuthorStays ==
  ASSUME IInv, RoundsOK, [Next]_vars, NEW tx \in TxValidators, Known(tx)
  PROVE  AuthorAt(tx)'
<1>. DEFINE n == tx.from
<1>1. n \in Nodes /\ tx.height \in Nat
  BY NodesAssumption DEF TxValidators
<1>2. AuthorAt(tx) /\ wHeight[n] <= height[n]
  BY <1>1 DEF RoundsOK
<1>3. /\ wHeight[n] \in Nat /\ height[n] \in Nat /\ wpc[n] \in WorkerPcs
      /\ DOMAIN wpc = Nodes /\ DOMAIN wHeight = Nodes /\ DOMAIN wSeed = Nodes
  BY <1>1 DEF IInv, TypeOK
<1>4. stopWorker[n] => stopWorker'[n]
  BY <1>1, WorkerOf
<1>. HIDE DEF n
<1>5. CASE wpc'[n] = wpc[n] /\ wHeight'[n] = wHeight[n] /\ wSeed'[n] = wSeed[n]
  BY <1>2, <1>4, <1>5 DEF AuthorAt, n
<1>6. CASE SyncerStartWorker(n)
  <2>1. wpc[n] = "off" /\ UNCHANGED wHeight
    BY <1>1, <1>6 DEF SyncerStartWorker, RoundsOK
  <2>2. tx.height <= wHeight[n] + 1 /\ tx.height # wHeight[n] + 1
    BY <1>2, <2>1 DEF AuthorAt, n
  <2>. QED BY <2>1, <2>2 DEF AuthorAt, n
<1>7. CASE WorkerStep(n)
  <2>1. ASSUME wHeight'[n] = height[n], height[n] # wHeight[n] PROVE AuthorAt(tx)'
    <3>1. tx.height <= wHeight[n] + 1
      BY <1>2 DEF AuthorAt, n
    <3>2. tx.height <= wHeight'[n] /\ wHeight'[n] \in Nat
      BY <1>1, <1>2, <1>3, <2>1, <3>1
    <3>. QED BY <1>1, <3>2 DEF AuthorAt, n
  <2>2. CASE WorkerBegin(n)
    <3>1. wpc[n] = "begin" /\ wHeight'[n] = height[n]
      BY <1>1, <1>3, <2>2 DEF WorkerBegin
    <3>2. tx.height <= wHeight[n] + 1 /\ tx.height # wHeight[n] + 1
      BY <1>2, <3>1 DEF AuthorAt, n
    <3>. QED BY <2>1, <3>1, <3>2 DEF AuthorAt, n
  <2>3. CASE WorkerNextBlock(n)
    <3>1. wHeight'[n] = height[n] /\ wpc'[n] = "loop" /\ (height[n] # wHeight[n] \/ stopWorker[n])
      BY <1>1, <1>3, <2>3 DEF WorkerNextBlock
    <3>2. CASE height[n] = wHeight[n]
      BY <1>2, <1>4, <3>1, <3>2 DEF AuthorAt, n
    <3>. QED BY <2>1, <3>1, <3>2
  <2>4. CASE WorkerCheck(n) \/ CommitHash(n)
    <3>1. wpc[n] = "commit" \/ (wpc[n] = "loop" /\ ~stopWorker[n])
      BY <2>4 DEF WorkerCheck, CommitHash
    <3>2. UNCHANGED wHeight
      BY <2>4 DEF WorkerCheck, CommitHash
    <3>3. tx.height <= wHeight[n] + 1 /\ tx.height # wHeight[n] + 1
      BY <1>2, <3>1 DEF AuthorAt, n
    <3>. QED BY <3>2, <3>3 DEF AuthorAt, n
  <2>5. ASSUME UNCHANGED wHeight, wpc[n] \notin {"off", "begin", "commit"},
               wpc'[n] \notin {"off", "begin", "commit", "loop", "hashes", "reveal"}
        PROVE  AuthorAt(tx)'
    BY <1>2, <2>5 DEF AuthorAt, n
  <2>6. CASE WorkerExit(n) \/ CreationRead(n) \/ CreationReady(n) \/ CreationStop(n)
    BY <1>1, <1>3, <2>5, <2>6 DEF WorkerExit, CreationRead, CreationReady, CreationStop
  <2>7. CASE WorkerScan(n) \/ RevealSeed(n)
    BY <1>1, <1>3, <2>5, <2>7 DEF WorkerScan, RevealSeed, AfterIndex
  <2>8. CASE HashesSeen(n) \/ HashesStop(n)
    <3>1. /\ UNCHANGED <<wHeight, wSeed>> /\ wpc[n] \in {"hashes", "reveal"}
          /\ wpc'[n] \in {"reveal", "wait", "scan"}
      BY <1>1, <1>3, <2>8 DEF HashesSeen, HashesStop, AfterIndex
    <3>2. tx.height = wHeight[n] + 1 => tx.fn = "hash" /\ tx.value = wSeed[n]
      BY <1>2, <3>1 DEF AuthorAt, n
    <3>. QED BY <1>2, <3>1, <3>2 DEF AuthorAt, n
  <2>9. CASE WorkerAddAnswered(n)
    BY <1>5, <2>9 DEF WorkerAddAnswered
  <2>. QED BY <1>7, <2>2, <2>3, <2>4, <2>6, <2>7, <2>8, <2>9 DEF WorkerStep
<1>. QED BY <1>1, <1>5, <1>6, <1>7, WorkerOf

\* What a worker signs has the value that it holds, and is of a height for which it has
\* signed nothing else but the hash of that value.
LEMMA SignedFresh ==
  ASSUME IInv, RoundsOK, NEW n \in Nodes, NEW tx, Signs(n, tx)
  PROVE  /\ tx.from = n /\ tx.height = wHeight[n] + 1 /\ AuthorAt(tx)'
         /\ \A t \in TxValidators : Known(t) /\ t.from = n /\ t.height = tx.height =>
              t.value = tx.value
<1>1. DOMAIN wpc = Nodes /\ DOMAIN wSeed = Nodes /\ wHeight[n] \in Nat
  BY DEF IInv, TypeOK
<1>2. CASE CommitHash(n) /\ tx = WorkerTx(n, "hash", wSeed'[n])
  <2>1. wpc[n] = "commit" /\ wpc'[n] = "hashes" /\ UNCHANGED wHeight
    BY <1>1, <1>2 DEF CommitHash
  <2>2. /\ tx.from = n /\ tx.height = wHeight[n] + 1 /\ tx.fn = "hash"
        /\ tx.value = wSeed'[n]
    BY <1>2 DEF WorkerTx
  <2>3. AuthorAt(tx)'
    BY <1>1, <2>1, <2>2 DEF AuthorAt
  <2>4. ASSUME NEW t \in TxValidators, Known(t), t.from = n, t.height = wHeight[n] + 1
        PROVE  FALSE
    BY <2>1, <2>4 DEF RoundsOK, AuthorAt
  <2>. QED BY <2>2, <2>3, <2>4
<1>3. CASE RevealSeed(n) /\ tx = WorkerTx(n, "seed", wSeed[n])
  <2>1. wpc[n] = "reveal" /\ wpc'[n] \in {"wait", "scan"} /\ UNCHANGED wHeight
    BY <1>1, <1>3 DEF RevealSeed, AfterIndex
  <2>2. tx.from = n /\ tx.height = wHeight[n] + 1 /\ tx.fn = "seed" /\ tx.value = wSeed[n]
    BY <1>3 DEF WorkerTx
  <2>3. AuthorAt(tx)'
    BY <1>1, <2>1, <2>2 DEF AuthorAt
  <2>4. ASSUME NEW t \in TxValidators, Known(t), t.from = n, t.height = wHeight[n] + 1
        PROVE  t.value = wSeed[n]
    BY <2>1, <2>4 DEF RoundsOK, AuthorAt
  <2>. QED BY <2>2, <2>3, <2>4
<1>. QED BY <1>2, <1>3 DEF Signs

\* In one step one transaction is signed at most.
LEMMA SignedOnce ==
  ASSUME NEW n \in Nodes, NEW tx, Signs(n, tx), NEW t, Signs(n, t)
  PROVE  tx = t
<1>1. ~(CommitHash(n) /\ RevealSeed(n))
  BY DEF CommitHash, RevealSeed
<1>. QED BY <1>1 DEF Signs

LEMMA NextRounds ==
  ASSUME IInv, IInv', RoundsOK, [Next]_vars
  PROVE  RoundsOK'
<1>1. ASSUME NEW n \in Nodes
      PROVE  (spc[n] \in {"init", "start"} => wpc[n] = "off")' /\ wHeight'[n] <= height'[n]
  <2>0. /\ wHeight[n] \in Nat /\ height[n] \in Nat /\ height'[n] \in Nat /\ height[n] <= height'[n]
        /\ wHeight[n] <= height[n] /\ (spc[n] \in {"init", "start"} => wpc[n] = "off")
    BY ChainsGrow DEF IInv, TypeOK, RoundsOK
  <2>1. wHeight'[n] \in {wHeight[n], height[n]}
    <3>1. CASE WorkerStep(n)
      <4>1. CASE WorkerAddAnswered(n) \/ CommitHash(n) \/ RevealSeed(n)
        BY <4>1 DEF WorkerAddAnswered, CommitHash, RevealSeed
      <4>2. CASE \/ WorkerBegin(n) \/ WorkerCheck(n) \/ WorkerExit(n) \/ WorkerScan(n)
                 \/ WorkerNextBlock(n)
        BY <4>2 DEF WorkerBegin, WorkerCheck, WorkerExit, WorkerScan, WorkerNextBlock,
                    IInv, TypeOK
      <4>3. CASE \/ CreationRead(n) \/ CreationReady(n) \/ CreationStop(n)
                 \/ HashesSeen(n) \/ HashesStop(n)
        BY <4>3 DEF CreationRead, CreationReady, CreationStop, HashesSeen, HashesStop
      <4>. QED BY <3>1, <4>1, <4>2, <4>3 DEF WorkerStep
    <3>2. CASE SyncerStartWorker(n)
      BY <3>2 DEF SyncerStartWorker
    <3>. QED BY <3>1, <3>2, WorkerOf
  <2>2. ASSUME spc'[n] \in {"init", "start"} PROVE spc[n] \in {"init", "start"} /\ ~SyncerStartWorker(n)
    <3>1. CASE SyncerStep(n)
      <4>1. spc[n] = "init"
        BY <2>2, <3>1, SyncerArrives
      <4>. QED BY <4>1 DEF SyncerStartWorker
    <3>2. CASE spc'[n] = spc[n] /\ ~SyncerStep(n)
      BY <2>2, <3>2 DEF SyncerStep
    <3>. QED BY <3>1, <3>2, SyncerOf
  <2>3. ASSUME wpc[n] = "off", WorkerStep(n) PROVE wpc'[n] = "off"
    BY <2>3 DEF WorkerStep, WorkerBegin, WorkerCheck, WorkerExit, WorkerAddAnswered,
                CreationRead, CreationReady, CreationStop, CommitHash, HashesSeen,
                HashesStop, RevealSeed, WorkerScan, WorkerNextBlock
  <2>. QED BY <2>0, <2>1, <2>2, <2>3, WorkerOf
<1>2. ASSUME NEW tx \in TxValidators, Known(tx)' PROVE AuthorAt(tx)'
  BY <1>2, Sources, AuthorStays, SignedFresh
<1>3. ASSUME NEW tx \in TxValidators, NEW t \in TxValidators, Known(tx)', Known(t)',
             tx.from = t.from, tx.height = t.height
      PROVE  tx.value = t.value
  <2>1. CASE Known(tx) /\ Known(t)
    BY <1>3, <2>1 DEF RoundsOK
  <2>2. ASSUME NEW n \in Nodes, Signs(n, tx), Known(t) PROVE tx.value = t.value
    BY <1>3, <2>2, SignedFresh
  <2>3. ASSUME NEW n \in Nodes, Signs(n, t), Known(tx) PROVE tx.value = t.value
    BY <1>3, <2>3, SignedFresh
  <2>4. ASSUME NEW n \in Nodes, Signs(n, tx), NEW k \in Nodes, Signs(k, t)
        PROVE  tx.value = t.value
    <3>1. tx.from = n /\ t.from = k
      BY <2>4, SignedFresh
    <3>. QED BY <1>3, <2>4, <3>1, SignedOnce
  <2>. QED BY <1>3, <2>1, <2>2, <2>3, <2>4, Sources
<1>. QED BY <1>1, <1>2, <1>3 DEF RoundsOK

-----------------------------------------------------------------------------
(* The copies of the syncer, and the block it has not broadcast *)

LEMMA NextSnapshot ==
  ASSUME IInv, IInv', [Next]_vars, NEW n \in Nodes, SnapshotAt(n)
  PROVE  SnapshotAt(n)'
<1>0. /\ DOMAIN sMempool = Nodes /\ DOMAIN sList = Nodes /\ DOMAIN spc = Nodes
      /\ SyncerAt(n) /\ SyncerAt(n)'
  BY DEF IInv, TypeOK, SyncerOK
<1>. USE DEF storeVars
<1>1. CASE /\ spc'[n] = spc[n] /\ sMempool'[n] = sMempool[n]
           /\ sList'[n] = sList[n] /\ sBlock'[n] = sBlock[n]
  <2>1. CASE sMempool[n] = {} \/ spc[n] \notin {"getList", "orderHash", "orderSeed"}
    BY <1>1, <2>1 DEF SnapshotAt
  <2>2. CASE sMempool[n] # {} /\ spc[n] \in {"getList", "orderHash", "orderSeed"}
    <3>1. lock[n] = "free" /\ lock'[n] = "free"
      BY <1>0, <1>1, <2>2 DEF SyncerAt
    <3>2. height'[n] = height[n] /\ randomList'[n] = randomList[n]
      BY <3>1, StoreOf
    <3>. QED BY <1>1, <3>2 DEF SnapshotAt
  <2>. QED BY <2>1, <2>2
<1>2. CASE SyncerStep(n)
  <2>1. CASE spc'[n] = "getList"
    <3>1. sMempool'[n] = validatorMempool[n] /\ UNCHANGED height
      BY <1>0, <1>2, <2>1, SyncerArrives DEF SyncerGetMempool
    <3>2. \A tx \in validatorMempool[n] : tx.height = height[n] + 1
      BY DEF IInv, MempoolOfTheRound
    <3>. QED BY <2>1, <3>1, <3>2 DEF SnapshotAt
  <2>2. CASE spc'[n] = "orderHash"
    <3>1. /\ spc[n] = "getList" /\ sList'[n] = randomList[n]
          /\ UNCHANGED <<height, randomList, sMempool>>
      BY <1>0, <1>2, <2>2, SyncerArrives DEF SyncerGetList
    <3>. QED BY <2>2, <3>1 DEF SnapshotAt
  <2>3. CASE spc'[n] = "orderSeed"
    <3>1. spc[n] = "orderHash" /\ UNCHANGED <<height, randomList, sMempool, sList>>
      BY <1>2, <2>3, SyncerArrives DEF SyncerGoto
    <3>. QED BY <2>3, <3>1 DEF SnapshotAt
  <2>4. CASE spc'[n] \notin {"getList", "orderHash", "orderSeed"}
    BY <2>4 DEF SnapshotAt
  <2>. QED BY <2>1, <2>2, <2>3, <2>4
<1>. QED BY <1>1, <1>2, SyncerOf

\* The block handler of m, and the blocks on the links: what is there after a step was
\* on a link, or is the block that a syncer has just broadcast.
BlocksFrom(B) ==
  /\ \A m \in net' : m.body.kind = "block" => m \in net \/ m.body.block \in B
  /\ \A m \in Nodes : hpc'[m] # "idle" =>
       \/ hpc[m] # "idle" /\ hBlock'[m] = hBlock[m]
       \/ \E x \in net : x.body.kind = "block" /\ hBlock'[m] = x.body.block

LEMMA BlockSources ==
  ASSUME IInv, [Next]_vars
  PROVE  \/ BlocksFrom({})
         \/ \E n \in Nodes : HandlerPush(n) /\ BlocksFrom({hBlock[n]})
         \/ \E n \in Nodes : SyncerBroadcast(n) /\ BlocksFrom({sBlock[n]}) /\ UNCHANGED storeVars
<1>. USE DEF handlerVars, netVars
<1>1. ASSUME UNCHANGED handlerVars, \A m \in net' : m \in net \/ m.body.kind # "block"
      PROVE  BlocksFrom({})
  BY <1>1 DEF BlocksFrom
<1>2. CASE UNCHANGED vars
  BY <1>1, <1>2 DEF vars
<1>3. ASSUME NEW n \in Nodes, WorkerStep(n) PROVE BlocksFrom({})
  <2>1. ASSUME NEW t, BroadcastMessage(n, TxMessage(t), broadcasted, net)
        PROVE  \A m \in net' : m \in net \/ m.body.kind # "block"
    BY <2>1, BroadcastBody DEF TxMessage
  <2>2. CASE WorkerAddAnswered(n)
    BY <1>1, <2>2 DEF WorkerAddAnswered
  <2>3. CASE CommitHash(n)
    BY <1>1, <2>1, <2>3 DEF CommitHash
  <2>4. CASE RevealSeed(n)
    BY <1>1, <2>1, <2>4 DEF RevealSeed
  <2>5. CASE \/ WorkerBegin(n) \/ WorkerCheck(n) \/ WorkerExit(n) \/ WorkerScan(n)
             \/ WorkerNextBlock(n)
    BY <1>1, <2>5 DEF WorkerBegin, WorkerCheck, WorkerExit, WorkerScan, WorkerNextBlock
  <2>6. CASE \/ CreationRead(n) \/ CreationReady(n) \/ CreationStop(n)
             \/ HashesSeen(n) \/ HashesStop(n)
    BY <1>1, <2>6 DEF CreationRead, CreationReady, CreationStop, HashesSeen, HashesStop
  <2>. QED BY <1>3, <2>2, <2>3, <2>4, <2>5, <2>6 DEF WorkerStep
<1>4. ASSUME NEW n \in Nodes, SyncerStep(n)
      PROVE  BlocksFrom({}) \/ (SyncerBroadcast(n) /\ BlocksFrom({sBlock[n]}) /\ UNCHANGED storeVars)
  <2>1. ASSUME NEW from, NEW to, SyncerGoto(n, from, to) PROVE BlocksFrom({})
    BY <1>1, <2>1 DEF SyncerGoto
  <2>2. CASE SyncerSynced(n) \/ SyncerIdleStop(n) \/ SyncerReady(n) \/ SyncerHaveTx(n)
             \/ SyncerOrderHash(n) \/ SyncerValidate(n) \/ SyncerThrows(n)
    BY <2>1, <2>2 DEF SyncerSynced, SyncerIdleStop, SyncerReady, SyncerHaveTx,
                      SyncerOrderHash, SyncerValidate, SyncerThrows
  <2>3. CASE SyncerLoop(n)
    BY <1>1, <2>1, <2>3 DEF SyncerLoop
  <2>4. CASE \/ SyncerStartWorker(n) \/ SyncerGetMempool(n) \/ SyncerGetList(n)
             \/ SyncerOrderSeed(n) \/ SyncerSign(n) \/ SyncerProcess(n)
    BY <1>1, <2>4 DEF SyncerStartWorker, SyncerGetMempool, SyncerGetList, SyncerOrderSeed,
                      SyncerSign, SyncerProcess
  <2>5. CASE SyncerPush(n)
    BY <1>1, <2>5 DEF SyncerPush, StillPending
  <2>6. CASE SyncerBroadcast(n)
    <3>1. CASE BroadcastMessage(n, BlockMessage(sBlock[n]), broadcasted, net)
      <4>1. \A m \in net' : m \in net \/ m.body = BlockMessage(sBlock[n])
        BY <3>1, BroadcastBody
      <4>2. \A m \in net' : m.body.kind = "block" => m \in net \/ m.body.block = sBlock[n]
        BY <4>1 DEF BlockMessage
      <4>. QED BY <2>6, <4>2 DEF BlocksFrom, SyncerBroadcast
    <3>2. CASE UNCHANGED netVars
      BY <1>1, <2>6, <3>2 DEF SyncerBroadcast
    <3>. QED BY <2>6, <3>1, <3>2 DEF SyncerBroadcast
  <2>. QED BY <1>4, <2>2, <2>3, <2>4, <2>5, <2>6 DEF SyncerStep
<1>5. ASSUME NEW n \in Nodes, HandlerStep(n)
      PROVE  BlocksFrom({}) \/ (HandlerPush(n) /\ BlocksFrom({hBlock[n]}))
  <2>0. DOMAIN hpc = Nodes /\ DOMAIN hBlock = Nodes
    BY DEF IInv, TypeOK, DomainsOK
  <2>1. CASE HandlerProcess(n)
    BY <2>0, <2>1 DEF HandlerProcess, BlocksFrom
  <2>2. CASE HandlerPush(n)
    <3>1. \A m \in Nodes : hpc'[m] # "idle" => hpc[m] # "idle" /\ hBlock'[m] = hBlock[m]
      BY <2>0, <2>2 DEF HandlerPush
    <3>2. CASE BroadcastMessage(n, BlockMessage(hBlock[n]),
                 StillSeen(n, hBlock[n].height), StillPending(n, hBlock[n].height))
      <4>1. \A m \in net' : m \in net \/ m.body = BlockMessage(hBlock[n])
        BY <3>2, BroadcastBody DEF StillPending
      <4>2. \A m \in net' : m.body.kind = "block" => m \in net \/ m.body.block = hBlock[n]
        BY <4>1 DEF BlockMessage
      <4>. QED BY <2>2, <3>1, <4>2 DEF BlocksFrom
    <3>3. CASE UNCHANGED netVars
      BY <3>1, <3>3 DEF BlocksFrom
    <3>. QED BY <2>2, <3>2, <3>3 DEF HandlerPush
  <2>3. CASE HandlerThrows(n)
    <3>1. \A m \in Nodes : hpc'[m] # "idle" => hpc[m] # "idle" /\ hBlock'[m] = hBlock[m]
      BY <2>0, <2>3 DEF HandlerThrows
    <3>. QED BY <2>3, <3>1 DEF HandlerThrows, BlocksFrom
  <2>. QED BY <1>5, <2>1, <2>2, <2>3 DEF HandlerStep
<1>6. ASSUME NEW n \in Nodes, StopBegin(n) \/ StopStep(n) PROVE BlocksFrom({})
  BY <1>1, <1>6 DEF StopBegin, StopStep, StopTheWorker, JoinWorker, JoinSyncer
<1>7. ASSUME NEW n \in Nodes, NEW m \in Nodes, WorkerRequest(n, m) PROVE BlocksFrom({})
  BY <1>1, <1>7 DEF WorkerRequest
<1>8. ASSUME NEW m \in net, Deliver(m) \/ LoseMessage(m) PROVE BlocksFrom({})
  <2>1. CASE LoseMessage(m)
    BY <1>1, <2>1 DEF LoseMessage
  <2>2. CASE HandleTxValidatorBroadcast(m)
    <3>1. \A x \in net' : x \in net \/ x.body = m.body
      <4>1. CASE BroadcastMessage(m.to, m.body, broadcasted, net \ {m})
        BY <4>1, BroadcastBody
      <4>2. CASE net' = net \ {m}
        BY <4>2
      <4>. QED BY <2>2, <4>1, <4>2 DEF HandleTxValidatorBroadcast
    <3>. QED BY <1>1, <2>2, <3>1 DEF HandleTxValidatorBroadcast
  <2>3. CASE HandleBlockBroadcast(m)
    <3>0. DOMAIN hpc = Nodes /\ DOMAIN hBlock = Nodes
      BY DEF IInv, TypeOK, DomainsOK
    <3>1. m.body.kind = "block" /\ net' = net \ {m}
      BY <2>3 DEF HandleBlockBroadcast
    <3>2. \A k \in Nodes : hpc'[k] # "idle" =>
            (hpc[k] # "idle" /\ hBlock'[k] = hBlock[k]) \/ hBlock'[k] = m.body.block
      BY <2>3, <3>0 DEF HandleBlockBroadcast
    <3>. QED BY <1>8, <3>1, <3>2 DEF BlocksFrom
  <2>. QED BY <1>8, <2>1, <2>2, <2>3 DEF Deliver
<1>. QED BY <1>2, <1>3, <1>4, <1>5, <1>6, <1>7, <1>8 DEF Next

LEMMA NextUnseen ==
  ASSUME IInv, IInv', [Next]_vars, \A k \in Nodes : UnseenAt(k), NEW n \in Nodes
  PROVE  UnseenAt(n)'
<1>. SUFFICES ASSUME spc'[n] = "confirm"
              PROVE  /\ Latest(n)' = sBlock'[n]
                     /\ \A m \in Nodes \ {n} : height'[m] < height'[n]
                     /\ \A m \in net' : m.body.kind = "block" =>
                                          m.body.block.height < height'[n]
                     /\ \A m \in Nodes : hpc'[m] # "idle" => hBlock'[m].height < height'[n]
  BY DEF UnseenAt
<1>0. \A m \in Nodes : height[m] \in Nat
  BY DEF IInv, TypeOK
<1>1. CASE SyncerStep(n)
  <2>1. SyncerPush(n)
    BY <1>1, SyncerArrives
  <2>2. PushedBy(n, sBlock[n]) /\ ListAfter(Latest(n))[0] = n
    BY <2>1, SyncerPushes
  <2>3. sBlock[n].height = height[n] + 1 /\ TypeOK
    BY <2>2 DEF PushedBy, Extends, IInv
  <2>4. /\ \A m \in Nodes : height'[m] = IF m = n THEN height[n] + 1 ELSE height[m]
        /\ chain'[n][height[n] + 1] = sBlock[n]
    BY <2>2, <2>3, PushKeeps DEF PushedBy
  <2>5. \A m \in Nodes : height[m] <= height[n]
    BY <2>2, ElectedIsLongest
  <2>6. \A b : CreatorHas(b) => b.height < height'[n]
    <3>1. ASSUME NEW b, CreatorHas(b) PROVE b.height < height'[n]
      <4>1. b.creator \in Nodes /\ b.height \in Nat /\ b.height <= height[b.creator]
        BY <3>1 DEF CreatorHas, IsBlock
      <4>. QED BY <1>0, <2>4, <2>5, <4>1
    <3>. QED BY <3>1
  <2>7. sBlock' = sBlock /\ UNCHANGED handlerVars /\ \A m \in net' : m \in net
    BY <2>1 DEF SyncerPush, StillPending, netVars
  <2>8. Latest(n)' = sBlock'[n]
    BY <2>4, <2>7 DEF Latest
  <2>9. \A m \in Nodes \ {n} : height'[m] < height'[n]
    BY <1>0, <2>4, <2>5
  <2>10. \A m \in net' : m.body.kind = "block" => m.body.block.height < height'[n]
    BY <2>6, <2>7 DEF IInv, MessagesOK
  <2>11. \A m \in Nodes : hpc'[m] # "idle" => hBlock'[m].height < height'[n]
    BY <2>6, <2>7 DEF IInv, HandlerOK, handlerVars
  <2>. QED BY <2>8, <2>9, <2>10, <2>11
<1>2. CASE spc'[n] = spc[n] /\ sBlock'[n] = sBlock[n] /\ ~SyncerStep(n)
  <2>1. /\ Latest(n) = sBlock[n]
        /\ \A m \in Nodes \ {n} : height[m] < height[n]
        /\ \A m \in net : m.body.kind = "block" => m.body.block.height < height[n]
        /\ \A m \in Nodes : hpc[m] # "idle" => hBlock[m].height < height[n]
    BY <1>2 DEF UnseenAt
  <2>2. hpc[n] = "idle"
    <3>. SUFFICES ASSUME hpc[n] # "idle" PROVE FALSE
      OBVIOUS
    <3>1. hBlock[n].height = height[n] + 1
      BY DEF IInv, HandlerOK, Extends
    <3>. QED BY <1>0, <2>1, <3>1
  <2>3. lock[n] = "free"
    BY <1>2, <2>2 DEF IInv, LockOK, TypeOK
  <2>4. height'[n] = height[n] /\ chain'[n] = chain[n]
    BY <2>3, StoreOf
  <2>5. ASSUME NEW k \in Nodes, SyncerPush(k) PROVE FALSE
    <3>1. k # n
      BY <1>2, <2>5 DEF SyncerStep
    <3>2. height[n] <= height[k]
      BY <2>5, SyncerPushes, ElectedIsLongest
    <3>. QED BY <1>0, <2>1, <3>1, <3>2
  <2>6. ASSUME NEW k \in Nodes, SyncerBroadcast(k) PROVE FALSE
    <3>1. k # n
      BY <1>2, <2>6 DEF SyncerStep
    <3>2. height[n] < height[k]
      BY <2>6, <3>1 DEF SyncerBroadcast, UnseenAt
    <3>. QED BY <1>0, <2>1, <3>1, <3>2
  <2>7. ASSUME NEW k \in Nodes, HandlerPush(k)
        PROVE  /\ hBlock[k].height < height[n]
               /\ \A m \in Nodes : height'[m] = IF m = k THEN hBlock[k].height ELSE height[m]
    <3>1. PushedBy(k, hBlock[k]) /\ hpc[k] # "idle"
      BY <2>7, HandlerPushes DEF HandlerPush
    <3>2. hBlock[k].height = height[k] + 1 /\ TypeOK
      BY <3>1 DEF PushedBy, Extends, IInv
    <3>3. \A m \in Nodes : height'[m] = IF m = k THEN height[k] + 1 ELSE height[m]
      BY <3>1, <3>2, PushKeeps DEF PushedBy
    <3>. QED BY <2>1, <3>1, <3>2, <3>3
  <2>8. \A m \in Nodes \ {n} : height'[m] < height'[n]
    <3>1. CASE UNCHANGED <<height, chain>>
      BY <2>1, <3>1
    <3>2. ASSUME NEW k \in Nodes, HandlerPush(k) PROVE \A m \in Nodes \ {n} : height'[m] < height'[n]
      BY <2>1, <2>4, <2>7, <3>2
    <3>. QED BY <2>5, <3>1, <3>2, StoreSteps
  <2>9. ASSUME NEW B, BlocksFrom(B), \A b \in B : b.height < height[n]
        PROVE  /\ \A m \in net' : m.body.kind = "block" => m.body.block.height < height[n]
               /\ \A m \in Nodes : hpc'[m] # "idle" => hBlock'[m].height < height[n]
    BY <2>1, <2>9 DEF BlocksFrom
  <2>10. /\ \A m \in net' : m.body.kind = "block" => m.body.block.height < height[n]
         /\ \A m \in Nodes : hpc'[m] # "idle" => hBlock'[m].height < height[n]
    <3>1. CASE BlocksFrom({})
      BY <2>9, <3>1
    <3>2. ASSUME NEW k \in Nodes, HandlerPush(k), BlocksFrom({hBlock[k]})
          PROVE  /\ \A m \in net' : m.body.kind = "block" => m.body.block.height < height[n]
                 /\ \A m \in Nodes : hpc'[m] # "idle" => hBlock'[m].height < height[n]
      <4>1. \A b \in {hBlock[k]} : b.height < height[n]
        BY <2>7, <3>2
      <4>. QED BY <2>9, <3>2, <4>1
    <3>. QED BY <2>6, <3>1, <3>2, BlockSources
  <2>. QED BY <1>2, <2>1, <2>4, <2>8, <2>10 DEF Latest
<1>. QED BY <1>1, <1>2, SyncerOf

LEMMA InitRounds == Init => RoundInv
<1>. SUFFICES ASSUME Init PROVE RoundInv
  OBVIOUS
<1>1. \A tx : ~Known(tx)
  BY DEF Init, Known
<1>2. RoundsOK
  BY <1>1 DEF Init, RoundsOK
<1>3. \A n \in Nodes : SnapshotAt(n) /\ UnseenAt(n)
  BY DEF Init, SnapshotAt, UnseenAt
<1>. QED BY <1>2, <1>3 DEF RoundInv

\* For any network: a worker signs one value per height, what the syncer has copied is
\* of the round it builds the block for, and nobody has a block before its creator has
\* broadcast it.
THEOREM RoundInvariance == Spec => []RoundInv
<1>1. IInv /\ IInv' /\ RoundInv /\ [Next]_vars => RoundInv'
  <2>. SUFFICES ASSUME IInv, IInv', RoundInv, [Next]_vars PROVE RoundInv'
    OBVIOUS
  <2>1. RoundsOK'
    BY NextRounds DEF RoundInv
  <2>2. \A n \in Nodes : SnapshotAt(n)' /\ UnseenAt(n)'
    BY NextSnapshot, NextUnseen DEF RoundInv
  <2>. QED BY <2>1, <2>2 DEF RoundInv
<1>. QED BY <1>1, InitRounds, Invariance, PTL DEF Spec

-----------------------------------------------------------------------------
(* The syncer does not throw *)

\* The block that the ordering loops have found the transactions of is valid but for its
\* timestamp.
LEMMA BuildsValid ==
  ASSUME IInv, RoundInv, NEW n \in Nodes, SyncerOrderSeed(n), spc'[n] = "sign"
  PROVE  ValidateNextBlock(n, [sBlock'[n] EXCEPT !.finalized = TRUE])
<1>0. /\ DOMAIN spc = Nodes /\ DOMAIN sBlock = Nodes /\ spc[n] = "orderSeed"
      /\ sMempool[n] \subseteq TxValidators /\ MinValidators \in Nat \ {0}
  BY MinAssumption DEF IInv, TypeOK, DomainsOK, SyncerOrderSeed
<1>1. PICK txs \in [1..(2 * MinValidators) -> sMempool[n]] :
        /\ \A i \in 1..MinValidators :
             /\ txs[i] \in Candidates(n, i, "hash")
             /\ txs[MinValidators + i] \in Candidates(n, i, "seed")
        /\ sBlock' = [sBlock EXCEPT ![n] =
             [height |-> height[n] + 1, prev |-> Latest(n),
              creator |-> n, txs |-> txs, finalized |-> FALSE]]
  BY <1>0 DEF SyncerOrderSeed
<1>. DEFINE b == [sBlock'[n] EXCEPT !.finalized = TRUE]
<1>2. /\ b.height = height[n] + 1 /\ b.prev = Latest(n) /\ b.creator = n
      /\ b.txs = txs /\ b.finalized = TRUE
  <2>1. sBlock'[n] = [height |-> height[n] + 1, prev |-> Latest(n), creator |-> n,
                      txs |-> txs, finalized |-> FALSE]
    BY <1>0, <1>1
  <2>. QED BY <2>1
<1>. HIDE DEF b
<1>3. 1 \in 1..(2 * MinValidators) /\ sMempool[n] # {}
  <2>1. 1 \in 1..(2 * MinValidators)
    BY <1>0
  <2>. QED BY <1>1, <2>1
<1>4. /\ sList[n] = randomList[n] /\ randomList[n][0] = n
      /\ \A tx \in sMempool[n] : tx.height = height[n] + 1
  BY <1>0, <1>3 DEF RoundInv, SnapshotAt, IInv, SyncerOK, SyncerAt, Creating
<1>5. ASSUME NEW i \in 1..MinValidators
      PROVE  /\ txs[i].from = randomList[n][i] /\ txs[MinValidators + i].from = randomList[n][i]
             /\ txs[i].fn = "hash" /\ txs[MinValidators + i].fn = "seed"
             /\ txs[MinValidators + i].value = txs[i].value
  <2>1. txs[i] \in Candidates(n, i, "hash") /\ txs[MinValidators + i] \in Candidates(n, i, "seed")
    BY <1>1
  <2>2. /\ txs[i].from = randomList[n][i] /\ txs[MinValidators + i].from = randomList[n][i]
        /\ txs[i].fn = "hash" /\ txs[MinValidators + i].fn = "seed"
        /\ txs[i] \in sMempool[n] /\ txs[MinValidators + i] \in sMempool[n]
    BY <1>4, <2>1 DEF Candidates
  <2>3. Known(txs[i]) /\ Known(txs[MinValidators + i])
    BY <2>2 DEF Known
  <2>4. txs[i].height = txs[MinValidators + i].height
    BY <1>4, <2>2
  <2>5. txs[i] \in TxValidators /\ txs[MinValidators + i] \in TxValidators
    BY <1>0, <2>2
  <2>6. txs[MinValidators + i].value = txs[i].value
    BY <2>2, <2>3, <2>4, <2>5 DEF RoundInv, RoundsOK
  <2>. QED BY <2>2, <2>6
<1>6. \A i \in 1..(2 * MinValidators) : txs[i].height = height[n] + 1
  BY <1>1, <1>4
<1>7. DOMAIN txs = 1..(2 * MinValidators)
  BY <1>1
<1>8. ValidateNextBlock(n, b)
  BY <1>2, <1>4, <1>5, <1>6, <1>7 DEF ValidateNextBlock, ValidateBlock
<1>. QED BY <1>8 DEF b

LEMMA NextBuilt ==
  ASSUME ClockOutcomes = {TRUE}, Throwing = {}, IInv, IInv', RoundInv, BuiltInv, [Next]_vars,
         NEW n \in Nodes
  PROVE  BuiltAt(n)' /\ spc'[n] # "dead"
<1>0. /\ BuiltAt(n) /\ spc[n] # "dead" /\ SyncerAt(n) /\ SyncerAt(n)' /\ UnseenAt(n)
      /\ DOMAIN sBlock = Nodes
  BY DEF BuiltInv, IInv, SyncerOK, RoundInv, DomainsOK
<1>1. ASSUME height'[n] = height[n], chain'[n] = chain[n], randomList'[n] = randomList[n]
      PROVE  \A b : ValidateNextBlock(n, b)' <=> ValidateNextBlock(n, b)
  BY <1>1 DEF ValidateNextBlock, ValidateBlock, Latest
<1>2. CASE spc'[n] = spc[n] /\ sBlock'[n] = sBlock[n]
  <2>1. CASE spc[n] \in {"sign", "validate"}
    <3>1. lock[n] = "free" /\ lock'[n] = "free"
      BY <1>0, <1>2, <2>1 DEF SyncerAt
    <3>2. height'[n] = height[n] /\ chain'[n] = chain[n] /\ randomList'[n] = randomList[n]
      BY <3>1, StoreOf
    <3>. QED BY <1>0, <1>2, <3>2 DEF BuiltAt, ValidateNextBlock, ValidateBlock, Latest
  <2>2. CASE spc[n] \notin {"sign", "validate"}
    BY <1>0, <1>2, <2>2 DEF BuiltAt
  <2>. QED BY <2>1, <2>2
<1>3. CASE SyncerStep(n)
  <2>1. spc'[n] # "dead"
    <3>. SUFFICES ASSUME spc'[n] = "dead" PROVE FALSE
      OBVIOUS
    <3>1. CASE spc[n] = "validate" /\ ~ValidateNextBlock(n, sBlock[n])
      BY <1>0, <3>1 DEF BuiltAt
    <3>2. CASE spc[n] = "push" /\ ~Extends(n, sBlock[n])
      BY <1>0, <3>2 DEF SyncerAt
    <3>3. CASE spc[n] = "confirm" /\ Latest(n) # sBlock[n]
      BY <1>0, <3>3 DEF UnseenAt
    <3>. QED BY <1>3, <3>1, <3>2, <3>3, SyncerArrives
  <2>2. CASE spc'[n] = "sign"
    <3>1. SyncerOrderSeed(n) /\ UNCHANGED <<height, chain, randomList>>
      BY <1>3, <2>2, SyncerArrives DEF SyncerOrderSeed, storeVars
    <3>2. ValidateNextBlock(n, [sBlock'[n] EXCEPT !.finalized = TRUE])
      BY <2>2, <3>1, BuildsValid
    <3>. QED BY <2>1, <2>2, <3>1, <3>2 DEF BuiltAt, ValidateNextBlock, ValidateBlock, Latest
  <2>3. CASE spc'[n] = "validate"
    <3>1. SyncerSign(n) /\ spc[n] = "sign" /\ UNCHANGED <<height, chain, randomList>>
      BY <1>3, <2>3, SyncerArrives DEF SyncerSign, storeVars
    <3>2. sBlock'[n] = [sBlock[n] EXCEPT !.finalized = TRUE]
      BY <1>0, <3>1 DEF SyncerSign
    <3>3. ValidateNextBlock(n, sBlock'[n])
      BY <1>0, <3>1, <3>2 DEF BuiltAt
    <3>. QED BY <2>1, <2>3, <3>1, <3>3 DEF BuiltAt, ValidateNextBlock, ValidateBlock, Latest
  <2>4. CASE spc'[n] \notin {"sign", "validate"}
    BY <2>1, <2>4 DEF BuiltAt
  <2>. QED BY <2>2, <2>3, <2>4
<1>. QED BY <1>2, <1>3, SyncerOf

\* doValidatorBlock never throws, in any network and whatever is lost, late or
\* stopped, as long as no clock is behind the timestamp of the parent block and no user
\* transaction throws out of processNextBlock: the hashes and seeds that the creator has
\* copied match and are of one round, no block can be applied between the copy and the
\* validation, and none on top of the new block before it is broadcast.
THEOREM SyncerNeverThrows ==
  ASSUME ClockOutcomes = {TRUE}, Throwing = {}
  PROVE  Spec => []SyncerSurvives
<1>1. Init => BuiltInv
  BY DEF Init, BuiltInv, BuiltAt
<1>2. IInv /\ IInv' /\ RoundInv /\ BuiltInv /\ [Next]_vars => BuiltInv'
  BY NextBuilt DEF BuiltInv
<1>3. BuiltInv => SyncerSurvives
  BY DEF BuiltInv, SyncerSurvives
<1>. QED BY <1>1, <1>2, <1>3, Invariance, RoundInvariance, PTL DEF Spec

-----------------------------------------------------------------------------
(* Commit before reveal *)

\* What a node has broadcast is remembered until its height is over.
LEMMA BroadcastedOf ==
  ASSUME IInv, [Next]_vars, DOMAIN broadcasted = Nodes
  PROVE  /\ DOMAIN broadcasted' = Nodes
         /\ \A p \in Nodes : \A body \in broadcasted[p] :
              body \in broadcasted'[p] \/ Outdated(height'[p], body)
<1>. DEFINE Kept == /\ DOMAIN broadcasted' = Nodes
                    /\ \A p \in Nodes : \A body \in broadcasted[p] :
                         body \in broadcasted'[p] \/ Outdated(height'[p], body)
<1>. USE DEF netVars
<1>1. CASE UNCHANGED broadcasted
  BY <1>1
<1>2. ASSUME NEW n \in Nodes, NEW body, NEW pending,
             BroadcastMessage(n, body, broadcasted, pending)
      PROVE  Kept
  BY <1>2 DEF BroadcastMessage
<1>3. ASSUME NEW n \in Nodes, NEW b, PushedBy(n, b)
      PROVE  /\ height'[n] = b.height
             /\ DOMAIN StillSeen(n, b.height) = Nodes
             /\ \A p \in Nodes : \A body \in broadcasted[p] :
                  body \in StillSeen(n, b.height)[p] \/ Outdated(height'[p], body)
  BY <1>3 DEF PushedBy, StillSeen, IInv, TypeOK
<1>4. ASSUME NEW n \in Nodes, SyncerPush(n) PROVE Kept
  <2>1. PushedBy(n, sBlock[n])
    BY <1>4, SyncerPushes
  <2>2. broadcasted' = StillSeen(n, sBlock[n].height)
    BY <1>4, <2>1 DEF SyncerPush, PushedBy
  <2>. QED BY <1>3, <2>1, <2>2
<1>5. ASSUME NEW n \in Nodes, HandlerPush(n) PROVE Kept
  <2>1. PushedBy(n, hBlock[n])
    BY <1>5, HandlerPushes
  <2>. DEFINE seen == StillSeen(n, hBlock[n].height)
              pending == StillPending(n, hBlock[n].height)
  <2>2. BroadcastMessage(n, BlockMessage(hBlock[n]), seen, pending)
    BY <1>5, <2>1 DEF HandlerPush, PushedBy
  <2>3. /\ DOMAIN seen = Nodes
        /\ \A p \in Nodes : \A body \in broadcasted[p] :
             body \in seen[p] \/ Outdated(height'[p], body)
    BY <1>3, <2>1
  <2>. HIDE DEF seen, pending
  <2>4. DOMAIN broadcasted' = Nodes /\ \A p \in Nodes : \A body \in seen[p] : body \in broadcasted'[p]
    BY <2>2, <2>3 DEF BroadcastMessage
  <2>. QED BY <2>3, <2>4
<1>6. ASSUME NEW n \in Nodes, WorkerStep(n) PROVE Kept
  <2>1. CASE CommitHash(n) \/ RevealSeed(n)
    BY <1>2, <2>1 DEF CommitHash, RevealSeed
  <2>2. CASE \/ WorkerBegin(n) \/ WorkerCheck(n) \/ WorkerExit(n) \/ WorkerScan(n)
             \/ WorkerNextBlock(n) \/ WorkerAddAnswered(n)
    BY <1>1, <2>2 DEF WorkerBegin, WorkerCheck, WorkerExit, WorkerScan, WorkerNextBlock,
                      WorkerAddAnswered
  <2>3. CASE \/ CreationRead(n) \/ CreationReady(n) \/ CreationStop(n)
             \/ HashesSeen(n) \/ HashesStop(n)
    BY <1>1, <2>3 DEF CreationRead, CreationReady, CreationStop, HashesSeen, HashesStop
  <2>. QED BY <1>6, <2>1, <2>2, <2>3 DEF WorkerStep
<1>7. ASSUME NEW n \in Nodes, SyncerStep(n) PROVE Kept
  <2>1. ASSUME NEW from, NEW to, SyncerGoto(n, from, to) PROVE Kept
    BY <1>1, <2>1 DEF SyncerGoto
  <2>2. CASE SyncerSynced(n) \/ SyncerIdleStop(n) \/ SyncerReady(n) \/ SyncerHaveTx(n)
             \/ SyncerOrderHash(n) \/ SyncerValidate(n) \/ SyncerThrows(n)
    BY <2>1, <2>2 DEF SyncerSynced, SyncerIdleStop, SyncerReady, SyncerHaveTx,
                      SyncerOrderHash, SyncerValidate, SyncerThrows
  <2>3. CASE SyncerLoop(n)
    BY <1>1, <2>1, <2>3 DEF SyncerLoop
  <2>4. CASE \/ SyncerStartWorker(n) \/ SyncerGetMempool(n) \/ SyncerGetList(n)
             \/ SyncerOrderSeed(n) \/ SyncerSign(n) \/ SyncerProcess(n)
    BY <1>1, <2>4 DEF SyncerStartWorker, SyncerGetMempool, SyncerGetList, SyncerOrderSeed,
                      SyncerSign, SyncerProcess
  <2>5. CASE SyncerBroadcast(n)
    BY <1>1, <1>2, <2>5 DEF SyncerBroadcast
  <2>. QED BY <1>4, <1>7, <2>2, <2>3, <2>4, <2>5 DEF SyncerStep
<1>8. ASSUME NEW n \in Nodes, HandlerStep(n) PROVE Kept
  BY <1>1, <1>5, <1>8 DEF HandlerStep, HandlerProcess, HandlerThrows
<1>9. ASSUME NEW n \in Nodes, StopBegin(n) \/ StopStep(n) PROVE Kept
  BY <1>1, <1>9 DEF StopBegin, StopStep, StopTheWorker, JoinWorker, JoinSyncer
<1>10. ASSUME NEW n \in Nodes, NEW m \in Nodes, WorkerRequest(n, m) PROVE Kept
  BY <1>1, <1>10 DEF WorkerRequest
<1>11. ASSUME NEW m \in net, Deliver(m) \/ LoseMessage(m) PROVE Kept
  <2>1. m.to \in Nodes
    BY DEF IInv, MessagesOK
  <2>2. CASE HandleTxValidatorBroadcast(m)
    BY <1>1, <1>2, <2>1, <2>2 DEF HandleTxValidatorBroadcast
  <2>3. CASE HandleBlockBroadcast(m) \/ LoseMessage(m)
    BY <1>1, <2>3 DEF HandleBlockBroadcast, LoseMessage
  <2>. QED BY <1>11, <2>2, <2>3 DEF Deliver
<1>12. CASE UNCHANGED vars
  BY <1>1, <1>12 DEF vars
<1>. QED BY <1>6, <1>7, <1>8, <1>9, <1>10, <1>11, <1>12 DEF Next

\* A commitment is for ever.
LEMMA CommittedStays ==
  ASSUME IInv, [Next]_vars, DOMAIN broadcasted = Nodes, NEW p \in Nodes, NEW h \in Nat,
         Committed(p, h)
  PROVE  Committed(p, h)'
<1>1. height[p] \in Nat /\ height'[p] \in Nat /\ height[p] <= height'[p]
  BY ChainsGrow
<1>2. CASE height[p] >= h
  BY <1>1, <1>2 DEF Committed
<1>3. ASSUME NEW body \in broadcasted[p], body.kind = "tx",
             body.tx.from = p /\ body.tx.fn = "hash" /\ body.tx.height = h
      PROVE  Committed(p, h)'
  <2>1. body \in broadcasted'[p] \/ Outdated(height'[p], body)
    BY <1>3, BroadcastedOf
  <2>. QED BY <1>1, <1>3, <2>1 DEF Committed, Outdated
<1>. QED BY <1>2, <1>3 DEF Committed

LEMMA ChainLists ==
  ASSUME IInv, NEW n \in Nodes, NEW k \in 0..height[n]
  PROVE  ListAfter(chain[n][k]) \in ValidatorLists
<1>0. height[n] \in Nat
  BY DEF IInv, TypeOK
<1>1. CASE k = 0
  <2>1. chain[n][k].txs = <<>>
    BY <1>1 DEF IInv, ChainLinked, Genesis
  <2>. QED BY <2>1, ListType DEF ListAfter
<1>2. CASE k \in 1..height[n]
  <2>1. chain[n][k].txs \in TxLists
    BY <1>2 DEF IInv, ChainLinked, CreatorHas, IsBlock
  <2>. QED BY <2>1, ListType DEF ListAfter
<1>. QED BY <1>0, <1>1, <1>2

LEMMA AllCommittedStays ==
  ASSUME IInv, [Next]_vars, DOMAIN broadcasted = Nodes, NEW n \in Nodes,
         NEW k \in 0..height[n], NEW h \in Nat, AllCommitted(chain[n][k], h)
  PROVE  AllCommitted(chain[n][k], h)'
<1>1. chain'[n][k] = chain[n][k]
  BY ChainsGrow
<1>2. \A p \in Participants(ListAfter(chain[n][k])) : p \in Nodes
  BY ChainLists, HeadType, NodesAssumption DEF Participants
<1>3. \A p \in Participants(ListAfter(chain[n][k])) : Committed(p, h)'
  BY <1>2, CommittedStays DEF AllCommitted
<1>. QED BY <1>1, <1>3 DEF AllCommitted

\* The chain of n moves by a push at n only.
LEMMA LatestStays ==
  ASSUME IInv, [Next]_vars, NEW n \in Nodes, ~SyncerPush(n), ~HandlerPush(n)
  PROVE  height'[n] = height[n] /\ Latest(n)' = Latest(n)
<1>1. CASE UNCHANGED <<height, chain>>
  BY <1>1 DEF Latest
<1>2. ASSUME NEW m \in Nodes, NEW b, PushedBy(m, b), m # n
      PROVE  height'[n] = height[n] /\ Latest(n)' = Latest(n)
  BY <1>2 DEF PushedBy, Latest, IInv, TypeOK
<1>3. ASSUME NEW m \in Nodes, SyncerPush(m)
      PROVE  height'[n] = height[n] /\ Latest(n)' = Latest(n)
  BY <1>2, <1>3, SyncerPushes
<1>4. ASSUME NEW m \in Nodes, HandlerPush(m)
      PROVE  height'[n] = height[n] /\ Latest(n)' = Latest(n)
  BY <1>2, <1>4, HandlerPushes
<1>. QED BY <1>1, <1>3, <1>4, StoreSteps

\* There are no more participants than MinValidators.
LEMMA FewParticipants ==
  ASSUME NEW list
  PROVE  IsFiniteSet(Participants(list)) /\ Cardinality(Participants(list)) <= MinValidators
<1>. DEFINE S == 1..MinValidators
            g == [i \in S |-> list[i]]
<1>1. IsFiniteSet(S) /\ Cardinality(S) = MinValidators
  BY MinAssumption, FS_Interval
<1>2. g \in Surjection(S, Participants(list))
  BY DEF Surjection, Participants
<1>. QED BY <1>1, <1>2, FS_Surjection

\* A mempool with MinValidators transactions holds a seed or the hashes of all
\* participants: "wait until we received all randomHash transactions".
LEMMA FullMempool ==
  ASSUME IInv, RoundInv, HashesCommitted, SeedsCommitted, NEW n \in Nodes,
         Cardinality(validatorMempool[n]) >= MinValidators
  PROVE  AllCommitted(Latest(n), height[n] + 1)
<1>. DEFINE S == validatorMempool[n]
            P == Participants(ListAfter(Latest(n)))
<1>0. height[n] \in Nat /\ S \subseteq TxValidators
  BY DEF IInv, TypeOK
<1>1. \A tx \in S : /\ Known(tx) /\ tx.height = height[n] + 1 /\ tx.from \in P
                    /\ \A t \in S : t.from = tx.from /\ t.fn = tx.fn => t = tx
  BY DEF Known, IInv, MempoolOfTheRound
<1>2. ASSUME NEW tx \in S, tx.fn = "seed"
      PROVE  AllCommitted(Latest(n), height[n] + 1)
  <2>1. /\ tx \in TxValidators /\ tx.from \in Nodes /\ Known(tx) /\ tx.height = height[n] + 1
    BY <1>0, <1>1, NodesAssumption DEF TxValidators
  <2>2. /\ wHeight[tx.from] \in Nat /\ height[tx.from] \in Nat
        /\ tx.height <= wHeight[tx.from] + 1 /\ wHeight[tx.from] <= height[tx.from]
    BY <2>1 DEF RoundInv, RoundsOK, AuthorAt, IInv, TypeOK
  <2>3. height[n] <= height[tx.from] /\ tx.height - 1 = height[n] /\ tx.height > 0
    BY <1>0, <2>1, <2>2
  <2>4. chain[tx.from][height[n]] = Latest(n)
    BY <1>0, <2>1, <2>2, <2>3 DEF IInv, Agreement, Latest
  <2>5. AllCommitted(chain[tx.from][tx.height - 1], tx.height)
    BY <1>2, <2>1, <2>3 DEF SeedsCommitted
  <2>. QED BY <2>1, <2>3, <2>4, <2>5
<1>3. ASSUME \A tx \in S : tx.fn # "seed"
      PROVE  AllCommitted(Latest(n), height[n] + 1)
  <2>1. \A tx \in S : tx.fn = "hash"
    BY <1>0, <1>3 DEF TxValidators, Functions
  <2>. DEFINE f == [tx \in S |-> tx.from]
  <2>2. f \in Injection(S, P)
    <3>1. f \in [S -> P]
      BY <1>1
    <3>2. \A x, y \in S : f[x] = f[y] => x = y
      BY <1>1, <2>1
    <3>. HIDE DEF f, S, P
    <3>. QED BY <3>1, <3>2 DEF Injection, IsInjective
  <2>3. IsFiniteSet(P) /\ Cardinality(P) <= MinValidators
    BY FewParticipants
  <2>. HIDE DEF f, P
  <2>4. /\ IsFiniteSet(S) /\ Cardinality(S) <= Cardinality(P)
        /\ Cardinality(S) = Cardinality(P) <=> f \in Surjection(S, P)
    BY <2>2, <2>3, FS_Injection
  <2>5. Cardinality(S) \in Nat /\ Cardinality(P) \in Nat
    BY <2>3, <2>4, FS_CardinalityType
  <2>6. Cardinality(S) = Cardinality(P)
    BY <2>3, <2>4, <2>5, MinAssumption
  <2>7. f \in Surjection(S, P)
    BY <2>4, <2>6
  <2>8. ASSUME NEW p \in P PROVE Committed(p, height[n] + 1)
    <3>1. PICK tx \in S : f[tx] = p
      BY <2>7 DEF Surjection
    <3>2. tx.from = p /\ tx.fn = "hash" /\ tx.height = height[n] + 1 /\ Known(tx)
      BY <1>1, <2>1, <3>1 DEF f
    <3>3. tx \in TxValidators
      BY <1>0
    <3>. QED BY <3>2, <3>3 DEF HashesCommitted
  <2>. QED BY <2>8 DEF AllCommitted, P
<1>. QED BY <1>2, <1>3

\* Nobody is ever shut down when nobody may be.
LEMMA NextRunning ==
  ASSUME Stoppable = {}, IInv, Running, [Next]_vars
  PROVE  Running'
<1>1. DOMAIN broadcasted' = Nodes
  BY BroadcastedOf DEF Running
<1>2. UNCHANGED <<phase, stopWorker>>
  <2>. USE DEF stopVars
  <2>1. CASE UNCHANGED vars
    BY <2>1 DEF vars
  <2>2. ASSUME NEW n \in Nodes, WorkerStep(n) PROVE UNCHANGED <<phase, stopWorker>>
    BY <2>2 DEF WorkerStep, WorkerBegin, WorkerCheck, WorkerExit, WorkerAddAnswered,
                CreationRead, CreationReady, CreationStop, CommitHash, HashesSeen,
                HashesStop, RevealSeed, WorkerScan, WorkerNextBlock
  <2>3. ASSUME NEW n \in Nodes, SyncerStep(n) PROVE UNCHANGED <<phase, stopWorker>>
    <3>1. ASSUME NEW from, NEW to, SyncerGoto(n, from, to) PROVE UNCHANGED <<phase, stopWorker>>
      BY <3>1 DEF SyncerGoto
    <3>2. CASE SyncerSynced(n) \/ SyncerIdleStop(n) \/ SyncerReady(n) \/ SyncerHaveTx(n)
               \/ SyncerOrderHash(n) \/ SyncerValidate(n) \/ SyncerThrows(n)
      BY <3>1, <3>2 DEF SyncerSynced, SyncerIdleStop, SyncerReady, SyncerHaveTx,
                        SyncerOrderHash, SyncerValidate, SyncerThrows
    <3>3. CASE SyncerLoop(n)
      BY <3>1, <3>3 DEF SyncerLoop
    <3>4. CASE \/ SyncerStartWorker(n) \/ SyncerGetMempool(n) \/ SyncerGetList(n)
               \/ SyncerOrderSeed(n) \/ SyncerSign(n)
      BY <3>4 DEF SyncerStartWorker, SyncerGetMempool, SyncerGetList, SyncerOrderSeed, SyncerSign
    <3>5. CASE SyncerProcess(n) \/ SyncerPush(n) \/ SyncerBroadcast(n)
      BY <3>5 DEF SyncerProcess, SyncerPush, SyncerBroadcast
    <3>. QED BY <2>3, <3>2, <3>3, <3>4, <3>5 DEF SyncerStep
  <2>4. ASSUME NEW n \in Nodes, HandlerStep(n) PROVE UNCHANGED <<phase, stopWorker>>
    BY <2>4 DEF HandlerStep, HandlerProcess, HandlerThrows, HandlerPush
  <2>5. ASSUME NEW n \in Nodes, StopBegin(n) \/ StopStep(n) PROVE FALSE
    BY <2>5 DEF StopBegin, StopStep, StopTheWorker, JoinWorker, JoinSyncer, Running
  <2>6. ASSUME NEW n \in Nodes, NEW m \in Nodes, WorkerRequest(n, m)
        PROVE  UNCHANGED <<phase, stopWorker>>
    BY <2>6 DEF WorkerRequest
  <2>7. ASSUME NEW m \in net, Deliver(m) \/ LoseMessage(m) PROVE UNCHANGED <<phase, stopWorker>>
    BY <2>7 DEF Deliver, LoseMessage, HandleTxValidatorBroadcast, HandleBlockBroadcast
  <2>. QED BY <2>1, <2>2, <2>3, <2>4, <2>5, <2>6, <2>7 DEF Next
<1>. QED BY <1>1, <1>2 DEF Running

\* The author of a known transaction has the block before its round.
LEMMA AuthorHas ==
  ASSUME IInv, RoundsOK, NEW tx \in TxValidators, Known(tx), tx.height > 0
  PROVE  tx.from \in Nodes /\ tx.height \in Nat /\ tx.height - 1 \in 0..height[tx.from]
<1>1. tx.from \in Nodes /\ tx.height \in Nat
  BY NodesAssumption DEF TxValidators
<1>2. /\ wHeight[tx.from] \in Nat /\ height[tx.from] \in Nat
      /\ tx.height <= wHeight[tx.from] + 1 /\ wHeight[tx.from] <= height[tx.from]
  BY <1>1 DEF RoundsOK, AuthorAt, IInv, TypeOK
<1>. QED BY <1>1, <1>2

LEMMA NextHashes ==
  ASSUME IInv, RoundsOK, CommitInv, [Next]_vars
  PROVE  HashesCommitted'
<1>. SUFFICES ASSUME NEW tx \in TxValidators, Known(tx)', tx.fn = "hash"
              PROVE  Committed(tx.from, tx.height)'
  BY DEF HashesCommitted
<1>0. tx.from \in Nodes /\ tx.height \in Nat /\ DOMAIN broadcasted = Nodes
  BY NodesAssumption DEF TxValidators, CommitInv, Running
<1>1. CASE Known(tx)
  BY <1>0, <1>1, CommittedStays DEF CommitInv, HashesCommitted
<1>2. ASSUME NEW n \in Nodes, Signs(n, tx) PROVE Committed(tx.from, tx.height)'
  <2>1. CommitHash(n) /\ tx = WorkerTx(n, "hash", wSeed'[n])
    BY <1>2 DEF Signs, WorkerTx
  <2>2. PICK s \in Seeds : /\ wSeed' = [wSeed EXCEPT ![n] = s]
                           /\ BroadcastMessage(n, TxMessage(WorkerTx(n, "hash", s)),
                                               broadcasted, net)
    BY <2>1 DEF CommitHash
  <2>3. wSeed'[n] = s
    BY <2>2 DEF IInv, TypeOK
  <2>4. BroadcastMessage(n, TxMessage(tx), broadcasted, net)
    BY <2>1, <2>2, <2>3
  <2>5. TxMessage(tx) \in broadcasted'[n]
    BY <1>0, <2>4 DEF BroadcastMessage, CommitInv, Running
  <2>6. tx.from = n
    BY <2>1 DEF WorkerTx
  <2>. QED BY <2>5, <2>6 DEF Committed, TxMessage
<1>. QED BY <1>1, <1>2, Sources

LEMMA NextSeeds ==
  ASSUME IInv, RoundsOK, CommitInv, [Next]_vars
  PROVE  SeedsCommitted'
<1>. SUFFICES ASSUME NEW tx \in TxValidators, Known(tx)', tx.fn = "seed", tx.height > 0
              PROVE  AllCommitted(chain[tx.from][tx.height - 1], tx.height)'
  BY DEF SeedsCommitted
<1>0. DOMAIN broadcasted = Nodes
  BY DEF CommitInv, Running
<1>1. CASE Known(tx)
  BY <1>0, <1>1, AuthorHas, AllCommittedStays DEF CommitInv, SeedsCommitted
<1>2. ASSUME NEW n \in Nodes, Signs(n, tx)
      PROVE  AllCommitted(chain[tx.from][tx.height - 1], tx.height)'
  <2>1. wpc[n] = "reveal" /\ tx = WorkerTx(n, "seed", wSeed[n])
    BY <1>2 DEF Signs, WorkerTx, RevealSeed
  <2>2. tx.from = n /\ tx.height = wHeight[n] + 1
    BY <2>1 DEF WorkerTx
  <2>3. wHeight[n] \in Nat /\ height[n] \in Nat /\ wHeight[n] <= height[n]
    BY DEF IInv, TypeOK, RoundsOK
  <2>4. tx.height - 1 = wHeight[n] /\ tx.height \in Nat /\ tx.height - 1 \in 0..height[n]
    BY <2>2, <2>3
  <2>5. AllCommitted(chain[n][tx.height - 1], tx.height)
    BY <2>1, <2>2, <2>4 DEF CommitInv, RevealCommitted
  <2>. QED BY <1>0, <2>2, <2>4, <2>5, AllCommittedStays
<1>. QED BY <1>1, <1>2, Sources

LEMMA NextChain ==
  ASSUME IInv, CommitInv, [Next]_vars
  PROVE  ChainCommitted'
<1>. SUFFICES ASSUME NEW n \in Nodes, NEW k \in 1..height'[n]
              PROVE  AllCommitted(chain[n][k - 1], k)'
  BY DEF ChainCommitted
<1>0. /\ DOMAIN broadcasted = Nodes /\ height[n] \in Nat /\ height'[n] \in Nat
      /\ k \in Nat /\ k - 1 \in Nat
  BY ChainsGrow DEF CommitInv, Running
<1>1. ASSUME k - 1 <= height[n], AllCommitted(chain[n][k - 1], k)
      PROVE  AllCommitted(chain[n][k - 1], k)'
  BY <1>0, <1>1, AllCommittedStays
<1>2. CASE k <= height[n]
  <2>1. k \in 1..height[n]
    BY <1>0, <1>2
  <2>. QED BY <1>0, <1>1, <1>2, <2>1 DEF CommitInv, ChainCommitted
<1>3. CASE SyncerPush(n)
  <2>1. spc[n] = "push" /\ PushedBy(n, sBlock[n])
    BY <1>3, SyncerPushes DEF SyncerPush
  <2>2. height'[n] = height[n] + 1
    BY <2>1 DEF PushedBy, Extends, IInv, TypeOK
  <2>3. AllCommitted(chain[n][height[n]], height[n] + 1)
    BY <2>1 DEF CommitInv, BuiltCommitted, Latest
  <2>4. k <= height[n] \/ k = height[n] + 1
    BY <1>0, <2>2
  <2>. QED BY <1>0, <1>1, <1>2, <2>3, <2>4
<1>4. CASE HandlerPush(n)
  <2>1. hpc[n] = "push" /\ PushedBy(n, hBlock[n])
    BY <1>4, HandlerPushes DEF HandlerPush
  <2>2. height'[n] = height[n] + 1 /\ hBlock[n].height = height[n] + 1
    BY <2>1 DEF PushedBy, Extends, IInv, TypeOK
  <2>. DEFINE c == hBlock[n].creator
  <2>3. c \in Nodes /\ height[n] + 1 <= height[c] /\ height[c] \in Nat
    BY <2>1, <2>2 DEF IInv, HandlerOK, CreatorHas, IsBlock, TypeOK
  <2>. HIDE DEF c
  <2>4. height[n] + 1 \in 1..height[c] /\ (height[n] + 1) - 1 = height[n]
    BY <1>0, <2>3
  <2>5. AllCommitted(chain[c][height[n]], height[n] + 1)
    <3>1. AllCommitted(chain[c][(height[n] + 1) - 1], height[n] + 1)
      BY <2>3, <2>4 DEF CommitInv, ChainCommitted
    <3>. QED BY <2>4, <3>1
  <2>6. chain[c][height[n]] = chain[n][height[n]]
    BY <1>0, <2>3 DEF IInv, Agreement
  <2>7. k <= height[n] \/ k = height[n] + 1
    BY <1>0, <2>2
  <2>. QED BY <1>0, <1>1, <1>2, <2>5, <2>6, <2>7
<1>5. CASE ~SyncerPush(n) /\ ~HandlerPush(n)
  BY <1>2, <1>5, LatestStays
<1>. QED BY <1>3, <1>4, <1>5

LEMMA NextReveal ==
  ASSUME IInv, RoundInv, CommitInv, [Next]_vars
  PROVE  RevealCommitted'
<1>. SUFFICES ASSUME NEW n \in Nodes, wpc'[n] = "reveal"
              PROVE  AllCommitted(chain[n][wHeight[n]], wHeight[n] + 1)'
  BY DEF RevealCommitted
<1>0. /\ DOMAIN broadcasted = Nodes /\ wHeight[n] \in Nat /\ height[n] \in Nat
      /\ wHeight[n] <= height[n] /\ DOMAIN wpc = Nodes /\ DOMAIN wHeight = Nodes
  BY DEF CommitInv, Running, IInv, TypeOK, RoundInv, RoundsOK
<1>1. ASSUME wHeight'[n] = wHeight[n], AllCommitted(chain[n][wHeight[n]], wHeight[n] + 1)
      PROVE  AllCommitted(chain[n][wHeight[n]], wHeight[n] + 1)'
  <2>1. PICK k : k = wHeight[n]
    OBVIOUS
  <2>2. k \in 0..height[n] /\ k + 1 \in Nat
    BY <1>0, <2>1
  <2>3. AllCommitted(chain[n][k], k + 1)'
    BY <1>0, <1>1, <2>1, <2>2, AllCommittedStays
  <2>. QED BY <1>1, <2>1, <2>3
<1>2. CASE wpc'[n] = wpc[n] /\ wHeight'[n] = wHeight[n]
  BY <1>1, <1>2 DEF CommitInv, RevealCommitted
<1>3. CASE SyncerStartWorker(n)
  BY <1>0, <1>3 DEF SyncerStartWorker
<1>4. CASE HashesSeen(n)
  <2>1. wHeight'[n] = wHeight[n] /\ Cardinality(validatorMempool[n]) >= MinValidators
    BY <1>4 DEF HashesSeen
  <2>2. CASE height[n] = wHeight[n]
    <3>1. AllCommitted(Latest(n), height[n] + 1)
      BY <2>1, FullMempool DEF CommitInv
    <3>. QED BY <1>1, <2>1, <2>2, <3>1 DEF Latest
  <2>3. CASE height[n] # wHeight[n]
    <3>1. wHeight[n] + 1 \in 1..height[n] /\ (wHeight[n] + 1) - 1 = wHeight[n]
      BY <1>0, <2>3
    <3>2. AllCommitted(chain[n][(wHeight[n] + 1) - 1], wHeight[n] + 1)
      BY <3>1 DEF CommitInv, ChainCommitted
    <3>. QED BY <1>1, <2>1, <3>1, <3>2
  <2>. QED BY <2>2, <2>3
<1>5. ASSUME WorkerStep(n), ~HashesSeen(n)
      PROVE  wpc'[n] = wpc[n] /\ wHeight'[n] = wHeight[n]
  <2>1. ~HashesStop(n)
    BY DEF HashesStop, CommitInv, Running
  <2>2. CASE WorkerAddAnswered(n)
    BY <2>2 DEF WorkerAddAnswered
  <2>3. CASE CommitHash(n) \/ RevealSeed(n) \/ WorkerScan(n)
    BY <1>0, <2>3 DEF CommitHash, RevealSeed, WorkerScan, AfterIndex
  <2>4. CASE \/ WorkerBegin(n) \/ WorkerCheck(n) \/ WorkerExit(n) \/ WorkerNextBlock(n)
    BY <1>0, <2>4 DEF WorkerBegin, WorkerCheck, WorkerExit, WorkerNextBlock
  <2>5. CASE CreationRead(n) \/ CreationReady(n) \/ CreationStop(n)
    BY <1>0, <2>5 DEF CreationRead, CreationReady, CreationStop
  <2>. QED BY <1>5, <2>1, <2>2, <2>3, <2>4, <2>5 DEF WorkerStep
<1>. QED BY <1>2, <1>3, <1>4, <1>5, WorkerOf

\* The ordering loops have found the hashes of all participants.
LEMMA BuildsCommitted ==
  ASSUME IInv, RoundInv, CommitInv, NEW n \in Nodes, SyncerOrderSeed(n), spc'[n] = "sign"
  PROVE  AllCommitted(Latest(n), height[n] + 1)
<1>0. /\ DOMAIN spc = Nodes /\ spc[n] = "orderSeed" /\ sMempool[n] \subseteq TxValidators
      /\ MinValidators \in Nat \ {0} /\ SyncerAt(n)
  BY MinAssumption DEF IInv, TypeOK, SyncerOK, SyncerOrderSeed
<1>1. PICK txs \in [1..(2 * MinValidators) -> sMempool[n]] :
        \A i \in 1..MinValidators : txs[i] \in Candidates(n, i, "hash")
  BY <1>0 DEF SyncerOrderSeed
<1>2. sMempool[n] # {}
  <2>1. 1 \in 1..(2 * MinValidators)
    BY <1>0
  <2>. QED BY <1>1, <2>1
<1>3. /\ sList[n] = randomList[n] /\ randomList[n] = ListAfter(Latest(n))
      /\ \A tx \in sMempool[n] : tx.height = height[n] + 1
  BY <1>0, <1>2 DEF RoundInv, SnapshotAt, IInv, SyncerAt, ListOK
<1>4. ASSUME NEW i \in 1..MinValidators
      PROVE  Committed(ListAfter(Latest(n))[i], height[n] + 1)
  <2>1. txs[i] \in Candidates(n, i, "hash")
    BY <1>1
  <2>2. /\ txs[i] \in sMempool[n] /\ txs[i].fn = "hash" /\ txs[i].from = ListAfter(Latest(n))[i]
        /\ txs[i].height = height[n] + 1
    BY <1>3, <2>1 DEF Candidates
  <2>3. Known(txs[i]) /\ txs[i] \in TxValidators
    BY <1>0, <2>2 DEF Known
  <2>. QED BY <2>2, <2>3 DEF CommitInv, HashesCommitted
<1>. QED BY <1>4 DEF AllCommitted, Participants

LEMMA NextBuiltCommitted ==
  ASSUME IInv, RoundInv, CommitInv, [Next]_vars
  PROVE  BuiltCommitted'
<1>. DEFINE Pcs == {"sign", "validate", "process", "push"}
<1>. SUFFICES ASSUME NEW n \in Nodes, spc'[n] \in Pcs
              PROVE  AllCommitted(Latest(n), height[n] + 1)'
  BY DEF BuiltCommitted
<1>0. DOMAIN broadcasted = Nodes /\ height[n] \in Nat /\ SyncerAt(n) /\ DOMAIN spc = Nodes
  BY DEF CommitInv, Running, IInv, TypeOK, SyncerOK
<1>1. ASSUME AllCommitted(Latest(n), height[n] + 1), ~SyncerPush(n), ~HandlerPush(n)
      PROVE  AllCommitted(Latest(n), height[n] + 1)'
  <2>1. PICK k : k = height[n]
    OBVIOUS
  <2>2. k \in 0..height[n] /\ k + 1 \in Nat
    BY <1>0, <2>1
  <2>3. AllCommitted(chain[n][k], k + 1)'
    BY <1>0, <1>1, <2>1, <2>2, AllCommittedStays DEF Latest
  <2>4. height'[n] = k
    BY <1>1, <2>1, LatestStays
  <2>. QED BY <2>3, <2>4 DEF Latest
<1>2. ~SyncerPush(n)
  BY <1>0 DEF SyncerPush
<1>3. ASSUME spc[n] \in Pcs PROVE ~HandlerPush(n)
  <2>. SUFFICES ASSUME HandlerPush(n) PROVE FALSE
    OBVIOUS
  <2>1. hpc[n] = "push" /\ lock[n] = "handler"
    BY DEF HandlerPush, IInv, LockOK
  <2>2. spc[n] \notin {"process", "push"}
    BY <2>1, HandlerNotCreator
  <2>. QED BY <1>0, <1>3, <2>1, <2>2 DEF SyncerAt
<1>4. CASE spc[n] \in Pcs
  BY <1>1, <1>2, <1>3, <1>4 DEF CommitInv, BuiltCommitted
<1>5. CASE SyncerStep(n) /\ spc[n] \notin Pcs
  <2>1. SyncerOrderSeed(n) /\ spc'[n] = "sign"
    BY <1>5, SyncerArrives DEF SyncerSign, SyncerGoto, SyncerProcess
  <2>2. AllCommitted(Latest(n), height[n] + 1)
    BY <2>1, BuildsCommitted
  <2>3. UNCHANGED <<height, chain>>
    BY <2>1 DEF SyncerOrderSeed, storeVars
  <2>4. ~HandlerPush(n)
    BY <2>1, <1>0 DEF HandlerPush, SyncerOrderSeed, syncerVars
  <2>. QED BY <1>1, <1>2, <2>2, <2>4
<1>. QED BY <1>4, <1>5, SyncerOf

\* rdPoS commits before it reveals, in any network whose nodes are not being shut
\* down: no node has a seed of a round in its mempool before every participant
\* of the round has broadcast the hash of its own.  It is enough that a worker waits for
\* MinValidators transactions of any kind.
THEOREM CommittedFirst ==
  ASSUME Stoppable = {}
  PROVE  Spec => []CommitBeforeReveal
<1>1. Init => CommitInv
  <2>. SUFFICES ASSUME Init PROVE CommitInv
    OBVIOUS
  <2>1. \A tx : ~Known(tx)
    BY DEF Init, Known
  <2>2. Running /\ HashesCommitted /\ SeedsCommitted
    BY <2>1 DEF Init, Running, HashesCommitted, SeedsCommitted
  <2>3. ChainCommitted /\ RevealCommitted /\ BuiltCommitted
    BY DEF Init, ChainCommitted, RevealCommitted, BuiltCommitted
  <2>. QED BY <2>2, <2>3 DEF CommitInv
<1>2. IInv /\ RoundInv /\ CommitInv /\ [Next]_vars => CommitInv'
  <2>. SUFFICES ASSUME IInv, RoundInv, CommitInv, [Next]_vars PROVE CommitInv'
    OBVIOUS
  <2>1. RoundsOK /\ Running
    BY DEF RoundInv, CommitInv
  <2>2. Running' /\ HashesCommitted' /\ SeedsCommitted'
    BY <2>1, NextRunning, NextHashes, NextSeeds
  <2>3. ChainCommitted' /\ RevealCommitted' /\ BuiltCommitted'
    BY NextChain, NextReveal, NextBuiltCommitted
  <2>. QED BY <2>2, <2>3 DEF CommitInv
<1>3. IInv /\ RoundInv /\ CommitInv => CommitBeforeReveal
  <2>. SUFFICES ASSUME IInv, RoundInv, CommitInv, NEW n \in Nodes,
                       NEW tx \in validatorMempool[n], tx.fn = "seed",
                       NEW p \in Participants(randomList[n])
                PROVE  Committed(p, tx.height)
    BY DEF CommitBeforeReveal
  <2>1. /\ tx \in TxValidators /\ Known(tx) /\ height[n] \in Nat
        /\ tx.height = height[n] + 1 /\ randomList[n] = ListAfter(Latest(n))
    BY DEF IInv, TypeOK, MempoolOfTheRound, ListOK, Known
  <2>2. tx.height > 0 /\ tx.height - 1 = height[n]
    BY <2>1
  <2>3. tx.from \in Nodes /\ height[n] \in 0..height[tx.from]
    BY <2>1, <2>2, AuthorHas DEF RoundInv
  <2>4. chain[tx.from][height[n]] = Latest(n)
    <3>1. height[tx.from] \in Nat
      BY <2>3 DEF IInv, TypeOK
    <3>. QED BY <2>1, <2>3, <3>1 DEF IInv, Agreement, Latest
  <2>5. AllCommitted(chain[tx.from][tx.height - 1], tx.height)
    BY <2>1, <2>2 DEF CommitInv, SeedsCommitted
  <2>. QED BY <2>1, <2>2, <2>4, <2>5 DEF AllCommitted
<1>. QED BY <1>1, <1>2, <1>3, Invariance, RoundInvariance, PTL DEF Spec
=============================================================================
