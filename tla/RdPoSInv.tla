------------------------------ MODULE RdPoSInv ------------------------------
(***************************************************************************)
(* The inductive invariant of RdPoS, from which RdPoSProofs derives type   *)
(* correctness, Agreement, ProcessedBlockExtends and MempoolOfTheRound.    *)
(***************************************************************************)
EXTENDS RdPoS

\* The transactions of a block that passes rdPoS::validateBlock.
TxLists == [1..(2 * MinValidators) -> TxValidators]

IsBlock(b) ==
  /\ b \in [height : Nat, prev : {b.prev}, creator : Nodes, txs : {b.txs},
            finalized : BOOLEAN]
  /\ b.txs \in TxLists

\* b is in the chain of the node that has created it.
CreatorHas(b) ==
  /\ IsBlock(b) /\ b.height > 0
  /\ b.height <= height[b.creator]
  /\ chain[b.creator][b.height] = b

\* What the messages on the links carry.
MessagesOK ==
  \A m \in net :
    /\ m.to \in Nodes
    /\ m.body.kind = "tx" => m.body.tx \in TxValidators
    /\ m.body.kind = "block" => CreatorHas(m.body.block)

DomainsOK == DOMAIN sBlock = Nodes /\ DOMAIN hBlock = Nodes

\* The workers run on validators only and hold what doTxCreation needs.
WorkerOK ==
  \A n \in Nodes :
    /\ wpc[n] # "off" \/ spc[n] \notin {"init", "idle", "done"} => n \in Validators
    /\ wpc[n] \in {"hashes", "reveal"} => wSeed[n] \in Seeds
    /\ wpc[n] \in {"commit", "hashes", "reveal"} => wIndex[n] \in 1..MinValidators
    /\ wpc[n] = "scan" => wIndex[n] \in 1..(MinValidators - 1)

\* The chain of a node is linked, each block was created by the validator that the
\* block before it elects, and is in the chain of that validator.
ChainLinked ==
  \A n \in Nodes :
    /\ chain[n][0] = Genesis
    /\ \A k \in 1..height[n] :
         /\ chain[n][k].height = k
         /\ chain[n][k].prev = chain[n][k - 1]
         /\ chain[n][k].creator = ListAfter(chain[n][k - 1])[0]
         /\ CreatorHas(chain[n][k])

\* Who holds stateMutex_ in processNextBlock.
LockOK ==
  \A n \in Nodes : /\ lock[n] = "syncer" <=> spc[n] = "push"
                   /\ lock[n] = "handler" <=> hpc[n] = "push"

\* The list is the one of the latest block, or of the one that is being applied.
ListOK ==
  \A n \in Nodes :
    /\ lock[n] = "free" => randomList[n] = ListAfter(Latest(n))
    /\ lock[n] = "syncer" => randomList[n] = ListAfter(sBlock[n])
    /\ lock[n] = "handler" => randomList[n] = ListAfter(hBlock[n])

\* A block that the handler has validated stays the next one.
HandlerOK ==
  \A n \in Nodes : hpc[n] # "idle" => CreatorHas(hBlock[n]) /\ Extends(n, hBlock[n])

\* The states of doValidatorBlock before the block is known to be valid.
Creating == {"waitReady", "waitTx", "mempool", "getList", "orderHash",
             "orderSeed", "sign", "validate"}

\* While the syncer builds a block its node stays the creator of the round, and
\* once it has copied transactions no block can be applied by the handler.
SyncerAt(n) ==
  /\ spc[n] \in Creating => randomList[n][0] = n
  /\ spc[n] \in {"getList", "orderHash", "orderSeed"} /\ sMempool[n] # {} =>
       lock[n] = "free"
  /\ spc[n] \in {"sign", "validate"} => lock[n] = "free"
  /\ spc[n] \in {"sign", "validate", "process", "push"} =>
       IsBlock(sBlock[n]) /\ sBlock[n].creator = n
  /\ spc[n] \in {"process", "push"} =>
       Extends(n, sBlock[n]) /\ ListAfter(Latest(n))[0] = n
  /\ spc[n] = "confirm" => CreatorHas(sBlock[n])

SyncerOK == \A n \in Nodes : SyncerAt(n)

IInv ==
  /\ TypeOK /\ DomainsOK /\ MessagesOK /\ WorkerOK
  /\ ChainLinked /\ LockOK /\ ListOK /\ HandlerOK /\ SyncerOK
  /\ MempoolOfTheRound /\ Agreement
=============================================================================
