------------------------------- MODULE State -------------------------------
(***************************************************************************)
(* The accounts and the mempool of user transactions that the nodes of a   *)
(* network keep (class State and class EVMHost, core/state.cpp and         *)
(* core/evmhost.hpp).                                                      *)
(*                                                                         *)
(* Four kinds of threads of a node use its State: the syncer or a P2P      *)
(* handler applies blocks (processNextBlock), HTTP and P2P threads add     *)
(* transactions (addTx), and HTTP threads simulate calls (ethCall,         *)
(* estimateGas).  All of them take stateMutex_, which processNextBlock     *)
(* holds from its first transaction to the stored block; what a thread     *)
(* has read before it takes the mutex again may be stale.                  *)
(*                                                                         *)
(* Which node creates the block of a height is decided by rdPoS (module    *)
(* RdPoS) and is a parameter here.  A call of the EVM or of a C++ contract *)
(* is abstracted to what it does to balances: whether it fails, what it    *)
(* costs and, for a payable C++ function, what it sends to whom.           *)
(***************************************************************************)
EXTENDS Integers, Sequences, FiniteSets

CONSTANTS
  Nodes,              \* the nodes of the network
  Users,              \* the accounts that sign transactions
  Programs,           \* the addresses of the C++ contracts
  Accounts,           \* all addresses
  Zero,               \* Address(): a transaction to it creates an EVM contract
  Derive(_, _),       \* EVMHost::deriveContractAddress, of a creator and a nonce
  GenesisBalance,     \* the balances of the genesis block
  Txs,                \* the transactions that users have signed
  EthCalls,           \* the calls that eth_call may be asked to simulate
  Estimates,          \* the calls that eth_estimateGas may be asked to simulate
  Creator(_),         \* the node that rdPoS elects for a height
  RpcNodes,           \* the nodes that are asked to simulate calls
  Restarting,         \* the nodes that may be shut down and started again
  MaxAdding,          \* bound: threads of a node that are inside addTx
  MaxHeight           \* bound: no block is created above this height

\* A transaction: "limit" is gasLimit * maxFeePerGas and "fee" gasUsed *
\* maxFeePerGas.  "fails" is what the called code does, "destructs" that it
\* executes SELFDESTRUCT.  "payable", "payee" and "payout" describe the function
\* of a C++ contract.
TxType ==
  [from : Users, nonce : Nat, to : Accounts, value : Nat, limit : Nat \ {0},
   fee : Nat, fails : BOOLEAN, destructs : BOOLEAN,
   payable : BOOLEAN, payee : Accounts, payout : Nat]

\* An ethCallInfo that reaches the EVM.
CallType ==
  [from : Accounts, to : Accounts, value : Nat, limit : Nat, destructs : BOOLEAN]

ASSUME AccountsAssumption ==
  Users \subseteq Accounts /\ Programs \subseteq Accounts /\ Zero \in Accounts
ASSUME GenesisAssumption == GenesisBalance \in [Accounts -> Nat]
ASSUME TxsAssumption == Txs \subseteq TxType /\ IsFiniteSet(Txs)
ASSUME CallsAssumption == EthCalls \subseteq CallType /\ Estimates \subseteq CallType
ASSUME SubsetsAssumption == RpcNodes \subseteq Nodes /\ Restarting \subseteq Nodes
ASSUME BoundsAssumption == MaxAdding \in Nat /\ MaxHeight \in Nat

VARIABLES
  curr, orig,     \* EVMAccount::balance.second and .first, by node and address
  nonce,          \* EVMAccount::nonce.second
  code,           \* the addresses that hold EVM code
  noted,          \* EVMHost::accessedAccountsBalances
  shouldRevert,   \* EVMHost::shouldRevert
  mempool,        \* State::mempool_
  adding,         \* validated by addTx, not yet inserted
  checked,        \* calls whose balance estimateGas has checked, not yet run
  pc, block,      \* what the thread that applies blocks does, and with which block
  todo,           \* the transactions of the block that are still to be processed
  applied,        \* the number of blocks in Storage
  ledger          \* the blocks that their creators have broadcast

accountVars == <<curr, orig, nonce, code, noted, shouldRevert>>
mempoolVars == <<mempool, adding>>
blockVars   == <<pc, block, todo, applied, ledger>>
vars == <<accountVars, mempoolVars, checked, blockVars>>

\* stateMutex_ is free: nobody is inside processNextBlock.
Unlocked(n) == pc[n] # "processing"

-----------------------------------------------------------------------------
(* Balances are uint256_t: checked, they throw instead of wrapping around *)

\* What a -= b leaves in a when a < b: boost computes the magnitude of the
\* difference in place and throws when it sets the sign.
AfterUnderflow(a, b) == b - a

Credit(b, a, v) == [b EXCEPT ![a] = @ + v]

\* Mutant: an unchecked subtraction.
DebitUnchecked(b, a, v) == [b EXCEPT ![a] = @ - v]

Debit(b, a, v) ==
  [b EXCEPT ![a] = IF v <= @ THEN @ - v ELSE AfterUnderflow(@, v)]

-----------------------------------------------------------------------------
(* Validation and the mempool *)

\* Mutant: a transaction with a higher nonce is taken, as the TODO in the code
\* suggests.
AdmissibleLater(n, t) ==
  /\ t.value + t.limit <= curr[n][t.from]
  /\ t.nonce >= nonce[n][t.from]

\* The rules of validateTransactionInternal for a transaction it does not know.
Admissible(n, t) ==
  /\ t.value + t.limit <= curr[n][t.from]
  /\ t.nonce = nonce[n][t.from]

\* State::validateTransactionInternal.  What is in the mempool "has been
\* validated previously".
ValidTx(n, t) == t \in mempool[n] \/ Admissible(n, t)

\* State::addTx, up to the release of the shared lock.  An HTTP thread
\* (eth_sendRawTransaction) or a P2P handler (handleTxBroadcast) calls it.
AddTxValidate(n, t) ==
  /\ Unlocked(n)
  /\ ValidTx(n, t)
  /\ t \notin adding[n]
  /\ Cardinality(adding[n]) < MaxAdding
  /\ adding' = [adding EXCEPT ![n] = @ \cup {t}]
  /\ UNCHANGED <<accountVars, mempool, checked, blockVars>>

\* State::addTx, under the unique lock.
AddTxInsert(n, t) ==
  /\ Unlocked(n)
  /\ t \in adding[n]
  /\ adding' = [adding EXCEPT ![n] = @ \ {t}]
  /\ mempool' = [mempool EXCEPT ![n] = @ \cup {t}]
  /\ UNCHANGED <<accountVars, checked, blockVars>>

-----------------------------------------------------------------------------
(* State::processTransaction *)

ToEvm(n, t) == t.to \in code[n] \/ t.to = Zero

RealTo(t) == IF t.to = Zero THEN Derive(t.from, t.nonce) ELSE t.to

\* The value moves before the try block.
EvmMoved(n, t) == Debit(Credit(curr[n], RealTo(t), t.value), t.from, t.value)

\* It cannot be paid: the exception leaves processNextBlock.
EvmThrows(n, t) ==
  /\ ToEvm(n, t)
  /\ t.value > Credit(curr[n], RealTo(t), t.value)[t.from]

EvmFails(n, t) ==
  \/ t.fails
  \/ t.destructs \/ shouldRevert[n]
  \/ t.fee > EvmMoved(n, t)[t.from]

\* Mutant: the catch block does not give the value back.
EvmKeepsValue(n, t) == Debit(EvmMoved(n, t), t.from, t.fee)

\* The catch block gives the value back and keeps the fee.
EvmBalances(n, t) ==
  LET charged == Debit(EvmMoved(n, t), t.from, t.fee)
  IN  IF EvmFails(n, t)
      THEN Debit(Credit(charged, t.from, t.value), RealTo(t), t.value)
      ELSE charged

\* "Classic" transactions: transfers and calls of C++ contracts.
Unpayable(n, t) == t.value + t.limit > curr[n][t.from]

ClassicDebited(n, t) == Debit(curr[n], t.from, t.value + t.limit)

ClassicMoved(n, t) == Credit(ClassicDebited(n, t), t.to, t.value)

\* ContractManager::callContract throws, or ContractManagerInterface::sendTokens
\* finds that the contract does not have what its function wants to send.
CallFails(n, t) ==
  /\ t.to \in Programs
  /\ t.fails \/ (t.payable /\ t.payout > ClassicMoved(n, t)[t.to])

ClassicFails(n, t) == Unpayable(n, t) \/ CallFails(n, t)

\* State::processContractPayable sets the balances that the call has changed.
\* The catch block refunds the value once, and once more after undoing the move
\* when processingPayable_ is set.
ClassicBalances(n, t) ==
  LET moved == ClassicMoved(n, t)
      refunded == Credit(moved, t.from, t.value)
      paid == Credit(Debit(moved, t.to, t.payout), t.payee, t.payout)
  IN  CASE Unpayable(n, t) -> Credit(ClassicDebited(n, t), t.from, t.value)
        [] ~Unpayable(n, t) /\ CallFails(n, t) ->
             IF t.payable THEN Credit(Debit(refunded, t.to, t.value), t.from, t.value)
                          ELSE refunded
        [] ~ClassicFails(n, t) ->
             IF t.to \in Programs /\ t.payable THEN paid ELSE moved

TxFails(n, t) == IF ToEvm(n, t) THEN EvmFails(n, t) ELSE ClassicFails(n, t)

TxBalances(n, t) == IF ToEvm(n, t) THEN EvmBalances(n, t) ELSE ClassicBalances(n, t)

\* Mutant: an EVM transaction does not note its sender.
NotesWithoutSender(n, t) == IF ToEvm(n, t) THEN {} ELSE {t.from, t.to}

\* What is appended to accessedAccountsBalances: tx.getTo(), which is not the
\* address of a contract that the transaction creates, nor a payee.
TxNotes(n, t) ==
  {t.from} \cup
  (IF (ToEvm(n, t) /\ t.value > 0) \/ (~ToEvm(n, t) /\ ~ClassicFails(n, t))
   THEN {t.to} ELSE {})

\* EVMHost::createContract uses the nonce of the account.
Deployed(n, t) ==
  IF t.to = Zero /\ ~EvmFails(n, t) THEN {Derive(t.from, nonce[n][t.from])} ELSE {}

\* EVMHost::commitBalance for the addresses in "who"
CommitBalance(n, who) ==
  orig' = [orig EXCEPT ![n] = [a \in Accounts |-> IF a \in who THEN curr'[n][a] ELSE @[a]]]

\* Mutant: only a transaction that succeeds uses its nonce.
NonceAfterSuccess(n, t) == nonce[n][t.from] + (IF TxFails(n, t) THEN 0 ELSE 1)

NonceAfter(n, t) == nonce[n][t.from] + 1

\* processTransaction returns: the nonce grows and the balances are committed,
\* whether the transaction has failed or not.
ProcessTx(n) ==
  /\ pc[n] = "processing"
  /\ todo[n] # <<>>
  /\ LET t == Head(todo[n])
     IN  /\ ~EvmThrows(n, t)
         /\ curr' = [curr EXCEPT ![n] = TxBalances(n, t)]
         /\ CommitBalance(n, noted[n] \cup TxNotes(n, t))
         /\ noted' = [noted EXCEPT ![n] = {}]
         /\ nonce' = [nonce EXCEPT ![n][t.from] = NonceAfter(n, t)]
         /\ code' = [code EXCEPT ![n] = @ \cup Deployed(n, t)]
         /\ shouldRevert' = [shouldRevert EXCEPT ![n] = @ /\ ~ToEvm(n, t)]
  /\ todo' = [todo EXCEPT ![n] = Tail(@)]
  /\ UNCHANGED <<mempoolVars, checked, pc, block, applied, ledger>>

\* processTransaction throws: the block is left half applied, the mutex is
\* released, and the handler's or the syncer's catch does not undo anything.
ProcessThrows(n) ==
  /\ pc[n] = "processing"
  /\ todo[n] # <<>>
  /\ EvmThrows(n, Head(todo[n]))
  /\ curr' = [curr EXCEPT ![n] = EvmMoved(n, Head(todo[n]))]
  /\ noted' = [noted EXCEPT ![n] = @ \cup {Head(todo[n]).from}]
  /\ pc' = [pc EXCEPT ![n] = "broken"]
  /\ UNCHANGED <<orig, nonce, code, shouldRevert, mempoolVars, checked, block, todo,
                 applied, ledger>>

-----------------------------------------------------------------------------
(* Blocks *)

\* State::fillBlockWithTransactions: the whole mempool, in the order of an
\* unordered_map.
Orders(m) ==
  {s \in [1..Cardinality(m) -> m] : \A i, j \in DOMAIN s : s[i] = s[j] => i = j}

\* Syncer::doValidatorBlock waits for a transaction and fills its block.
FillBlock(n) ==
  /\ pc[n] = "idle"
  /\ n = Creator(applied[n] + 1)
  /\ applied[n] = Len(ledger)
  /\ applied[n] < MaxHeight
  /\ mempool[n] # {}
  /\ \E s \in Orders(mempool[n]) : block' = [block EXCEPT ![n] = s]
  /\ pc' = [pc EXCEPT ![n] = "block"]
  /\ UNCHANGED <<accountVars, mempoolVars, checked, todo, applied, ledger>>

\* ManagerNormal::handleBlockBroadcast gets the next block.  A block is handled
\* once (broadcastedMessages_), so one that is refused does not come again.
ReceiveBlock(n) ==
  /\ pc[n] = "idle"
  /\ applied[n] < Len(ledger)
  /\ block' = [block EXCEPT ![n] = ledger[applied[n] + 1]]
  /\ pc' = [pc EXCEPT ![n] = "block"]
  /\ UNCHANGED <<accountVars, mempoolVars, checked, todo, applied, ledger>>

\* State::validateNextBlock, the part after rdPoS, under the shared lock: every
\* transaction is held against the state before the block.
ValidBlock(n) == \A i \in DOMAIN block[n] : ValidTx(n, block[n][i])

ValidateNextBlock(n) ==
  /\ pc[n] = "block"
  /\ pc' = [pc EXCEPT ![n] = IF ValidBlock(n) THEN "validated" ELSE "refused"]
  /\ UNCHANGED <<accountVars, mempoolVars, checked, block, todo, applied, ledger>>

\* State::processNextBlock takes stateMutex_.
ProcessNextBlock(n) ==
  /\ pc[n] = "validated"
  /\ pc' = [pc EXCEPT ![n] = "processing"]
  /\ todo' = [todo EXCEPT ![n] = block[n]]
  /\ UNCHANGED <<accountVars, mempoolVars, checked, block, applied, ledger>>

\* State::refreshMempool: what is left is validated again, against a mempool
\* that has been cleared.
Refreshed(n) ==
  {t \in mempool[n] : Admissible(n, t) /\ \A i \in DOMAIN block[n] : t # block[n][i]}

\* The rest of processNextBlock; a creator then broadcasts the block.
FinishBlock(n) ==
  /\ pc[n] = "processing"
  /\ todo[n] = <<>>
  /\ mempool' = [mempool EXCEPT ![n] = Refreshed(n)]
  /\ applied' = [applied EXCEPT ![n] = @ + 1]
  /\ ledger' = IF applied[n] = Len(ledger) THEN Append(ledger, block[n]) ELSE ledger
  /\ block' = [block EXCEPT ![n] = <<>>]
  /\ pc' = [pc EXCEPT ![n] = "idle"]
  /\ UNCHANGED <<accountVars, adding, checked, todo>>

-----------------------------------------------------------------------------
(* Simulated calls *)

\* The EVM part of ethCall and estimateGas, under the unique lock: the value moves,
\* the call runs, and revertBalance puts back the original balance of every
\* account that is noted.  A debit that throws leaves before anything is noted.
\* shouldRevert is set by SELFDESTRUCT and is not reset.
Simulate(n, c) ==
  LET who == noted[n] \cup (IF c.value > 0 THEN {c.from, c.to} ELSE {})
  IN  /\ Unlocked(n)
      /\ \/ /\ c.value > curr[n][c.from]
            /\ curr' = [curr EXCEPT ![n] = Debit(@, c.from, c.value)]
            /\ UNCHANGED <<noted, shouldRevert>>
         \/ /\ c.value <= curr[n][c.from]
            /\ curr' = [curr EXCEPT ![n] =
                          [a \in Accounts |-> IF a \in who THEN orig[n][a] ELSE @[a]]]
            /\ noted' = [noted EXCEPT ![n] = {}]
            /\ shouldRevert' = [shouldRevert EXCEPT ![n] = @ \/ c.destructs]
      /\ UNCHANGED <<orig, nonce, code, mempoolVars, blockVars>>

\* State::ethCall of an EVM contract.
EthCall(n, c) ==
  /\ c.to \in code[n]
  /\ Simulate(n, c)
  /\ UNCHANGED checked

\* State::estimateGas, under the shared lock: the balance is checked and the
\* lock released.
EstimateCheck(n, c) ==
  /\ Unlocked(n)
  /\ c.to \in code[n]
  /\ c.value > 0 => c.value + c.limit <= curr[n][c.from]
  /\ checked' = [checked EXCEPT ![n] = @ \cup {c}]
  /\ UNCHANGED <<accountVars, mempoolVars, blockVars>>

\* State::estimateGas, under the unique lock.
EstimateRun(n, c) ==
  /\ c \in checked[n]
  /\ checked' = [checked EXCEPT ![n] = @ \ {c}]
  /\ Simulate(n, c)

-----------------------------------------------------------------------------

\* State::~State and EVMHost::~EVMHost save the current balances, the nonces and
\* the code, and the constructors load them.  The mempool is not saved.
Restart(n) ==
  /\ pc[n] \in {"idle", "refused", "broken"}
  /\ adding[n] = {} /\ checked[n] = {}
  /\ orig' = [orig EXCEPT ![n] = curr[n]]
  /\ noted' = [noted EXCEPT ![n] = {}]
  /\ shouldRevert' = [shouldRevert EXCEPT ![n] = FALSE]
  /\ mempool' = [mempool EXCEPT ![n] = {}]
  /\ UNCHANGED <<curr, nonce, code, adding, checked, blockVars>>

Init ==
  /\ curr = [n \in Nodes |-> GenesisBalance]
  /\ orig = curr
  /\ nonce = [n \in Nodes |-> [u \in Users |-> 0]]
  /\ code = [n \in Nodes |-> {}]
  /\ noted = [n \in Nodes |-> {}]
  /\ shouldRevert = [n \in Nodes |-> FALSE]
  /\ mempool = [n \in Nodes |-> {}]
  /\ adding = [n \in Nodes |-> {}]
  /\ checked = [n \in Nodes |-> {}]
  /\ pc = [n \in Nodes |-> "idle"]
  /\ block = [n \in Nodes |-> <<>>]
  /\ todo = [n \in Nodes |-> <<>>]
  /\ applied = [n \in Nodes |-> 0]
  /\ ledger = <<>>

BlockStep(n) ==
  \/ FillBlock(n) \/ ReceiveBlock(n) \/ ValidateNextBlock(n) \/ ProcessNextBlock(n)
  \/ ProcessTx(n) \/ ProcessThrows(n) \/ FinishBlock(n)

AddStep(n) == \E t \in Txs : AddTxValidate(n, t) \/ AddTxInsert(n, t)

SimulationStep(n) ==
  \/ \E c \in EthCalls : EthCall(n, c)
  \/ \E c \in Estimates : EstimateCheck(n, c) \/ EstimateRun(n, c)

Next ==
  \/ \E n \in Nodes : BlockStep(n) \/ AddStep(n)
  \/ \E n \in RpcNodes : SimulationStep(n)
  \/ \E n \in Restarting : Restart(n)

Spec == Init /\ [][Next]_vars

-----------------------------------------------------------------------------
(* Properties *)

PCs == {"idle", "block", "validated", "processing", "refused", "broken"}

\* The type invariant.  A block is a sequence of signed transactions.
TypeOK ==
  /\ curr \in [Nodes -> [Accounts -> Nat]]
  /\ orig \in [Nodes -> [Accounts -> Nat]]
  /\ nonce \in [Nodes -> [Users -> Nat]]
  /\ DOMAIN code = Nodes
  /\ noted \in [Nodes -> SUBSET Accounts]
  /\ shouldRevert \in [Nodes -> BOOLEAN]
  /\ mempool \in [Nodes -> SUBSET Txs]
  /\ adding \in [Nodes -> SUBSET Txs]
  /\ checked \in [Nodes -> SUBSET Estimates]
  /\ pc \in [Nodes -> PCs]
  /\ block \in [Nodes -> Seq(Txs)]
  /\ todo \in [Nodes -> Seq(Txs)]
  /\ applied \in [Nodes -> Nat]
  /\ ledger \in Seq(Seq(Txs))

\* However addTx, blocks and simulated calls interleave, a transaction in the
\* mempool of a node, or about to be put there, is never one of a nonce that its
\* account has not reached: what is out of date is so because its nonce is used.
MempoolNeverAhead ==
  \A n \in Nodes : \A t \in mempool[n] \cup adding[n] : t.nonce <= nonce[n][t.from]

\* Such a transaction is admissible as long as its nonce is the account's: nothing
\* but a transaction of the account itself (which uses the nonce) lowers its
\* balance, not a failed one and not a simulated call.
MempoolPayable ==
  \A n \in Nodes : \A t \in mempool[n] \cup adding[n] :
    (Unlocked(n) /\ pc[n] # "broken" /\ t.nonce = nonce[n][t.from]) => Admissible(n, t)

\* Replicas: nodes that have applied the same blocks have the same balances and
\* nonces of all users, whatever calls each of them has simulated in between.
UsersAgree ==
  \A m, n \in Nodes :
    (/\ applied[m] = applied[n]
     /\ {pc[m], pc[n]} \cap {"processing", "broken"} = {})
    => \A u \in Users : curr[m][u] = curr[n][u] /\ nonce[m][u] = nonce[n][u]

\* processTransaction: "If the process fails, any state change that this
\* transaction would cause has to be reverted."  When a transaction fails that its
\* sender can pay for, only the sender pays, and no more than the gas limit.
FailedTxReverted ==
  [][\A n \in Nodes :
       LET t == Head(todo[n])
       IN  (ProcessTx(n) /\ TxFails(n, t) /\ ~Unpayable(n, t)) =>
             /\ code'[n] = code[n]
             /\ \A a \in Accounts \ {t.from} : curr'[n][a] = curr[n][a]
             /\ curr'[n][t.from] \in (curr[n][t.from] - t.limit)..curr[n][t.from]]_vars
=============================================================================
