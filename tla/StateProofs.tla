---------------------------- MODULE StateProofs ----------------------------
(***************************************************************************)
(* Theorems about State, for any network, accounts, transactions, calls    *)
(* and bounds.                                                             *)
(***************************************************************************)
EXTENDS State, FiniteSetTheorems, SequenceTheorems, TLAPS

-----------------------------------------------------------------------------
(* Balances stay natural numbers, whatever is debited from them *)

LEMMA CreditType ==
  ASSUME NEW b \in [Accounts -> Nat], NEW a, NEW v \in Nat
  PROVE  Credit(b, a, v) \in [Accounts -> Nat]
<1>1. CASE a \in Accounts
  BY <1>1 DEF Credit
<1>2. CASE a \notin Accounts
  BY <1>2 DEF Credit
<1> QED  BY <1>1, <1>2

LEMMA DebitType ==
  ASSUME NEW b \in [Accounts -> Nat], NEW a, NEW v \in Nat
  PROVE  Debit(b, a, v) \in [Accounts -> Nat]
<1>1. CASE a \in Accounts
  <2>1. (IF v <= b[a] THEN b[a] - v ELSE AfterUnderflow(b[a], v)) \in Nat
    BY <1>1 DEF AfterUnderflow
  <2> QED  BY <1>1, <2>1 DEF Debit
<1>2. CASE a \notin Accounts
  BY <1>2 DEF Debit
<1> QED  BY <1>1, <1>2

LEMMA TxBalancesType ==
  ASSUME TypeOK, NEW n \in Nodes, NEW t \in Txs
  PROVE  /\ EvmMoved(n, t) \in [Accounts -> Nat]
         /\ TxBalances(n, t) \in [Accounts -> Nat]
<1>1. /\ curr[n] \in [Accounts -> Nat]
      /\ t.value \in Nat /\ t.limit \in Nat /\ t.fee \in Nat /\ t.payout \in Nat
  BY TxsAssumption DEF TypeOK, TxType
<1>2. EvmMoved(n, t) \in [Accounts -> Nat]
  BY <1>1, CreditType, DebitType DEF EvmMoved
<1>3. EvmBalances(n, t) \in [Accounts -> Nat]
  BY <1>1, <1>2, CreditType, DebitType DEF EvmBalances
<1>4. ClassicBalances(n, t) \in [Accounts -> Nat]
  <2>1. t.value + t.limit \in Nat
    BY <1>1
  <2>2. ClassicDebited(n, t) \in [Accounts -> Nat]
    BY <1>1, <2>1, DebitType DEF ClassicDebited
  <2>3. ClassicMoved(n, t) \in [Accounts -> Nat]
    BY <1>1, <2>2, CreditType DEF ClassicMoved
  <2>4. CASE Unpayable(n, t)
    <3>1. ClassicBalances(n, t) = Credit(ClassicDebited(n, t), t.from, t.value)
      BY <2>4 DEF ClassicBalances, ClassicFails
    <3> QED  BY <1>1, <2>2, <3>1, CreditType
  <2>5. CASE ~Unpayable(n, t) /\ CallFails(n, t)
    <3> DEFINE refunded == Credit(ClassicMoved(n, t), t.from, t.value)
    <3>1. ClassicBalances(n, t) =
            IF t.payable THEN Credit(Debit(refunded, t.to, t.value), t.from, t.value)
                         ELSE refunded
      BY <2>5 DEF ClassicBalances, ClassicFails
    <3>2. refunded \in [Accounts -> Nat]
      BY <1>1, <2>3, CreditType
    <3> QED  BY <1>1, <3>1, <3>2, CreditType, DebitType
  <2>6. CASE ~ClassicFails(n, t)
    <3>1. ClassicBalances(n, t) =
            IF t.to \in Programs /\ t.payable
            THEN Credit(Debit(ClassicMoved(n, t), t.to, t.payout), t.payee, t.payout)
            ELSE ClassicMoved(n, t)
      BY <2>6 DEF ClassicBalances, ClassicFails
    <3> QED  BY <1>1, <2>3, <3>1, CreditType, DebitType
  <2> QED  BY <2>4, <2>5, <2>6 DEF ClassicFails
<1> QED  BY <1>2, <1>3, <1>4 DEF TxBalances

-----------------------------------------------------------------------------
(* Type correctness *)

\* The transactions of a filled block are those of the mempool.
LEMMA FillBlockType ==
  ASSUME TypeOK, NEW n \in Nodes, FillBlock(n)
  PROVE  TypeOK'
<1>1. PICK s \in Orders(mempool[n]) : block' = [block EXCEPT ![n] = s]
  BY DEF FillBlock
<1>2. Cardinality(mempool[n]) \in Nat
  BY TxsAssumption, FS_Subset, FS_CardinalityType DEF TypeOK
<1>3. s \in Seq(Txs)
  <2>1. s \in [1..Cardinality(mempool[n]) -> Txs]
    BY DEF TypeOK, Orders
  <2> QED  BY <1>2, <2>1, SeqDef
<1> QED  BY <1>1, <1>2, <1>3 DEF TypeOK, FillBlock, PCs, accountVars, mempoolVars

\* What is known of the transaction that is processed next.
LEMMA HeadType ==
  ASSUME TypeOK, NEW n \in Nodes, todo[n] # <<>>
  PROVE  /\ Head(todo[n]) \in Txs
         /\ Head(todo[n]).from \in Users
         /\ Tail(todo[n]) \in Seq(Txs)
<1>1. Head(todo[n]) \in Txs /\ Tail(todo[n]) \in Seq(Txs)
  BY HeadTailProperties DEF TypeOK
<1>2. \A t \in Txs : t.from \in Users
  BY TxsAssumption DEF TxType
<1> QED  BY <1>1, <1>2

\* A processed transaction changes the accounts of one node.
LEMMA ProcessTxType ==
  ASSUME TypeOK, NEW n \in Nodes, ProcessTx(n)
  PROVE  TypeOK'
<1> DEFINE t == Head(todo[n])
<1>1. t \in Txs /\ t.from \in Users /\ Tail(todo[n]) \in Seq(Txs)
  BY HeadType DEF ProcessTx
<1>2. /\ curr' = [curr EXCEPT ![n] = TxBalances(n, t)]
      /\ CommitBalance(n, noted[n] \cup TxNotes(n, t))
      /\ noted' = [noted EXCEPT ![n] = {}]
      /\ nonce' = [nonce EXCEPT ![n][t.from] = NonceAfter(n, t)]
      /\ code' = [code EXCEPT ![n] = @ \cup Deployed(n, t)]
      /\ shouldRevert' = [shouldRevert EXCEPT ![n] = @ /\ ~ToEvm(n, t)]
      /\ todo' = [todo EXCEPT ![n] = Tail(@)]
      /\ UNCHANGED <<mempoolVars, checked, pc, block, applied, ledger>>
  BY DEF ProcessTx
<1>3. curr' \in [Nodes -> [Accounts -> Nat]]
  BY <1>1, <1>2, TxBalancesType DEF TypeOK
<1>4. orig' \in [Nodes -> [Accounts -> Nat]]
  BY <1>2, <1>3 DEF CommitBalance, TypeOK
<1>5. nonce' \in [Nodes -> [Users -> Nat]]
  <2>1. NonceAfter(n, t) \in Nat
    BY <1>1 DEF TypeOK, NonceAfter
  <2> QED  BY <1>2, <2>1 DEF TypeOK
<1>6. /\ noted' \in [Nodes -> SUBSET Accounts]
      /\ DOMAIN code' = Nodes
      /\ todo' \in [Nodes -> Seq(Txs)]
  BY <1>1, <1>2 DEF TypeOK
<1>7. shouldRevert' \in [Nodes -> BOOLEAN]
  BY <1>2 DEF TypeOK
<1> QED  BY <1>2, <1>3, <1>4, <1>5, <1>6, <1>7 DEF TypeOK, mempoolVars

LEMMA ProcessThrowsType ==
  ASSUME TypeOK, NEW n \in Nodes, ProcessThrows(n)
  PROVE  TypeOK'
<1> DEFINE t == Head(todo[n])
<1>1. t \in Txs /\ t.from \in Accounts
  BY HeadType, AccountsAssumption DEF ProcessThrows
<1>2. curr' \in [Nodes -> [Accounts -> Nat]]
  BY <1>1, TxBalancesType DEF TypeOK, ProcessThrows
<1> QED  BY <1>1, <1>2 DEF TypeOK, ProcessThrows, PCs, mempoolVars

LEMMA SimulateType ==
  ASSUME TypeOK, NEW n \in Nodes, NEW c \in CallType, Simulate(n, c),
         checked' \in [Nodes -> SUBSET Estimates]
  PROVE  TypeOK'
<1>1. /\ curr[n] \in [Accounts -> Nat] /\ orig[n] \in [Accounts -> Nat]
      /\ c.value \in Nat /\ c.destructs \in BOOLEAN
  BY DEF TypeOK, CallType
<1>2. Debit(curr[n], c.from, c.value) \in [Accounts -> Nat]
  BY <1>1, DebitType
<1>3. curr' \in [Nodes -> [Accounts -> Nat]]
  <2> DEFINE who == noted[n] \cup (IF c.value > 0 THEN {c.from, c.to} ELSE {})
             back == [a \in Accounts |-> IF a \in who THEN orig[n][a] ELSE curr[n][a]]
  <2>1. back \in [Accounts -> Nat]
    BY <1>1
  <2>2. \/ curr' = [curr EXCEPT ![n] = Debit(curr[n], c.from, c.value)]
        \/ curr' = [curr EXCEPT ![n] = back]
    BY DEF Simulate
  <2> QED  BY <1>2, <2>1, <2>2 DEF TypeOK
<1>4. noted' \in [Nodes -> SUBSET Accounts]
  BY DEF TypeOK, Simulate
<1>5. shouldRevert' \in [Nodes -> BOOLEAN]
  BY <1>1 DEF TypeOK, Simulate
<1> QED  BY <1>3, <1>4, <1>5 DEF TypeOK, Simulate, mempoolVars, blockVars

LEMMA InitType == Init => TypeOK
BY GenesisAssumption DEF Init, TypeOK, PCs

LEMMA NextType == TypeOK /\ [Next]_vars => TypeOK'
<1> SUFFICES ASSUME TypeOK, [Next]_vars PROVE TypeOK'
  OBVIOUS
<1>1. ASSUME NEW n \in Nodes, BlockStep(n) PROVE TypeOK'
  <2>1. CASE FillBlock(n)
    BY <2>1, FillBlockType
  <2>2. CASE ReceiveBlock(n)
    <3>1. ledger[applied[n] + 1] \in Seq(Txs)
      <4>1. applied[n] + 1 \in 1..Len(ledger)
        BY <2>2 DEF ReceiveBlock, TypeOK
      <4> QED  BY <4>1, ElementOfSeq DEF TypeOK
    <3> QED  BY <2>2, <3>1 DEF TypeOK, ReceiveBlock, PCs, accountVars, mempoolVars
  <2>3. CASE ValidateNextBlock(n)
    BY <2>3 DEF TypeOK, ValidateNextBlock, PCs, accountVars, mempoolVars
  <2>4. CASE ProcessNextBlock(n)
    BY <2>4 DEF TypeOK, ProcessNextBlock, PCs, accountVars, mempoolVars
  <2>5. CASE ProcessTx(n)
    BY <2>5, ProcessTxType
  <2>6. CASE ProcessThrows(n)
    BY <2>6, ProcessThrowsType
  <2>7. CASE FinishBlock(n)
    <3>1. ledger' \in Seq(Seq(Txs))
      BY <2>7, AppendProperties DEF TypeOK, FinishBlock
    <3>2. mempool' \in [Nodes -> SUBSET Txs]
      BY <2>7 DEF TypeOK, FinishBlock, Refreshed
    <3> QED  BY <2>7, <3>1, <3>2 DEF TypeOK, FinishBlock, PCs, accountVars
  <2> QED  BY <1>1, <2>1, <2>2, <2>3, <2>4, <2>5, <2>6, <2>7 DEF BlockStep
<1>2. ASSUME NEW n \in Nodes, AddStep(n) PROVE TypeOK'
  <2>1. ASSUME NEW t \in Txs, AddTxValidate(n, t) PROVE TypeOK'
    BY <2>1 DEF AddTxValidate, TypeOK, accountVars, blockVars
  <2>2. ASSUME NEW t \in Txs, AddTxInsert(n, t) PROVE TypeOK'
    BY <2>2 DEF AddTxInsert, TypeOK, accountVars, blockVars
  <2> QED  BY <1>2, <2>1, <2>2 DEF AddStep
<1>3. ASSUME NEW n \in RpcNodes, SimulationStep(n) PROVE TypeOK'
  <2>1. n \in Nodes
    BY SubsetsAssumption
  <2>2. ASSUME NEW c \in EthCalls, EthCall(n, c) PROVE TypeOK'
    <3>1. c \in CallType /\ Simulate(n, c) /\ checked' \in [Nodes -> SUBSET Estimates]
      BY <2>2, CallsAssumption DEF EthCall, TypeOK
    <3> QED  BY <2>1, <3>1, SimulateType
  <2>3. ASSUME NEW c \in Estimates, EstimateCheck(n, c) PROVE TypeOK'
    BY <2>1, <2>3 DEF EstimateCheck, TypeOK, accountVars, mempoolVars, blockVars
  <2>4. ASSUME NEW c \in Estimates, EstimateRun(n, c) PROVE TypeOK'
    <3>1. c \in CallType /\ Simulate(n, c) /\ checked' \in [Nodes -> SUBSET Estimates]
      BY <2>4, CallsAssumption DEF EstimateRun, TypeOK
    <3> QED  BY <2>1, <3>1, SimulateType
  <2> QED  BY <1>3, <2>2, <2>3, <2>4 DEF SimulationStep
<1>4. ASSUME NEW n \in Restarting, Restart(n) PROVE TypeOK'
  BY <1>4, SubsetsAssumption DEF Restart, TypeOK, blockVars
<1>5. CASE UNCHANGED vars
  BY <1>5 DEF vars, TypeOK, accountVars, mempoolVars, blockVars
<1> QED  BY <1>1, <1>2, <1>3, <1>4, <1>5 DEF Next

\* Every variable of State keeps its type; in particular no balance becomes
\* negative, although values are debited without a test in processTransaction,
\* ethCall and estimateGas.
THEOREM TypeCorrect == Spec => []TypeOK
BY InitType, NextType, PTL DEF Spec

-----------------------------------------------------------------------------
(* The mempool is never ahead of the accounts *)

LEMMA NextNeverAhead ==
  ASSUME TypeOK, TypeOK', MempoolNeverAhead, [Next]_vars
  PROVE  MempoolNeverAhead'
<1>1. \A t \in Txs : t.from \in Users /\ t.nonce \in Nat
  BY TxsAssumption DEF TxType
<1>2. ASSUME UNCHANGED <<nonce, mempool, adding>> PROVE MempoolNeverAhead'
  BY <1>2 DEF MempoolNeverAhead
<1>3. ASSUME NEW n \in Nodes, NEW t \in Txs, AddTxValidate(n, t) PROVE MempoolNeverAhead'
  <2>1. t.nonce <= nonce[n][t.from]
    BY <1>1, <1>3 DEF AddTxValidate, ValidTx, Admissible, MempoolNeverAhead, TypeOK
  <2> QED  BY <1>3, <2>1 DEF AddTxValidate, MempoolNeverAhead, TypeOK, accountVars
<1>4. ASSUME NEW n \in Nodes, NEW t \in Txs, AddTxInsert(n, t) PROVE MempoolNeverAhead'
  BY <1>4 DEF AddTxInsert, MempoolNeverAhead, TypeOK, accountVars
<1>5. ASSUME NEW n \in Nodes, ProcessTx(n) PROVE MempoolNeverAhead'
  <2> DEFINE from == Head(todo[n]).from
  <2>1. from \in Users
    BY <1>5, HeadType DEF ProcessTx
  <2>2. nonce' = [nonce EXCEPT ![n][from] = nonce[n][from] + 1]
    BY <1>5 DEF ProcessTx, NonceAfter
  <2>3. \A m \in Nodes, u \in Users : nonce[m][u] <= nonce'[m][u]
    <3>1. ASSUME NEW m \in Nodes, NEW u \in Users PROVE nonce[m][u] <= nonce'[m][u]
      <4>1. nonce \in [Nodes -> [Users -> Nat]] /\ nonce[m][u] \in Nat
        BY DEF TypeOK
      <4>2. nonce'[m][u] = IF m = n /\ u = from THEN nonce[m][u] + 1 ELSE nonce[m][u]
        BY <2>1, <2>2, <4>1
      <4> QED  BY <4>1, <4>2
    <3> QED  BY <3>1
  <2>4. mempool' = mempool /\ adding' = adding
    BY <1>5 DEF ProcessTx, mempoolVars
  <2> SUFFICES ASSUME NEW m \in Nodes, NEW t \in mempool[m] \cup adding[m]
               PROVE  t.nonce <= nonce'[m][t.from]
    BY <2>4 DEF MempoolNeverAhead
  <2>5. t.from \in Users /\ t.nonce \in Nat
    BY <1>1 DEF TypeOK
  <2>6. t.nonce <= nonce[m][t.from]
    BY DEF MempoolNeverAhead
  <2>7. nonce[m][t.from] \in Nat /\ nonce'[m][t.from] \in Nat
    BY <2>5 DEF TypeOK
  <2> QED  BY <2>3, <2>5, <2>6, <2>7
<1>6. ASSUME NEW n \in Nodes, FinishBlock(n) PROVE MempoolNeverAhead'
  BY <1>6 DEF FinishBlock, Refreshed, MempoolNeverAhead, TypeOK, accountVars
<1>7. ASSUME NEW n \in Restarting, Restart(n) PROVE MempoolNeverAhead'
  BY <1>7, SubsetsAssumption DEF Restart, MempoolNeverAhead, TypeOK
<1>8. ASSUME NEW n \in Nodes, BlockStep(n) PROVE MempoolNeverAhead'
  BY <1>2, <1>5, <1>6, <1>8
     DEF BlockStep, FillBlock, ReceiveBlock, ValidateNextBlock, ProcessNextBlock,
         ProcessThrows, accountVars, mempoolVars
<1>9. ASSUME NEW n \in RpcNodes, SimulationStep(n) PROVE MempoolNeverAhead'
  BY <1>2, <1>9
     DEF SimulationStep, EthCall, EstimateCheck, EstimateRun, Simulate, accountVars,
         mempoolVars
<1>10. CASE UNCHANGED vars
  BY <1>2, <1>10 DEF vars, accountVars, mempoolVars
<1> QED  BY <1>3, <1>4, <1>7, <1>8, <1>9, <1>10 DEF Next, AddStep

\* The mempool of no node is ever ahead of its accounts, however addTx, which
\* validates and inserts under two locks, interleaves with the blocks: what
\* refreshMempool or a late insertion leaves there is current or used up.
THEOREM NeverAhead == Spec => []MempoolNeverAhead
<1>1. Init => MempoolNeverAhead
  BY DEF Init, MempoolNeverAhead
<1>2. TypeOK /\ TypeOK' /\ MempoolNeverAhead /\ [Next]_vars => MempoolNeverAhead'
  BY NextNeverAhead
<1> QED  BY <1>1, <1>2, TypeCorrect, PTL DEF Spec

-----------------------------------------------------------------------------
(* A transaction in the mempool stays payable *)

\* Users are not contracts: an address of a contract is derived by a hash.
UsersApart ==
  Programs \cap Users = {} /\ \A u \in Users, k \in Nat : Derive(u, k) \notin Users

\* No C++ contract pays a user, since commitBalance does not see the payee.
PayeesApart == \A t \in Txs : t.payable => t.payee \notin Users

\* A user who is named as the sender of a simulated call could pay its value; the
\* debit of one that could not is left in the account.
SimulationsPaid ==
  \A n \in RpcNodes, c \in EthCalls \cup Estimates :
    c.from \in Users => c.value <= curr[n][c.from]

\* On a node that is not broken nothing is noted between transactions, the balances
\* of the users are committed, and a transaction of the current nonce is payable.
Tidy(n) == noted[n] = {} /\ \A u \in Users : orig[n][u] = curr[n][u]

Payable(n) ==
  \A t \in mempool[n] \cup adding[n] :
    t.nonce = nonce[n][t.from] => t.value + t.limit <= curr[n][t.from]

PayableInv ==
  \A n \in Nodes :
    code[n] \cap Users = {} /\ (pc[n] # "broken" => Tidy(n) /\ Payable(n))

LEMMA CreditAt ==
  ASSUME NEW b \in [Accounts -> Nat], NEW a, NEW v \in Nat, NEW x \in Accounts
  PROVE  Credit(b, a, v)[x] = IF x = a THEN b[x] + v ELSE b[x]
BY DEF Credit

LEMMA DebitElse ==
  ASSUME NEW b \in [Accounts -> Nat], NEW a, NEW v \in Nat, NEW x \in Accounts, x # a
  PROVE  Debit(b, a, v)[x] = b[x]
BY DEF Debit

\* A transaction leaves the balance of a user who has not signed it, or raises it and
\* notes the account.
LEMMA OthersKeep ==
  ASSUME UsersApart, PayeesApart, TypeOK, NEW n \in Nodes, code[n] \cap Users = {},
         NEW t \in Txs, NEW a \in Users, a # t.from
  PROVE  /\ TxBalances(n, t)[a] >= curr[n][a]
         /\ a \notin TxNotes(n, t) => TxBalances(n, t)[a] = curr[n][a]
<1>1. /\ curr[n] \in [Accounts -> Nat] /\ a \in Accounts /\ curr[n][a] \in Nat
      /\ t.value \in Nat /\ t.limit \in Nat /\ t.fee \in Nat /\ t.payout \in Nat
      /\ t.from \in Users /\ t.nonce \in Nat /\ t.value + t.limit \in Nat
  <2>1. /\ t.value \in Nat /\ t.limit \in Nat /\ t.fee \in Nat /\ t.payout \in Nat
        /\ t.from \in Users /\ t.nonce \in Nat
    BY TxsAssumption DEF TxType
  <2>2. curr[n] \in [Accounts -> Nat] /\ a \in Accounts
    BY AccountsAssumption DEF TypeOK
  <2>. QED BY <2>1, <2>2
<1>2. CASE ToEvm(n, t)
  <2>1. a # RealTo(t)
    BY <1>1, <1>2 DEF ToEvm, RealTo, UsersApart
  <2>2. PICK c : c = Credit(curr[n], RealTo(t), t.value)
    OBVIOUS
  <2>3. c \in [Accounts -> Nat] /\ c[a] = curr[n][a]
    BY <1>1, <2>1, <2>2, CreditType, CreditAt
  <2>4. PICK m : m = EvmMoved(n, t)
    OBVIOUS
  <2>5. m \in [Accounts -> Nat] /\ m[a] = curr[n][a]
    BY <1>1, <2>2, <2>3, <2>4, DebitType, DebitElse DEF EvmMoved
  <2>6. PICK d : d = Debit(m, t.from, t.fee)
    OBVIOUS
  <2>7. d \in [Accounts -> Nat] /\ d[a] = curr[n][a]
    BY <1>1, <2>5, <2>6, DebitType, DebitElse
  <2>8. PICK e : e = Credit(d, t.from, t.value)
    OBVIOUS
  <2>9. e \in [Accounts -> Nat] /\ e[a] = curr[n][a]
    BY <1>1, <2>7, <2>8, CreditType, CreditAt
  <2>10. Debit(e, RealTo(t), t.value)[a] = curr[n][a]
    BY <1>1, <2>1, <2>9, DebitElse
  <2>11. EvmBalances(n, t)[a] = curr[n][a]
    BY <2>4, <2>6, <2>7, <2>8, <2>10 DEF EvmBalances
  <2>. QED BY <1>1, <1>2, <2>11 DEF TxBalances
<1>3. CASE ~ToEvm(n, t)
  <2>1. PICK d : d = ClassicDebited(n, t)
    OBVIOUS
  <2>2. d \in [Accounts -> Nat] /\ d[a] = curr[n][a]
    BY <1>1, <2>1, DebitType, DebitElse DEF ClassicDebited
  <2>3. PICK m : m = ClassicMoved(n, t)
    OBVIOUS
  <2>4. /\ m \in [Accounts -> Nat]
        /\ m[a] = IF a = t.to THEN curr[n][a] + t.value ELSE curr[n][a]
    BY <1>1, <2>1, <2>2, <2>3, CreditType, CreditAt DEF ClassicMoved
  <2>5. TxBalances(n, t) = ClassicBalances(n, t)
    BY <1>3 DEF TxBalances
  <2>6. CASE Unpayable(n, t)
    <3>1. ClassicBalances(n, t) = Credit(d, t.from, t.value)
      BY <2>1, <2>6 DEF ClassicBalances, ClassicFails
    <3>2. ClassicBalances(n, t)[a] = curr[n][a]
      BY <1>1, <2>2, <3>1, CreditAt
    <3>. QED BY <1>1, <2>5, <3>2
  <2>7. CASE ~Unpayable(n, t) /\ CallFails(n, t)
    <3>1. a # t.to
      BY <2>7 DEF CallFails, UsersApart
    <3>2. PICK r : r = Credit(m, t.from, t.value)
      OBVIOUS
    <3>3. r \in [Accounts -> Nat] /\ r[a] = curr[n][a]
      BY <1>1, <2>4, <3>1, <3>2, CreditType, CreditAt
    <3>4. PICK e : e = Debit(r, t.to, t.value)
      OBVIOUS
    <3>5. e \in [Accounts -> Nat] /\ e[a] = curr[n][a]
      BY <1>1, <3>1, <3>3, <3>4, DebitType, DebitElse
    <3>6. Credit(e, t.from, t.value)[a] = curr[n][a]
      BY <1>1, <3>5, CreditAt
    <3>7. ClassicBalances(n, t) = IF t.payable THEN Credit(e, t.from, t.value) ELSE r
      BY <2>3, <2>7, <3>2, <3>4 DEF ClassicBalances, ClassicFails
    <3>. QED BY <1>1, <2>5, <3>3, <3>6, <3>7
  <2>8. CASE ~ClassicFails(n, t)
    <3>1. t.to \in TxNotes(n, t)
      BY <1>3, <2>8 DEF TxNotes
    <3>2. m[a] >= curr[n][a] /\ (a \notin TxNotes(n, t) => m[a] = curr[n][a])
      BY <1>1, <2>4, <3>1
    <3>3. CASE t.to \in Programs /\ t.payable
      <4>1. ClassicBalances(n, t) = Credit(Debit(m, t.to, t.payout), t.payee, t.payout)
        BY <2>3, <2>8, <3>3 DEF ClassicBalances, ClassicFails
      <4>2. a # t.to /\ a # t.payee
        BY <3>3 DEF UsersApart, PayeesApart
      <4>3. PICK e : e = Debit(m, t.to, t.payout)
        OBVIOUS
      <4>4. e \in [Accounts -> Nat] /\ e[a] = m[a]
        BY <1>1, <2>4, <4>2, <4>3, DebitType, DebitElse
      <4>5. ClassicBalances(n, t)[a] = m[a]
        BY <1>1, <4>1, <4>2, <4>3, <4>4, CreditAt
      <4>. QED BY <2>5, <3>2, <4>5
    <3>4. CASE ~(t.to \in Programs /\ t.payable)
      <4>1. ClassicBalances(n, t) = m
        BY <2>3, <2>8, <3>4 DEF ClassicBalances, ClassicFails
      <4>. QED BY <2>5, <3>2, <4>1
    <3>. QED BY <3>3, <3>4
  <2>. QED BY <2>6, <2>7, <2>8 DEF ClassicFails
<1>. QED BY <1>2, <1>3

LEMMA ProcessTxPayable ==
  ASSUME UsersApart, PayeesApart, TypeOK, MempoolNeverAhead, PayableInv,
         NEW n \in Nodes, ProcessTx(n)
  PROVE  PayableInv'
<1>. DEFINE t == Head(todo[n])
<1>1. t \in Txs /\ t.from \in Users
  BY HeadType DEF ProcessTx
<1>2. pc[n] # "broken" /\ pc' = pc /\ mempool' = mempool /\ adding' = adding
  BY DEF ProcessTx, mempoolVars
<1>3. /\ curr' = [curr EXCEPT ![n] = TxBalances(n, t)]
      /\ CommitBalance(n, noted[n] \cup TxNotes(n, t))
      /\ noted' = [noted EXCEPT ![n] = {}]
      /\ nonce' = [nonce EXCEPT ![n][t.from] = nonce[n][t.from] + 1]
      /\ code' = [code EXCEPT ![n] = @ \cup Deployed(n, t)]
  BY DEF ProcessTx, NonceAfter
<1>. HIDE DEF t
<1>4. code[n] \cap Users = {} /\ Tidy(n) /\ Payable(n)
  BY <1>2 DEF PayableInv
<1>5. TxBalances(n, t) \in [Accounts -> Nat]
  BY <1>1, TxBalancesType
<1>6. code'[n] \cap Users = {}
  <2>1. nonce[n][t.from] \in Nat
    BY <1>1 DEF TypeOK
  <2>2. Deployed(n, t) \cap Users = {}
    BY <1>1, <2>1 DEF Deployed, UsersApart
  <2>3. code'[n] = code[n] \cup Deployed(n, t)
    BY <1>3 DEF TypeOK
  <2>. QED BY <1>4, <2>2, <2>3
<1>7. curr'[n] = TxBalances(n, t) /\ noted'[n] = {}
  BY <1>3 DEF TypeOK
<1>8. ASSUME NEW u \in Users PROVE orig'[n][u] = curr'[n][u]
  <2>1. u \in Accounts
    BY AccountsAssumption
  <2>2. orig'[n][u] = IF u \in noted[n] \cup TxNotes(n, t) THEN curr'[n][u] ELSE orig[n][u]
    BY <1>3, <2>1 DEF CommitBalance, TypeOK
  <2>3. CASE u \in TxNotes(n, t)
    BY <2>2, <2>3
  <2>4. CASE u \notin TxNotes(n, t)
    <3>1. u # t.from
      BY <2>4 DEF TxNotes
    <3>2. curr'[n][u] = curr[n][u]
      BY <1>1, <1>4, <1>7, <2>4, <3>1, OthersKeep
    <3>3. u \notin noted[n] /\ orig[n][u] = curr[n][u]
      BY <1>4 DEF Tidy
    <3>. QED BY <2>2, <2>4, <3>2, <3>3
  <2>. QED BY <2>3, <2>4
<1>9. ASSUME NEW x \in mempool[n] \cup adding[n], x.nonce = nonce'[n][x.from]
      PROVE  x.value + x.limit <= curr'[n][x.from]
  <2>1. x \in Txs /\ x.from \in Users /\ x.nonce \in Nat /\ x.value \in Nat /\ x.limit \in Nat
    <3>1. x \in Txs
      BY DEF TypeOK
    <3>. QED BY <3>1, TxsAssumption DEF TxType
  <2>2. nonce[n][x.from] \in Nat /\ x.nonce <= nonce[n][x.from]
    BY <2>1 DEF TypeOK, MempoolNeverAhead
  <2>3. nonce'[n][x.from] = IF x.from = t.from THEN nonce[n][x.from] + 1 ELSE nonce[n][x.from]
    BY <1>1, <1>3, <2>1 DEF TypeOK
  <2>4. x.from # t.from
    BY <1>9, <2>1, <2>2, <2>3
  <2>5. x.value + x.limit <= curr[n][x.from]
    BY <1>4, <1>9, <2>3, <2>4 DEF Payable
  <2>6. curr'[n][x.from] >= curr[n][x.from]
    BY <1>1, <1>4, <1>7, <2>1, <2>4, OthersKeep
  <2>7. curr[n][x.from] \in Nat /\ curr'[n][x.from] \in Nat
    BY <1>5, <1>7, <2>1, AccountsAssumption DEF TypeOK
  <2>. QED BY <2>1, <2>5, <2>6, <2>7
<1>10. Tidy(n)' /\ Payable(n)'
  BY <1>2, <1>7, <1>8, <1>9 DEF Tidy, Payable
<1>11. ASSUME NEW m \in Nodes, m # n
       PROVE  (code[m] \cap Users = {} /\ (pc[m] # "broken" => Tidy(m) /\ Payable(m)))'
  <2>1. /\ curr'[m] = curr[m] /\ noted'[m] = noted[m] /\ nonce'[m] = nonce[m]
        /\ code'[m] = code[m] /\ orig'[m] = orig[m]
    BY <1>3, <1>11 DEF CommitBalance, TypeOK
  <2>. QED BY <1>2, <2>1 DEF PayableInv, Tidy, Payable
<1>. QED BY <1>6, <1>10, <1>11 DEF PayableInv

LEMMA SimulatePayable ==
  ASSUME TypeOK, PayableInv, SimulationsPaid, NEW n \in RpcNodes,
         NEW c \in EthCalls \cup Estimates, Simulate(n, c)
  PROVE  PayableInv'
<1>1. n \in Nodes /\ c \in CallType
  BY SubsetsAssumption, CallsAssumption
<1>2. /\ UNCHANGED <<orig, nonce, code, mempool, adding, pc>>
      /\ \A m \in Nodes : m # n => curr'[m] = curr[m] /\ noted'[m] = noted[m]
  BY <1>1 DEF Simulate, TypeOK, mempoolVars, blockVars
<1>3. ASSUME pc[n] # "broken"
      PROVE  noted'[n] = {} /\ \A u \in Users : curr'[n][u] = curr[n][u]
  <2>1. Tidy(n)
    BY <1>1, <1>3 DEF PayableInv
  <2>2. /\ Users \subseteq Accounts /\ curr[n] \in [Accounts -> Nat]
        /\ c.value \in Nat /\ c.from \in Accounts
    BY <1>1, AccountsAssumption DEF TypeOK, CallType
  <2>3. CASE c.value > curr[n][c.from]
    <3>1. c.from \notin Users
      <4>1. ASSUME c.from \in Users PROVE FALSE
        <5>1. c.value <= curr[n][c.from] /\ curr[n][c.from] \in Nat
          BY <2>2, <4>1 DEF SimulationsPaid
        <5>. QED BY <2>2, <2>3, <5>1
      <4>. QED BY <4>1
    <3>2. ~(c.value <= curr[n][c.from])
      <4>1. curr[n][c.from] \in Nat
        BY <2>2
      <4>. QED BY <2>2, <2>3, <4>1
    <3>3. curr' = [curr EXCEPT ![n] = Debit(curr[n], c.from, c.value)] /\ noted' = noted
      BY <3>2 DEF Simulate
    <3>4. curr'[n] = Debit(curr[n], c.from, c.value)
      BY <1>1, <3>3 DEF TypeOK
    <3>5. \A u \in Users : curr'[n][u] = curr[n][u]
      BY <2>2, <3>1, <3>4, DebitElse
    <3>. QED BY <2>1, <3>3, <3>5 DEF Tidy
  <2>4. CASE ~(c.value > curr[n][c.from])
    <3>. DEFINE who == noted[n] \cup (IF c.value > 0 THEN {c.from, c.to} ELSE {})
    <3>1. /\ curr' = [curr EXCEPT ![n] =
                        [a \in Accounts |-> IF a \in who THEN orig[n][a] ELSE curr[n][a]]]
          /\ noted' = [noted EXCEPT ![n] = {}]
      BY <2>4 DEF Simulate
    <3>2. /\ noted'[n] = {}
          /\ \A a \in Accounts : curr'[n][a] = IF a \in who THEN orig[n][a] ELSE curr[n][a]
      BY <1>1, <3>1 DEF TypeOK
    <3>. QED BY <2>1, <2>2, <3>2 DEF Tidy
  <2>. QED BY <2>3, <2>4
<1>4. ASSUME NEW m \in Nodes
      PROVE  (code[m] \cap Users = {} /\ (pc[m] # "broken" => Tidy(m) /\ Payable(m)))'
  <2>1. \A t \in mempool[m] \cup adding[m] : t.from \in Users
    BY TxsAssumption DEF TypeOK, TxType
  <2>2. pc[m] # "broken" => noted'[m] = noted[m] /\ \A u \in Users : curr'[m][u] = curr[m][u]
    BY <1>2, <1>3 DEF PayableInv, Tidy
  <2>. QED BY <1>2, <2>1, <2>2 DEF PayableInv, Tidy, Payable
<1>. QED BY <1>4 DEF PayableInv

LEMMA NextPayable ==
  ASSUME UsersApart, PayeesApart, TypeOK, MempoolNeverAhead, PayableInv, SimulationsPaid,
         [Next]_vars
  PROVE  PayableInv'
<1>1. ASSUME NEW n \in Nodes, UNCHANGED <<accountVars, adding>>,
             pc' = pc \/ (pc[n] # "broken" /\ \E p : p # "broken" /\ pc' = [pc EXCEPT ![n] = p]),
             \A m \in Nodes : mempool'[m] \subseteq mempool[m]
      PROVE  PayableInv'
  <2>1. \A m \in Nodes : pc'[m] # "broken" => pc[m] # "broken"
    BY <1>1 DEF TypeOK
  <2>. QED BY <1>1, <2>1 DEF PayableInv, Tidy, Payable, accountVars
<1>2. ASSUME NEW n \in Nodes, BlockStep(n) PROVE PayableInv'
  <2>1. CASE FillBlock(n)
    BY <1>1, <2>1 DEF FillBlock, mempoolVars
  <2>2. CASE ReceiveBlock(n)
    BY <1>1, <2>2 DEF ReceiveBlock, mempoolVars
  <2>3. CASE ValidateNextBlock(n)
    <3>1. /\ pc[n] # "broken" /\ UNCHANGED <<accountVars, mempoolVars>>
          /\ \E p : p # "broken" /\ pc' = [pc EXCEPT ![n] = p]
      <4>1. CASE ValidBlock(n)
        BY <2>3, <4>1 DEF ValidateNextBlock
      <4>2. CASE ~ValidBlock(n)
        BY <2>3, <4>2 DEF ValidateNextBlock
      <4>. QED BY <4>1, <4>2
    <3>. QED BY <1>1, <3>1 DEF mempoolVars
  <2>4. CASE ProcessNextBlock(n)
    BY <1>1, <2>4 DEF ProcessNextBlock, mempoolVars
  <2>5. CASE ProcessTx(n)
    BY <2>5, ProcessTxPayable
  <2>6. CASE ProcessThrows(n)
    <3>1. \A m \in Nodes : m # n => curr'[m] = curr[m] /\ noted'[m] = noted[m] /\ pc'[m] = pc[m]
      BY <2>6 DEF ProcessThrows, TypeOK
    <3>2. pc'[n] = "broken" /\ UNCHANGED <<orig, nonce, code, mempool, adding>>
      BY <2>6 DEF ProcessThrows, TypeOK, mempoolVars
    <3>. QED BY <3>1, <3>2 DEF PayableInv, Tidy, Payable
  <2>7. CASE FinishBlock(n)
    <3>1. \A m \in Nodes : mempool'[m] \subseteq mempool[m]
      BY <2>7 DEF FinishBlock, Refreshed, TypeOK
    <3>. QED BY <1>1, <2>7, <3>1 DEF FinishBlock
  <2>. QED BY <1>2, <2>1, <2>2, <2>3, <2>4, <2>5, <2>6, <2>7 DEF BlockStep
<1>3. ASSUME NEW n \in Nodes, NEW t \in Txs, AddTxValidate(n, t) PROVE PayableInv'
  <2>1. UNCHANGED <<accountVars, mempool, pc>>
    BY <1>3 DEF AddTxValidate, blockVars
  <2>2. \A m \in Nodes : adding'[m] = IF m = n THEN adding[m] \cup {t} ELSE adding[m]
    BY <1>3 DEF AddTxValidate, TypeOK
  <2>3. t \in mempool[n] \/ t.value + t.limit <= curr[n][t.from]
    BY <1>3 DEF AddTxValidate, ValidTx, Admissible
  <2>4. ASSUME NEW m \in Nodes
        PROVE  (code[m] \cap Users = {} /\ (pc[m] # "broken" => Tidy(m) /\ Payable(m)))'
    <3>1. code'[m] \cap Users = {} /\ (pc'[m] # "broken" => Tidy(m)' /\ Payable(m))
      BY <2>1 DEF PayableInv, Tidy, accountVars
    <3>2. Payable(m) => Payable(m)'
      <4>1. CASE m = n
        BY <2>1, <2>2, <2>3, <4>1 DEF Payable, accountVars
      <4>2. CASE m # n
        BY <2>1, <2>2, <4>2 DEF Payable, accountVars
      <4>. QED BY <4>1, <4>2
    <3>. QED BY <3>1, <3>2
  <2>. QED BY <2>4 DEF PayableInv
<1>4. ASSUME NEW n \in Nodes, NEW t \in Txs, AddTxInsert(n, t) PROVE PayableInv'
  <2>1. UNCHANGED <<accountVars, pc>> /\ t \in adding[n]
    BY <1>4 DEF AddTxInsert, blockVars
  <2>2. \A m \in Nodes : mempool'[m] \cup adding'[m] \subseteq mempool[m] \cup adding[m]
    BY <1>4 DEF AddTxInsert, TypeOK
  <2>. QED BY <2>1, <2>2 DEF PayableInv, Tidy, Payable, accountVars
<1>5. ASSUME NEW n \in RpcNodes, SimulationStep(n) PROVE PayableInv'
  <2>1. ASSUME NEW c \in EthCalls \cup Estimates, Simulate(n, c) PROVE PayableInv'
    BY <2>1, SimulatePayable
  <2>2. ASSUME NEW c \in Estimates, EstimateCheck(n, c) PROVE PayableInv'
    BY <2>2 DEF EstimateCheck, PayableInv, Tidy, Payable, accountVars, mempoolVars, blockVars
  <2>. QED BY <1>5, <2>1, <2>2 DEF SimulationStep, EthCall, EstimateRun
<1>6. ASSUME NEW n \in Restarting, Restart(n) PROVE PayableInv'
  <2>1. n \in Nodes /\ UNCHANGED <<curr, nonce, code, adding, pc>> /\ adding[n] = {}
    BY <1>6, SubsetsAssumption DEF Restart, blockVars
  <2>2. \A m \in Nodes : /\ orig'[m] = IF m = n THEN curr[m] ELSE orig[m]
                         /\ noted'[m] = IF m = n THEN {} ELSE noted[m]
                         /\ mempool'[m] = IF m = n THEN {} ELSE mempool[m]
    BY <1>6 DEF Restart, TypeOK
  <2>. QED BY <2>1, <2>2 DEF PayableInv, Tidy, Payable
<1>7. CASE UNCHANGED vars
  BY <1>7 DEF PayableInv, Tidy, Payable, vars, accountVars, mempoolVars, blockVars
<1>. QED BY <1>2, <1>3, <1>4, <1>5, <1>6, <1>7 DEF Next, AddStep

\* A transaction in the mempool, or between the two locks of addTx, stays payable until
\* its nonce is used, on every node that no exception has left half way through a
\* block: only a transaction of the account itself lowers its balance.  It needs that
\* no user is a contract or is paid by one, and that users can pay the values of the
\* calls simulated in their name.
THEOREM StaysPayable ==
  ASSUME UsersApart, PayeesApart
  PROVE  Spec /\ []SimulationsPaid => []MempoolPayable
<1>1. Init => PayableInv
  BY DEF Init, PayableInv, Tidy, Payable
<1>2. TypeOK /\ MempoolNeverAhead /\ PayableInv /\ SimulationsPaid /\ [Next]_vars => PayableInv'
  BY NextPayable
<1>3. PayableInv => MempoolPayable
  BY DEF PayableInv, Payable, MempoolPayable, Admissible
<1>. QED BY <1>1, <1>2, <1>3, TypeCorrect, NeverAhead, PTL DEF Spec

-----------------------------------------------------------------------------
(* Nodes with the same blocks have the same users.  The argument is a      *)
(* history: the accounts before each transaction of each block of the      *)
(* ledger, in which every node that is not broken has its place.           *)

\* The calls that are simulated are those of EVM contracts, and do not destroy them:
\* a self-destruct leaves shouldRevert set at the node that has simulated it.
CallsApart ==
  \A c \in EthCalls \cup Estimates :
    c.from \notin Programs /\ c.to \notin Programs /\ ~c.destructs

\* The accounts on which the outcome of a transaction depends.
Watched == Users \cup Programs
Watch(b) == [a \in Watched |-> b[a]]

\* processTransaction as a function of the balances b of the watched accounts.
MovedBy(b, t) == Debit(Credit(b, RealTo(t), t.value), t.from, t.value)
FailsIn(b, t) == t.fails \/ t.destructs \/ t.fee > MovedBy(b, t)[t.from]
EvmRun(b, t) ==
  LET charged == Debit(MovedBy(b, t), t.from, t.fee)
  IN  IF FailsIn(b, t) THEN Debit(Credit(charged, t.from, t.value), RealTo(t), t.value)
                       ELSE charged

PaidBy(b, t) == Debit(b, t.from, t.value + t.limit)
GivenBy(b, t) == Credit(PaidBy(b, t), t.to, t.value)
CallFailsIn(b, t) ==
  t.to \in Programs /\ (t.fails \/ (t.payable /\ t.payout > GivenBy(b, t)[t.to]))
ClassicRun(b, t) ==
  LET back == Credit(GivenBy(b, t), t.from, t.value)
  IN  IF t.value + t.limit > b[t.from]
      THEN Credit(PaidBy(b, t), t.from, t.value)
      ELSE IF CallFailsIn(b, t)
      THEN IF t.payable THEN Credit(Debit(back, t.to, t.value), t.from, t.value) ELSE back
      ELSE IF t.to \in Programs /\ t.payable
      THEN Credit(Debit(GivenBy(b, t), t.to, t.payout), t.payee, t.payout)
      ELSE GivenBy(b, t)

\* What a node knows of the watched accounts, and what a transaction makes of it.
View(n) == [bal |-> Watch(curr[n]), nonce |-> nonce[n], code |-> code[n]]

After(v, t) ==
  [bal   |-> IF t.to \in v.code \/ t.to = Zero THEN EvmRun(v.bal, t) ELSE ClassicRun(v.bal, t),
   nonce |-> [v.nonce EXCEPT ![t.from] = @ + 1],
   code  |-> v.code \cup (IF t.to = Zero /\ ~FailsIn(v.bal, t)
                          THEN {Derive(t.from, v.nonce[t.from])} ELSE {})]

\* How many transactions of its next block a node has processed.
Position(n) == IF pc[n] = "processing" THEN Len(block[n]) - Len(todo[n]) ELSE 0

\* Nodes have a prefix of the ledger.  The block that a node is about to apply is the
\* next one of the ledger, or the node is the one that may extend the ledger.
BlocksOf(n) ==
  /\ applied[n] <= Len(ledger)
  /\ pc[n] \in {"block", "validated", "processing"} =>
       \/ applied[n] < Len(ledger) /\ block[n] = ledger[applied[n] + 1]
       \/ applied[n] = Len(ledger) /\ n = Creator(Len(ledger) + 1)
  /\ pc[n] = "processing" =>
       /\ Len(todo[n]) <= Len(block[n])
       /\ \A j \in 1..Len(todo[n]) : todo[n][j] = block[n][Position(n) + j]

\* H[k][i] are the accounts after i transactions of the k-th block.
Replays(H) ==
  \A k \in 1..Len(ledger) :
    /\ \A i \in 1..Len(ledger[k]) : H[k][i] = After(H[k][i - 1], ledger[k][i])
    /\ H[k + 1][0] = H[k][Len(ledger[k])]

InPlace(H, n) ==
  pc[n] # "broken" =>
    /\ View(n) = H[applied[n] + 1][Position(n)]
    /\ applied[n] = Len(ledger) =>
         \A i \in 1..Position(n) :
           H[Len(ledger) + 1][i] = After(H[Len(ledger) + 1][i - 1], block[n][i])

AgreeInv ==
  /\ \A n \in Nodes : ~shouldRevert[n] /\ BlocksOf(n)
  /\ \E H : Replays(H) /\ \A n \in Nodes : InPlace(H, n)

LEMMA WatchedAccounts == Watched \subseteq Accounts /\ Users \subseteq Watched
BY AccountsAssumption DEF Watched

\* To watch some accounts only is to leave out what happens to the others.
LEMMA WatchCredit ==
  ASSUME NEW b \in [Accounts -> Nat], NEW a, NEW v \in Nat
  PROVE  Watch(Credit(b, a, v)) = Credit(Watch(b), a, v)
<1>1. CASE a \in Watched
  BY <1>1, WatchedAccounts DEF Watch, Credit
<1>2. CASE a \notin Watched
  BY <1>2, WatchedAccounts DEF Watch, Credit
<1>. QED BY <1>1, <1>2

LEMMA WatchDebit ==
  ASSUME NEW b \in [Accounts -> Nat], NEW a, NEW v \in Nat
  PROVE  Watch(Debit(b, a, v)) = Debit(Watch(b), a, v)
<1>1. CASE a \in Watched
  BY <1>1, WatchedAccounts DEF Watch, Debit
<1>2. CASE a \notin Watched
  BY <1>2, WatchedAccounts DEF Watch, Debit
<1>. QED BY <1>1, <1>2

LEMMA WatchAt ==
  ASSUME NEW b, NEW a \in Watched
  PROVE  Watch(b)[a] = b[a]
BY DEF Watch

\* The outcome of a transaction depends on the watched accounts only.
LEMMA EvmRunAgrees ==
  ASSUME TypeOK, NEW n \in Nodes, NEW t \in Txs, ~shouldRevert[n]
  PROVE  /\ Watch(EvmBalances(n, t)) = EvmRun(Watch(curr[n]), t)
         /\ FailsIn(Watch(curr[n]), t) <=> EvmFails(n, t)
<1>1. /\ curr[n] \in [Accounts -> Nat]
      /\ t.value \in Nat /\ t.fee \in Nat /\ t.from \in Watched
  BY TxsAssumption, WatchedAccounts DEF TypeOK, TxType
<1>2. PICK c : c = Credit(curr[n], RealTo(t), t.value)
  OBVIOUS
<1>3. c \in [Accounts -> Nat] /\ Watch(c) = Credit(Watch(curr[n]), RealTo(t), t.value)
  BY <1>1, <1>2, CreditType, WatchCredit
<1>4. PICK m : m = EvmMoved(n, t)
  OBVIOUS
<1>5. m \in [Accounts -> Nat] /\ Watch(m) = MovedBy(Watch(curr[n]), t)
  BY <1>1, <1>2, <1>3, <1>4, DebitType, WatchDebit DEF EvmMoved, MovedBy
<1>6. PICK d : d = Debit(m, t.from, t.fee)
  OBVIOUS
<1>7. d \in [Accounts -> Nat] /\ Watch(d) = Debit(MovedBy(Watch(curr[n]), t), t.from, t.fee)
  BY <1>1, <1>5, <1>6, DebitType, WatchDebit
<1>8. PICK e : e = Credit(d, t.from, t.value)
  OBVIOUS
<1>9. e \in [Accounts -> Nat] /\ Watch(e) = Credit(Watch(d), t.from, t.value)
  BY <1>1, <1>7, <1>8, CreditType, WatchCredit
<1>10. Watch(Debit(e, RealTo(t), t.value)) = Debit(Watch(e), RealTo(t), t.value)
  BY <1>1, <1>9, WatchDebit
<1>11. m[t.from] = MovedBy(Watch(curr[n]), t)[t.from]
  BY <1>1, <1>5, WatchAt
<1>12. FailsIn(Watch(curr[n]), t) <=> EvmFails(n, t)
  BY <1>4, <1>11 DEF FailsIn, EvmFails
<1>13. CASE EvmFails(n, t)
  <2>1. EvmBalances(n, t) = Debit(e, RealTo(t), t.value)
    BY <1>4, <1>6, <1>8, <1>13 DEF EvmBalances
  <2>2. EvmRun(Watch(curr[n]), t) = Debit(Watch(e), RealTo(t), t.value)
    BY <1>7, <1>9, <1>12, <1>13 DEF EvmRun
  <2>. QED BY <1>10, <1>12, <2>1, <2>2
<1>14. CASE ~EvmFails(n, t)
  <2>1. EvmBalances(n, t) = d
    BY <1>4, <1>6, <1>14 DEF EvmBalances
  <2>2. EvmRun(Watch(curr[n]), t) = Watch(d)
    BY <1>7, <1>12, <1>14 DEF EvmRun
  <2>. QED BY <1>12, <2>1, <2>2
<1>. QED BY <1>13, <1>14

LEMMA ClassicRunAgrees ==
  ASSUME TypeOK, NEW n \in Nodes, NEW t \in Txs
  PROVE  Watch(ClassicBalances(n, t)) = ClassicRun(Watch(curr[n]), t)
<1>1. /\ curr[n] \in [Accounts -> Nat] /\ t.from \in Watched
      /\ t.value \in Nat /\ t.limit \in Nat /\ t.payout \in Nat
  BY TxsAssumption, WatchedAccounts DEF TypeOK, TxType
<1>2. t.value + t.limit \in Nat
  BY <1>1
<1>3. PICK w : w = Watch(curr[n])
  OBVIOUS
<1>4. PICK d : d = ClassicDebited(n, t)
  OBVIOUS
<1>5. d \in [Accounts -> Nat] /\ Watch(d) = PaidBy(w, t)
  BY <1>1, <1>2, <1>3, <1>4, DebitType, WatchDebit DEF ClassicDebited, PaidBy
<1>6. PICK m : m = ClassicMoved(n, t)
  OBVIOUS
<1>7. m \in [Accounts -> Nat] /\ Watch(m) = GivenBy(w, t)
  BY <1>1, <1>4, <1>5, <1>6, CreditType, WatchCredit DEF ClassicMoved, GivenBy
<1>8. w[t.from] = curr[n][t.from]
  BY <1>1, <1>3, WatchAt
<1>9. t.to \in Programs => GivenBy(w, t)[t.to] = m[t.to]
  BY <1>7, WatchAt DEF Watched
<1>10. Unpayable(n, t) <=> t.value + t.limit > w[t.from]
  BY <1>8 DEF Unpayable
<1>11. CallFails(n, t) <=> CallFailsIn(w, t)
  BY <1>6, <1>9 DEF CallFails, CallFailsIn
<1>12. CASE Unpayable(n, t)
  <2>1. ClassicBalances(n, t) = Credit(d, t.from, t.value)
    BY <1>4, <1>12 DEF ClassicBalances, ClassicFails
  <2>2. ClassicRun(w, t) = Credit(PaidBy(w, t), t.from, t.value)
    BY <1>10, <1>12 DEF ClassicRun
  <2>. QED BY <1>1, <1>3, <1>5, <2>1, <2>2, WatchCredit
<1>13. CASE ~Unpayable(n, t) /\ CallFails(n, t)
  <2>1. PICK r : r = Credit(m, t.from, t.value)
    OBVIOUS
  <2>2. r \in [Accounts -> Nat] /\ Watch(r) = Credit(GivenBy(w, t), t.from, t.value)
    BY <1>1, <1>7, <2>1, CreditType, WatchCredit
  <2>3. PICK e : e = Debit(r, t.to, t.value)
    OBVIOUS
  <2>4. e \in [Accounts -> Nat] /\ Watch(e) = Debit(Watch(r), t.to, t.value)
    BY <1>1, <2>2, <2>3, DebitType, WatchDebit
  <2>5. Watch(Credit(e, t.from, t.value)) = Credit(Watch(e), t.from, t.value)
    BY <1>1, <2>4, WatchCredit
  <2>6. CASE t.payable
    <3>1. ClassicBalances(n, t) = Credit(e, t.from, t.value)
      BY <1>6, <1>13, <2>1, <2>3, <2>6 DEF ClassicBalances, ClassicFails
    <3>2. ClassicRun(w, t) = Credit(Watch(e), t.from, t.value)
      BY <1>10, <1>11, <1>13, <2>2, <2>4, <2>6 DEF ClassicRun
    <3>. QED BY <1>3, <2>5, <3>1, <3>2
  <2>7. CASE ~t.payable
    <3>1. ClassicBalances(n, t) = r
      BY <1>6, <1>13, <2>1, <2>7 DEF ClassicBalances, ClassicFails
    <3>2. ClassicRun(w, t) = Watch(r)
      BY <1>10, <1>11, <1>13, <2>2, <2>7 DEF ClassicRun
    <3>. QED BY <1>3, <3>1, <3>2
  <2>. QED BY <2>6, <2>7
<1>14. CASE ~ClassicFails(n, t)
  <2>1. ~(t.value + t.limit > w[t.from]) /\ ~CallFailsIn(w, t)
    BY <1>10, <1>11, <1>14 DEF ClassicFails
  <2>2. CASE t.to \in Programs /\ t.payable
    <3>1. PICK e : e = Debit(m, t.to, t.payout)
      OBVIOUS
    <3>2. e \in [Accounts -> Nat] /\ Watch(e) = Debit(GivenBy(w, t), t.to, t.payout)
      BY <1>1, <1>7, <3>1, DebitType, WatchDebit
    <3>3. Watch(Credit(e, t.payee, t.payout)) = Credit(Watch(e), t.payee, t.payout)
      BY <1>1, <3>2, WatchCredit
    <3>4. ClassicBalances(n, t) = Credit(e, t.payee, t.payout)
      BY <1>6, <1>14, <2>2, <3>1 DEF ClassicBalances, ClassicFails
    <3>5. ClassicRun(w, t) = Credit(Watch(e), t.payee, t.payout)
      BY <2>1, <2>2, <3>2 DEF ClassicRun
    <3>. QED BY <1>3, <3>3, <3>4, <3>5
  <2>3. CASE ~(t.to \in Programs /\ t.payable)
    <3>1. ClassicBalances(n, t) = m
      BY <1>6, <1>14, <2>3 DEF ClassicBalances, ClassicFails
    <3>2. ClassicRun(w, t) = GivenBy(w, t)
      BY <2>1, <2>3 DEF ClassicRun
    <3>. QED BY <1>3, <1>7, <3>1, <3>2
  <2>. QED BY <2>2, <2>3
<1>. QED BY <1>12, <1>13, <1>14 DEF ClassicFails

\* A processed transaction is a function of what its node knows.
LEMMA ProcessTxView ==
  ASSUME TypeOK, NEW n \in Nodes, ~shouldRevert[n], ProcessTx(n)
  PROVE  /\ View(n)' = After(View(n), Head(todo[n]))
         /\ \A m \in Nodes : m # n => View(m)' = View(m)
<1>. DEFINE t == Head(todo[n])
<1>1. t \in Txs /\ t.from \in Users
  BY HeadType DEF ProcessTx
<1>2. /\ curr' = [curr EXCEPT ![n] = TxBalances(n, t)]
      /\ nonce' = [nonce EXCEPT ![n][t.from] = nonce[n][t.from] + 1]
      /\ code' = [code EXCEPT ![n] = code[n] \cup Deployed(n, t)]
  BY DEF ProcessTx, NonceAfter
<1>. HIDE DEF t
<1>3. PICK w : w = Watch(curr[n])
  OBVIOUS
<1>4. Watch(TxBalances(n, t)) =
        IF t.to \in code[n] \/ t.to = Zero THEN EvmRun(w, t) ELSE ClassicRun(w, t)
  BY <1>1, <1>3, EvmRunAgrees, ClassicRunAgrees DEF TxBalances, ToEvm
<1>5. Deployed(n, t) =
        IF t.to = Zero /\ ~FailsIn(w, t) THEN {Derive(t.from, nonce[n][t.from])} ELSE {}
  BY <1>1, <1>3, EvmRunAgrees DEF Deployed
<1>6. /\ curr'[n] = TxBalances(n, t) /\ code'[n] = code[n] \cup Deployed(n, t)
      /\ nonce'[n] = [nonce[n] EXCEPT ![t.from] = @ + 1]
      /\ \A m \in Nodes : m # n => curr'[m] = curr[m] /\ code'[m] = code[m] /\ nonce'[m] = nonce[m]
  BY <1>2 DEF TypeOK
<1>7. View(n)' = After(View(n), t)
  BY <1>3, <1>4, <1>5, <1>6 DEF View, After
<1>8. \A m \in Nodes : m # n => View(m)' = View(m)
  BY <1>6 DEF View
<1>. QED BY <1>7, <1>8 DEF t

\* A simulated call leaves no trace in the watched accounts.
LEMMA SimulateView ==
  ASSUME CallsApart, TypeOK, PayableInv, SimulationsPaid, NEW n \in RpcNodes,
         NEW c \in EthCalls \cup Estimates, Simulate(n, c)
  PROVE  \A m \in Nodes : /\ pc[m] # "broken" => View(m)' = View(m)
                          /\ shouldRevert'[m] = shouldRevert[m]
<1>1. n \in Nodes /\ c \in CallType /\ c.from \notin Programs /\ c.to \notin Programs
  BY SubsetsAssumption, CallsAssumption DEF CallsApart
<1>2. /\ UNCHANGED <<orig, nonce, code>>
      /\ \A m \in Nodes : m # n => curr'[m] = curr[m] /\ shouldRevert'[m] = shouldRevert[m]
  BY <1>1 DEF Simulate, TypeOK
<1>3. shouldRevert'[n] = shouldRevert[n]
  <2>1. ~c.destructs
    BY DEF CallsApart
  <2>2. \/ shouldRevert' = shouldRevert
        \/ shouldRevert' = [shouldRevert EXCEPT ![n] = shouldRevert[n] \/ c.destructs]
    BY DEF Simulate
  <2>. QED BY <1>1, <2>1, <2>2 DEF TypeOK
<1>4. ASSUME pc[n] # "broken" PROVE Watch(curr'[n]) = Watch(curr[n])
  <2>1. Tidy(n)
    BY <1>1, <1>4 DEF PayableInv
  <2>2. /\ Watched \subseteq Accounts /\ curr[n] \in [Accounts -> Nat]
        /\ c.value \in Nat /\ c.from \in Accounts /\ curr[n][c.from] \in Nat
    BY <1>1, WatchedAccounts DEF TypeOK, CallType
  <2>3. CASE c.value > curr[n][c.from]
    <3>1. c.from \notin Watched
      BY <1>1, <2>2, <2>3 DEF SimulationsPaid, Watched
    <3>2. curr' = [curr EXCEPT ![n] = Debit(curr[n], c.from, c.value)]
      BY <2>2, <2>3 DEF Simulate
    <3>3. curr'[n] = Debit(curr[n], c.from, c.value)
      BY <1>1, <3>2 DEF TypeOK
    <3>4. \A a \in Watched : curr'[n][a] = curr[n][a]
      BY <2>2, <3>1, <3>3, DebitElse
    <3>. QED BY <3>4 DEF Watch
  <2>4. CASE ~(c.value > curr[n][c.from])
    <3>. DEFINE who == noted[n] \cup (IF c.value > 0 THEN {c.from, c.to} ELSE {})
    <3>1. curr' = [curr EXCEPT ![n] =
                     [a \in Accounts |-> IF a \in who THEN orig[n][a] ELSE curr[n][a]]]
      BY <2>4 DEF Simulate
    <3>2. \A a \in Accounts : curr'[n][a] = IF a \in who THEN orig[n][a] ELSE curr[n][a]
      BY <1>1, <3>1 DEF TypeOK
    <3>3. \A a \in Watched : a \in who => a \in Users
      BY <1>1, <2>1 DEF Watched, Tidy
    <3>4. \A a \in Watched : curr'[n][a] = curr[n][a]
      BY <2>1, <2>2, <3>2, <3>3 DEF Tidy
    <3>. QED BY <3>4 DEF Watch
  <2>. QED BY <2>3, <2>4
<1>. QED BY <1>2, <1>3, <1>4 DEF View

\* The types of what tells the place of a node.
LEMMA PlaceTypes ==
  ASSUME TypeOK, NEW n \in Nodes, BlocksOf(n)
  PROVE  /\ applied[n] \in Nat /\ Len(ledger) \in Nat /\ Len(block[n]) \in Nat
         /\ Len(todo[n]) \in Nat /\ Position(n) \in Nat
<1>1. /\ applied[n] \in Nat /\ ledger \in Seq(Seq(Txs))
      /\ block[n] \in Seq(Txs) /\ todo[n] \in Seq(Txs)
  BY DEF TypeOK
<1>2. Len(ledger) \in Nat /\ Len(block[n]) \in Nat /\ Len(todo[n]) \in Nat
  BY <1>1, LenProperties
<1>3. CASE pc[n] = "processing"
  <2>1. Position(n) = Len(block[n]) - Len(todo[n]) /\ Len(todo[n]) <= Len(block[n])
    BY <1>3 DEF Position, BlocksOf
  <2>. QED BY <1>1, <1>2, <2>1
<1>4. CASE pc[n] # "processing"
  BY <1>1, <1>2, <1>4 DEF Position
<1>. QED BY <1>3, <1>4

\* A step after which all nodes are in the places they were in.
LEMMA QuietStep ==
  ASSUME TypeOK, AgreeInv, NEW n \in Nodes,
         ledger' = ledger, applied' = applied,
         \A m \in Nodes : ~shouldRevert'[m],
         \A m \in Nodes : pc'[m] # "broken" => pc[m] # "broken" /\ View(m)' = View(m),
         \A m \in Nodes : m # n =>
           pc'[m] = pc[m] /\ block'[m] = block[m] /\ todo'[m] = todo[m],
         BlocksOf(n)',
         pc'[n] # "broken" => /\ Position(n)' = Position(n)
                              /\ block'[n] = block[n] \/ Position(n) = 0
  PROVE  AgreeInv'
<1>1. PICK H : Replays(H) /\ \A m \in Nodes : InPlace(H, m)
  BY Zenon DEF AgreeInv
<1>2. \A m \in Nodes : BlocksOf(m) /\ BlocksOf(m)'
  <2>1. ASSUME NEW m \in Nodes, m # n PROVE BlocksOf(m)'
    <3>1. BlocksOf(m)
      BY DEF AgreeInv
    <3>2. Position(m)' = Position(m)
      BY <2>1 DEF Position
    <3>. QED BY <2>1, <3>1, <3>2 DEF BlocksOf
  <2>2. \A m \in Nodes : BlocksOf(m)
    BY DEF AgreeInv
  <2>. QED BY <2>1, <2>2
<1>3. Replays(H)'
  BY <1>1 DEF Replays
<1>4. ASSUME NEW m \in Nodes, pc'[m] # "broken"
      PROVE  /\ View(m)' = View(m) /\ Position(m)' = Position(m)
             /\ block'[m] = block[m] \/ Position(m) = 0
  <2>1. CASE m = n
    BY <1>4, <2>1
  <2>2. CASE m # n
    BY <1>4, <2>2 DEF Position
  <2>. QED BY <2>1, <2>2
<1>5. ASSUME NEW m \in Nodes PROVE InPlace(H, m)'
  <2>1. SUFFICES ASSUME pc'[m] # "broken"
                 PROVE  /\ View(m)' = H[applied[m] + 1][Position(m)]
                        /\ applied[m] = Len(ledger) =>
                             \A i \in 1..Position(m) :
                               H[Len(ledger) + 1][i] =
                                 After(H[Len(ledger) + 1][i - 1], block'[m][i])
    BY <1>4 DEF InPlace
  <2>2. /\ View(m) = H[applied[m] + 1][Position(m)]
        /\ applied[m] = Len(ledger) =>
             \A i \in 1..Position(m) :
               H[Len(ledger) + 1][i] = After(H[Len(ledger) + 1][i - 1], block[m][i])
    BY <1>1, <2>1 DEF InPlace
  <2>3. Position(m) = 0 => 1..Position(m) = {}
    OBVIOUS
  <2>. QED BY <1>4, <2>1, <2>2, <2>3
<1>. QED BY <1>2, <1>3, <1>5, Zenon DEF AgreeInv

\* H with v for the accounts after i transactions of block k.
Put(H, k, i, v) ==
  [x \in Nat |-> [y \in Nat |-> IF x = k /\ y = i THEN v ELSE H[x][y]]]

LEMMA PutAt ==
  ASSUME NEW H, NEW k, NEW i, NEW v, NEW x \in Nat, NEW y \in Nat
  PROVE  /\ x = k /\ y = i => Put(H, k, i, v)[x][y] = v
         /\ x # k \/ y # i => Put(H, k, i, v)[x][y] = H[x][y]
BY DEF Put

\* The node that extends the ledger is the only one that may be inside a block
\* that the ledger does not have.
LEMMA OneExtends ==
  ASSUME AgreeInv, NEW n \in Nodes, NEW m \in Nodes, m # n, TypeOK,
         applied[n] = Len(ledger), pc[n] = "processing",
         pc[m] \in {"block", "validated", "processing"}
  PROVE  applied[m] < Len(ledger)
<1>1. n = Creator(Len(ledger) + 1)
  <2>1. BlocksOf(n)
    BY DEF AgreeInv
  <2>2. ~(applied[n] < Len(ledger))
    BY <2>1, PlaceTypes
  <2>. QED BY <2>1, <2>2 DEF BlocksOf
<1>2. BlocksOf(m)
  BY DEF AgreeInv
<1>. QED BY <1>1, <1>2 DEF BlocksOf

\* A node processes the next transaction of a block.
LEMMA ProcessTxAgree ==
  ASSUME TypeOK, AgreeInv, NEW n \in Nodes, ProcessTx(n)
  PROVE  AgreeInv'
<1>. DEFINE t == Head(todo[n])  p == Position(n)  k == applied[n] + 1
<1>1. /\ pc[n] = "processing" /\ todo[n] # <<>> /\ pc' = pc /\ block' = block
      /\ applied' = applied /\ ledger' = ledger /\ todo' = [todo EXCEPT ![n] = Tail(todo[n])]
  BY DEF ProcessTx
<1>2. \A m \in Nodes : ~shouldRevert'[m]
  BY DEF ProcessTx, AgreeInv, TypeOK
<1>3. BlocksOf(n) /\ ~shouldRevert[n]
  BY DEF AgreeInv
<1>4. /\ applied[n] \in Nat /\ Len(ledger) \in Nat /\ Len(block[n]) \in Nat
      /\ Len(todo[n]) \in Nat /\ p \in Nat
  BY <1>3, PlaceTypes
<1>5. /\ t = todo[n][1] /\ Len(todo[n]) >= 1
      /\ todo'[n] = Tail(todo[n]) /\ Len(todo'[n]) = Len(todo[n]) - 1
      /\ \A j \in 1..(Len(todo[n]) - 1) : todo'[n][j] = todo[n][j + 1]
  <2>1. todo[n] \in Seq(Txs) /\ todo'[n] = Tail(todo[n])
    BY <1>1 DEF TypeOK
  <2>2. Len(todo[n]) # 0
    BY <1>1, <2>1, EmptySeq
  <2>3. /\ Len(Tail(todo[n])) = Len(todo[n]) - 1
        /\ \A j \in 1..Len(Tail(todo[n])) : Tail(todo[n])[j] = todo[n][j + 1]
    BY <1>1, <2>1, HeadTailProperties
  <2>4. t = todo[n][1]
    BY <2>1
  <2>5. Len(todo[n]) >= 1
    BY <1>4, <2>2
  <2>. QED BY <2>1, <2>3, <2>4, <2>5
<1>6. p = Len(block[n]) - Len(todo[n]) /\ Position(n)' = p + 1 /\ p + 1 \in 1..Len(block[n])
  <2>1. p = Len(block[n]) - Len(todo[n]) /\ Position(n)' = Len(block[n]) - Len(todo'[n])
    BY <1>1 DEF Position
  <2>2. Len(todo[n]) <= Len(block[n])
    BY <1>1, <1>3 DEF BlocksOf
  <2>3. PICK x \in Nat, y \in Nat : x = Len(block[n]) /\ y = Len(todo[n])
    BY <1>4
  <2>4. y <= x /\ y >= 1 /\ p = x - y /\ Position(n)' = x - (y - 1)
    BY <1>5, <2>1, <2>2, <2>3
  <2>5. Position(n)' = p + 1 /\ p + 1 \in 1..x
    BY <2>4
  <2>. QED BY <2>1, <2>3, <2>5
<1>7. t = block[n][p + 1]
  <2>1. \A j \in 1..Len(todo[n]) : todo[n][j] = block[n][p + j]
    BY <1>1, <1>3 DEF BlocksOf
  <2>2. 1 \in 1..Len(todo[n])
    BY <1>4, <1>5
  <2>. QED BY <1>5, <2>1, <2>2
<1>8. ASSUME NEW m \in Nodes, m # n
      PROVE  todo'[m] = todo[m] /\ Position(m)' = Position(m) /\ View(m)' = View(m)
  BY <1>1, <1>3, <1>8, ProcessTxView DEF TypeOK, Position
<1>9. View(n)' = After(View(n), t)
  BY <1>3, ProcessTxView
<1>10. BlocksOf(n)'
  <2>1. ASSUME NEW j \in 1..Len(todo'[n]) PROVE todo'[n][j] = block[n][p + 1 + j]
    <3>1. j \in 1..(Len(todo[n]) - 1) /\ j + 1 \in 1..Len(todo[n])
      BY <1>4, <1>5
    <3>2. todo[n][j + 1] = block[n][p + (j + 1)]
      BY <1>1, <1>3, <3>1 DEF BlocksOf
    <3>3. p + (j + 1) = p + 1 + j
      BY <1>4
    <3>. QED BY <1>5, <3>1, <3>2, <3>3
  <2>2. Len(todo'[n]) <= Len(block[n])
    BY <1>1, <1>3, <1>4, <1>5 DEF BlocksOf
  <2>. QED BY <1>1, <1>3, <1>6, <2>1, <2>2 DEF BlocksOf
<1>11. \A m \in Nodes : BlocksOf(m)'
  <2>1. ASSUME NEW m \in Nodes, m # n PROVE BlocksOf(m)'
    <3>1. BlocksOf(m)
      BY DEF AgreeInv
    <3>. QED BY <1>1, <1>8, <2>1, <3>1 DEF BlocksOf
  <2>. QED BY <1>10, <2>1
<1>12. PICK H : Replays(H) /\ \A m \in Nodes : InPlace(H, m)
  BY Zenon DEF AgreeInv
<1>13. View(n) = H[k][p]
  BY <1>1, <1>12 DEF InPlace
<1>. HIDE DEF t, p, k
<1>14. CASE applied[n] < Len(ledger)
  <2>1. k \in 1..Len(ledger) /\ block[n] = ledger[k] /\ p + 1 \in 1..Len(ledger[k])
    <3>1. block[n] = ledger[applied[n] + 1]
      BY <1>1, <1>3, <1>4, <1>14 DEF BlocksOf
    <3>2. k \in 1..Len(ledger)
      BY <1>4, <1>14 DEF k
    <3>3. block[n] = ledger[k]
      BY <3>1 DEF k
    <3>. QED BY <1>6, <3>2, <3>3
  <2>2. PICK i : i = p + 1
    OBVIOUS
  <2>3. H[k][i] = After(H[k][i - 1], ledger[k][i]) /\ i - 1 = p
    <3>1. \A j \in 1..Len(ledger[k]) : H[k][j] = After(H[k][j - 1], ledger[k][j])
      BY <1>12, <2>1 DEF Replays
    <3>2. i - 1 = p
      BY <1>4, <2>2
    <3>. QED BY <2>1, <2>2, <3>1, <3>2
  <2>4. View(n)' = H[k][p + 1]
    BY <1>7, <1>9, <1>13, <2>1, <2>2, <2>3
  <2>5. applied[n] # Len(ledger)
    BY <1>4, <1>14
  <2>6. InPlace(H, n)'
    BY <1>1, <1>6, <2>4, <2>5 DEF InPlace, k
  <2>7. ASSUME NEW m \in Nodes, m # n PROVE InPlace(H, m)'
    <3>1. InPlace(H, m)
      BY <1>12
    <3>. QED BY <1>1, <1>8, <2>7, <3>1 DEF InPlace
  <2>8. Replays(H)'
    BY <1>1, <1>12 DEF Replays
  <2>. QED BY <1>2, <1>11, <2>6, <2>7, <2>8, Zenon DEF AgreeInv
<1>15. CASE ~(applied[n] < Len(ledger))
  <2>1. applied[n] = Len(ledger) /\ k = Len(ledger) + 1 /\ k \in Nat /\ p + 1 \in Nat
    BY <1>3, <1>4, <1>15 DEF BlocksOf, k
  <2>2. PICK G : G = Put(H, k, p + 1, View(n)')
    OBVIOUS
  <2>3. \A x, y \in Nat : x # k \/ y # p + 1 => G[x][y] = H[x][y]
    BY <2>2, PutAt
  <2>4. G[k][p + 1] = View(n)'
    BY <2>1, <2>2, PutAt
  <2>5. Replays(G)'
    <3>1. ASSUME NEW x \in 1..Len(ledger)
          PROVE  /\ \A i \in 1..Len(ledger[x]) : G[x][i] = After(G[x][i - 1], ledger[x][i])
                 /\ G[x + 1][0] = G[x][Len(ledger[x])]
      <4>1. x \in Nat /\ x # k /\ x + 1 \in Nat
        BY <1>4, <2>1
      <4>2. Len(ledger[x]) \in Nat
        BY <3>1, ElementOfSeq, LenProperties DEF TypeOK
      <4>3. \A i \in 1..Len(ledger[x]) : i \in Nat /\ i - 1 \in Nat
        BY <4>2
      <4>4. /\ \A i \in 1..Len(ledger[x]) : H[x][i] = After(H[x][i - 1], ledger[x][i])
            /\ H[x + 1][0] = H[x][Len(ledger[x])]
        BY <1>12 DEF Replays
      <4>5. G[x + 1][0] = H[x + 1][0]
        BY <1>4, <2>3, <4>1
      <4>. QED BY <2>3, <4>1, <4>2, <4>3, <4>4, <4>5
    <3>. QED BY <1>1, <3>1 DEF Replays
  <2>6. InPlace(G, n)'
    <3>1. ASSUME NEW i \in 1..(p + 1) PROVE G[k][i] = After(G[k][i - 1], block[n][i])
      <4>1. i \in Nat /\ i - 1 \in Nat /\ i - 1 # p + 1 /\ (i = p + 1 \/ i \in 1..p)
        BY <1>4
      <4>2. G[k][i - 1] = H[k][i - 1]
        BY <2>1, <2>3, <4>1
      <4>3. CASE i = p + 1
        <5>1. i - 1 = p
          BY <1>4, <4>3
        <5>. QED BY <1>7, <1>9, <1>13, <2>4, <4>2, <4>3, <5>1
      <4>4. CASE i \in 1..p
        <5>1. i # p + 1
          BY <1>4, <4>4
        <5>2. H[k][i] = After(H[k][i - 1], block[n][i])
          BY <1>1, <1>12, <2>1, <4>4 DEF InPlace, p
        <5>. QED BY <2>1, <2>3, <4>1, <4>2, <5>1, <5>2
      <4>. QED BY <4>1, <4>3, <4>4
    <3>. QED BY <1>1, <1>6, <2>1, <2>4, <3>1 DEF InPlace
  <2>7. ASSUME NEW m \in Nodes, m # n PROVE InPlace(G, m)'
    <3>1. InPlace(H, m) /\ BlocksOf(m)
      BY <1>12 DEF AgreeInv
    <3>2. applied[m] \in Nat /\ Position(m) \in Nat
      BY <3>1, PlaceTypes
    <3>3. applied[m] = Len(ledger) => Position(m) = 0
      BY <1>1, <1>4, <2>1, <2>7, OneExtends DEF Position
    <3>4. G[applied[m] + 1][Position(m)] = H[applied[m] + 1][Position(m)]
      BY <1>4, <2>1, <2>3, <3>2, <3>3
    <3>5. applied[m] = Len(ledger) => 1..Position(m) = {}
      BY <3>3
    <3>. QED BY <1>1, <1>8, <2>7, <3>1, <3>4, <3>5 DEF InPlace
  <2>. QED BY <1>2, <1>11, <2>5, <2>6, <2>7, Zenon DEF AgreeInv
<1>. QED BY <1>14, <1>15

\* A node finishes a block, which may be a new one of the ledger.
LEMMA FinishBlockAgree ==
  ASSUME TypeOK, AgreeInv, NEW n \in Nodes, FinishBlock(n)
  PROVE  AgreeInv'
<1>1. /\ pc[n] = "processing" /\ todo[n] = <<>> /\ todo' = todo
      /\ applied' = [applied EXCEPT ![n] = applied[n] + 1]
      /\ ledger' = IF applied[n] = Len(ledger) THEN Append(ledger, block[n]) ELSE ledger
      /\ block' = [block EXCEPT ![n] = <<>>] /\ pc' = [pc EXCEPT ![n] = "idle"]
      /\ UNCHANGED accountVars
  BY DEF FinishBlock
<1>2. \A m \in Nodes : ~shouldRevert'[m] /\ View(m)' = View(m)
  BY <1>1 DEF AgreeInv, View, accountVars
<1>3. \A m \in Nodes : m # n =>
        /\ pc'[m] = pc[m] /\ block'[m] = block[m] /\ applied'[m] = applied[m]
        /\ todo'[m] = todo[m] /\ Position(m)' = Position(m)
  BY <1>1 DEF TypeOK, Position
<1>4. pc'[n] = "idle" /\ applied'[n] = applied[n] + 1 /\ Position(n)' = 0
  BY <1>1 DEF TypeOK, Position
<1>5. \A m \in Nodes : /\ BlocksOf(m) /\ applied[m] \in Nat /\ Position(m) \in Nat
                       /\ Len(ledger) \in Nat /\ applied[m] <= Len(ledger)
  BY PlaceTypes DEF AgreeInv, BlocksOf
<1>6. Len(block[n]) \in Nat /\ Position(n) = Len(block[n]) /\ block[n] \in Seq(Txs)
  <2>1. block[n] \in Seq(Txs) /\ Len(todo[n]) = 0
    BY <1>1 DEF TypeOK
  <2>2. Len(block[n]) \in Nat
    BY <2>1, LenProperties
  <2>. QED BY <1>1, <2>1, <2>2 DEF Position
<1>7. PICK H : Replays(H) /\ \A m \in Nodes : InPlace(H, m)
  BY Zenon DEF AgreeInv
<1>8. View(n) = H[applied[n] + 1][Len(block[n])]
  BY <1>1, <1>6, <1>7 DEF InPlace
<1>9. CASE applied[n] # Len(ledger)
  <2>1. ledger' = ledger /\ applied[n] < Len(ledger) /\ applied[n] + 1 \in 1..Len(ledger)
    BY <1>1, <1>5, <1>9
  <2>2. block[n] = ledger[applied[n] + 1]
    BY <1>1, <1>5, <1>9 DEF BlocksOf
  <2>3. \A m \in Nodes : BlocksOf(m)'
    <3>1. ASSUME NEW m \in Nodes, m # n PROVE BlocksOf(m)'
      <4>1. BlocksOf(m)
        BY <1>5
      <4>. QED BY <1>3, <2>1, <3>1, <4>1 DEF BlocksOf
    <3>2. BlocksOf(n)'
      <4>1. applied[n] + 1 <= Len(ledger)
        BY <1>5, <2>1
      <4>. QED BY <1>4, <2>1, <4>1 DEF BlocksOf
    <3>. QED BY <3>1, <3>2
  <2>4. Replays(H)'
    BY <1>7, <2>1 DEF Replays
  <2>5. View(n) = H[applied[n] + 1 + 1][0]
    BY <1>7, <1>8, <2>1, <2>2 DEF Replays
  <2>6. InPlace(H, n)'
    <3>1. 1..0 = {}
      OBVIOUS
    <3>. QED BY <1>2, <1>4, <2>5, <3>1 DEF InPlace
  <2>7. ASSUME NEW m \in Nodes, m # n PROVE InPlace(H, m)'
    <3>1. InPlace(H, m)
      BY <1>7
    <3>. QED BY <1>2, <1>3, <2>1, <2>7, <3>1 DEF InPlace
  <2>. QED BY <1>2, <2>3, <2>4, <2>6, <2>7, Zenon DEF AgreeInv
<1>10. CASE applied[n] = Len(ledger)
  <2>1. PICK k \in Nat : k = Len(ledger)
    BY <1>5
  <2>2. /\ ledger' = Append(ledger, block[n]) /\ Len(ledger') = k + 1
        /\ ledger'[k + 1] = block[n]
        /\ \A i \in 1..k : ledger'[i] = ledger[i]
    <3>1. ledger \in Seq(Seq(Txs))
      BY DEF TypeOK
    <3>. QED BY <1>1, <1>6, <1>10, <2>1, <3>1, AppendProperties
  <2>3. PICK G : G = Put(H, k + 2, 0, H[k + 1][Len(block[n])])
    OBVIOUS
  <2>4. \A x, y \in Nat : x # k + 2 \/ y # 0 => G[x][y] = H[x][y]
    BY <2>3, PutAt
  <2>5. G[k + 2][0] = H[k + 1][Len(block[n])]
    BY <2>1, <2>3, PutAt
  <2>6. ASSUME NEW x \in 1..(k + 1)
        PROVE  /\ \A i \in 1..Len(ledger'[x]) : G[x][i] = After(G[x][i - 1], ledger'[x][i])
               /\ G[x + 1][0] = G[x][Len(ledger'[x])]
    <3>1. x \in Nat /\ x # k + 2 /\ x + 1 \in Nat /\ (x = k + 1 \/ x \in 1..k)
      BY <2>1
    <3>2. \A y \in Nat : G[x][y] = H[x][y]
      BY <2>4, <3>1
    <3>3. CASE x = k + 1
      <4>1. \A i \in 1..Len(block[n]) : H[k + 1][i] = After(H[k + 1][i - 1], block[n][i])
        BY <1>1, <1>6, <1>7, <1>10, <2>1 DEF InPlace
      <4>2. \A i \in 1..Len(block[n]) : i \in Nat /\ i - 1 \in Nat
        BY <1>6
      <4>3. G[x + 1][0] = H[k + 1][Len(block[n])]
        <5>1. x + 1 = k + 2
          BY <2>1, <3>3
        <5>. QED BY <2>5, <5>1
      <4>. QED BY <1>6, <2>2, <3>2, <3>3, <4>1, <4>2, <4>3
    <3>4. CASE x \in 1..k
      <4>1. ledger'[x] = ledger[x] /\ Len(ledger[x]) \in Nat
        BY <2>1, <2>2, <3>4, ElementOfSeq, LenProperties DEF TypeOK
      <4>2. \A i \in 1..Len(ledger[x]) : i \in Nat /\ i - 1 \in Nat
        BY <4>1
      <4>3. /\ \A i \in 1..Len(ledger[x]) : H[x][i] = After(H[x][i - 1], ledger[x][i])
            /\ H[x + 1][0] = H[x][Len(ledger[x])]
        BY <1>7, <2>1, <3>4 DEF Replays
      <4>4. G[x + 1][0] = H[x + 1][0]
        <5>1. x + 1 # k + 2
          BY <2>1, <3>4
        <5>. QED BY <2>4, <3>1, <5>1
      <4>. QED BY <3>2, <4>1, <4>2, <4>3, <4>4
    <3>. QED BY <3>1, <3>3, <3>4
  <2>7. Replays(G)'
    BY <2>2, <2>6 DEF Replays
  <2>8. InPlace(G, n)'
    <3>1. 1..0 = {} /\ applied[n] + 1 + 1 = k + 2 /\ applied[n] + 1 = k + 1
      BY <1>10, <2>1
    <3>2. View(n) = G[k + 2][0]
      BY <1>8, <2>5, <3>1
    <3>. QED BY <1>2, <1>4, <3>1, <3>2 DEF InPlace
  <2>9. ASSUME NEW m \in Nodes, m # n PROVE InPlace(G, m)' /\ BlocksOf(m)'
    <3>1. InPlace(H, m) /\ BlocksOf(m) /\ applied[m] \in Nat /\ Position(m) \in Nat
      BY <1>5, <1>7
    <3>2. applied[m] <= k /\ applied[m] + 1 # k + 2 /\ applied[m] # k + 1 /\ applied[m] + 1 \in Nat
      BY <1>5, <2>1, <3>1
    <3>3. G[applied[m] + 1][Position(m)] = H[applied[m] + 1][Position(m)]
      BY <2>4, <3>1, <3>2
    <3>4. InPlace(G, m)'
      BY <1>2, <1>3, <2>2, <2>9, <3>1, <3>2, <3>3 DEF InPlace
    <3>5. pc[m] \in {"block", "validated", "processing"} =>
            applied[m] < k + 1 /\ block[m] = ledger'[applied[m] + 1]
      <4>1. SUFFICES ASSUME pc[m] \in {"block", "validated", "processing"}
                     PROVE  applied[m] < k + 1 /\ block[m] = ledger'[applied[m] + 1]
        OBVIOUS
      <4>2. applied[m] < k
        BY <1>1, <1>10, <2>1, <2>9, <4>1, OneExtends
      <4>3. block[m] = ledger[applied[m] + 1]
        BY <2>1, <3>1, <4>1, <4>2 DEF BlocksOf
      <4>4. applied[m] + 1 \in 1..k /\ applied[m] < k + 1
        BY <2>1, <3>1, <4>2
      <4>. QED BY <2>2, <4>3, <4>4
    <3>6. pc[m] = "processing" =>
            /\ Len(todo[m]) <= Len(block[m])
            /\ \A j \in 1..Len(todo[m]) : todo[m][j] = block[m][Position(m) + j]
      BY <3>1 DEF BlocksOf
    <3>7. applied[m] <= k + 1
      BY <3>1, <3>2
    <3>8. BlocksOf(m)'
      BY <1>3, <2>2, <2>9, <3>5, <3>6, <3>7 DEF BlocksOf
    <3>. QED BY <3>4, <3>8
  <2>10. BlocksOf(n)'
    BY <1>4, <1>10, <2>1, <2>2 DEF BlocksOf
  <2>. QED BY <1>2, <2>7, <2>8, <2>9, <2>10, Zenon DEF AgreeInv
<1>. QED BY <1>9, <1>10

LEMMA NextAgree ==
  ASSUME CallsApart, TypeOK, PayableInv, SimulationsPaid, AgreeInv, [Next]_vars
  PROVE  AgreeInv'
<1>0. \A m \in Nodes : ~shouldRevert[m] /\ BlocksOf(m)
  BY DEF AgreeInv
<1>1. ASSUME NEW n \in Nodes, UNCHANGED <<pc, block, todo, applied, ledger>>,
             \A m \in Nodes : /\ ~shouldRevert'[m]
                              /\ pc[m] # "broken" => View(m)' = View(m)
      PROVE  AgreeInv'
  <2>1. BlocksOf(n)' /\ Position(n)' = Position(n)
    BY <1>0, <1>1 DEF BlocksOf, Position
  <2>. QED BY <1>1, <2>1, QuietStep
<1>2. ASSUME NEW n \in Nodes, UNCHANGED <<accountVars, applied, ledger>>,
             pc[n] # "processing", pc[n] # "broken", NEW p, pc' = [pc EXCEPT ![n] = p],
             \A m \in Nodes : m # n => block'[m] = block[m] /\ todo'[m] = todo[m],
             BlocksOf(n)', Position(n)' = 0
      PROVE  AgreeInv'
  <2>1. \A m \in Nodes : m # n => pc'[m] = pc[m]
    BY <1>2 DEF TypeOK
  <2>2. \A m \in Nodes : View(m)' = View(m) /\ ~shouldRevert'[m]
    BY <1>0, <1>2 DEF View, accountVars
  <2>3. Position(n) = 0
    BY <1>2 DEF Position
  <2>4. \A m \in Nodes : pc'[m] # "broken" => pc[m] # "broken"
    BY <1>2, <2>1
  <2>. QED BY <1>2, <2>1, <2>2, <2>3, <2>4, QuietStep
<1>3. ASSUME NEW n \in Nodes, BlockStep(n) PROVE AgreeInv'
  <2>0. BlocksOf(n) /\ applied[n] \in Nat /\ Len(ledger) \in Nat /\ Len(block[n]) \in Nat
    BY <1>0, PlaceTypes
  <2>1. CASE FillBlock(n)
    <3>1. PICK s : block' = [block EXCEPT ![n] = s]
      BY <2>1 DEF FillBlock
    <3>2. /\ pc[n] = "idle" /\ pc' = [pc EXCEPT ![n] = "block"] /\ n = Creator(applied[n] + 1)
          /\ applied[n] = Len(ledger) /\ UNCHANGED <<accountVars, todo, applied, ledger>>
      BY <2>1 DEF FillBlock
    <3>3. pc'[n] = "block" /\ \A m \in Nodes : m # n => block'[m] = block[m]
      BY <3>1, <3>2 DEF TypeOK
    <3>4. BlocksOf(n)' /\ Position(n)' = 0
      BY <2>0, <3>2, <3>3 DEF BlocksOf, Position
    <3>. QED BY <1>2, <3>2, <3>3, <3>4
  <2>2. CASE ReceiveBlock(n)
    <3>1. /\ pc[n] = "idle" /\ pc' = [pc EXCEPT ![n] = "block"] /\ applied[n] < Len(ledger)
          /\ block' = [block EXCEPT ![n] = ledger[applied[n] + 1]]
          /\ UNCHANGED <<accountVars, todo, applied, ledger>>
      BY <2>2 DEF ReceiveBlock
    <3>2. /\ pc'[n] = "block" /\ block'[n] = ledger[applied[n] + 1]
          /\ \A m \in Nodes : m # n => block'[m] = block[m]
      BY <3>1 DEF TypeOK
    <3>3. BlocksOf(n)' /\ Position(n)' = 0
      BY <2>0, <3>1, <3>2 DEF BlocksOf, Position
    <3>. QED BY <1>2, <3>1, <3>2, <3>3
  <2>3. CASE ValidateNextBlock(n)
    <3>1. PICK p \in {"validated", "refused"} : pc' = [pc EXCEPT ![n] = p]
      <4>1. CASE ValidBlock(n)
        BY <2>3, <4>1 DEF ValidateNextBlock
      <4>2. CASE ~ValidBlock(n)
        BY <2>3, <4>2 DEF ValidateNextBlock
      <4>. QED BY <4>1, <4>2
    <3>2. pc[n] = "block" /\ UNCHANGED <<accountVars, block, todo, applied, ledger>>
      BY <2>3 DEF ValidateNextBlock
    <3>3. pc'[n] = p
      BY <3>1 DEF TypeOK
    <3>4. BlocksOf(n)' /\ Position(n)' = 0
      BY <2>0, <3>1, <3>2, <3>3 DEF BlocksOf, Position
    <3>. QED BY <1>2, <3>1, <3>2, <3>4
  <2>4. CASE ProcessNextBlock(n)
    <3>1. /\ pc[n] = "validated" /\ pc' = [pc EXCEPT ![n] = "processing"]
          /\ todo' = [todo EXCEPT ![n] = block[n]]
          /\ UNCHANGED <<accountVars, block, applied, ledger>>
      BY <2>4 DEF ProcessNextBlock
    <3>2. /\ pc'[n] = "processing" /\ todo'[n] = block[n]
          /\ \A m \in Nodes : m # n => todo'[m] = todo[m]
      BY <3>1 DEF TypeOK
    <3>3. Position(n)' = 0
      <4>1. Len(block[n]) - Len(block[n]) = 0
        BY <2>0
      <4>. QED BY <3>1, <3>2, <4>1 DEF Position
    <3>4. \A j \in 1..Len(block[n]) : block[n][j] = block[n][0 + j]
      BY <2>0
    <3>5. BlocksOf(n)'
      BY <2>0, <3>1, <3>2, <3>3, <3>4 DEF BlocksOf
    <3>. QED BY <1>2, <3>1, <3>2, <3>3, <3>5
  <2>5. CASE ProcessTx(n)
    BY <2>5, ProcessTxAgree
  <2>6. CASE ProcessThrows(n)
    <3>1. /\ pc[n] = "processing" /\ pc' = [pc EXCEPT ![n] = "broken"]
          /\ UNCHANGED <<nonce, code, shouldRevert, block, todo, applied, ledger>>
      BY <2>6 DEF ProcessThrows
    <3>2. \A m \in Nodes : m # n => curr'[m] = curr[m] /\ pc'[m] = pc[m]
      BY <2>6 DEF ProcessThrows, TypeOK
    <3>3. pc'[n] = "broken" /\ \A m \in Nodes : m # n => View(m)' = View(m)
      BY <3>1, <3>2 DEF TypeOK, View
    <3>4. BlocksOf(n)'
      BY <2>0, <3>1, <3>3 DEF BlocksOf
    <3>. QED BY <1>0, <3>1, <3>2, <3>3, <3>4, QuietStep
  <2>7. CASE FinishBlock(n)
    BY <2>7, FinishBlockAgree
  <2>. QED BY <1>3, <2>1, <2>2, <2>3, <2>4, <2>5, <2>6, <2>7 DEF BlockStep
<1>4. ASSUME UNCHANGED <<accountVars, blockVars>>, NEW n \in Nodes PROVE AgreeInv'
  BY <1>0, <1>1, <1>4 DEF View, accountVars, blockVars
<1>5. ASSUME NEW n \in Nodes, AddStep(n) PROVE AgreeInv'
  BY <1>4, <1>5 DEF AddStep, AddTxValidate, AddTxInsert
<1>6. ASSUME NEW n \in RpcNodes, SimulationStep(n) PROVE AgreeInv'
  <2>1. n \in Nodes
    BY SubsetsAssumption
  <2>2. ASSUME NEW c \in EthCalls \cup Estimates, Simulate(n, c) PROVE AgreeInv'
    <3>1. UNCHANGED <<pc, block, todo, applied, ledger>>
      BY <2>2 DEF Simulate, blockVars
    <3>2. \A m \in Nodes : /\ pc[m] # "broken" => View(m)' = View(m)
                           /\ shouldRevert'[m] = shouldRevert[m]
      BY <2>2, SimulateView
    <3>. QED BY <1>0, <1>1, <2>1, <3>1, <3>2
  <2>3. ASSUME NEW c \in Estimates, EstimateCheck(n, c) PROVE AgreeInv'
    BY <1>4, <2>1, <2>3 DEF EstimateCheck
  <2>. QED BY <1>6, <2>2, <2>3 DEF SimulationStep, EthCall, EstimateRun
<1>7. ASSUME NEW n \in Restarting, Restart(n) PROVE AgreeInv'
  <2>1. n \in Nodes /\ UNCHANGED <<curr, nonce, code, blockVars>>
    BY <1>7, SubsetsAssumption DEF Restart
  <2>2. \A m \in Nodes : View(m)' = View(m) /\ ~shouldRevert'[m]
    BY <1>0, <1>7, <2>1 DEF View, Restart, TypeOK
  <2>. QED BY <1>1, <2>1, <2>2 DEF blockVars
<1>8. CASE UNCHANGED vars
  <2>1. CASE Nodes = {}
    <3>1. PICK H : Replays(H)
      BY Zenon DEF AgreeInv
    <3>2. Replays(H)'
      BY <1>8, <3>1 DEF Replays, vars, blockVars
    <3>. QED BY <2>1, <3>2, Zenon DEF AgreeInv
  <2>2. CASE Nodes # {}
    BY <1>4, <1>8, <2>2 DEF vars
  <2>. QED BY <2>1, <2>2
<1>. QED BY <1>3, <1>5, <1>6, <1>7, <1>8 DEF Next

LEMMA InitAgree == Init => AgreeInv
<1>. SUFFICES ASSUME Init PROVE AgreeInv
  OBVIOUS
<1>1. /\ ledger = <<>> /\ Len(ledger) = 0
      /\ \A n \in Nodes : /\ pc[n] = "idle" /\ applied[n] = 0 /\ curr[n] = GenesisBalance
                          /\ nonce[n] = [u \in Users |-> 0] /\ code[n] = {} /\ ~shouldRevert[n]
  BY DEF Init
<1>2. PICK v : v = [bal |-> Watch(GenesisBalance), nonce |-> [u \in Users |-> 0], code |-> {}]
  OBVIOUS
<1>3. PICK H : H = [k \in Nat |-> [i \in Nat |-> v]]
  OBVIOUS
<1>4. \A n \in Nodes : BlocksOf(n) /\ Position(n) = 0
  <2>. SUFFICES ASSUME NEW n \in Nodes PROVE BlocksOf(n) /\ Position(n) = 0
    OBVIOUS
  <2>1. pc[n] = "idle" /\ applied[n] <= Len(ledger)
    BY <1>1
  <2>. QED BY <2>1 DEF BlocksOf, Position
<1>5. \A n \in Nodes : InPlace(H, n)
  <2>1. \A n \in Nodes : View(n) = v
    BY <1>1, <1>2 DEF View
  <2>2. H[0 + 1][0] = v /\ 1..0 = {}
    BY <1>3
  <2>. QED BY <1>1, <1>4, <2>1, <2>2 DEF InPlace
<1>6. Replays(H)
  BY <1>1 DEF Replays
<1>. QED BY <1>1, <1>4, <1>5, <1>6, Zenon DEF AgreeInv

\* Replicas agree: two nodes that have applied the same number of blocks, and are not
\* inside one, have the same balances and nonces of all users, in any network, however
\* addTx, blocks, restarts and simulated calls interleave at each of them.  It needs the
\* conditions of StaysPayable, and that no simulated call is made in the name of a
\* C++ contract or self-destructs.
THEOREM ReplicasAgree ==
  ASSUME UsersApart, PayeesApart, CallsApart
  PROVE  Spec /\ []SimulationsPaid => []UsersAgree
<1>1. Init => PayableInv /\ AgreeInv
  BY InitAgree DEF Init, PayableInv, Tidy, Payable
<1>2. TypeOK /\ MempoolNeverAhead /\ PayableInv /\ SimulationsPaid /\ [Next]_vars => PayableInv'
  BY NextPayable
<1>3. TypeOK /\ PayableInv /\ AgreeInv /\ SimulationsPaid /\ [Next]_vars => AgreeInv'
  BY NextAgree
<1>4. AgreeInv => UsersAgree
  <2>. SUFFICES ASSUME AgreeInv, NEW m \in Nodes, NEW n \in Nodes, NEW u \in Users,
                       applied[m] = applied[n],
                       {pc[m], pc[n]} \cap {"processing", "broken"} = {}
                PROVE  curr[m][u] = curr[n][u] /\ nonce[m][u] = nonce[n][u]
    BY DEF UsersAgree
  <2>1. PICK H : \A x \in Nodes : InPlace(H, x)
    BY Zenon DEF AgreeInv
  <2>2. pc[m] \notin {"processing", "broken"} /\ pc[n] \notin {"processing", "broken"}
    OBVIOUS
  <2>3. View(m) = H[applied[m] + 1][0] /\ View(n) = H[applied[n] + 1][0]
    BY <2>1, <2>2 DEF InPlace, Position
  <2>4. Watch(curr[m]) = Watch(curr[n]) /\ nonce[m] = nonce[n]
    BY <2>3 DEF View
  <2>. QED BY <2>4, WatchAt, WatchedAccounts
<1>. QED BY <1>1, <1>2, <1>3, <1>4, TypeCorrect, NeverAhead, PTL DEF Spec

-----------------------------------------------------------------------------
(* A failed transaction of an EVM contract changes nothing but the fee *)

\* The gas that is used is what the EVM has not left of the limit.
FeesLimited == \A t \in Txs : t.fee <= t.limit

\* No C++ contract fails: none throws, and none pays out more than it was just sent.
ProgramsSucceed ==
  \A t \in Txs : t.to \in Programs => ~t.fails /\ (t.payable => t.payout <= t.value)

\* What the catch block of an EVM call leaves: the value has gone to and fro.
LEMMA EvmReverts ==
  ASSUME NEW b \in [Accounts -> Nat], NEW from \in Accounts, NEW to,
         NEW v \in Nat, NEW fee \in Nat, v + fee <= b[from], NEW a \in Accounts
  PROVE  Debit(Credit(Debit(Debit(Credit(b, to, v), from, v), from, fee), from, v), to, v)[a] =
           IF a = from THEN b[a] - fee ELSE b[a]
<1>1. b[from] \in Nat /\ b[a] \in Nat /\ v <= b[from] /\ v <= b[from] + v
      /\ fee <= b[from] - v /\ fee <= b[from]
  OBVIOUS
<1>2. PICK c : c = Credit(b, to, v)
  OBVIOUS
<1>3. /\ c \in [Accounts -> Nat]
      /\ \A x \in Accounts : c[x] = IF x = to THEN b[x] + v ELSE b[x]
  BY <1>2, CreditType, CreditAt
<1>4. PICK m : m = Debit(c, from, v)
  OBVIOUS
<1>5. /\ m \in [Accounts -> Nat]
      /\ \A x \in Accounts : x # from => m[x] = c[x]
      /\ m[from] = c[from] - v
  BY <1>1, <1>3, <1>4, DebitType DEF Debit
<1>6. PICK d : d = Debit(m, from, fee)
  OBVIOUS
<1>7. fee <= m[from]
  BY <1>1, <1>3, <1>5
<1>8. /\ d \in [Accounts -> Nat]
      /\ \A x \in Accounts : x # from => d[x] = m[x]
      /\ d[from] = m[from] - fee
  BY <1>5, <1>6, <1>7, DebitType DEF Debit
<1>9. PICK e : e = Credit(d, from, v)
  OBVIOUS
<1>10. /\ e \in [Accounts -> Nat]
       /\ \A x \in Accounts : e[x] = IF x = from THEN d[x] + v ELSE d[x]
  BY <1>8, <1>9, CreditType, CreditAt
<1>11. e[a] = IF a = from THEN c[a] - fee ELSE c[a]
  <2>1. CASE a = from
    <3>1. c[a] \in Nat
      BY <1>3
    <3>. QED BY <1>5, <1>8, <1>10, <2>1, <3>1
  <2>2. CASE a # from
    BY <1>5, <1>8, <1>10, <2>2
  <2>. QED BY <2>1, <2>2
<1>12. CASE a = to
  <2>1. c[a] = b[a] + v /\ v <= e[a]
    BY <1>1, <1>3, <1>11, <1>12
  <2>2. Debit(e, to, v)[a] = e[a] - v
    BY <1>10, <1>12, <2>1 DEF Debit
  <2>. QED BY <1>1, <1>2, <1>4, <1>6, <1>9, <1>11, <2>1, <2>2
<1>13. CASE a # to
  <2>1. Debit(e, to, v)[a] = e[a] /\ c[a] = b[a]
    BY <1>3, <1>10, <1>13, DebitElse
  <2>. QED BY <1>2, <1>4, <1>6, <1>9, <1>11, <2>1
<1>. QED BY <1>12, <1>13

\* When C++ contracts do not fail, a failed transaction that its sender can pay for
\* changes nothing but the sender's balance, by no more than the gas limit: the catch
\* block of EVM calls undoes the transfer exactly, also for a contract that was being
\* created and whatever the accounts hold.
THEOREM FailuresRevert ==
  ASSUME FeesLimited, ProgramsSucceed
  PROVE  Spec => FailedTxReverted
<1>1. ASSUME TypeOK, NEW n \in Nodes, ProcessTx(n), TxFails(n, Head(todo[n])),
             ~Unpayable(n, Head(todo[n]))
      PROVE  /\ code'[n] = code[n]
             /\ \A a \in Accounts \ {Head(todo[n]).from} : curr'[n][a] = curr[n][a]
             /\ curr'[n][Head(todo[n]).from] \in
                  (curr[n][Head(todo[n]).from] - Head(todo[n]).limit)..curr[n][Head(todo[n]).from]
  <2>1. PICK t : t = Head(todo[n])
    OBVIOUS
  <2>2. t \in Txs /\ t.from \in Accounts
    BY <1>1, <2>1, HeadType, AccountsAssumption DEF ProcessTx
  <2>3. /\ curr[n] \in [Accounts -> Nat] /\ curr[n][t.from] \in Nat
        /\ t.value \in Nat /\ t.limit \in Nat /\ t.fee \in Nat /\ t.payout \in Nat
        /\ t.fee <= t.limit
    BY <1>1, <2>2, TxsAssumption DEF TypeOK, TxType, FeesLimited
  <2>4. curr'[n] = TxBalances(n, t) /\ code'[n] = code[n] \cup Deployed(n, t)
    BY <1>1, <2>1 DEF ProcessTx, TypeOK
  <2>5. t.value + t.limit <= curr[n][t.from]
    BY <1>1, <2>1, <2>3 DEF Unpayable
  <2>6. ToEvm(n, t)
    <3>1. SUFFICES ASSUME ~ToEvm(n, t) PROVE FALSE
      OBVIOUS
    <3>2. CallFails(n, t)
      BY <1>1, <2>1, <3>1 DEF TxFails, ClassicFails
    <3>3. /\ t.to \in Programs /\ t.to \in Accounts
          /\ t.payout <= t.value /\ t.payout > ClassicMoved(n, t)[t.to]
      BY <2>2, <3>2, AccountsAssumption DEF CallFails, ProgramsSucceed
    <3>4. PICK d : d = ClassicDebited(n, t)
      OBVIOUS
    <3>5. d \in [Accounts -> Nat]
      <4>1. t.value + t.limit \in Nat
        BY <2>3
      <4>. QED BY <2>3, <3>4, <4>1, DebitType DEF ClassicDebited
    <3>6. ClassicMoved(n, t)[t.to] = d[t.to] + t.value /\ d[t.to] \in Nat
      BY <2>3, <3>3, <3>4, <3>5, CreditAt DEF ClassicMoved
    <3>. QED BY <2>3, <3>3, <3>6
  <2>7. EvmFails(n, t)
    BY <1>1, <2>1, <2>6 DEF TxFails
  <2>8. Deployed(n, t) = {}
    BY <2>7 DEF Deployed
  <2>9. t.value + t.fee <= curr[n][t.from]
    BY <2>3, <2>5
  <2>10. TxBalances(n, t) =
           Debit(Credit(Debit(Debit(Credit(curr[n], RealTo(t), t.value), t.from, t.value),
                              t.from, t.fee), t.from, t.value), RealTo(t), t.value)
    BY <2>6, <2>7 DEF TxBalances, EvmBalances, EvmMoved
  <2>11. \A a \in Accounts :
           curr'[n][a] = IF a = t.from THEN curr[n][a] - t.fee ELSE curr[n][a]
    BY <2>2, <2>3, <2>4, <2>9, <2>10, EvmReverts
  <2>12. curr[n][t.from] - t.fee \in (curr[n][t.from] - t.limit)..curr[n][t.from]
    BY <2>3
  <2>. QED BY <2>1, <2>2, <2>4, <2>8, <2>11, <2>12
<1>2. TypeOK /\ [Next]_vars =>
        [\A n \in Nodes :
           LET t == Head(todo[n])
           IN  (ProcessTx(n) /\ TxFails(n, t) /\ ~Unpayable(n, t)) =>
                 /\ code'[n] = code[n]
                 /\ \A a \in Accounts \ {t.from} : curr'[n][a] = curr[n][a]
                 /\ curr'[n][t.from] \in (curr[n][t.from] - t.limit)..curr[n][t.from]]_vars
  BY <1>1
<1>. QED BY <1>2, TypeCorrect, PTL DEF Spec, FailedTxReverted
=============================================================================
