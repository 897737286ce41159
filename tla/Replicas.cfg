SPECIFICATION Spec
CONSTANTS
  node1 = node1
  node2 = node2
  alice = alice
  bob = bob
  evm1 = evm1
  evm2 = evm2
  program = program
  Zero = Zero
  Nodes = {node1, node2}
  Users <- TwoUsers
  Programs = {program}
  Accounts <- AllAccounts
  Derive <- MCDerive
  GenesisBalance <- MCGenesis
  Txs <- ReplicaTxs
  EthCalls <- AliceCalls
  Estimates <- AliceCalls
  Creator <- Alternating
  RpcNodes = {node1}
  Restarting = {node2}
  MaxAdding = 1
  MaxHeight = 2
INVARIANT TypeOK
INVARIANT MempoolNeverAhead
INVARIANT MempoolPayable
INVARIANT UsersAgree
PROPERTY FailedTxReverted
\* At MaxHeight, or when every node has refused a block, nothing is left to do.
CHECK_DEADLOCK FALSE
