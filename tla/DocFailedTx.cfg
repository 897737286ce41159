SPECIFICATION Spec
CONSTANTS
  node1 = node1
  node2 = node2
  alice = alice
  bob = bob
  evm1 = evm1
  evm2 = evm2
  program = program
  Zero = Zero
  Nodes = {node1, node2}
  Users <- TwoUsers
  Programs = {program}
  Accounts <- AllAccounts
  Derive <- MCDerive
  GenesisBalance <- MCGenesis
  Txs <- FailingProgram
  EthCalls <- NoCalls
  Estimates <- NoCalls
  Creator <- Alternating
  RpcNodes = {node1}
  Restarting = {}
  MaxAdding = 1
  MaxHeight = 1
PROPERTY FailedTxReverted
\* At MaxHeight, or when every node has refused a block, nothing is left to do.
CHECK_DEADLOCK FALSE
