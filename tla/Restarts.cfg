SPECIFICATION Spec
CONSTANTS
  x = x
  y = y
  Contents = {x, y}
  Txs <- MCTxs
  TxsOf <- MCTxsOf
  RecentBlocks = 1
  NoBlock = NoBlock
  Partial = Partial
  Mixed = Mixed
  MaxHeight = 3
INVARIANT TypeOK
INVARIANT BlocksFound
INVARIANT TxsFound
INVARIANT IndexAnswers
INVARIANT StateOfTheChain
