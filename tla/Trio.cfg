SPECIFICATION Spec
CONSTANTS
  v1 = v1
  v2 = v2
  v3 = v3
  Nodes = {v1, v2, v3}
  Validators = {v1, v2, v3}
  MinValidators = 1
  Seeds = {1}
  NoSeed = NoSeed
  Orders <- SwappedOrders
  Shuffle <- MCShuffle
  ClockOutcomes = {TRUE}
  Starting = {}
  Stoppable = {}
  Answering = {}
  LossyKinds = {"block"}
  Throwing = {v3}
  MaxHeight = 2
INVARIANT Agreement
INVARIANT MempoolOfTheRound
PROPERTY ImplementsLedger
\* The network comes to rest at MaxHeight, or when its nodes are shut down.
CHECK_DEADLOCK FALSE
