SPECIFICATION Spec
CONSTANTS
  v1 = v1
  v2 = v2
  v3 = v3
  Nodes = {v1, v2, v3}
  Validators = {v1, v2}
  MinValidators = 1
  Seeds = {1}
  NoSeed = NoSeed
  Orders <- TwoOrders
  Shuffle <- MCShuffle
  ClockOutcomes = {TRUE}
  Starting = {v3}
  Stoppable = {v3}
  Answering = {}
  LossyKinds = {}
  Throwing = {v2}
  MaxHeight = 2
INVARIANT IInv
INVARIANT ProcessedBlockExtends
\* The network comes to rest at MaxHeight, or when its nodes are shut down.
CHECK_DEADLOCK FALSE
