SPECIFICATION Spec
CONSTANTS
  v1 = v1
  v2 = v2
  v3 = v3
  Nodes = {v1, v2, v3}
  Validators = {v1, v2, v3}
  MinValidators = 1
  Seeds = {1}
  NoSeed = NoSeed
  Orders <- RotatedOrders
  Shuffle <- MCShuffle
  ClockOutcomes = {TRUE}
  Starting = {}
  Stoppable = {}
  Answering = {}
  LossyKinds = {}
  Throwing = {}
  MaxHeight = 2
INVARIANT OrderingEnds
\* The network comes to rest at MaxHeight, or when its nodes are shut down.
CHECK_DEADLOCK FALSE
