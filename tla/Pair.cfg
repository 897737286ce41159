SPECIFICATION FairSpec
CONSTANTS
  v1 = v1
  v2 = v2
  v3 = v3
  Nodes = {v1, v2}
  Validators = {v1, v2}
  MinValidators = 1
  Seeds = {0, 1}
  NoSeed = NoSeed
  Orders <- TwoOrders
  Shuffle <- MCShuffle
  ClockOutcomes = {TRUE}
  Starting = {v1}
  Stoppable = {v1}
  Answering = {v1, v2}
  LossyKinds = {"tx"}
  Throwing = {}
  MaxHeight = 2
INVARIANT SyncerSurvives
PROPERTY StopEnds
PROPERTY ChainGrows
\* The network comes to rest at MaxHeight, or when its nodes are shut down.
CHECK_DEADLOCK FALSE
