SPECIFICATION Spec
CONSTANTS
  v1 = v1
  v2 = v2
  v3 = v3
  Nodes = {v1, v2, v3}
  Validators = {v1, v2, v3}
  MinValidators = 2
  Seeds = {1}
  NoSeed = NoSeed
  Orders <- ParticipantOrders
  Shuffle <- MCShuffle
  ClockOutcomes = {TRUE, FALSE}
  Starting = {}
  Stoppable = {}
  Answering = {}
  LossyKinds = {}
  Throwing = {}
  MaxHeight = 3
INVARIANT CommitBeforeReveal
\* The network comes to rest at MaxHeight, or when its nodes are shut down.
CHECK_DEADLOCK FALSE
