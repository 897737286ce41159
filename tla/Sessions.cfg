SPECIFICATION FairSpec
CONSTANTS
  v1 = v1
  v2 = v2
  c1 = c1
  c2 = c2
  Nodes = {v1, v2}
  Conns = {c1, c2}
  None = None
  MaxMessages = 2
  Broadcasts = {"refused", "huge"}
  Callers = {v2}
  Stoppable = {v1}
INVARIANT TypeOK
INVARIANT RegisteredLive
INVARIANT StoppedEmpty
INVARIANT QueueDrains
INVARIANT AnswersExpected
PROPERTY DeadRemoved
\* Nothing is left to do when v1 is down.
CHECK_DEADLOCK FALSE
