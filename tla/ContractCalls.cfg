SPECIFICATION Spec
CONSTANTS
  token = token
  pair = pair
  user = user
  Null = Null
  Addresses = {token, pair}
  Deployed = {token}
  Users = {user}
  Keys = {1}
  Values = {0, 1}
  Zero = 0
  Genesis <- MCGenesis
  MaxCalls = 2
  MaxOps = 3
INVARIANT IInv
INVARIANT NativeConserved
PROPERTY ImplementsAtomicCalls
\* After MaxCalls calls and all copies that views can make, nothing is left to do.
CHECK_DEADLOCK FALSE
