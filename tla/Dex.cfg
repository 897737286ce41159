SPECIFICATION Spec
CONSTANTS
  Users = {"user"}
  token0 = "token0"
  token1 = "token1"
  wrapped = "token1"
  pair = "pair"
  router = "router"
  zero = "zero"
  MINIMUM_LIQUIDITY = 1
  MaxReserve = 27
  Genesis = 30
  Amounts = {5, 20}
  Limits = {0, 30}
  Recipients = {"user", "pair"}
  MaxCalls = 7
INVARIANT TypeOK
INVARIANT Solvent
INVARIANT Supplies
INVARIANT FeeBase
INVARIANT QuoteHonoured
PROPERTY ShareKept
\* A behaviour ends after MaxCalls calls.
CHECK_DEADLOCK FALSE
