-------------------------------- MODULE Dex --------------------------------
(***************************************************************************)
(* The exchange templates: ERC20, NativeWrapper, DEXV2Factory, DEXV2Pair,   *)
(* DEXV2Library and DEXV2Router02, with one pair of two tokens, one of     *)
(* which wraps the native token.  A token is named by the address of its   *)
(* contract; the pair is the token of its own shares.                      *)
(*                                                                         *)
(* A contract function maps a state to the set of the states it may end    *)
(* in: one, or none when it throws, in which case the whole call is undone *)
(* (module ContractCalls) and is no step here.  Amounts are checked 256-   *)
(* bit integers, reserves 112-bit ones: going below zero throws, and so    *)
(* does a reserve that does not fit.                                       *)
(*                                                                         *)
(* Left out: allowances, since approve() lets an owner set any allowance   *)
(* at any time, so they do not restrict which balances can be reached; the *)
(* deadline of a router call, which only makes it throw; the price         *)
(* accumulators of _update, which no contract reads.                       *)
(***************************************************************************)
EXTENDS Integers, FiniteSets, Functions

CONSTANTS
  Users,               \* accounts that are not contracts
  token0, token1,      \* the two tokens, token0 < token1
  wrapped,             \* which of them is the NativeWrapper
  pair, router,        \* the addresses of the pair and of the router
  zero,                \* Address(): the zero address
  MINIMUM_LIQUIDITY,   \* 1000 in the code
  MaxReserve,          \* the greatest uint112_t, 2^112 - 1 in the code
  Genesis,             \* units of token and of native that each user starts with
  Amounts,             \* bound: the amounts that users name in their calls
  Limits,              \* bound: the least and greatest amounts that they accept
  Recipients,          \* bound: the accounts named as "to" in calls of the tokens and the pair
  MaxCalls             \* bound: calls in a behaviour

Pool == <<token0, token1>>
Tokens == {token0, token1, pair}
Accounts == Users \cup {token0, token1, pair, router, zero}

ASSUME ConstantsAssumption ==
  /\ IsFiniteSet(Users) /\ wrapped \in {token0, token1} /\ Recipients \subseteq Accounts
  /\ Amounts \subseteq Nat /\ Limits \subseteq Nat
  /\ Genesis \in Nat /\ MINIMUM_LIQUIDITY \in Nat /\ MaxReserve \in Nat /\ MaxCalls \in Nat

\* The contracts have addresses of their own (ContractManager::deriveContractAddress
\* hashes the creator and its nonce), and no account has the zero address.
ASSUME AddressesAssumption ==
  /\ Users \cap {token0, token1, pair, router, zero} = {}
  /\ token0 # token1 /\ pair \notin {token0, token1}
  /\ router \notin {token0, token1, pair} /\ zero \notin {token0, token1, pair, router}

VARIABLES dex, calls
(***************************************************************************)
(* dex.bal[t][a]   ERC20::balances_ of token t                             *)
(* dex.supply[t]   ERC20::totalSupply_                                     *)
(* dex.native[a]   native balances (State)                                 *)
(* dex.created     the pair is in DEXV2Factory::getPair_                   *)
(* dex.feeTo       DEXV2Factory::feeTo_                                    *)
(* dex.reserve     DEXV2Pair::reserve0_ and reserve1_                      *)
(* dex.kLast       DEXV2Pair::kLast_                                       *)
(* calls           number of calls so far                                  *)
(***************************************************************************)

vars == <<dex, calls>>

Then(states, Op(_)) == UNION {Op(s) : s \in states}

Sqrt(n) == CHOOSE r \in 0..n : r * r <= n /\ n < (r + 1) * (r + 1)

-----------------------------------------------------------------------------
\* ERC20.

\* Mutant: the supply is not raised.
mintUncounted(s, t, a, v) == [s EXCEPT !.bal[t][a] = @ + v]

mintValue(s, t, a, v) == [s EXCEPT !.bal[t][a] = @ + v, !.supply[t] = @ + v]

\* Mutant: the balance is not checked, the subtraction wraps.
burnUnchecked(s, t, a, v) == {[s EXCEPT !.bal[t][a] = @ - v, !.supply[t] = @ - v]}

burnValue(s, t, a, v) ==
  {x \in {[s EXCEPT !.bal[t][a] = @ - v, !.supply[t] = @ - v]} :
     x.bal[t][a] >= 0 /\ x.supply[t] >= 0}

\* transfer() and transferFrom(): both move v from one balance to another.
Transfer(s, t, from, to, v) ==
  {x \in {[s EXCEPT !.bal[t][from] = @ - v, !.bal[t][to] = @ + v]} : v <= s.bal[t][from]}

\* BaseContract::sendTokens, and the value that a call carries.
SendNative(s, from, to, v) ==
  {x \in {[s EXCEPT !.native[from] = @ - v, !.native[to] = @ + v]} : v <= s.native[from]}

\* NativeWrapper::deposit, called with value v.
Deposit(s, caller, v) ==
  Then(SendNative(s, caller, wrapped, v), LAMBDA x : {mintValue(x, wrapped, caller, v)})

\* Mutant: withdraw pays before, and without, burning the wrapped tokens.
WithdrawUnburnt(s, caller, v) == SendNative(s, wrapped, caller, v)

Withdraw(s, caller, v) ==
  Then(burnValue(s, wrapped, caller, v), LAMBDA x : SendNative(x, wrapped, caller, v))

-----------------------------------------------------------------------------
\* DEXV2Pair.

Held(s, i) == s.bal[Pool[i]][pair]

\* _update: the reserves become the balances; their conversion to uint112_t is checked.
Update(s) ==
  IF Held(s, 1) <= MaxReserve /\ Held(s, 2) <= MaxReserve
    THEN {[s EXCEPT !.reserve = <<Held(s, 1), Held(s, 2)>>]}
    ELSE {}

K(s) == s.reserve[1] * s.reserve[2]

feeOn(s) == s.feeTo # zero

\* The shares that _mintFee owes: a sixth of the growth of the root of K.
FeeOwed(s) ==
  LET rootK == Sqrt(K(s))
      rootKLast == Sqrt(s.kLast)
  IN IF feeOn(s) /\ s.kLast # 0 /\ rootK > rootKLast
       THEN (s.supply[pair] * (rootK - rootKLast)) \div (rootK * 5 + rootKLast)
       ELSE 0

\* Mutant: kLast_ is kept when the fee is off.
MintFeeStale(s) ==
  IF feeOn(s) THEN mintValue(s, pair, s.feeTo, FeeOwed(s)) ELSE s

MintFee(s) ==
  IF feeOn(s) THEN mintValue(s, pair, s.feeTo, FeeOwed(s)) ELSE [s EXCEPT !.kLast = 0]

\* The end of mint and burn: _update, and kLast_ when the fee is on.
Settle(s) ==
  {IF feeOn(s) THEN [u EXCEPT !.kLast = K(u)] ELSE u : u \in Update(s)}

\* The shares that mint gives for what the pair holds beyond its reserves; the
\* first ones are locked at the zero address.  A division by zero throws.
Liquidity(s, amount, i) == (amount * s.supply[pair]) \div s.reserve[i]

Mint(s, to) ==
  LET amount0 == Held(s, 1) - s.reserve[1]
      amount1 == Held(s, 2) - s.reserve[2]
      f == MintFee(s)
      first == f.supply[pair] = 0
      locked == IF first THEN mintValue(f, pair, zero, MINIMUM_LIQUIDITY) ELSE f
      l0 == Liquidity(f, amount0, 1)
      l1 == Liquidity(f, amount1, 2)
      liquidity == IF first THEN Sqrt(amount0 * amount1) - MINIMUM_LIQUIDITY
                   ELSE IF l0 <= l1 THEN l0 ELSE l1
      throws == \/ ~s.created \/ amount0 < 0 \/ amount1 < 0
                \/ ~first /\ K(s) = 0
                \/ liquidity <= 0
  IN IF throws THEN {} ELSE Settle(mintValue(locked, pair, to, liquidity))

\* burn pays out the shares that the pair itself holds.
BurnAmount(s, i) == (s.bal[pair][pair] * Held(s, i)) \div MintFee(s).supply[pair]

Burn(s, to) ==
  IF s.created /\ s.supply[pair] > 0 /\ BurnAmount(s, 1) > 0 /\ BurnAmount(s, 2) > 0
    THEN Then(Then(Then(burnValue(MintFee(s), pair, pair, s.bal[pair][pair]),
                        LAMBDA x : Transfer(x, token0, pair, to, BurnAmount(s, 1))),
                   LAMBDA x : Transfer(x, token1, pair, to, BurnAmount(s, 2))),
              Settle)
    ELSE {}

\* amount0In and amount1In: the code subtracts the reserve from the balance
\* before it adds what was paid out, so a balance between the two throws.
AmountIn(s, out, i) ==
  IF Held(s, i) > s.reserve[i] - out THEN Held(s, i) - s.reserve[i] + out ELSE 0

InThrows(s, out, i) ==
  out > s.reserve[i] \/ (Held(s, i) > s.reserve[i] - out /\ Held(s, i) < s.reserve[i])

\* Mutant: only the sum of what is held is compared.
KSum(s, in0, in1) ==
  (Held(s, 1) * 1000 - in0 * 3) + (Held(s, 2) * 1000 - in1 * 3) >= (s.reserve[1] + s.reserve[2]) * 1000

\* K after the fee of 0.3% on what came in, not below K before.
KKept(s, in0, in1) ==
  (Held(s, 1) * 1000 - in0 * 3) * (Held(s, 2) * 1000 - in1 * 3) >= K(s) * 1000 * 1000

Swap(s, out0, out1, to) ==
  UNION {Update(x) :
     x \in {x \in Then(Transfer(s, token0, pair, to, out0),
                       LAMBDA y : Transfer(y, token1, pair, to, out1)) :
              /\ s.created /\ to \notin {token0, token1}
              /\ out0 > 0 \/ out1 > 0
              /\ s.reserve[1] > out0 \/ s.reserve[2] > out1
              /\ ~InThrows(x, out0, 1) /\ ~InThrows(x, out1, 2)
              /\ AmountIn(x, out0, 1) > 0 \/ AmountIn(x, out1, 2) > 0
              /\ KKept(x, AmountIn(x, out0, 1), AmountIn(x, out1, 2))}}

Skim(s, to) ==
  IF s.created /\ Held(s, 1) >= s.reserve[1] /\ Held(s, 2) >= s.reserve[2]
    THEN Then(Transfer(s, token0, pair, to, Held(s, 1) - s.reserve[1]),
              LAMBDA x : Transfer(x, token1, pair, to, Held(x, 2) - s.reserve[2]))
    ELSE {}

Sync(s) == IF s.created THEN Update(s) ELSE {}

-----------------------------------------------------------------------------
\* DEXV2Library.  getReserves returns the reserves of token0 and token1 in this
\* order, whatever the order of the tokens that are asked for.

quote(amountA, reserveA, reserveB) == (amountA * reserveB) \div reserveA

\* Mutant: the fee is not taken from the input.
getAmountOutFree(amountIn, reserveIn, reserveOut) ==
  (amountIn * 1000 * reserveOut) \div (reserveIn * 1000 + amountIn * 1000)

getAmountOut(amountIn, reserveIn, reserveOut) ==
  (amountIn * 997 * reserveOut) \div (reserveIn * 1000 + amountIn * 997)

getAmountIn(amountOut, reserveIn, reserveOut) ==
  (reserveIn * amountOut * 1000) \div ((reserveOut - amountOut) * 997) + 1

\* getAmountsOut and getAmountsIn of a path of two tokens: the amount at the
\* other end of the path, or no amount when they throw.
AmountsOut(s, in) ==
  IF in > 0 /\ K(s) > 0 THEN {getAmountOut(in, s.reserve[1], s.reserve[2])} ELSE {}

AmountsIn(s, out) ==
  IF out > 0 /\ out < s.reserve[2] /\ s.reserve[1] > 0
    THEN {getAmountIn(out, s.reserve[1], s.reserve[2])} ELSE {}

-----------------------------------------------------------------------------
\* DEXV2Factory.

CreatePair(s) == IF s.created THEN {} ELSE {[s EXCEPT !.created = TRUE]}

\* The code lets every caller set feeTo_.
SetFeeTo(s, a) == {[s EXCEPT !.feeTo = a]}

-----------------------------------------------------------------------------
\* DEXV2Router02, called by user u.

Other(t) == IF t = token0 THEN token1 ELSE token0

\* _addLiquidity: the amounts of the two tokens that are taken, none if it throws.
LiquidityAmounts(s, desiredA, desiredB, minA, minB) ==
  LET r == s.reserve
      optimalB == quote(desiredA, r[1], r[2])
      optimalA == quote(desiredB, r[2], r[1])
  IN IF r[1] = 0 /\ r[2] = 0 THEN {<<desiredA, desiredB>>}
     ELSE IF K(s) = 0 \/ desiredA = 0 THEN {}
     ELSE IF optimalB <= desiredB
       THEN {a \in {<<desiredA, optimalB>>} : optimalB >= minB}
     ELSE {a \in {<<optimalA, desiredB>>} :
             desiredB > 0 /\ optimalA <= desiredA /\ optimalA >= minA}

AddLiquidity(s, u, tokenA, desiredA, desiredB, minA, minB, to) ==
  UNION {Then(Then(Transfer([s EXCEPT !.created = TRUE], tokenA, u, pair, a[1]),
                   LAMBDA x : Transfer(x, Other(tokenA), u, pair, a[2])),
              LAMBDA x : Mint(x, to)) :
           a \in LiquidityAmounts(s, desiredA, desiredB, minA, minB)}

\* What the caller sent beyond the native amount taken is sent back.
Refund(s, u, value, amount) ==
  IF value > amount THEN SendNative(s, router, u, value - amount) ELSE {s}

\* The wanted native amount is its minimum, not the value that is sent.
AddLiquidityNative(s, u, value, desired, min, nativeMin, to) ==
  UNION {Then(Then(Then(Then(Then(SendNative([s EXCEPT !.created = TRUE], u, router, value),
                                  LAMBDA x : Transfer(x, Other(wrapped), u, pair, a[1])),
                             LAMBDA x : Deposit(x, router, a[2])),
                        LAMBDA x : Transfer(x, wrapped, router, pair, a[2])),
                   LAMBDA x : Mint(x, to)),
              LAMBDA x : Refund(x, u, value, a[2])) :
           a \in LiquidityAmounts(s, desired, nativeMin, min, nativeMin)}

\* The shares go to the pair, which burns them; the minima are of token0 and token1.
RemoveLiquidity(s, u, liquidity, min0, min1, to) ==
  UNION {Burn(x, to) :
           x \in {x \in Transfer(s, pair, u, pair, liquidity) :
                   x.supply[pair] > 0 /\ BurnAmount(x, 1) >= min0 /\ BurnAmount(x, 2) >= min1}}

\* The router receives both tokens; the native token goes to the caller.
RemoveLiquidityNative(s, u, liquidity, min0, min1, to) ==
  LET got(x, t) == x.bal[t][router] - s.bal[t][router]
  IN UNION {LET amountNative == got(r, wrapped)
            IN Then(Then(Transfer(r, Other(wrapped), router, to, got(r, Other(wrapped))),
                         LAMBDA x : Withdraw(x, router, amountNative)),
                    LAMBDA x : SendNative(x, router, u, amountNative)) :
              r \in RemoveLiquidity(s, u, liquidity, min0, min1, router)}

\* _swap of a path of two tokens that starts at tokenIn.
SwapPath(s, tokenIn, out, to) ==
  IF tokenIn = token0 THEN Swap(s, 0, out, to) ELSE Swap(s, out, 0, to)

SwapTokens(s, u, tokenIn, in, out, to) ==
  Then(Transfer(s, tokenIn, u, pair, in), LAMBDA x : SwapPath(x, tokenIn, out, to))

SwapExactTokensForTokens(s, u, tokenIn, in, outMin, to) ==
  UNION {SwapTokens(s, u, tokenIn, in, out, to) : out \in {o \in AmountsOut(s, in) : o >= outMin}}

SwapTokensForExactTokens(s, u, tokenIn, out, inMax, to) ==
  UNION {SwapTokens(s, u, tokenIn, in, out, to) : in \in {i \in AmountsIn(s, out) : i <= inMax}}

\* The router pays in native: it wraps the amount and moves it to the pair.
SwapNative(s, u, value, in, out, to) ==
  Then(Then(Then(SendNative(s, u, router, value), LAMBDA x : Deposit(x, router, in)),
            LAMBDA x : Transfer(x, wrapped, router, pair, in)),
       LAMBDA x : SwapPath(x, wrapped, out, to))

SwapExactNativeForTokens(s, u, value, outMin, to) ==
  UNION {SwapNative(s, u, value, value, out, to) :
           out \in {o \in AmountsOut(s, value) : o >= outMin}}

\* Nothing is sent back of a value above the amount that the swap takes.
SwapNativeForExactTokens(s, u, value, out, inMax, to) ==
  UNION {SwapNative(s, u, value, in, out, to) : in \in {i \in AmountsIn(s, out) : i <= inMax}}

\* The router receives the wrapped token, unwraps it and sends the native one.
Unwrap(states, out, to) ==
  Then(Then(states, LAMBDA x : Withdraw(x, router, out)),
       LAMBDA x : SendNative(x, router, to, out))

SwapExactTokensForNative(s, u, in, outMin, to) ==
  UNION {Unwrap(SwapTokens(s, u, Other(wrapped), in, out, router), out, to) :
           out \in {o \in AmountsOut(s, in) : o >= outMin}}

SwapTokensForExactNative(s, u, out, inMax, to) ==
  UNION {Unwrap(SwapTokens(s, u, Other(wrapped), in, out, router), out, to) :
           in \in {i \in AmountsIn(s, out) : i <= inMax}}

-----------------------------------------------------------------------------
Init ==
  /\ calls = 0
  /\ dex = [bal |-> [t \in Tokens |-> [a \in Accounts |->
                    IF t = Other(wrapped) /\ a \in Users THEN Genesis ELSE 0]],
         supply |-> [t \in Tokens |->
                      IF t = Other(wrapped) THEN Cardinality(Users) * Genesis ELSE 0],
         native |-> [a \in Accounts |-> IF a \in Users THEN Genesis ELSE 0],
         created |-> FALSE, feeTo |-> zero, reserve |-> <<0, 0>>, kLast |-> 0]

\* A call that ends in one of the states given.
Call(states) == calls < MaxCalls /\ calls' = calls + 1 /\ dex' \in states

TokenCall ==
  \E u \in Users, v \in Amounts :
    \/ \E t \in Tokens, to \in Recipients : Call(Transfer(dex, t, u, to, v))
    \/ Call(Deposit(dex, u, v))
    \/ Call(Withdraw(dex, u, v))

FactoryCall ==
  \/ Call(CreatePair(dex))
  \/ \E a \in Users \cup {zero} : Call(SetFeeTo(dex, a))

PairCall ==
  \/ \E to \in Recipients :
       \/ Call(Mint(dex, to))
       \/ Call(Burn(dex, to))
       \/ Call(Skim(dex, to))
       \/ \E out0, out1 \in Amounts \cup {0} : Call(Swap(dex, out0, out1, to))
  \/ Call(Sync(dex))

LiquidityCall ==
  \E u, to \in Users, a, b \in Amounts, min0, min1 \in Limits :
    \/ \E tokenA \in {token0, token1} : Call(AddLiquidity(dex, u, tokenA, a, b, min0, min1, to))
    \/ Call(RemoveLiquidity(dex, u, a, min0, min1, to))
    \/ Call(RemoveLiquidityNative(dex, u, a, min0, min1, to))

NativeLiquidityCall ==
  \E u, to \in Users, a, nativeMin, value \in Amounts, min \in Limits :
    Call(AddLiquidityNative(dex, u, value, a, min, nativeMin, to))

SwapCall ==
  \E u, to \in Users, a \in Amounts, b \in Limits :
    \/ \E tokenIn \in {token0, token1} :
         \/ Call(SwapExactTokensForTokens(dex, u, tokenIn, a, b, to))
         \/ Call(SwapTokensForExactTokens(dex, u, tokenIn, a, b, to))
    \/ Call(SwapExactNativeForTokens(dex, u, a, b, to))
    \/ Call(SwapExactTokensForNative(dex, u, a, b, to))
    \/ Call(SwapTokensForExactNative(dex, u, a, b, to))
    \/ \E value \in Amounts : Call(SwapNativeForExactTokens(dex, u, value, a, b, to))

Next == TokenCall \/ FactoryCall \/ PairCall \/ LiquidityCall \/ NativeLiquidityCall \/ SwapCall

Spec == Init /\ [][Next]_vars

-----------------------------------------------------------------------------
\* Every field of dex has its type; in particular no balance goes below zero, and the
\* reserves fit 112 bits.
TypeOK ==
  /\ dex.bal \in [Tokens -> [Accounts -> Nat]] /\ dex.supply \in [Tokens -> Nat]
  /\ dex.native \in [Accounts -> Nat] /\ dex.created \in BOOLEAN
  /\ dex.feeTo \in Users \cup {zero} /\ dex.kLast \in Nat
  /\ dex.reserve \in (0..MaxReserve) \X (0..MaxReserve)
  /\ calls \in 0..MaxCalls

\* The reserves of the pair are covered by the tokens it holds, and every wrapped
\* token by a native one that the wrapper holds, whatever calls come in what order.
Solvent ==
  /\ \A i \in 1..2 : dex.reserve[i] <= Held(dex, i)
  /\ dex.supply[wrapped] <= dex.native[wrapped]

\* totalSupply() is the sum of the balances of every token, and the shares that the
\* first mint locks are never redeemed (a holder may add to them: ERC20 lets shares be
\* sent to the zero address).
Supplies ==
  /\ \A t \in Tokens : dex.supply[t] = SumFunction(dex.bal[t])
  /\ dex.supply[pair] > 0 => dex.bal[pair][zero] >= MINIMUM_LIQUIDITY

\* The product that _mintFee measures the growth of K from is never above K, also
\* when the fee is switched off and on between the calls that record it.
FeeBase == dex.kLast <= K(dex)

\* No call lowers what a share is worth: K by the square of the supply, the shares
\* of the protocol fee aside, does not fall by a mint, burn, swap, skim or sync.
ShareKept ==
  [][LET supply == dex.supply[pair]
         withFee == supply + FeeOwed(dex)
     IN supply > 0 =>
          K(dex') * withFee * withFee >= K(dex) * dex'.supply[pair] * dex'.supply[pair]]_vars

\* What DEXV2Library computes for a path from token0 to token1 passes the check of
\* DEXV2Pair::swap, unless the pair holds more of token1 than its reserve, or would
\* hold more of token0 than fits a reserve.
QuoteHonoured ==
  \A u \in Users, a \in Amounts :
    Held(dex, 2) = dex.reserve[2] =>
      /\ \A out \in AmountsOut(dex, a) :
           out > 0 /\ a <= dex.bal[token0][u] /\ Held(dex, 1) + a <= MaxReserve =>
             SwapTokens(dex, u, token0, a, out, u) # {}
      /\ \A in \in AmountsIn(dex, a) :
           in <= dex.bal[token0][u] /\ Held(dex, 1) + in <= MaxReserve =>
             SwapTokens(dex, u, token0, in, a, u) # {}
=============================================================================
