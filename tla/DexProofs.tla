----------------------------- MODULE DexProofs -----------------------------
(***************************************************************************)
(* Proofs about Dex for any users, amounts and number of calls: balances   *)
(* stay natural numbers and add up to the supplies, the reserves and the   *)
(* wrapped tokens are covered, no call lowers the value of a share, and    *)
(* what the library quotes the pair accepts.                               *)
(***************************************************************************)
EXTENDS Dex, Sums

-----------------------------------------------------------------------------
(* The inductive invariant *)

\* What a uint112_t holds.
Reserves == 0..MaxReserve

\* The states of the contracts.
States ==
  [bal : [Tokens -> [Accounts -> Nat]], supply : [Tokens -> Nat], native : [Accounts -> Nat],
   created : BOOLEAN, feeTo : Users \cup {zero}, reserve : Reserves \X Reserves,
   kLast : Nat]

\* The pair holds its reserves, the wrapper holds what it has wrapped, and there are
\* reserves only in a pair that has been created.
Covered(s) == s.reserve[1] <= s.bal[token0][pair] /\ s.reserve[2] <= s.bal[token1][pair]
Backed(s)  == s.supply[wrapped] <= s.native[wrapped]
Based(s)   == s.kLast <= s.reserve[1] * s.reserve[2]
Live(s)    == s.created \/ s.reserve = <<0, 0>>

\* The supplies are the sums of the balances, and the locked shares are not spent.
Booked(s)  == \A t \in Tokens : s.supply[t] = SumFunction(s.bal[t])
Locked(s)  == s.supply[pair] > 0 => s.bal[pair][zero] >= MINIMUM_LIQUIDITY
Counted(s) == Booked(s) /\ Locked(s)

Good(s) ==
  s \in States /\ Covered(s) /\ Backed(s) /\ Based(s) /\ Live(s) /\ Counted(s)

IInv == Good(dex) /\ calls \in 0..MaxCalls

\* The value of a share is not lowered from s to y, the fee shares aside.
Worth(s, y) ==
  s.supply[pair] > 0 =>
    K(y) * (s.supply[pair] + FeeOwed(s)) * (s.supply[pair] + FeeOwed(s))
      >= K(s) * y.supply[pair] * y.supply[pair]

\* What the value of a share and the fee depend on is the same.
SamePool(s, y) ==
  /\ y.reserve = s.reserve /\ y.kLast = s.kLast /\ y.feeTo = s.feeTo
  /\ y.supply[pair] = s.supply[pair]

-----------------------------------------------------------------------------
(* Arithmetic *)

LEMMA Multiply ==
  ASSUME NEW a \in Nat, NEW b \in Nat, NEW c \in Nat, NEW d \in Nat, a <= b, c <= d
  PROVE  a * c <= b * d /\ a * c \in Nat /\ b * d \in Nat
OBVIOUS

LEMMA Divide ==
  ASSUME NEW n \in Nat, NEW k \in Nat, k > 0
  PROVE  n \div k \in Nat /\ (n \div k) * k <= n /\ n < (n \div k + 1) * k
OBVIOUS

\* Every natural number has a root: the least number whose successor has a greater
\* square.
LEMMA SqrtRoot ==
  ASSUME NEW n \in Nat
  PROVE  Sqrt(n) \in Nat /\ Sqrt(n) * Sqrt(n) <= n
<1>. DEFINE T == {r \in Nat : n < (r + 1) * (r + 1)}
<1>1. n < (n + 1) * (n + 1)
  OBVIOUS
<1>2. n \in T
  BY <1>1
<1>3. PICK r \in T : \A y \in T : ~(<<y, r>> \in OpToRel(<, Nat))
  BY <1>2, WFMin, NatLessThanWellFounded
<1>4. r \in Nat /\ n < (r + 1) * (r + 1)
  OBVIOUS
<1>5. r * r <= n
  <2>1. CASE r = 0
    BY <2>1
  <2>2. CASE r # 0
    <3>1. r - 1 \in Nat /\ r - 1 < r /\ (r - 1) + 1 = r
      BY <1>4, <2>2
    <3>2. <<r - 1, r>> \in OpToRel(<, Nat)
      BY <1>4, <3>1 DEF OpToRel
    <3>3. r - 1 \notin T
      BY <1>3, <3>2
    <3>4. ~(n < r * r)
      BY <3>1, <3>3
    <3>. QED BY <1>4, <3>4
  <2>. QED BY <2>1, <2>2
<1>6. r \in 0..n
  <2>1. r * r >= r
    BY <1>4
  <2>. QED BY <1>4, <1>5, <2>1
<1>7. \E x \in 0..n : x * x <= n /\ n < (x + 1) * (x + 1)
  BY <1>4, <1>5, <1>6
<1>8. Sqrt(n) \in 0..n /\ Sqrt(n) * Sqrt(n) <= n
  BY <1>7, Zenon DEF Sqrt
<1>. QED BY <1>8

-----------------------------------------------------------------------------
(* The steps that calls are made of *)

LEMMA Addresses ==
  /\ token0 \in Tokens /\ token1 \in Tokens /\ pair \in Tokens
  /\ wrapped \in Tokens /\ Other(wrapped) \in Tokens
  /\ wrapped \in {token0, token1} /\ Other(wrapped) \in {token0, token1}
  /\ Other(token0) = token1 /\ Other(token1) = token0
  /\ {token0, token1, pair, router, zero, wrapped} \subseteq Accounts /\ Users \subseteq Accounts
  /\ pair # wrapped /\ router # wrapped /\ pair # token0 /\ pair # token1 /\ token0 # token1
  /\ router # pair /\ zero # pair /\ zero # router /\ zero # wrapped
  /\ \A u \in Users : u # pair /\ u # wrapped /\ u # router /\ u # token0 /\ u # token1 /\ u # zero
BY ConstantsAssumption, AddressesAssumption DEF Tokens, Accounts, Other

LEMMA HeldIs ==
  ASSUME NEW s PROVE Held(s, 1) = s.bal[token0][pair] /\ Held(s, 2) = s.bal[token1][pair]
BY DEF Held, Pool

LEMMA KType ==
  ASSUME NEW s \in States
  PROVE  s.reserve[1] \in Nat /\ s.reserve[2] \in Nat /\ K(s) \in Nat
<1>1. s.reserve[1] \in Nat /\ s.reserve[2] \in Nat
  BY DEF States, Reserves
<1>. QED BY <1>1 DEF K

\* Everything but the balances of the tokens is the same.
SameBut(s, y) ==
  /\ y.supply = s.supply /\ y.native = s.native /\ y.created = s.created
  /\ y.feeTo = s.feeTo /\ y.reserve = s.reserve /\ y.kLast = s.kLast

LEMMA TransferEffect ==
  ASSUME NEW s \in States, NEW t \in Tokens, NEW from \in Accounts, NEW to \in Accounts,
         NEW v \in Nat, NEW y \in Transfer(s, t, from, to, v)
  PROVE  /\ y \in States /\ SameBut(s, y) /\ v <= s.bal[t][from]
         /\ \A p \in Tokens, a \in Accounts :
              y.bal[p][a] = s.bal[p][a] + (IF p = t /\ a = to THEN v ELSE 0)
                                        - (IF p = t /\ a = from THEN v ELSE 0)
<1>1. /\ y = [s EXCEPT !.bal[t][from] = @ - v, !.bal[t][to] = @ + v]
      /\ v <= s.bal[t][from]
  BY DEF Transfer
<1>2. s.bal \in [Tokens -> [Accounts -> Nat]] /\ s.bal[t][from] \in Nat /\ s.bal[t][to] \in Nat
  BY DEF States
<1>3. s.bal[t][from] - v \in Nat
  BY <1>1, <1>2
<1>4. PICK B : B = [s.bal EXCEPT ![t][from] = @ - v]
  OBVIOUS
<1>5. /\ B \in [Tokens -> [Accounts -> Nat]]
      /\ \A p \in Tokens, a \in Accounts :
           B[p][a] = IF p = t /\ a = from THEN s.bal[p][a] - v ELSE s.bal[p][a]
  BY <1>2, <1>3, <1>4
<1>6. PICK C : C = [B EXCEPT ![t][to] = @ + v]
  OBVIOUS
<1>7. /\ C \in [Tokens -> [Accounts -> Nat]]
      /\ \A p \in Tokens, a \in Accounts :
           C[p][a] = IF p = t /\ a = to THEN B[p][a] + v ELSE B[p][a]
  BY <1>5, <1>6
<1>8. y.bal = C /\ SameBut(s, y)
  <2>1. y.bal = C
    <3>1. PICK F, R : s \in [bal : [Tokens -> [Accounts -> Nat]], supply : [Tokens -> Nat],
                           native : [Accounts -> Nat], created : BOOLEAN, feeTo : F,
                           reserve : R, kLast : Nat]
      BY Zenon DEF States
    <3>. QED BY <1>1, <1>4, <1>6, <3>1
  <2>2. SameBut(s, y)
    BY <1>1 DEF States, SameBut
  <2>. QED BY <2>1, <2>2
<1>9. y \in States
  BY <1>1, <1>7, <1>8 DEF States, SameBut
<1>10. ASSUME NEW p \in Tokens, NEW a \in Accounts
       PROVE  C[p][a] = s.bal[p][a] + (IF p = t /\ a = to THEN v ELSE 0)
                                    - (IF p = t /\ a = from THEN v ELSE 0)
  <2>1. s.bal[p][a] \in Nat
    BY <1>2
  <2>2. /\ C[p][a] = IF p = t /\ a = to THEN B[p][a] + v ELSE B[p][a]
        /\ B[p][a] = IF p = t /\ a = from THEN s.bal[p][a] - v ELSE s.bal[p][a]
    BY <1>5, <1>7
  <2>. QED BY <2>1, <2>2
<1>. QED BY <1>1, <1>8, <1>9, <1>10

LEMMA SendEffect ==
  ASSUME NEW s \in States, NEW from \in Accounts, NEW to \in Accounts,
         NEW v \in Nat, NEW y \in SendNative(s, from, to, v)
  PROVE  /\ y \in States /\ v <= s.native[from]
         /\ y.bal = s.bal /\ y.supply = s.supply /\ y.created = s.created
         /\ y.feeTo = s.feeTo /\ y.reserve = s.reserve /\ y.kLast = s.kLast
         /\ \A a \in Accounts :
              y.native[a] = s.native[a] + (IF a = to THEN v ELSE 0) - (IF a = from THEN v ELSE 0)
<1>1. /\ y = [s EXCEPT !.native[from] = @ - v, !.native[to] = @ + v]
      /\ v <= s.native[from]
  BY DEF SendNative
<1>2. s.native \in [Accounts -> Nat] /\ s.native[from] \in Nat /\ s.native[to] \in Nat
  BY DEF States
<1>3. PICK B : B = [s.native EXCEPT ![from] = @ - v]
  OBVIOUS
<1>4. /\ B \in [Accounts -> Nat]
      /\ \A a \in Accounts : B[a] = IF a = from THEN s.native[a] - v ELSE s.native[a]
  BY <1>1, <1>2, <1>3
<1>5. PICK C : C = [B EXCEPT ![to] = @ + v]
  OBVIOUS
<1>6. /\ C \in [Accounts -> Nat]
      /\ \A a \in Accounts : C[a] = IF a = to THEN B[a] + v ELSE B[a]
  BY <1>4, <1>5
<1>7. /\ y.native = C /\ y.bal = s.bal /\ y.supply = s.supply /\ y.created = s.created
      /\ y.feeTo = s.feeTo /\ y.reserve = s.reserve /\ y.kLast = s.kLast
  BY <1>1, <1>3, <1>5 DEF States
<1>8. y \in States
  BY <1>1, <1>6, <1>7 DEF States
<1>9. ASSUME NEW a \in Accounts
      PROVE  C[a] = s.native[a] + (IF a = to THEN v ELSE 0) - (IF a = from THEN v ELSE 0)
  <2>1. s.native[a] \in Nat
    BY <1>2
  <2>. QED BY <1>4, <1>6, <2>1
<1>. QED BY <1>1, <1>7, <1>8, <1>9

\* v of token t have been made for a.
Minted(s, t, a, v, y) ==
  /\ y \in States /\ y.native = s.native /\ y.created = s.created
  /\ y.feeTo = s.feeTo /\ y.reserve = s.reserve /\ y.kLast = s.kLast
  /\ \A p \in Tokens : y.supply[p] = s.supply[p] + (IF p = t THEN v ELSE 0)
  /\ \A p \in Tokens, x \in Accounts :
       y.bal[p][x] = s.bal[p][x] + (IF p = t /\ x = a THEN v ELSE 0)

LEMMA MintEffect ==
  ASSUME NEW s \in States, NEW t \in Tokens, NEW a \in Accounts, NEW v \in Nat,
         NEW y, y = mintValue(s, t, a, v)
  PROVE  Minted(s, t, a, v, y)
<1>1. y = [s EXCEPT !.bal[t][a] = @ + v, !.supply[t] = @ + v]
  BY DEF mintValue
<1>2. /\ s.bal \in [Tokens -> [Accounts -> Nat]] /\ s.bal[t][a] \in Nat
      /\ s.supply \in [Tokens -> Nat] /\ s.supply[t] \in Nat
  BY DEF States
<1>3. PICK B : B = [s.bal EXCEPT ![t][a] = @ + v]
  OBVIOUS
<1>4. PICK C : C = [s.supply EXCEPT ![t] = @ + v]
  OBVIOUS
<1>5. /\ B \in [Tokens -> [Accounts -> Nat]] /\ C \in [Tokens -> Nat]
      /\ \A p \in Tokens, x \in Accounts :
           B[p][x] = IF p = t /\ x = a THEN s.bal[p][x] + v ELSE s.bal[p][x]
      /\ \A p \in Tokens : C[p] = IF p = t THEN s.supply[p] + v ELSE s.supply[p]
  BY <1>2, <1>3, <1>4
<1>6. /\ y.bal = B /\ y.supply = C /\ y.native = s.native /\ y.created = s.created
      /\ y.feeTo = s.feeTo /\ y.reserve = s.reserve /\ y.kLast = s.kLast
  BY <1>1, <1>3, <1>4 DEF States
<1>7. y \in States
  BY <1>1, <1>5, <1>6 DEF States
<1>8. ASSUME NEW p \in Tokens
      PROVE  C[p] = s.supply[p] + (IF p = t THEN v ELSE 0)
  BY <1>2, <1>5
<1>9. ASSUME NEW p \in Tokens, NEW x \in Accounts
      PROVE  B[p][x] = s.bal[p][x] + (IF p = t /\ x = a THEN v ELSE 0)
  <2>1. s.bal[p][x] \in Nat
    BY <1>2
  <2>. QED BY <1>5, <2>1
<1>. QED BY <1>6, <1>7, <1>8, <1>9 DEF Minted

LEMMA BurnEffect ==
  ASSUME NEW s \in States, NEW t \in Tokens, NEW a \in Accounts, NEW v \in Nat,
         NEW y \in burnValue(s, t, a, v)
  PROVE  /\ y \in States /\ y.native = s.native /\ y.created = s.created
         /\ y.feeTo = s.feeTo /\ y.reserve = s.reserve /\ y.kLast = s.kLast
         /\ \A p \in Tokens : y.supply[p] = s.supply[p] - (IF p = t THEN v ELSE 0)
         /\ \A p \in Tokens, x \in Accounts :
              y.bal[p][x] = s.bal[p][x] - (IF p = t /\ x = a THEN v ELSE 0)
<1>1. /\ y = [s EXCEPT !.bal[t][a] = @ - v, !.supply[t] = @ - v]
      /\ y.bal[t][a] >= 0 /\ y.supply[t] >= 0
  BY DEF burnValue
<1>2. /\ s.bal \in [Tokens -> [Accounts -> Nat]] /\ s.bal[t][a] \in Nat
      /\ s.supply \in [Tokens -> Nat] /\ s.supply[t] \in Nat
  BY DEF States
<1>3. PICK B : B = [s.bal EXCEPT ![t][a] = @ - v]
  OBVIOUS
<1>4. PICK C : C = [s.supply EXCEPT ![t] = @ - v]
  OBVIOUS
<1>5. /\ y.bal = B /\ y.supply = C /\ y.native = s.native /\ y.created = s.created
      /\ y.feeTo = s.feeTo /\ y.reserve = s.reserve /\ y.kLast = s.kLast
  BY <1>1, <1>3, <1>4 DEF States
<1>6. s.bal[t][a] - v \in Nat /\ s.supply[t] - v \in Nat
  BY <1>1, <1>2, <1>3, <1>4, <1>5
<1>7. /\ B \in [Tokens -> [Accounts -> Nat]] /\ C \in [Tokens -> Nat]
      /\ \A p \in Tokens, x \in Accounts :
           B[p][x] = IF p = t /\ x = a THEN s.bal[p][x] - v ELSE s.bal[p][x]
      /\ \A p \in Tokens : C[p] = IF p = t THEN s.supply[p] - v ELSE s.supply[p]
  BY <1>2, <1>3, <1>4, <1>6
<1>8. y \in States
  BY <1>1, <1>5, <1>7 DEF States
<1>9. ASSUME NEW p \in Tokens
      PROVE  C[p] = s.supply[p] - (IF p = t THEN v ELSE 0)
  BY <1>2, <1>7
<1>10. ASSUME NEW p \in Tokens, NEW x \in Accounts
       PROVE  B[p][x] = s.bal[p][x] - (IF p = t /\ x = a THEN v ELSE 0)
  <2>1. s.bal[p][x] \in Nat
    BY <1>2
  <2>. QED BY <1>7, <2>1
<1>. QED BY <1>5, <1>8, <1>9, <1>10

-----------------------------------------------------------------------------
(* The books *)

LEMMA FiniteAccounts == IsFiniteSet(Accounts)
<1>1. IsFiniteSet({token0, token1, pair, router, zero})
  <2>1. IsFiniteSet({token0})
    BY FS_Singleton
  <2>2. IsFiniteSet({token0} \cup {token1})
    BY <2>1, FS_AddElement
  <2>3. IsFiniteSet(({token0} \cup {token1}) \cup {pair})
    BY <2>2, FS_AddElement
  <2>4. IsFiniteSet((({token0} \cup {token1}) \cup {pair}) \cup {router})
    BY <2>3, FS_AddElement
  <2>5. IsFiniteSet(((({token0} \cup {token1}) \cup {pair}) \cup {router}) \cup {zero})
    BY <2>4, FS_AddElement
  <2>6. {token0, token1, pair, router, zero}
          = ((({token0} \cup {token1}) \cup {pair}) \cup {router}) \cup {zero}
    OBVIOUS
  <2>. QED BY <2>5, <2>6
<1>. QED BY <1>1, ConstantsAssumption, FS_Union DEF Accounts

LEMMA BalanceRaised ==
  ASSUME NEW f \in [Accounts -> Nat], NEW g \in [Accounts -> Nat], NEW a \in Accounts,
         NEW v \in Nat, \A x \in Accounts : g[x] = f[x] + (IF x = a THEN v ELSE 0)
  PROVE  SumFunction(g) = SumFunction(f) + v
<1>1. \A x \in Accounts : f[x] \in Nat
  OBVIOUS
<1>2. g[a] = f[a] + v /\ \A x \in Accounts \ {a} : f[x] = g[x]
  BY <1>1
<1>. QED BY <1>2, FiniteAccounts, SumRaised

\* The same balances and supplies.
LEMMA CountedSame ==
  ASSUME NEW s \in States, Counted(s), NEW y, y.bal = s.bal, y.supply = s.supply
  PROVE  Counted(y)
BY DEF Counted, Booked, Locked

LEMMA TransferCounted ==
  ASSUME NEW s \in States, Counted(s), NEW t \in Tokens, NEW from \in Accounts,
         NEW to \in Accounts, NEW v \in Nat, from # zero, NEW y \in Transfer(s, t, from, to, v)
  PROVE  Counted(y)
<1>1. /\ y \in States /\ y.supply = s.supply
      /\ \A p \in Tokens, a \in Accounts :
           y.bal[p][a] = s.bal[p][a] + (IF p = t /\ a = to THEN v ELSE 0)
                                     - (IF p = t /\ a = from THEN v ELSE 0)
  BY TransferEffect DEF SameBut
<1>2. \A p \in Tokens : s.bal[p] \in [Accounts -> Nat] /\ y.bal[p] \in [Accounts -> Nat]
  BY <1>1 DEF States
<1>3. ASSUME NEW p \in Tokens PROVE SumFunction(y.bal[p]) = SumFunction(s.bal[p])
  <2>1. PICK f \in [Accounts -> Nat], g \in [Accounts -> Nat] : f = s.bal[p] /\ g = y.bal[p]
    BY <1>2
  <2>2. CASE p # t \/ from = to
    <3>1. \A a \in Accounts : f[a] \in Nat /\ g[a] = f[a]
      BY <1>1, <2>1, <2>2
    <3>2. f = g
      BY <3>1
    <3>. QED BY <2>1, <3>2
  <2>3. CASE p = t /\ from # to
    <3>1. f[from] \in Nat /\ f[to] \in Nat /\ g[from] = f[from] + 0 - v /\ g[to] = f[to] + v - 0
      BY <1>1, <2>1, <2>3
    <3>2. \A a \in Accounts \ {from, to} : f[a] \in Nat /\ g[a] = f[a] + 0 - 0
      BY <1>1, <2>1, <2>3
    <3>3. g[from] + g[to] = f[from] + f[to] /\ \A a \in Accounts \ {from, to} : g[a] = f[a]
      BY <3>1, <3>2
    <3>4. SumFunction(g) = SumFunction(f)
      BY <2>3, <3>3, FiniteAccounts, SumMoved
    <3>. QED BY <2>1, <3>4
  <2>. QED BY <2>2, <2>3
<1>4. Booked(y)
  BY <1>1, <1>3 DEF Counted, Booked
<1>5. y.bal[pair][zero] >= s.bal[pair][zero] /\ s.bal[pair][zero] \in Nat /\ y.bal[pair][zero] \in Nat
  <2>1. /\ s.bal[pair][zero] \in Nat /\ y.bal[pair][zero] \in Nat
        /\ y.bal[pair][zero] = s.bal[pair][zero] + (IF pair = t /\ zero = to THEN v ELSE 0) - 0
    BY <1>1, <1>2, Addresses
  <2>. QED BY <2>1
<1>6. Locked(y)
  BY <1>1, <1>5, ConstantsAssumption DEF Counted, Locked
<1>. QED BY <1>4, <1>6 DEF Counted

\* Shares are made only where the locked ones are there, or are the ones made.
LEMMA MintCounted ==
  ASSUME NEW s \in States, Counted(s), NEW t \in Tokens, NEW a \in Accounts, NEW v \in Nat,
         NEW y, Minted(s, t, a, v, y),
         \/ t # pair \/ v = 0 \/ s.bal[pair][zero] >= MINIMUM_LIQUIDITY
         \/ a = zero /\ v = MINIMUM_LIQUIDITY
  PROVE  Counted(y)
<1>1. /\ y \in States
      /\ \A p \in Tokens : y.supply[p] = s.supply[p] + (IF p = t THEN v ELSE 0)
      /\ \A p \in Tokens, x \in Accounts :
           y.bal[p][x] = s.bal[p][x] + (IF p = t /\ x = a THEN v ELSE 0)
  BY DEF Minted
<1>2. /\ \A p \in Tokens : s.bal[p] \in [Accounts -> Nat] /\ y.bal[p] \in [Accounts -> Nat]
      /\ \A p \in Tokens : s.supply[p] \in Nat
  BY <1>1 DEF States
<1>3. ASSUME NEW p \in Tokens PROVE y.supply[p] = SumFunction(y.bal[p])
  <2>1. PICK f \in [Accounts -> Nat], g \in [Accounts -> Nat] : f = s.bal[p] /\ g = y.bal[p]
    BY <1>2
  <2>2. s.supply[p] = SumFunction(f) /\ SumFunction(f) \in Nat
    BY <1>2, <2>1 DEF Counted, Booked
  <2>3. CASE p = t
    <3>1. \A x \in Accounts : g[x] = f[x] + (IF x = a THEN v ELSE 0)
      BY <1>1, <2>1, <2>3
    <3>2. SumFunction(g) = SumFunction(f) + v
      BY <3>1, BalanceRaised
    <3>. QED BY <1>1, <2>1, <2>2, <2>3, <3>2
  <2>4. CASE p # t
    <3>1. \A x \in Accounts : f[x] \in Nat /\ g[x] = f[x] + 0
      BY <1>1, <2>1, <2>4
    <3>2. f = g
      BY <3>1
    <3>3. y.supply[p] = s.supply[p]
      <4>1. s.supply[p] \in Nat /\ y.supply[p] = s.supply[p] + 0
        BY <1>1, <1>2, <2>4
      <4>. QED BY <4>1
    <3>4. SumFunction(y.bal[p]) = SumFunction(f)
      BY <2>1, <3>2
    <3>. QED BY <2>2, <3>3, <3>4
  <2>. QED BY <2>3, <2>4
<1>4. Locked(y)
  <2>1. PICK b \in Nat, c \in Nat, m \in Nat :
          b = s.bal[pair][zero] /\ c = y.bal[pair][zero] /\ m = s.supply[pair]
    <3>1. s.bal[pair][zero] \in Nat /\ y.bal[pair][zero] \in Nat /\ s.supply[pair] \in Nat
      BY <1>2, Addresses
    <3>. QED BY <3>1, Zenon
  <2>2. /\ c = b + (IF pair = t /\ zero = a THEN v ELSE 0)
        /\ y.supply[pair] = m + (IF pair = t THEN v ELSE 0)
    BY <1>1, <2>1, Addresses
  <2>3. m > 0 => b >= MINIMUM_LIQUIDITY
    BY <2>1 DEF Counted, Locked
  <2>4. y.supply[pair] > 0 => c >= MINIMUM_LIQUIDITY
    BY <2>1, <2>2, <2>3, ConstantsAssumption
  <2>. QED BY <2>1, <2>4 DEF Locked
<1>. QED BY <1>3, <1>4 DEF Counted, Booked

LEMMA BurnCounted ==
  ASSUME NEW s \in States, Counted(s), NEW t \in Tokens, NEW a \in Accounts, NEW v \in Nat,
         t # pair \/ a # zero, NEW y \in burnValue(s, t, a, v)
  PROVE  Counted(y)
<1>1. /\ y \in States
      /\ \A p \in Tokens : y.supply[p] = s.supply[p] - (IF p = t THEN v ELSE 0)
      /\ \A p \in Tokens, x \in Accounts :
           y.bal[p][x] = s.bal[p][x] - (IF p = t /\ x = a THEN v ELSE 0)
  BY BurnEffect
<1>2. /\ \A p \in Tokens : s.bal[p] \in [Accounts -> Nat] /\ y.bal[p] \in [Accounts -> Nat]
      /\ \A p \in Tokens : s.supply[p] \in Nat /\ y.supply[p] \in Nat
  BY <1>1 DEF States
<1>3. ASSUME NEW p \in Tokens PROVE y.supply[p] = SumFunction(y.bal[p])
  <2>1. PICK f \in [Accounts -> Nat], g \in [Accounts -> Nat] : f = s.bal[p] /\ g = y.bal[p]
    BY <1>2
  <2>2. s.supply[p] = SumFunction(f) /\ SumFunction(f) \in Nat /\ SumFunction(g) \in Nat
    BY <1>2, <2>1, FiniteAccounts, SumType DEF Counted, Booked
  <2>3. CASE p = t
    <3>1. \A x \in Accounts : f[x] \in Nat /\ g[x] \in Nat /\ g[x] = f[x] - (IF x = a THEN v ELSE 0)
      BY <1>1, <2>1, <2>3
    <3>2. \A x \in Accounts : f[x] = g[x] + (IF x = a THEN v ELSE 0)
      BY <3>1
    <3>3. SumFunction(f) = SumFunction(g) + v
      BY <3>2, BalanceRaised
    <3>. QED BY <1>1, <2>1, <2>2, <2>3, <3>3
  <2>4. CASE p # t
    <3>1. \A x \in Accounts : f[x] \in Nat /\ g[x] = f[x] - 0
      BY <1>1, <2>1, <2>4
    <3>2. f = g
      BY <3>1
    <3>3. y.supply[p] = s.supply[p]
      <4>1. s.supply[p] \in Nat /\ y.supply[p] = s.supply[p] - 0
        BY <1>1, <1>2, <2>4
      <4>. QED BY <4>1
    <3>4. SumFunction(y.bal[p]) = SumFunction(f)
      BY <2>1, <3>2
    <3>. QED BY <2>2, <3>3, <3>4
  <2>. QED BY <2>3, <2>4
<1>4. Locked(y)
  <2>1. PICK b \in Nat, c \in Nat, m \in Nat :
          b = s.bal[pair][zero] /\ c = y.bal[pair][zero] /\ m = s.supply[pair]
    <3>1. s.bal[pair][zero] \in Nat /\ y.bal[pair][zero] \in Nat /\ s.supply[pair] \in Nat
      BY <1>2, Addresses
    <3>. QED BY <3>1, Zenon
  <2>2. c = b - 0 /\ y.supply[pair] = m - (IF pair = t THEN v ELSE 0)
    BY <1>1, <2>1, Addresses
  <2>3. m > 0 => b >= MINIMUM_LIQUIDITY
    BY <2>1 DEF Counted, Locked
  <2>4. y.supply[pair] > 0 => c >= MINIMUM_LIQUIDITY
    BY <2>1, <2>2, <2>3
  <2>. QED BY <2>1, <2>4 DEF Locked
<1>. QED BY <1>3, <1>4 DEF Counted, Booked

-----------------------------------------------------------------------------
\* A token that does not leave the pair, and native that does not leave the wrapper.
LEMMA TransferGood ==
  ASSUME NEW s, Good(s), NEW t \in Tokens, NEW from \in Accounts, NEW to \in Accounts,
         NEW v \in Nat, from # pair, from # zero, NEW y \in Transfer(s, t, from, to, v)
  PROVE  Good(y) /\ SamePool(s, y)
<1>1. s \in States /\ Covered(s) /\ Backed(s) /\ Based(s) /\ Live(s) /\ Counted(s)
  BY DEF Good
<1>2. /\ y \in States /\ SameBut(s, y)
      /\ \A p \in Tokens, a \in Accounts :
           y.bal[p][a] = s.bal[p][a] + (IF p = t /\ a = to THEN v ELSE 0)
                                     - (IF p = t /\ a = from THEN v ELSE 0)
  BY <1>1, TransferEffect
<1>3. ASSUME NEW p \in Tokens PROVE y.bal[p][pair] >= s.bal[p][pair] /\ s.bal[p][pair] \in Nat
  <2>1. s.bal[p][pair] \in Nat /\ pair \in Accounts
    BY <1>1, Addresses DEF States
  <2>2. y.bal[p][pair] = s.bal[p][pair] + (IF p = t /\ pair = to THEN v ELSE 0) - 0
    BY <1>2, <2>1
  <2>. QED BY <2>1, <2>2
<1>4. Covered(y)
  <2>1. s.reserve[1] \in Nat /\ s.reserve[2] \in Nat
    BY <1>1 DEF States, Reserves
  <2>2. /\ y.bal[token0][pair] \in Nat /\ y.bal[token1][pair] \in Nat
    BY <1>2, Addresses DEF States
  <2>. QED BY <1>1, <1>2, <1>3, <2>1, <2>2, Addresses DEF Covered, SameBut
<1>5. Counted(y)
  BY <1>1, TransferCounted
<1>. QED BY <1>1, <1>2, <1>4, <1>5 DEF Good, Backed, Based, Live, SameBut, SamePool

LEMMA SendGood ==
  ASSUME NEW s, Good(s), NEW from \in Accounts, NEW to \in Accounts,
         NEW v \in Nat, from # wrapped, NEW y \in SendNative(s, from, to, v)
  PROVE  /\ Good(y) /\ SamePool(s, y) /\ y.bal = s.bal /\ y.supply = s.supply
         /\ y.native[wrapped] = s.native[wrapped] + (IF to = wrapped THEN v ELSE 0)
<1>1. s \in States /\ Covered(s) /\ Backed(s) /\ Based(s) /\ Live(s) /\ Counted(s)
  BY DEF Good
<1>2. /\ y \in States
      /\ y.bal = s.bal /\ y.supply = s.supply /\ y.created = s.created
      /\ y.feeTo = s.feeTo /\ y.reserve = s.reserve /\ y.kLast = s.kLast
      /\ \A a \in Accounts :
           y.native[a] = s.native[a] + (IF a = to THEN v ELSE 0) - (IF a = from THEN v ELSE 0)
  BY <1>1, SendEffect
<1>3. s.native[wrapped] \in Nat /\ s.supply[wrapped] \in Nat /\ wrapped \in Accounts
  BY <1>1, Addresses DEF States
<1>4. y.native[wrapped] = s.native[wrapped] + (IF to = wrapped THEN v ELSE 0)
  BY <1>2, <1>3
<1>5. Backed(y)
  BY <1>1, <1>2, <1>3, <1>4 DEF Backed
<1>6. Counted(y)
  BY <1>1, <1>2, CountedSame
<1>. QED BY <1>1, <1>2, <1>4, <1>5, <1>6 DEF Good, Covered, Based, Live, SamePool

LEMMA DepositGood ==
  ASSUME NEW s, Good(s), NEW c \in Accounts, NEW v \in Nat, c # wrapped,
         NEW y \in Deposit(s, c, v)
  PROVE  Good(y) /\ SamePool(s, y)
<1>1. PICK x \in SendNative(s, c, wrapped, v) : y = mintValue(x, wrapped, c, v)
  BY DEF Deposit, Then
<1>2. /\ Good(x) /\ SamePool(s, x) /\ x.supply = s.supply
      /\ x.native[wrapped] = s.native[wrapped] + v
  BY Addresses, SendGood
<1>3. x \in States /\ Covered(x) /\ Based(x) /\ Live(x) /\ Counted(x) /\ Backed(s) /\ s \in States
  BY <1>2 DEF Good
<1>4. /\ y \in States /\ y.native = x.native /\ y.created = x.created
      /\ y.feeTo = x.feeTo /\ y.reserve = x.reserve /\ y.kLast = x.kLast
      /\ \A p \in Tokens : y.supply[p] = x.supply[p] + (IF p = wrapped THEN v ELSE 0)
      /\ \A p \in Tokens, a \in Accounts :
           y.bal[p][a] = x.bal[p][a] + (IF p = wrapped /\ a = c THEN v ELSE 0)
      /\ Counted(y)
  <2>1. x \in States /\ wrapped \in Tokens /\ y = mintValue(x, wrapped, c, v)
    BY <1>1, <1>3, Addresses
  <2>2. Minted(x, wrapped, c, v, y)
    BY <2>1, MintEffect
  <2>3. Counted(y)
    BY <1>3, <2>1, <2>2, Addresses, MintCounted
  <2>. QED BY <2>2, <2>3 DEF Minted
<1>5. /\ s.supply[wrapped] \in Nat /\ s.native[wrapped] \in Nat /\ x.supply[pair] \in Nat
      /\ \A p \in Tokens : x.bal[p][pair] \in Nat /\ y.bal[p][pair] \in Nat
      /\ x.reserve[1] \in Nat /\ x.reserve[2] \in Nat
  BY <1>3, <1>4, Addresses DEF States, Reserves
<1>6. y.supply[wrapped] = s.supply[wrapped] + v /\ y.supply[pair] = x.supply[pair]
  BY <1>2, <1>4, <1>5, Addresses
<1>7. Backed(y)
  BY <1>2, <1>3, <1>4, <1>5, <1>6 DEF Backed
<1>8. \A p \in Tokens : y.bal[p][pair] >= x.bal[p][pair]
  <2>1. ASSUME NEW p \in Tokens PROVE y.bal[p][pair] >= x.bal[p][pair]
    <3>1. y.bal[p][pair] = x.bal[p][pair] + (IF p = wrapped /\ pair = c THEN v ELSE 0)
      BY <1>4, Addresses
    <3>. QED BY <1>5, <3>1
  <2>. QED BY <2>1
<1>9. Covered(y)
  BY <1>3, <1>4, <1>5, <1>8, Addresses DEF Covered
<1>. QED BY <1>2, <1>3, <1>4, <1>6, <1>7, <1>9 DEF Good, Based, Live, SamePool

LEMMA WithdrawGood ==
  ASSUME NEW s, Good(s), NEW c \in Accounts, NEW v \in Nat, c # pair,
         NEW y \in Withdraw(s, c, v)
  PROVE  Good(y) /\ SamePool(s, y)
<1>1. PICK x \in burnValue(s, wrapped, c, v) : y \in SendNative(x, wrapped, c, v)
  BY DEF Withdraw, Then
<1>2. s \in States /\ Covered(s) /\ Backed(s) /\ Based(s) /\ Live(s) /\ Counted(s)
  BY DEF Good
<1>3. /\ x \in States /\ x.native = s.native /\ x.created = s.created
      /\ x.feeTo = s.feeTo /\ x.reserve = s.reserve /\ x.kLast = s.kLast
      /\ \A p \in Tokens : x.supply[p] = s.supply[p] - (IF p = wrapped THEN v ELSE 0)
      /\ \A p \in Tokens, a \in Accounts :
           x.bal[p][a] = s.bal[p][a] - (IF p = wrapped /\ a = c THEN v ELSE 0)
  BY <1>1, <1>2, Addresses, BurnEffect
<1>4. /\ y \in States
      /\ y.bal = x.bal /\ y.supply = x.supply /\ y.created = x.created
      /\ y.feeTo = x.feeTo /\ y.reserve = x.reserve /\ y.kLast = x.kLast
      /\ \A a \in Accounts :
           y.native[a] = x.native[a] + (IF a = c THEN v ELSE 0) - (IF a = wrapped THEN v ELSE 0)
  BY <1>1, <1>3, Addresses, SendEffect
<1>5. /\ s.supply[wrapped] \in Nat /\ s.native[wrapped] \in Nat /\ s.supply[pair] \in Nat
      /\ s.bal[token0][pair] \in Nat /\ s.bal[token1][pair] \in Nat
  BY <1>2, Addresses DEF States
<1>6. y.supply[wrapped] = s.supply[wrapped] - v /\ y.supply[pair] = s.supply[pair]
  BY <1>3, <1>4, <1>5, Addresses
<1>7. y.native[wrapped] >= s.native[wrapped] - v
  <2>1. y.native[wrapped] = s.native[wrapped] + (IF wrapped = c THEN v ELSE 0) - v
    BY <1>3, <1>4, Addresses
  <2>. QED BY <1>5, <2>1
<1>8. Backed(y)
  <2>1. y.native[wrapped] \in Nat
    BY <1>4, Addresses DEF States
  <2>. QED BY <1>2, <1>5, <1>6, <1>7, <2>1 DEF Backed
<1>9. y.bal[token0][pair] = s.bal[token0][pair] /\ y.bal[token1][pair] = s.bal[token1][pair]
  BY <1>3, <1>4, <1>5, Addresses
<1>10. Counted(y)
  <2>1. Counted(x)
    BY <1>1, <1>2, Addresses, BurnCounted
  <2>. QED BY <1>3, <1>4, <2>1, CountedSame
<1>. QED BY <1>2, <1>3, <1>4, <1>6, <1>8, <1>9, <1>10 DEF Good, Covered, Based, Live, SamePool

-----------------------------------------------------------------------------
(* DEXV2Pair *)

LEMMA FeeType ==
  ASSUME NEW s \in States
  PROVE  FeeOwed(s) \in Nat /\ (~feeOn(s) => FeeOwed(s) = 0) /\ (s.supply[pair] = 0 => FeeOwed(s) = 0)
<1>1. /\ s.reserve[1] \in Nat /\ s.reserve[2] \in Nat /\ s.kLast \in Nat
      /\ s.supply[pair] \in Nat
  BY Addresses DEF States, Reserves
<1>2. PICK r \in Nat : r = Sqrt(K(s))
  <2>1. K(s) \in Nat
    BY <1>1 DEF K
  <2>. QED BY <2>1, SqrtRoot
<1>3. PICK l \in Nat : l = Sqrt(s.kLast)
  BY <1>1, SqrtRoot
<1>4. ASSUME r > l PROVE (s.supply[pair] * (r - l)) \div (r * 5 + l) \in Nat
  <2>1. r * 5 + l \in Nat /\ r * 5 + l > 0 /\ s.supply[pair] * (r - l) \in Nat
    BY <1>1, <1>4
  <2>. QED BY <2>1, Divide
<1>5. FeeOwed(s) = IF feeOn(s) /\ s.kLast # 0 /\ r > l
                   THEN (s.supply[pair] * (r - l)) \div (r * 5 + l) ELSE 0
  BY <1>2, <1>3 DEF FeeOwed
<1>6. ASSUME s.supply[pair] = 0, r > l PROVE (s.supply[pair] * (r - l)) \div (r * 5 + l) = 0
  <2>1. s.supply[pair] * (r - l) = 0 /\ r * 5 + l \in Nat /\ r * 5 + l > 0
    BY <1>6
  <2>2. PICK k \in Nat : k = r * 5 + l /\ k > 0
    BY <2>1
  <2>3. 0 \div k = 0
    BY <2>2
  <2>. QED BY <2>1, <2>2, <2>3
<1>. QED BY <1>4, <1>5, <1>6

\* _mintFee leaves everything but the shares of the collector and kLast_.
LEMMA MintFeeEffect ==
  ASSUME NEW s \in States, NEW f, f = MintFee(s)
  PROVE  /\ f \in States /\ f.native = s.native /\ f.created = s.created
         /\ f.feeTo = s.feeTo /\ f.reserve = s.reserve
         /\ ~feeOn(s) => f.kLast = 0
         /\ f.supply[pair] = s.supply[pair] + FeeOwed(s)
         /\ \A p \in Tokens : p # pair => f.supply[p] = s.supply[p]
         /\ \A p \in Tokens, a \in Accounts : p # pair => f.bal[p][a] = s.bal[p][a]
         /\ f.bal[pair][pair] = s.bal[pair][pair]
         /\ Counted(s) => Counted(f)
<1>1. /\ FeeOwed(s) \in Nat /\ (~feeOn(s) => FeeOwed(s) = 0)
      /\ s.supply[pair] = 0 => FeeOwed(s) = 0
  BY FeeType
<1>2. s.feeTo \in Accounts /\ s.feeTo # pair /\ pair \in Accounts /\ pair \in Tokens
  BY Addresses DEF States
<1>3. s.supply \in [Tokens -> Nat] /\ s.bal \in [Tokens -> [Accounts -> Nat]]
  BY DEF States
<1>4. CASE feeOn(s)
  <2>1. f = mintValue(s, pair, s.feeTo, FeeOwed(s))
    BY <1>4 DEF MintFee
  <2>2. /\ f \in States /\ f.native = s.native /\ f.created = s.created
        /\ f.feeTo = s.feeTo /\ f.reserve = s.reserve /\ f.kLast = s.kLast
        /\ \A p \in Tokens : f.supply[p] = s.supply[p] + (IF p = pair THEN FeeOwed(s) ELSE 0)
        /\ \A p \in Tokens, x \in Accounts :
             f.bal[p][x] = s.bal[p][x] + (IF p = pair /\ x = s.feeTo THEN FeeOwed(s) ELSE 0)
    <3>1. Minted(s, pair, s.feeTo, FeeOwed(s), f)
      BY <1>1, <1>2, <2>1, MintEffect
    <3>. QED BY <3>1 DEF Minted
  <2>3. f.supply[pair] = s.supply[pair] + FeeOwed(s) /\ f.bal[pair][pair] = s.bal[pair][pair]
    BY <1>2, <1>3, <2>2
  <2>4. \A p \in Tokens : p # pair => f.supply[p] = s.supply[p]
    BY <1>3, <2>2
  <2>5. ASSUME NEW p \in Tokens, NEW a \in Accounts, p # pair PROVE f.bal[p][a] = s.bal[p][a]
    <3>1. s.bal[p][a] \in Nat /\ f.bal[p][a] = s.bal[p][a] + 0
      BY <1>3, <2>2, <2>5
    <3>. QED BY <3>1
  <2>6. ASSUME Counted(s) PROVE Counted(f)
    <3>1. Minted(s, pair, s.feeTo, FeeOwed(s), f)
      BY <1>1, <1>2, <2>1, MintEffect
    <3>2. FeeOwed(s) = 0 \/ s.bal[pair][zero] >= MINIMUM_LIQUIDITY
      <4>1. s.supply[pair] \in Nat
        BY <1>2, <1>3
      <4>. QED BY <1>1, <2>6, <4>1 DEF Counted, Locked
    <3>. QED BY <1>1, <1>2, <2>6, <3>1, <3>2, MintCounted
  <2>. QED BY <1>4, <2>2, <2>3, <2>4, <2>5, <2>6
<1>5. CASE ~feeOn(s)
  <2>1. f = [s EXCEPT !.kLast = 0]
    BY <1>5 DEF MintFee
  <2>2. s.supply[pair] \in Nat
    BY <1>2, <1>3
  <2>3. /\ f \in States /\ f.native = s.native /\ f.created = s.created /\ f.feeTo = s.feeTo
        /\ f.reserve = s.reserve /\ f.kLast = 0 /\ f.supply = s.supply /\ f.bal = s.bal
    <3>1. 0 \in Nat
      OBVIOUS
    <3>. QED BY <2>1, <3>1 DEF States
  <2>4. Counted(s) => Counted(f)
    BY <2>3, CountedSame
  <2>. QED BY <1>1, <1>5, <2>2, <2>3, <2>4
<1>. QED BY <1>4, <1>5

\* _update, when both balances fit.
LEMMA UpdateEffect ==
  ASSUME NEW s \in States, NEW u \in Update(s),
         NEW r, r = <<s.bal[token0][pair], s.bal[token1][pair]>>
  PROVE  u = [s EXCEPT !.reserve = r] /\ r \in Reserves \X Reserves
<1>1. s.bal[token0][pair] \in Nat /\ s.bal[token1][pair] \in Nat
  BY Addresses DEF States
<1>2. Held(s, 1) = s.bal[token0][pair] /\ Held(s, 2) = s.bal[token1][pair]
  BY HeldIs
<1>3. Held(s, 1) <= MaxReserve /\ Held(s, 2) <= MaxReserve /\ u = [s EXCEPT !.reserve = r]
  BY <1>2 DEF Update
<1>. QED BY <1>1, <1>2, <1>3, ConstantsAssumption DEF Reserves

\* The end of mint and of burn.
LEMMA SettleGood ==
  ASSUME NEW s \in States, Backed(s), Counted(s), s.created, ~feeOn(s) => s.kLast = 0,
         NEW y \in Settle(s)
  PROVE  /\ Good(y) /\ y.supply = s.supply /\ y.bal = s.bal
         /\ K(y) = s.bal[token0][pair] * s.bal[token1][pair]
<1>1. s.bal[token0][pair] \in Nat /\ s.bal[token1][pair] \in Nat
  BY Addresses DEF States
<1>2. PICK r : r = <<s.bal[token0][pair], s.bal[token1][pair]>>
  OBVIOUS
<1>3. r[1] = s.bal[token0][pair] /\ r[2] = s.bal[token1][pair]
  BY <1>2
<1>4. PICK u \in Update(s) : y = IF feeOn(s) THEN [u EXCEPT !.kLast = K(u)] ELSE u
  BY DEF Settle
<1>5. u = [s EXCEPT !.reserve = r] /\ r \in Reserves \X Reserves
  BY <1>1, <1>2, <1>4, UpdateEffect
<1>6. /\ u \in States /\ u.reserve = r /\ u.kLast = s.kLast /\ u.bal = s.bal
      /\ u.supply = s.supply /\ u.native = s.native /\ u.created /\ u.feeTo = s.feeTo
  BY <1>5 DEF States
<1>7. K(u) = r[1] * r[2] /\ K(u) \in Nat
  BY <1>1, <1>3, <1>6 DEF K
<1>9. /\ y \in States /\ y.reserve = r /\ y.bal = s.bal /\ y.supply = s.supply
      /\ y.native = s.native /\ y.created /\ y.kLast \in Nat /\ y.kLast <= r[1] * r[2]
  <2>1. CASE feeOn(s)
    BY <1>4, <1>6, <1>7, <2>1 DEF States
  <2>2. CASE ~feeOn(s)
    BY <1>3, <1>1, <1>4, <1>6, <1>7, <2>2
  <2>. QED BY <2>1, <2>2
<1>10. Covered(y) /\ Based(y) /\ Backed(y) /\ Live(y)
  BY <1>1, <1>3, <1>9 DEF Covered, Based, Backed, Live
<1>11. Counted(y)
  BY <1>9, CountedSame
<1>. QED BY <1>3, <1>9, <1>10, <1>11 DEF Good, K

\* A product of two bounds, as the two reserves give it.
LEMMA Products ==
  ASSUME NEW r \in Nat, NEW q \in Nat, NEW h \in Nat, NEW g \in Nat,
         NEW p \in Nat, NEW n \in Nat, r * n <= h * p, q * n <= g * p
  PROVE  r * q * n * n <= h * g * p * p
<1>1. PICK a, b, c, d : a = r * n /\ b = h * p /\ c = q * n /\ d = g * p
  OBVIOUS
<1>2. a \in Nat /\ b \in Nat /\ c \in Nat /\ d \in Nat /\ a <= b /\ c <= d
  BY <1>1
<1>3. a * c <= b * d
  BY <1>2, Multiply
<1>4. r * q * n * n = (r * n) * (q * n) /\ h * g * p * p = (h * p) * (g * p)
  OBVIOUS
<1>. QED BY <1>1, <1>3, <1>4

LEMMA WorthSame ==
  ASSUME NEW s \in States, NEW y \in States, y.supply[pair] = s.supply[pair], K(s) <= K(y)
  PROVE  Worth(s, y)
<1>1. PICK n \in Nat : n = s.supply[pair]
  BY Addresses DEF States
<1>2. PICK p \in Nat : p = s.supply[pair] + FeeOwed(s) /\ n <= p
  BY <1>1, FeeType
<1>3. PICK k \in Nat, l \in Nat : k = K(s) /\ l = K(y)
  BY KType, Zenon
<1>4. k <= l
  BY <1>3
<1>5. k * n <= l * p /\ k * n \in Nat /\ l * p \in Nat
  BY <1>2, <1>4, Multiply
<1>6. (k * n) * n <= (l * p) * p
  BY <1>2, <1>5, Multiply
<1>. QED BY <1>1, <1>2, <1>3, <1>6 DEF Worth

LEMMA SamePoolWorth ==
  ASSUME NEW s, NEW y, Good(s), Good(y), SamePool(s, y)
  PROVE  Worth(s, y)
<1>1. s \in States /\ y \in States /\ y.supply[pair] = s.supply[pair]
  BY DEF Good, SamePool
<1>2. K(y) = K(s) /\ K(s) \in Nat
  BY <1>1, KType DEF K, SamePool
<1>. QED BY <1>1, <1>2, WorthSame

LEMMA WorthComposes ==
  ASSUME NEW s, NEW x, NEW y
  PROVE  /\ SamePool(s, x) /\ Worth(x, y) => Worth(s, y)
         /\ Worth(s, x) /\ SamePool(x, y) => Worth(s, y)
         /\ SamePool(s, x) /\ SamePool(x, y) => SamePool(s, y)
<1>1. ASSUME SamePool(s, x), Worth(x, y) PROVE Worth(s, y)
  <2>1. K(x) = K(s) /\ FeeOwed(x) = FeeOwed(s) /\ x.supply[pair] = s.supply[pair]
    BY <1>1 DEF SamePool, K, FeeOwed, feeOn
  <2>. QED BY <1>1, <2>1 DEF Worth
<1>2. ASSUME Worth(s, x), SamePool(x, y) PROVE Worth(s, y)
  <2>1. K(x) = K(y) /\ x.supply[pair] = y.supply[pair]
    BY <1>2 DEF SamePool, K
  <2>. QED BY <1>2, <2>1 DEF Worth
<1>3. SamePool(s, x) /\ SamePool(x, y) => SamePool(s, y)
  BY DEF SamePool
<1>. QED BY <1>1, <1>2, <1>3

\* The fee is added to the shares before mint and burn divide by them.
LEMMA MintGood ==
  ASSUME NEW s, Good(s), NEW to \in Accounts, NEW y \in Mint(s, to)
  PROVE  Good(y) /\ Worth(s, y)
<1>. DEFINE amount0 == Held(s, 1) - s.reserve[1]
            amount1 == Held(s, 2) - s.reserve[2]
<1>1. PICK f : f = MintFee(s)
  OBVIOUS
<1>. DEFINE first == f.supply[pair] = 0
            locked == IF first THEN mintValue(f, pair, zero, MINIMUM_LIQUIDITY) ELSE f
            l0 == Liquidity(f, amount0, 1)
            l1 == Liquidity(f, amount1, 2)
            liquidity == IF first THEN Sqrt(amount0 * amount1) - MINIMUM_LIQUIDITY
                         ELSE IF l0 <= l1 THEN l0 ELSE l1
<1>2. /\ s.created /\ ~(amount0 < 0) /\ ~(amount1 < 0) /\ (first \/ K(s) # 0) /\ ~(liquidity <= 0)
      /\ y \in Settle(mintValue(locked, pair, to, liquidity))
  <2>. DEFINE throws == \/ ~s.created \/ amount0 < 0 \/ amount1 < 0
                        \/ ~first /\ K(s) = 0
                        \/ liquidity <= 0
  <2>1. y \in IF throws THEN {} ELSE Settle(mintValue(locked, pair, to, liquidity))
    BY <1>1, Zenon DEF Mint
  <2>2. ~throws /\ y \in Settle(mintValue(locked, pair, to, liquidity))
    BY <2>1, Zenon
  <2>3. (first \/ K(s) # 0) /\ s.created
    BY <2>2, Zenon
  <2>4. ~(amount0 < 0) /\ ~(amount1 < 0) /\ ~(liquidity <= 0)
    BY <2>2, Zenon
  <2>. QED BY <2>2, <2>3, <2>4
<1>3. s \in States /\ Backed(s) /\ Counted(s)
  BY DEF Good
<1>4. /\ f \in States /\ f.native = s.native /\ f.created = s.created
      /\ f.feeTo = s.feeTo /\ f.reserve = s.reserve /\ (~feeOn(s) => f.kLast = 0)
      /\ f.supply[pair] = s.supply[pair] + FeeOwed(s)
      /\ \A p \in Tokens : p # pair => f.supply[p] = s.supply[p]
      /\ \A p \in Tokens, a \in Accounts : p # pair => f.bal[p][a] = s.bal[p][a]
      /\ Counted(f)
  BY <1>1, <1>3, MintFeeEffect
<1>5. PICK r0 \in Nat, r1 \in Nat, h0 \in Nat, h1 \in Nat, n \in Nat :
        /\ r0 = s.reserve[1] /\ r1 = s.reserve[2] /\ n = f.supply[pair]
        /\ h0 = s.bal[token0][pair] /\ h1 = s.bal[token1][pair]
  <2>1. /\ s.reserve[1] \in Nat /\ s.reserve[2] \in Nat /\ f.supply[pair] \in Nat
        /\ s.bal[token0][pair] \in Nat /\ s.bal[token1][pair] \in Nat
    BY <1>3, <1>4, Addresses DEF States, Reserves
  <2>. QED BY <2>1, Zenon
<1>6. amount0 = h0 - r0 /\ amount1 = h1 - r1 /\ amount0 \in Nat /\ amount1 \in Nat
  BY <1>2, <1>5, HeldIs
<1>7. ASSUME ~first
      PROVE  liquidity \in Nat /\ r0 * (n + liquidity) <= h0 * n /\ r1 * (n + liquidity) <= h1 * n
  <2>1. r0 > 0 /\ r1 > 0
    BY <1>2, <1>5, <1>7 DEF K
  <2>2. PICK a0 \in Nat, a1 \in Nat : a0 = amount0 /\ a1 = amount1
    BY <1>6
  <2>3. PICK m0, m1 : m0 = a0 * n /\ m1 = a1 * n
    OBVIOUS
  <2>4. m0 \in Nat /\ m1 \in Nat
    BY <2>2, <2>3
  <2>5. l0 = m0 \div r0 /\ l1 = m1 \div r1
    BY <1>4, <1>5, <2>2, <2>3 DEF Liquidity
  <2>6. l0 \in Nat /\ l1 \in Nat /\ l0 * r0 <= m0 /\ l1 * r1 <= m1
    BY <2>1, <2>4, <2>5, Divide
  <2>7. PICK l \in Nat : l = liquidity /\ l <= l0 /\ l <= l1
    BY <1>7, <2>6
  <2>8. l * r0 <= l0 * r0 /\ l * r1 <= l1 * r1
    BY <2>6, <2>7, Multiply
  <2>9. r0 * l <= a0 * n /\ r1 * l <= a1 * n
    BY <2>3, <2>4, <2>6, <2>7, <2>8
  <2>10. r0 * (n + l) = r0 * n + r0 * l /\ r1 * (n + l) = r1 * n + r1 * l
    OBVIOUS
  <2>11. h0 = r0 + a0 /\ h1 = r1 + a1
    BY <1>6, <2>2
  <2>12. h0 * n = r0 * n + a0 * n /\ h1 * n = r1 * n + a1 * n
    BY <2>11
  <2>. QED BY <2>7, <2>9, <2>10, <2>12
<1>8. liquidity \in Nat
  <2>1. CASE first
    <3>1. amount0 * amount1 \in Nat
      BY <1>6
    <3>2. Sqrt(amount0 * amount1) \in Nat
      BY <3>1, SqrtRoot
    <3>. QED BY <1>2, <2>1, <3>2, ConstantsAssumption
  <2>. QED BY <1>7, <2>1
<1>9. PICK g : g = locked
  OBVIOUS
<1>10. /\ g \in States /\ g.native = s.native /\ g.created /\ g.feeTo = s.feeTo
       /\ (~feeOn(s) => g.kLast = 0) /\ (~first => g.supply[pair] = n)
       /\ \A p \in Tokens : p # pair => g.supply[p] = s.supply[p]
       /\ \A p \in Tokens, a \in Accounts : p # pair => g.bal[p][a] = s.bal[p][a]
       /\ Counted(g) /\ g.bal[pair][zero] >= MINIMUM_LIQUIDITY
  <2>1. CASE first
    <3>1. g = mintValue(f, pair, zero, MINIMUM_LIQUIDITY)
      BY <1>9, <2>1
    <3>2. f \in States /\ pair \in Tokens /\ zero \in Accounts /\ MINIMUM_LIQUIDITY \in Nat
      BY <1>4, Addresses, ConstantsAssumption
    <3>3. /\ g \in States /\ g.native = f.native /\ g.created = f.created
          /\ g.feeTo = f.feeTo /\ g.reserve = f.reserve /\ g.kLast = f.kLast
          /\ \A p \in Tokens : g.supply[p] = f.supply[p] + (IF p = pair THEN MINIMUM_LIQUIDITY ELSE 0)
          /\ \A p \in Tokens, x \in Accounts :
               g.bal[p][x] = f.bal[p][x] + (IF p = pair /\ x = zero THEN MINIMUM_LIQUIDITY ELSE 0)
      <4>1. Minted(f, pair, zero, MINIMUM_LIQUIDITY, g)
        BY <3>1, <3>2, MintEffect
      <4>. QED BY <4>1 DEF Minted
    <3>5. Counted(g)
      <4>1. Minted(f, pair, zero, MINIMUM_LIQUIDITY, g)
        BY <3>1, <3>2, MintEffect
      <4>. QED BY <1>4, <3>2, <4>1, MintCounted
    <3>6. g.bal[pair][zero] >= MINIMUM_LIQUIDITY
      <4>1. f.bal[pair][zero] \in Nat /\ g.bal[pair][zero] = f.bal[pair][zero] + MINIMUM_LIQUIDITY
        BY <3>2, <3>3 DEF States
      <4>. QED BY <3>2, <4>1
    <3>4. ASSUME NEW p \in Tokens, p # pair
          PROVE g.supply[p] = s.supply[p] /\ \A a \in Accounts : g.bal[p][a] = s.bal[p][a]
      <4>1. f.supply[p] \in Nat /\ \A a \in Accounts : f.bal[p][a] \in Nat
        BY <3>2 DEF States
      <4>2. g.supply[p] = f.supply[p] + 0 /\ \A a \in Accounts : g.bal[p][a] = f.bal[p][a] + 0
        BY <3>3, <3>4
      <4>. QED BY <1>4, <3>4, <4>1, <4>2
    <3>. QED BY <1>2, <1>4, <2>1, <3>3, <3>4, <3>5, <3>6
  <2>2. CASE ~first
    <3>1. f.bal[pair][zero] >= MINIMUM_LIQUIDITY
      <4>1. f.supply[pair] > 0
        BY <1>5, <2>2
      <4>. QED BY <1>4, <4>1 DEF Counted, Locked
    <3>. QED BY <1>2, <1>4, <1>5, <1>9, <2>2, <3>1
  <2>. QED BY <2>1, <2>2
<1>11. PICK l \in Nat : l = liquidity
  BY <1>8
<1>12. PICK z : z = mintValue(g, pair, to, l)
  OBVIOUS
<1>13. /\ z \in States /\ z.native = g.native /\ z.created = g.created
       /\ z.feeTo = g.feeTo /\ z.reserve = g.reserve /\ z.kLast = g.kLast
       /\ \A p \in Tokens : z.supply[p] = g.supply[p] + (IF p = pair THEN l ELSE 0)
       /\ \A p \in Tokens, x \in Accounts :
            z.bal[p][x] = g.bal[p][x] + (IF p = pair /\ x = to THEN l ELSE 0)
       /\ Counted(z)
  <2>1. g \in States /\ pair \in Tokens
    BY <1>10, Addresses
  <2>2. Minted(g, pair, to, l, z)
    BY <1>12, <2>1, MintEffect
  <2>3. Counted(z)
    BY <1>10, <2>1, <2>2, MintCounted
  <2>. QED BY <2>2, <2>3 DEF Minted
<1>14. z.bal[token0][pair] = h0 /\ z.bal[token1][pair] = h1 /\ z.supply[wrapped] = s.supply[wrapped]
  <2>1. s.supply[wrapped] \in Nat
    BY <1>3, Addresses DEF States
  <2>. QED BY <1>5, <1>10, <1>13, <2>1, Addresses
<1>15. /\ Good(y) /\ y.supply = z.supply /\ K(y) = h0 * h1
  <2>1. Backed(z)
    BY <1>3, <1>10, <1>13, <1>14 DEF Backed
  <2>2. y \in Settle(z)
    BY <1>2, <1>9, <1>11, <1>12
  <2>3. z.created /\ (~feeOn(z) => z.kLast = 0)
    BY <1>10, <1>13 DEF feeOn
  <2>4. /\ Good(y) /\ y.supply = z.supply /\ K(y) = z.bal[token0][pair] * z.bal[token1][pair]
    BY <1>13, <2>1, <2>2, <2>3, SettleGood
  <2>. QED BY <1>14, <2>4
<1>16. Worth(s, y)
  <2>1. SUFFICES ASSUME s.supply[pair] > 0
                 PROVE  K(y) * n * n >= K(s) * y.supply[pair] * y.supply[pair]
    BY <1>4, <1>5 DEF Worth
  <2>2. s.supply[pair] \in Nat /\ FeeOwed(s) \in Nat
    BY <1>3, FeeType, Addresses DEF States
  <2>3. ~first
    BY <1>4, <2>1, <2>2
  <2>4. y.supply[pair] = n + l
    BY <1>10, <1>13, <1>15, <2>3, Addresses
  <2>5. r0 * (n + l) <= h0 * n /\ r1 * (n + l) <= h1 * n
    BY <1>7, <1>11, <2>3
  <2>6. r0 * r1 * (n + l) * (n + l) <= h0 * h1 * n * n
    BY <2>5, Products
  <2>7. K(s) = r0 * r1
    BY <1>5 DEF K
  <2>8. PICK a, b : a = r0 * r1 * (n + l) * (n + l) /\ b = h0 * h1 * n * n /\ a \in Nat /\ b \in Nat
    OBVIOUS
  <2>. QED BY <1>15, <2>4, <2>6, <2>7, <2>8
<1>. QED BY <1>15, <1>16

\* The pair has paid v of token t to "to", itself included.
Paid(s, t, to, v, y) ==
  /\ y \in States /\ SameBut(s, y) /\ v <= s.bal[t][pair] /\ (Counted(s) => Counted(y))
  /\ y.bal[t][pair] = s.bal[t][pair] - (IF to = pair THEN 0 ELSE v)
  /\ \A p \in Tokens : p # t => y.bal[p][pair] = s.bal[p][pair]
  /\ \A p \in Tokens, a \in Accounts : a # pair => y.bal[p][a] >= s.bal[p][a]

LEMMA PairPays ==
  ASSUME NEW s \in States, NEW t \in Tokens, NEW to \in Accounts,
         NEW v \in Nat, NEW y \in Transfer(s, t, pair, to, v)
  PROVE  Paid(s, t, to, v, y)
<1>1. pair \in Accounts
  BY Addresses
<1>2. /\ y \in States /\ SameBut(s, y) /\ v <= s.bal[t][pair]
      /\ \A p \in Tokens, a \in Accounts :
           y.bal[p][a] = s.bal[p][a] + (IF p = t /\ a = to THEN v ELSE 0)
                                     - (IF p = t /\ a = pair THEN v ELSE 0)
  BY <1>1, TransferEffect
<1>3. \A p \in Tokens, a \in Accounts : s.bal[p][a] \in Nat
  BY DEF States
<1>4. y.bal[t][pair] = s.bal[t][pair] - (IF to = pair THEN 0 ELSE v)
  <2>1. /\ s.bal[t][pair] \in Nat
        /\ y.bal[t][pair] = s.bal[t][pair] + (IF pair = to THEN v ELSE 0) - v
    BY <1>1, <1>2, <1>3
  <2>. QED BY <2>1
<1>5. ASSUME NEW p \in Tokens, p # t PROVE y.bal[p][pair] = s.bal[p][pair]
  <2>1. s.bal[p][pair] \in Nat /\ y.bal[p][pair] = s.bal[p][pair] + 0 - 0
    BY <1>1, <1>2, <1>3, <1>5
  <2>. QED BY <2>1
<1>6. ASSUME NEW p \in Tokens, NEW a \in Accounts, a # pair PROVE y.bal[p][a] >= s.bal[p][a]
  <2>1. /\ s.bal[p][a] \in Nat
        /\ y.bal[p][a] = s.bal[p][a] + (IF p = t /\ a = to THEN v ELSE 0) - 0
    BY <1>1, <1>2, <1>3, <1>6
  <2>. QED BY <2>1
<1>7. Counted(s) => Counted(y)
  BY <1>1, Addresses, TransferCounted
<1>. QED BY <1>2, <1>4, <1>5, <1>6, <1>7 DEF Paid

\* The pair pays no more of its tokens than the part of its shares that are burnt.
LEMMA BurnGood ==
  ASSUME NEW s, Good(s), NEW to \in Accounts, NEW y \in Burn(s, to)
  PROVE  /\ Good(y) /\ Worth(s, y)
         /\ \A t \in {token0, token1}, a \in Accounts : a # pair => y.bal[t][a] >= s.bal[t][a]
<1>1. PICK f : f = MintFee(s)
  OBVIOUS
<1>2. s \in States /\ Backed(s) /\ Covered(s) /\ Counted(s)
  BY DEF Good
<1>3. /\ f \in States /\ f.native = s.native /\ f.created = s.created
      /\ f.feeTo = s.feeTo /\ f.reserve = s.reserve /\ (~feeOn(s) => f.kLast = 0)
      /\ f.supply[pair] = s.supply[pair] + FeeOwed(s)
      /\ \A p \in Tokens : p # pair => f.supply[p] = s.supply[p]
      /\ \A p \in Tokens, a \in Accounts : p # pair => f.bal[p][a] = s.bal[p][a]
      /\ Counted(f)
  BY <1>1, <1>2, MintFeeEffect
<1>4. PICK b, a0, a1 : b = s.bal[pair][pair] /\ a0 = BurnAmount(s, 1) /\ a1 = BurnAmount(s, 2)
  OBVIOUS
<1>5. s.created /\ s.supply[pair] > 0
  BY DEF Burn
<1>6. \E x0 \in burnValue(MintFee(s), pair, pair, s.bal[pair][pair]) :
        \E x1 \in Transfer(x0, token0, pair, to, BurnAmount(s, 1)) :
          \E x2 \in Transfer(x1, token1, pair, to, BurnAmount(s, 2)) : y \in Settle(x2)
  BY DEF Burn, Then
<1>7. PICK x0 \in burnValue(f, pair, pair, b) :
        \E x1 \in Transfer(x0, token0, pair, to, a0) :
          \E x2 \in Transfer(x1, token1, pair, to, a1) : y \in Settle(x2)
  BY <1>1, <1>4, <1>6
<1>8. PICK x1 \in Transfer(x0, token0, pair, to, a0) :
        \E x2 \in Transfer(x1, token1, pair, to, a1) : y \in Settle(x2)
  BY <1>7
<1>9. PICK x2 \in Transfer(x1, token1, pair, to, a1) : y \in Settle(x2)
  BY <1>8
<1>10. /\ s.reserve[1] \in Nat /\ s.reserve[2] \in Nat /\ f.supply[pair] \in Nat
       /\ s.bal[token0][pair] \in Nat /\ s.bal[token1][pair] \in Nat /\ s.bal[pair][pair] \in Nat
       /\ s.supply[pair] \in Nat /\ FeeOwed(s) \in Nat
  <2>1. s.reserve[1] \in Nat /\ s.reserve[2] \in Nat
    BY <1>2, KType
  <2>2. /\ f.supply[pair] \in Nat /\ s.bal[token0][pair] \in Nat /\ s.bal[token1][pair] \in Nat
        /\ s.bal[pair][pair] \in Nat /\ s.supply[pair] \in Nat
    BY <1>2, <1>3, Addresses DEF States
  <2>3. FeeOwed(s) \in Nat
    BY <1>2, FeeType
  <2>. QED BY <2>1, <2>2, <2>3
<1>11. PICK r0 \in Nat, r1 \in Nat, h0 \in Nat, h1 \in Nat, n \in Nat :
        /\ r0 = s.reserve[1] /\ r1 = s.reserve[2] /\ n = f.supply[pair]
        /\ h0 = s.bal[token0][pair] /\ h1 = s.bal[token1][pair]
  BY <1>10, Zenon
<1>12. b \in Nat /\ n > 0 /\ r0 <= h0 /\ r1 <= h1
  BY <1>2, <1>3, <1>4, <1>5, <1>10, <1>11 DEF Covered
<1>13. a0 = (b * h0) \div n /\ a1 = (b * h1) \div n
  BY <1>1, <1>4, <1>11, HeldIs DEF BurnAmount
<1>14. a0 \in Nat /\ a1 \in Nat /\ a0 * n <= b * h0 /\ a1 * n <= b * h1
  <2>1. b * h0 \in Nat /\ b * h1 \in Nat
    BY <1>12
  <2>. QED BY <1>12, <1>13, <2>1, Divide
<1>15. /\ x0 \in States /\ x0.native = f.native /\ x0.created = f.created
       /\ x0.feeTo = f.feeTo /\ x0.reserve = f.reserve /\ x0.kLast = f.kLast
       /\ \A p \in Tokens : x0.supply[p] = f.supply[p] - (IF p = pair THEN b ELSE 0)
       /\ \A p \in Tokens, x \in Accounts :
            x0.bal[p][x] = f.bal[p][x] - (IF p = pair /\ x = pair THEN b ELSE 0)
       /\ Counted(x0)
  <2>1. pair \in Tokens /\ pair \in Accounts /\ pair # zero
    BY Addresses
  <2>2. Counted(x0)
    BY <1>3, <1>7, <1>12, <2>1, BurnCounted
  <2>. QED BY <1>3, <1>7, <1>12, <2>1, <2>2, BurnEffect
<1>16. x0.supply[pair] = n - b /\ x0.supply[wrapped] = s.supply[wrapped] /\ n - b \in Nat
  <2>1. s.supply[wrapped] \in Nat /\ x0.supply[pair] \in Nat
    BY <1>2, <1>15, Addresses DEF States
  <2>. QED BY <1>3, <1>11, <1>15, <2>1, Addresses
<1>17. ASSUME NEW t \in {token0, token1}, NEW a \in Accounts
       PROVE  x0.bal[t][a] = s.bal[t][a] /\ s.bal[t][a] \in Nat
  <2>1. t \in Tokens /\ t # pair
    BY Addresses
  <2>2. f.bal[t][a] = s.bal[t][a] /\ s.bal[t][a] \in Nat
    BY <1>2, <1>3, <2>1 DEF States
  <2>3. x0.bal[t][a] = f.bal[t][a] - 0
    BY <1>15, <2>1
  <2>. QED BY <2>2, <2>3
<1>18. Paid(x0, token0, to, a0, x1)
  BY <1>8, <1>14, <1>15, Addresses, PairPays
<1>19. x1 \in States
  BY <1>18 DEF Paid
<1>20. Paid(x1, token1, to, a1, x2)
  BY <1>9, <1>14, <1>19, Addresses, PairPays
<1>21. /\ x2 \in States /\ x2.supply = x0.supply /\ x2.native = s.native /\ x2.created
       /\ x2.feeTo = s.feeTo /\ (~feeOn(s) => x2.kLast = 0) /\ Counted(x2)
  BY <1>3, <1>5, <1>15, <1>18, <1>20 DEF Paid, SameBut
<1>22. PICK g0 \in Nat, g1 \in Nat :
         /\ g0 = x2.bal[token0][pair] /\ g1 = x2.bal[token1][pair]
         /\ h0 - a0 <= g0 /\ h1 - a1 <= g1
  <2>1. x2.bal[token0][pair] \in Nat /\ x2.bal[token1][pair] \in Nat
    BY <1>21, Addresses DEF States
  <2>2. /\ x1.bal[token0][pair] = x0.bal[token0][pair] - (IF to = pair THEN 0 ELSE a0)
        /\ x1.bal[token1][pair] = x0.bal[token1][pair]
    BY <1>18, Addresses DEF Paid
  <2>3. /\ x2.bal[token1][pair] = x1.bal[token1][pair] - (IF to = pair THEN 0 ELSE a1)
        /\ x2.bal[token0][pair] = x1.bal[token0][pair]
    BY <1>20, Addresses DEF Paid
  <2>4. x0.bal[token0][pair] = h0 /\ x0.bal[token1][pair] = h1
    BY <1>11, <1>17, Addresses
  <2>5. h0 - a0 <= x2.bal[token0][pair] /\ h1 - a1 <= x2.bal[token1][pair]
    BY <1>14, <2>2, <2>3, <2>4
  <2>. QED BY <2>1, <2>5
<1>23. /\ Good(y) /\ y.supply = x2.supply /\ y.bal = x2.bal /\ K(y) = g0 * g1
  <2>1. Backed(x2)
    BY <1>2, <1>16, <1>21 DEF Backed
  <2>2. ~feeOn(x2) => x2.kLast = 0
    BY <1>21 DEF feeOn
  <2>3. /\ Good(y) /\ y.supply = x2.supply /\ y.bal = x2.bal
        /\ K(y) = x2.bal[token0][pair] * x2.bal[token1][pair]
    BY <1>9, <1>21, <2>1, <2>2, SettleGood
  <2>. QED BY <1>22, <2>3
<1>24. ASSUME NEW t \in {token0, token1}, NEW a \in Accounts, a # pair
       PROVE  y.bal[t][a] >= s.bal[t][a]
  <2>1. x1.bal[t][a] >= x0.bal[t][a] /\ x2.bal[t][a] >= x1.bal[t][a]
    BY <1>18, <1>20, <1>24, Addresses DEF Paid
  <2>2. x1.bal[t][a] \in Nat /\ x2.bal[t][a] \in Nat
    BY <1>19, <1>21, Addresses DEF States
  <2>. QED BY <1>17, <1>23, <2>1, <2>2
<1>25. Worth(s, y)
  <2>1. PICK m \in Nat : m = n - b
    BY <1>16
  <2>2. r0 * m <= g0 * n /\ r1 * m <= g1 * n
    <3>1. ASSUME NEW r \in Nat, NEW h \in Nat, NEW a \in Nat, NEW g \in Nat,
                 r <= h, h - a <= g, a * n <= b * h
          PROVE  r * m <= g * n
      <4>1. r * m <= h * m
        BY <3>1, <2>1, Multiply
      <4>2. h * m = h * n - b * h
        BY <2>1, <1>12
      <4>3. h <= g + a
        BY <3>1
      <4>4. h * n <= (g + a) * n
        BY <4>3, Multiply
      <4>5. (g + a) * n = g * n + a * n
        OBVIOUS
      <4>6. h * n - a * n <= g * n
        BY <4>4, <4>5
      <4>. QED BY <3>1, <4>1, <4>2, <4>6, <1>12
    <3>. QED BY <3>1, <1>12, <1>14, <1>22
  <2>3. r0 * r1 * m * m <= g0 * g1 * n * n
    BY <2>2, Products
  <2>4. /\ K(s) = r0 * r1 /\ y.supply[pair] = m /\ n = s.supply[pair] + FeeOwed(s)
    BY <1>3, <1>11, <1>16, <1>21, <1>23, <2>1 DEF K
  <2>5. PICK a, c : a = r0 * r1 * m * m /\ c = g0 * g1 * n * n /\ a \in Nat /\ c \in Nat
    OBVIOUS
  <2>6. K(y) * n * n >= K(s) * y.supply[pair] * y.supply[pair]
    BY <1>23, <2>3, <2>4, <2>5
  <2>. QED BY <2>4, <2>6 DEF Worth
<1>. QED BY <1>23, <1>24, <1>25

\* _update at the end of swap and sync: K has not fallen.
LEMMA UpdateGood ==
  ASSUME NEW s, Good(s), NEW x \in States, SameBut(s, x), Counted(x), s.created,
         NEW y \in Update(x), K(s) <= x.bal[token0][pair] * x.bal[token1][pair]
  PROVE  Good(y) /\ Worth(s, y)
<1>1. s \in States /\ Backed(s) /\ Based(s)
  BY DEF Good
<1>2. x.bal[token0][pair] \in Nat /\ x.bal[token1][pair] \in Nat
  BY Addresses DEF States
<1>3. PICK r : r = <<x.bal[token0][pair], x.bal[token1][pair]>>
  OBVIOUS
<1>4. r[1] = x.bal[token0][pair] /\ r[2] = x.bal[token1][pair]
  BY <1>3
<1>5. y = [x EXCEPT !.reserve = r] /\ r \in Reserves \X Reserves
  BY <1>3, UpdateEffect
<1>6. /\ y \in States /\ y.reserve = r /\ y.kLast = s.kLast /\ y.bal = x.bal
      /\ y.supply = s.supply /\ y.native = s.native /\ y.created
  BY <1>5 DEF States, SameBut
<1>7. K(y) = r[1] * r[2] /\ K(s) <= K(y) /\ K(s) = s.reserve[1] * s.reserve[2]
  BY <1>4, <1>6 DEF K
<1>8. s.kLast \in Nat /\ K(s) \in Nat /\ K(y) \in Nat
  BY <1>1, <1>6 DEF States, Reserves, K
<1>9. Based(y)
  BY <1>1, <1>6, <1>7, <1>8 DEF Based
<1>10. Covered(y) /\ Backed(y) /\ Live(y)
  BY <1>1, <1>2, <1>4, <1>6 DEF Covered, Backed, Live
<1>11. Worth(s, y)
  BY <1>1, <1>6, <1>7, WorthSame
<1>12. Counted(y)
  BY <1>6, CountedSame DEF SameBut
<1>. QED BY <1>6, <1>9, <1>10, <1>11, <1>12 DEF Good

LEMMA SyncGood ==
  ASSUME NEW s, Good(s), NEW y \in Sync(s)
  PROVE  Good(y) /\ Worth(s, y)
<1>1. s \in States /\ Covered(s) /\ Counted(s)
  BY DEF Good
<1>2. s.created /\ y \in Update(s)
  BY DEF Sync
<1>3. /\ s.reserve[1] \in Nat /\ s.reserve[2] \in Nat
      /\ s.bal[token0][pair] \in Nat /\ s.bal[token1][pair] \in Nat
  BY <1>1, Addresses DEF States, Reserves
<1>4. s.reserve[1] * s.reserve[2] <= s.bal[token0][pair] * s.bal[token1][pair]
  BY <1>1, <1>3, Multiply DEF Covered
<1>. QED BY <1>1, <1>2, <1>4, UpdateGood DEF K, SameBut

LEMMA SkimGood ==
  ASSUME NEW s, Good(s), NEW to \in Accounts, NEW y \in Skim(s, to)
  PROVE  Good(y) /\ SamePool(s, y)
<1>1. s \in States /\ Covered(s) /\ Backed(s) /\ Based(s) /\ Live(s) /\ Counted(s)
  BY DEF Good
<1>2. PICK x \in Transfer(s, token0, pair, to, Held(s, 1) - s.reserve[1]) :
        y \in Transfer(x, token1, pair, to, Held(x, 2) - s.reserve[2])
  BY DEF Skim, Then
<1>3. /\ s.reserve[1] \in Nat /\ s.reserve[2] \in Nat
      /\ s.bal[token0][pair] \in Nat /\ s.bal[token1][pair] \in Nat
  BY <1>1, Addresses DEF States, Reserves
<1>4. PICK v0 \in Nat : v0 = Held(s, 1) - s.reserve[1]
  BY <1>1, <1>3, HeldIs DEF Covered
<1>5. Paid(s, token0, to, v0, x)
  BY <1>1, <1>2, <1>4, Addresses, PairPays
<1>6. /\ x \in States /\ SameBut(s, x) /\ x.bal[token1][pair] = s.bal[token1][pair]
      /\ x.bal[token0][pair] = s.bal[token0][pair] - (IF to = pair THEN 0 ELSE v0)
  BY <1>5, Addresses DEF Paid
<1>7. PICK v1 \in Nat : v1 = Held(x, 2) - s.reserve[2]
  BY <1>1, <1>3, <1>6, HeldIs DEF Covered
<1>8. Paid(x, token1, to, v1, y)
  BY <1>2, <1>6, <1>7, Addresses, PairPays
<1>9. /\ y \in States /\ SameBut(x, y) /\ y.bal[token0][pair] = x.bal[token0][pair]
      /\ y.bal[token1][pair] = x.bal[token1][pair] - (IF to = pair THEN 0 ELSE v1)
  BY <1>8, Addresses DEF Paid
<1>10. SameBut(s, y)
  BY <1>6, <1>9 DEF SameBut
<1>11. s.reserve[1] <= y.bal[token0][pair] /\ s.reserve[2] <= y.bal[token1][pair]
  <2>1. v0 = s.bal[token0][pair] - s.reserve[1] /\ v1 = s.bal[token1][pair] - s.reserve[2]
    BY <1>4, <1>6, <1>7, HeldIs
  <2>2. y.bal[token0][pair] = s.bal[token0][pair] - (IF to = pair THEN 0 ELSE v0)
    BY <1>6, <1>9
  <2>3. y.bal[token1][pair] = s.bal[token1][pair] - (IF to = pair THEN 0 ELSE v1)
    BY <1>6, <1>9
  <2>. QED BY <1>1, <1>3, <2>1, <2>2, <2>3 DEF Covered
<1>12. Counted(y)
  BY <1>1, <1>5, <1>8 DEF Paid
<1>. QED BY <1>1, <1>9, <1>10, <1>11, <1>12 DEF Good, Covered, Backed, Based, Live, SameBut, SamePool

\* The check of swap, which counts 0.3% of the input as fee, keeps K itself.
LEMMA KKeptKeepsK ==
  ASSUME NEW h \in Nat, NEW g \in Nat, NEW i \in Nat, NEW j \in Nat, NEW k \in Nat,
         i <= h, j <= g, (h * 1000 - i * 3) * (g * 1000 - j * 3) >= k * 1000 * 1000
  PROVE  k <= h * g
<1>1. PICK a : a = h * 1000 - i * 3
  OBVIOUS
<1>2. PICK b : b = g * 1000 - j * 3
  OBVIOUS
<1>3. a * b <= (h * 1000) * (g * 1000) /\ a \in Nat /\ b \in Nat
  <2>1. a \in Nat /\ a <= h * 1000 /\ b \in Nat /\ b <= g * 1000
    BY <1>1, <1>2
  <2>. QED BY <2>1, Multiply
<1>4. (h * 1000) * (g * 1000) = (h * g) * 1000 * 1000
  OBVIOUS
<1>5. PICK p \in Nat : p = h * g
  OBVIOUS
<1>6. PICK q \in Nat : q = a * b
  BY <1>3
<1>7. k * 1000 * 1000 <= p * 1000 * 1000
  BY <1>1, <1>2, <1>3, <1>4, <1>5, <1>6
<1>. QED BY <1>5, <1>7

LEMMA SwapGood ==
  ASSUME NEW s, Good(s), NEW out0 \in Nat, NEW out1 \in Nat, NEW to \in Accounts,
         NEW y \in Swap(s, out0, out1, to)
  PROVE  Good(y) /\ Worth(s, y)
<1>1. s \in States /\ Covered(s) /\ Counted(s)
  BY DEF Good
<1>2. PICK x, w :
        /\ w \in Transfer(s, token0, pair, to, out0) /\ x \in Transfer(w, token1, pair, to, out1)
        /\ y \in Update(x) /\ s.created
        /\ ~InThrows(x, out0, 1) /\ ~InThrows(x, out1, 2)
        /\ KKept(x, AmountIn(x, out0, 1), AmountIn(x, out1, 2))
  BY DEF Swap, Then
<1>3. Paid(s, token0, to, out0, w)
  BY <1>1, <1>2, Addresses, PairPays
<1>4. w \in States /\ SameBut(s, w)
  BY <1>3 DEF Paid
<1>5. Paid(w, token1, to, out1, x)
  BY <1>2, <1>4, Addresses, PairPays
<1>6. x \in States /\ SameBut(s, x)
  BY <1>4, <1>5 DEF Paid, SameBut
<1>7. PICK h \in Nat, g \in Nat, r0 \in Nat, r1 \in Nat :
        /\ h = x.bal[token0][pair] /\ g = x.bal[token1][pair]
        /\ r0 = x.reserve[1] /\ r1 = x.reserve[2]
  <2>1. /\ x.bal[token0][pair] \in Nat /\ x.bal[token1][pair] \in Nat
        /\ x.reserve[1] \in Nat /\ x.reserve[2] \in Nat
    BY <1>6, Addresses DEF States, Reserves
  <2>. QED BY <2>1, Zenon
<1>8. PICK i, j : i = AmountIn(x, out0, 1) /\ j = AmountIn(x, out1, 2)
  OBVIOUS
<1>9. /\ i = IF h > r0 - out0 THEN h - r0 + out0 ELSE 0
      /\ j = IF g > r1 - out1 THEN g - r1 + out1 ELSE 0
  BY <1>7, <1>8, HeldIs DEF AmountIn
<1>10. ~(out0 > r0) /\ ~(out1 > r1)
  BY <1>2, <1>7 DEF InThrows
<1>11. i \in Nat /\ j \in Nat /\ i <= h /\ j <= g
  BY <1>9, <1>10
<1>12. PICK k \in Nat : k = K(x)
  BY <1>7 DEF K
<1>13. (h * 1000 - i * 3) * (g * 1000 - j * 3) >= k * 1000 * 1000
  BY <1>2, <1>7, <1>8, <1>12, HeldIs DEF KKept
<1>14. k <= h * g
  BY <1>11, <1>13, KKeptKeepsK
<1>15. K(s) = K(x)
  BY <1>6 DEF SameBut, K
<1>16. Counted(x)
  BY <1>1, <1>3, <1>5 DEF Paid
<1>. QED BY <1>2, <1>6, <1>7, <1>12, <1>14, <1>15, <1>16, UpdateGood

-----------------------------------------------------------------------------
(* DEXV2Factory *)

LEMMA CreatedGood ==
  ASSUME NEW s, Good(s), NEW y, y = [s EXCEPT !.created = TRUE]
  PROVE  Good(y) /\ SamePool(s, y) /\ y.bal = s.bal
<1>1. s \in States /\ Covered(s) /\ Backed(s) /\ Based(s) /\ Counted(s)
  BY DEF Good
<1>2. /\ y \in States /\ y.created /\ y.bal = s.bal /\ y.supply = s.supply /\ y.native = s.native
      /\ y.feeTo = s.feeTo /\ y.reserve = s.reserve /\ y.kLast = s.kLast
  <2>1. TRUE \in BOOLEAN
    OBVIOUS
  <2>. QED BY <1>1, <2>1 DEF States
<1>3. Counted(y)
  BY <1>1, <1>2, CountedSame
<1>. QED BY <1>1, <1>2, <1>3 DEF Good, Covered, Backed, Based, Live, SamePool

LEMMA SetFeeToGood ==
  ASSUME NEW s, Good(s), NEW a \in Users \cup {zero}, NEW y \in SetFeeTo(s, a)
  PROVE  Good(y) /\ Worth(s, y)
<1>1. s \in States /\ Covered(s) /\ Backed(s) /\ Based(s) /\ Live(s) /\ Counted(s)
  BY DEF Good
<1>2. y = [s EXCEPT !.feeTo = a]
  BY DEF SetFeeTo
<1>3. /\ y \in States /\ y.bal = s.bal /\ y.supply = s.supply /\ y.native = s.native
      /\ y.created = s.created /\ y.reserve = s.reserve /\ y.kLast = s.kLast
  BY <1>1, <1>2 DEF States
<1>4. Good(y)
  <2>1. Counted(y)
    BY <1>1, <1>3, CountedSame
  <2>. QED BY <1>1, <1>3, <2>1 DEF Good, Covered, Backed, Based, Live
<1>5. K(y) = K(s) /\ K(s) \in Nat
  BY <1>1, <1>3, KType DEF K
<1>. QED BY <1>1, <1>3, <1>4, <1>5, WorthSame

-----------------------------------------------------------------------------
(* DEXV2Library and DEXV2Router02 *)

LEMMA LiquidityAmountsType ==
  ASSUME NEW s \in States, NEW da \in Nat, NEW db \in Nat, NEW ma \in Nat, NEW mb \in Nat,
         NEW a \in LiquidityAmounts(s, da, db, ma, mb)
  PROVE  a[1] \in Nat /\ a[2] \in Nat
<1>1. PICK r1 \in Nat, r2 \in Nat : r1 = s.reserve[1] /\ r2 = s.reserve[2]
  <2>1. s.reserve[1] \in Nat /\ s.reserve[2] \in Nat
    BY DEF States, Reserves
  <2>. QED BY <2>1, Zenon
<1>. DEFINE optimalB == quote(da, r1, r2)
            optimalA == quote(db, r2, r1)
<1>2. CASE r1 = 0 /\ r2 = 0
  BY <1>1, <1>2 DEF LiquidityAmounts
<1>3. CASE ~(r1 = 0 /\ r2 = 0)
  <2>1. K(s) # 0 /\ (a = <<da, optimalB>> \/ a = <<optimalA, db>>)
    BY <1>1, <1>3 DEF LiquidityAmounts
  <2>2. r1 > 0 /\ r2 > 0
    BY <1>1, <2>1 DEF K
  <2>3. da * r2 \in Nat /\ db * r1 \in Nat
    OBVIOUS
  <2>4. optimalB \in Nat /\ optimalA \in Nat
    BY <2>2, <2>3, Divide DEF quote
  <2>. QED BY <2>1, <2>4
<1>. QED BY <1>2, <1>3

LEMMA AmountsType ==
  ASSUME NEW s \in States, NEW v \in Nat
  PROVE  AmountsOut(s, v) \subseteq Nat /\ AmountsIn(s, v) \subseteq Nat
<1>1. PICK r1 \in Nat, r2 \in Nat : r1 = s.reserve[1] /\ r2 = s.reserve[2]
  <2>1. s.reserve[1] \in Nat /\ s.reserve[2] \in Nat
    BY DEF States, Reserves
  <2>. QED BY <2>1, Zenon
<1>2. ASSUME NEW o \in AmountsOut(s, v) PROVE o \in Nat
  <2>1. v > 0 /\ o = (v * 997 * r2) \div (r1 * 1000 + v * 997)
    BY <1>1 DEF AmountsOut, getAmountOut
  <2>2. v * 997 * r2 \in Nat /\ r1 * 1000 + v * 997 \in Nat /\ r1 * 1000 + v * 997 > 0
    BY <2>1
  <2>. QED BY <2>1, <2>2, Divide
<1>3. ASSUME NEW i \in AmountsIn(s, v) PROVE i \in Nat
  <2>1. v < r2 /\ i = (r1 * v * 1000) \div ((r2 - v) * 997) + 1
    BY <1>1 DEF AmountsIn, getAmountIn
  <2>2. PICK n, d : n = r1 * v * 1000 /\ d = (r2 - v) * 997
    OBVIOUS
  <2>3. n \in Nat /\ d \in Nat /\ d > 0
    BY <2>1, <2>2
  <2>4. n \div d \in Nat
    BY <2>3, Divide
  <2>. QED BY <2>1, <2>2, <2>4
<1>. QED BY <1>2, <1>3

LEMMA AddLiquidityGood ==
  ASSUME NEW s, Good(s), NEW u \in Users, NEW t \in {token0, token1}, NEW da \in Nat,
         NEW db \in Nat, NEW ma \in Nat, NEW mb \in Nat, NEW to \in Accounts,
         NEW y \in AddLiquidity(s, u, t, da, db, ma, mb, to)
  PROVE  Good(y) /\ Worth(s, y)
<1>. DEFINE F(a) == Then(Then(Transfer([s EXCEPT !.created = TRUE], t, u, pair, a[1]),
                             LAMBDA x : Transfer(x, Other(t), u, pair, a[2])),
                        LAMBDA x : Mint(x, to))
<1>0. y \in UNION {F(a) : a \in LiquidityAmounts(s, da, db, ma, mb)}
  BY DEF AddLiquidity
<1>1. PICK a \in LiquidityAmounts(s, da, db, ma, mb) :
        \E w \in Transfer([s EXCEPT !.created = TRUE], t, u, pair, a[1]) :
          \E x \in Transfer(w, Other(t), u, pair, a[2]) : y \in Mint(x, to)
  <2>. HIDE DEF F
  <2>1. PICK a \in LiquidityAmounts(s, da, db, ma, mb) : y \in F(a)
    BY <1>0
  <2>2. \E w \in Transfer([s EXCEPT !.created = TRUE], t, u, pair, a[1]) :
          \E x \in Transfer(w, Other(t), u, pair, a[2]) : y \in Mint(x, to)
    BY <2>1 DEF F, Then
  <2>. QED BY <2>2, Zenon
<1>2. PICK w \in Transfer([s EXCEPT !.created = TRUE], t, u, pair, a[1]) :
        \E x \in Transfer(w, Other(t), u, pair, a[2]) : y \in Mint(x, to)
  BY <1>1
<1>3. PICK x \in Transfer(w, Other(t), u, pair, a[2]) : y \in Mint(x, to)
  BY <1>2
<1>4. a[1] \in Nat /\ a[2] \in Nat
  BY LiquidityAmountsType DEF Good
<1>5. /\ t \in Tokens /\ Other(t) \in Tokens /\ u \in Accounts /\ u # pair /\ u # zero /\ pair \in Accounts
  BY Addresses
<1>6. PICK c : c = [s EXCEPT !.created = TRUE]
  OBVIOUS
<1>7. Good(c) /\ SamePool(s, c)
  BY <1>6, CreatedGood
<1>8. Good(w) /\ SamePool(c, w)
  BY <1>2, <1>4, <1>5, <1>6, <1>7, TransferGood
<1>9. Good(x) /\ SamePool(w, x)
  BY <1>3, <1>4, <1>5, <1>8, TransferGood
<1>10. Good(y) /\ Worth(x, y)
  BY <1>3, <1>9, MintGood
<1>11. SamePool(s, w)
  BY <1>7, <1>8, WorthComposes
<1>12. SamePool(s, x)
  BY <1>9, <1>11, WorthComposes
<1>. QED BY <1>10, <1>12, WorthComposes

LEMMA RefundGood ==
  ASSUME NEW s, Good(s), NEW u \in Users, NEW value \in Nat, NEW amount \in Nat,
         NEW y \in Refund(s, u, value, amount)
  PROVE  Good(y) /\ SamePool(s, y)
<1>1. CASE value > amount
  <2>1. y \in SendNative(s, router, u, value - amount) /\ value - amount \in Nat
    BY <1>1 DEF Refund
  <2>2. u \in Accounts /\ router \in Accounts /\ router # wrapped
    BY Addresses
  <2>. QED BY <2>1, <2>2, SendGood
<1>2. CASE ~(value > amount)
  <2>1. y = s
    BY <1>2 DEF Refund
  <2>. QED BY <2>1 DEF SamePool
<1>. QED BY <1>1, <1>2

LEMMA AddLiquidityNativeGood ==
  ASSUME NEW s, Good(s), NEW u \in Users, NEW value \in Nat, NEW d \in Nat,
         NEW m \in Nat, NEW nm \in Nat, NEW to \in Accounts,
         NEW y \in AddLiquidityNative(s, u, value, d, m, nm, to)
  PROVE  Good(y) /\ Worth(s, y)
<1>. DEFINE A == LiquidityAmounts(s, d, nm, m, nm)
            S1 == SendNative([s EXCEPT !.created = TRUE], u, router, value)
            S2(a) == Then(S1, LAMBDA x : Transfer(x, Other(wrapped), u, pair, a[1]))
            S3(a) == Then(S2(a), LAMBDA x : Deposit(x, router, a[2]))
            S4(a) == Then(S3(a), LAMBDA x : Transfer(x, wrapped, router, pair, a[2]))
            S5(a) == Then(S4(a), LAMBDA x : Mint(x, to))
            S6(a) == Then(S5(a), LAMBDA x : Refund(x, u, value, a[2]))
<1>0. y \in UNION {S6(a) : a \in A}
  BY DEF AddLiquidityNative
<1>. HIDE DEF A, S1, S2, S3, S4, S5, S6
<1>1. PICK a \in A : y \in S6(a)
  BY <1>0
<1>2. PICK x5 \in S5(a) : y \in Refund(x5, u, value, a[2])
  BY <1>1 DEF S6, Then
<1>3. PICK x4 \in S4(a) : x5 \in Mint(x4, to)
  BY <1>2 DEF S5, Then
<1>4. PICK x3 \in S3(a) : x4 \in Transfer(x3, wrapped, router, pair, a[2])
  BY <1>3 DEF S4, Then
<1>5. PICK x2 \in S2(a) : x3 \in Deposit(x2, router, a[2])
  BY <1>4 DEF S3, Then
<1>6. PICK x1 \in S1 : x2 \in Transfer(x1, Other(wrapped), u, pair, a[1])
  BY <1>5 DEF S2, Then
<1>7. a[1] \in Nat /\ a[2] \in Nat
  BY LiquidityAmountsType DEF Good, A
<1>8. /\ wrapped \in Tokens /\ Other(wrapped) \in Tokens /\ u \in Accounts /\ u # pair
      /\ u # wrapped /\ pair \in Accounts /\ router \in Accounts /\ router # wrapped /\ router # pair
      /\ u # zero /\ router # zero
  BY Addresses
<1>9. PICK c : c = [s EXCEPT !.created = TRUE]
  OBVIOUS
<1>10. Good(c) /\ SamePool(s, c)
  BY <1>9, CreatedGood
<1>11. Good(x1) /\ SamePool(c, x1)
  BY <1>6, <1>8, <1>9, <1>10, SendGood DEF S1
<1>12. Good(x2) /\ SamePool(x1, x2)
  BY <1>6, <1>7, <1>8, <1>11, TransferGood
<1>13. Good(x3) /\ SamePool(x2, x3)
  BY <1>5, <1>7, <1>8, <1>12, DepositGood
<1>14. Good(x4) /\ SamePool(x3, x4)
  BY <1>4, <1>7, <1>8, <1>13, TransferGood
<1>15. Good(x5) /\ Worth(x4, x5)
  BY <1>3, <1>14, MintGood
<1>16. Good(y) /\ SamePool(x5, y)
  BY <1>2, <1>7, <1>15, RefundGood
<1>17. SamePool(s, x1)
  BY <1>10, <1>11, WorthComposes
<1>18. SamePool(s, x2)
  BY <1>12, <1>17, WorthComposes
<1>19. SamePool(s, x3)
  BY <1>13, <1>18, WorthComposes
<1>20. SamePool(s, x4)
  BY <1>14, <1>19, WorthComposes
<1>21. Worth(s, x5)
  BY <1>15, <1>20, WorthComposes
<1>. QED BY <1>16, <1>21, WorthComposes

LEMMA RemoveLiquidityGood ==
  ASSUME NEW s, Good(s), NEW u \in Users, NEW v \in Nat, NEW m0 \in Nat, NEW m1 \in Nat,
         NEW to \in Accounts, NEW y \in RemoveLiquidity(s, u, v, m0, m1, to)
  PROVE  /\ Good(y) /\ Worth(s, y)
         /\ \A t \in {token0, token1}, a \in Accounts : a # pair => y.bal[t][a] >= s.bal[t][a]
<1>1. PICK x \in Transfer(s, pair, u, pair, v) : y \in Burn(x, to)
  BY DEF RemoveLiquidity
<1>2. pair \in Tokens /\ pair \in Accounts /\ u \in Accounts /\ u # pair /\ u # zero
  BY Addresses
<1>3. Good(x) /\ SamePool(s, x)
  BY <1>1, <1>2, TransferGood
<1>4. /\ Good(y) /\ Worth(x, y)
      /\ \A t \in {token0, token1}, a \in Accounts : a # pair => y.bal[t][a] >= x.bal[t][a]
  BY <1>1, <1>3, BurnGood
<1>5. /\ s \in States
      /\ \A p \in Tokens, a \in Accounts :
           x.bal[p][a] = s.bal[p][a] + (IF p = pair /\ a = pair THEN v ELSE 0)
                                     - (IF p = pair /\ a = u THEN v ELSE 0)
  BY <1>1, <1>2, TransferEffect DEF Good
<1>6. ASSUME NEW t \in {token0, token1}, NEW a \in Accounts PROVE x.bal[t][a] = s.bal[t][a]
  <2>1. t \in Tokens /\ t # pair
    BY Addresses
  <2>2. s.bal[t][a] \in Nat /\ x.bal[t][a] = s.bal[t][a] + 0 - 0
    BY <1>5, <2>1 DEF States
  <2>. QED BY <2>2
<1>7. Worth(s, y)
  BY <1>3, <1>4, WorthComposes
<1>. QED BY <1>4, <1>6, <1>7

LEMMA RemoveLiquidityNativeGood ==
  ASSUME NEW s, Good(s), NEW u \in Users, NEW v \in Nat, NEW m0 \in Nat, NEW m1 \in Nat,
         NEW to \in Accounts, NEW y \in RemoveLiquidityNative(s, u, v, m0, m1, to)
  PROVE  Good(y) /\ Worth(s, y)
<1>. DEFINE R == RemoveLiquidity(s, u, v, m0, m1, router)
            got(x, t) == x.bal[t][router] - s.bal[t][router]
            S1(r) == Transfer(r, Other(wrapped), router, to, got(r, Other(wrapped)))
            S2(r) == Then(S1(r), LAMBDA x : Withdraw(x, router, got(r, wrapped)))
            S3(r) == Then(S2(r), LAMBDA x : SendNative(x, router, u, got(r, wrapped)))
<1>1. y \in UNION {S3(r) : r \in R}
  BY DEF RemoveLiquidityNative
<1>. HIDE DEF R, got, S1, S2, S3
<1>2. PICK r \in R : y \in S3(r)
  BY <1>1
<1>3. PICK x2 \in S2(r) : y \in SendNative(x2, router, u, got(r, wrapped))
  BY <1>2 DEF S3, Then
<1>4. PICK x1 \in S1(r) : x2 \in Withdraw(x1, router, got(r, wrapped))
  BY <1>3 DEF S2, Then
<1>5. /\ wrapped \in Tokens /\ Other(wrapped) \in Tokens /\ u \in Accounts
      /\ wrapped \in {token0, token1} /\ Other(wrapped) \in {token0, token1}
      /\ router \in Accounts /\ router # pair /\ router # wrapped /\ router # zero
  BY Addresses
<1>6. /\ Good(r) /\ Worth(s, r)
      /\ \A t \in {token0, token1}, a \in Accounts : a # pair => r.bal[t][a] >= s.bal[t][a]
  BY <1>2, <1>5, RemoveLiquidityGood DEF R
<1>7. ASSUME NEW t \in {token0, token1} PROVE got(r, t) \in Nat
  <2>1. s.bal[t][router] \in Nat /\ r.bal[t][router] \in Nat
    BY <1>5, <1>6, Addresses DEF Good, States
  <2>2. r.bal[t][router] >= s.bal[t][router]
    BY <1>5, <1>6
  <2>. QED BY <2>1, <2>2 DEF got
<1>8. Good(x1) /\ SamePool(r, x1)
  BY <1>4, <1>5, <1>6, <1>7, TransferGood DEF S1
<1>9. Good(x2) /\ SamePool(x1, x2)
  BY <1>4, <1>5, <1>7, <1>8, WithdrawGood
<1>10. Good(y) /\ SamePool(x2, y)
  BY <1>3, <1>5, <1>7, <1>9, SendGood
<1>11. Worth(s, x1)
  BY <1>6, <1>8, WorthComposes
<1>12. Worth(s, x2)
  BY <1>9, <1>11, WorthComposes
<1>. QED BY <1>10, <1>12, WorthComposes

LEMMA SwapPathGood ==
  ASSUME NEW s, Good(s), NEW t \in {token0, token1}, NEW out \in Nat, NEW to \in Accounts,
         NEW y \in SwapPath(s, t, out, to)
  PROVE  Good(y) /\ Worth(s, y)
<1>1. 0 \in Nat
  OBVIOUS
<1>2. CASE t = token0
  <2>1. y \in Swap(s, 0, out, to)
    BY <1>2 DEF SwapPath
  <2>. QED BY <1>1, <2>1, SwapGood
<1>3. CASE t # token0
  <2>1. y \in Swap(s, out, 0, to)
    BY <1>3 DEF SwapPath
  <2>. QED BY <1>1, <2>1, SwapGood
<1>. QED BY <1>2, <1>3

LEMMA SwapTokensGood ==
  ASSUME NEW s, Good(s), NEW u \in Users, NEW t \in {token0, token1}, NEW in \in Nat,
         NEW out \in Nat, NEW to \in Accounts, NEW y \in SwapTokens(s, u, t, in, out, to)
  PROVE  Good(y) /\ Worth(s, y)
<1>1. PICK x \in Transfer(s, t, u, pair, in) : y \in SwapPath(x, t, out, to)
  BY DEF SwapTokens, Then
<1>2. t \in Tokens /\ pair \in Accounts /\ u \in Accounts /\ u # pair /\ u # zero
  BY Addresses
<1>3. Good(x) /\ SamePool(s, x)
  BY <1>1, <1>2, TransferGood
<1>4. Good(y) /\ Worth(x, y)
  BY <1>1, <1>3, SwapPathGood
<1>. QED BY <1>3, <1>4, WorthComposes

LEMMA SwapNativeGood ==
  ASSUME NEW s, Good(s), NEW u \in Users, NEW value \in Nat, NEW in \in Nat,
         NEW out \in Nat, NEW to \in Accounts, NEW y \in SwapNative(s, u, value, in, out, to)
  PROVE  Good(y) /\ Worth(s, y)
<1>1. PICK x3, x2, x1 :
        /\ x1 \in SendNative(s, u, router, value) /\ x2 \in Deposit(x1, router, in)
        /\ x3 \in Transfer(x2, wrapped, router, pair, in) /\ y \in SwapPath(x3, wrapped, out, to)
  <2>. DEFINE S1 == SendNative(s, u, router, value)
              S2 == Then(S1, LAMBDA x : Deposit(x, router, in))
              S3 == Then(S2, LAMBDA x : Transfer(x, wrapped, router, pair, in))
              S4 == Then(S3, LAMBDA x : SwapPath(x, wrapped, out, to))
  <2>1. y \in S4
    BY DEF SwapNative
  <2>. HIDE DEF S1, S2, S3, S4
  <2>2. PICK x3 \in S3 : y \in SwapPath(x3, wrapped, out, to)
    BY <2>1 DEF S4, Then
  <2>3. PICK x2 \in S2 : x3 \in Transfer(x2, wrapped, router, pair, in)
    BY <2>2 DEF S3, Then
  <2>4. PICK x1 \in S1 : x2 \in Deposit(x1, router, in)
    BY <2>3 DEF S2, Then
  <2>. QED BY <2>2, <2>3, <2>4 DEF S1
<1>2. /\ wrapped \in Tokens /\ u \in Accounts /\ u # wrapped /\ pair \in Accounts
      /\ router \in Accounts /\ router # wrapped /\ router # pair /\ wrapped \in {token0, token1}
      /\ router # zero
  BY Addresses
<1>3. Good(x1) /\ SamePool(s, x1)
  BY <1>1, <1>2, SendGood
<1>4. Good(x2) /\ SamePool(x1, x2)
  BY <1>1, <1>2, <1>3, DepositGood
<1>5. Good(x3) /\ SamePool(x2, x3)
  BY <1>1, <1>2, <1>4, TransferGood
<1>6. Good(y) /\ Worth(x3, y)
  BY <1>1, <1>2, <1>5, SwapPathGood
<1>7. SamePool(s, x2)
  BY <1>3, <1>4, WorthComposes
<1>8. SamePool(s, x3)
  BY <1>5, <1>7, WorthComposes
<1>. QED BY <1>6, <1>8, WorthComposes

LEMMA UnwrapGood ==
  ASSUME NEW s, Good(s), NEW u \in Users, NEW in \in Nat, NEW out \in Nat, NEW to \in Users,
         NEW y \in Unwrap(SwapTokens(s, u, Other(wrapped), in, out, router), out, to)
  PROVE  Good(y) /\ Worth(s, y)
<1>1. PICK x1, x2 :
        /\ x1 \in SwapTokens(s, u, Other(wrapped), in, out, router)
        /\ x2 \in Withdraw(x1, router, out) /\ y \in SendNative(x2, router, to, out)
  BY DEF Unwrap, Then
<1>2. /\ Other(wrapped) \in {token0, token1} /\ to \in Accounts
      /\ router \in Accounts /\ router # wrapped /\ router # pair
  BY Addresses
<1>3. Good(x1) /\ Worth(s, x1)
  BY <1>1, <1>2, SwapTokensGood
<1>4. Good(x2) /\ SamePool(x1, x2)
  BY <1>1, <1>2, <1>3, WithdrawGood
<1>5. Good(y) /\ SamePool(x2, y)
  BY <1>1, <1>2, <1>4, SendGood
<1>6. Worth(s, x2)
  BY <1>3, <1>4, WorthComposes
<1>. QED BY <1>5, <1>6, WorthComposes

-----------------------------------------------------------------------------
(* Every call *)

LEMMA InitGood == Init => IInv
<1>. SUFFICES ASSUME Init PROVE IInv
  OBVIOUS
<1>1. Cardinality(Users) \in Nat /\ Genesis \in Nat
  BY FS_CardinalityType, ConstantsAssumption
<1>2. Cardinality(Users) * Genesis \in Nat
  BY <1>1
<1>3. /\ dex.bal = [t \in Tokens |-> [a \in Accounts |->
                      IF t = Other(wrapped) /\ a \in Users THEN Genesis ELSE 0]]
      /\ dex.supply = [t \in Tokens |-> IF t = Other(wrapped) THEN Cardinality(Users) * Genesis ELSE 0]
      /\ dex.native = [a \in Accounts |-> IF a \in Users THEN Genesis ELSE 0]
      /\ dex.feeTo = zero /\ dex.reserve = <<0, 0>> /\ dex.kLast = 0
  BY DEF Init
<1>4. /\ dex.bal \in [Tokens -> [Accounts -> Nat]] /\ dex.supply \in [Tokens -> Nat]
      /\ dex.native \in [Accounts -> Nat]
  BY <1>1, <1>2, <1>3
<1>5. dex \in States
  <2>1. 0 \in Nat /\ <<0, 0>> \in Reserves \X Reserves /\ FALSE \in BOOLEAN /\ zero \in Users \cup {zero}
    BY ConstantsAssumption DEF Reserves
  <2>2. PICK b, n, v : b = dex.bal /\ n = dex.supply /\ v = dex.native
    OBVIOUS
  <2>3. dex = [bal |-> b, supply |-> n, native |-> v,
               created |-> FALSE, feeTo |-> zero, reserve |-> <<0, 0>>, kLast |-> 0]
    BY <1>3, <2>2, Zenon DEF Init
  <2>4. [bal |-> b, supply |-> n, native |-> v,
         created |-> FALSE, feeTo |-> zero, reserve |-> <<0, 0>>, kLast |-> 0] \in States
    BY <1>4, <2>1, <2>2 DEF States
  <2>. QED BY <2>3, <2>4
<1>6. Covered(dex)
  <2>1. dex.bal[token0][pair] \in Nat /\ dex.bal[token1][pair] \in Nat
    BY <1>4, Addresses
  <2>. QED BY <1>3, <2>1 DEF Covered
<1>7. Backed(dex)
  <2>1. wrapped # Other(wrapped) /\ wrapped \in Tokens /\ wrapped \in Accounts
    BY Addresses
  <2>2. dex.supply[wrapped] = 0 /\ dex.native[wrapped] \in Nat
    BY <1>3, <1>4, <2>1
  <2>. QED BY <2>2 DEF Backed
<1>8. Based(dex) /\ Live(dex)
  BY <1>3 DEF Based, Live
<1>9. calls \in 0..MaxCalls
  BY ConstantsAssumption DEF Init
<1>10. Booked(dex)
  <2>1. ASSUME NEW t \in Tokens PROVE dex.supply[t] = SumFunction(dex.bal[t])
    <3>. DEFINE U == IF t = Other(wrapped) THEN Users ELSE {}
    <3>1. PICK f \in [Accounts -> Nat] : f = dex.bal[t]
      BY <1>4
    <3>2. \A a \in Accounts : f[a] = IF a \in U THEN Genesis ELSE 0
      BY <1>3, <3>1
    <3>3. U \subseteq Accounts
      BY Addresses
    <3>4. dex.supply[t] = Cardinality(U) * Genesis
      <4>1. 0 = Cardinality({}) * Genesis
        BY <1>1, FS_EmptySet
      <4>. QED BY <1>3, <4>1
    <3>. HIDE DEF U
    <3>5. SumFunction(f) = Cardinality(U) * Genesis
      BY <1>1, <3>2, <3>3, FiniteAccounts, SumConstant
    <3>. QED BY <3>1, <3>4, <3>5
  <2>. QED BY <2>1 DEF Booked
<1>11. Locked(dex)
  <2>1. pair \in Tokens /\ pair # Other(wrapped)
    BY Addresses
  <2>2. dex.supply[pair] = 0
    BY <1>3, <2>1
  <2>. QED BY <2>2 DEF Locked
<1>. QED BY <1>5, <1>6, <1>7, <1>8, <1>9, <1>10, <1>11 DEF IInv, Good, Counted

LEMMA TokenCallGood == IInv /\ TokenCall => Good(dex') /\ Worth(dex, dex')
<1>1. SUFFICES ASSUME IInv, NEW u \in Users, NEW v \in Amounts,
                      \/ \E t \in Tokens, to \in Recipients : Call(Transfer(dex, t, u, to, v))
                      \/ Call(Deposit(dex, u, v))
                      \/ Call(Withdraw(dex, u, v))
               PROVE  Good(dex') /\ Worth(dex, dex')
  BY DEF TokenCall
<1>2. /\ u \in Accounts /\ u # pair /\ u # wrapped /\ u # zero /\ v \in Nat /\ Good(dex)
      /\ Recipients \subseteq Accounts
  BY <1>1, Addresses, ConstantsAssumption DEF IInv
<1>3. Good(dex') /\ SamePool(dex, dex')
  <2>1. ASSUME NEW t \in Tokens, NEW to \in Recipients, Call(Transfer(dex, t, u, to, v))
        PROVE  Good(dex') /\ SamePool(dex, dex')
    BY <1>2, <2>1, TransferGood DEF Call
  <2>2. ASSUME Call(Deposit(dex, u, v)) PROVE Good(dex') /\ SamePool(dex, dex')
    BY <1>2, <2>2, DepositGood DEF Call
  <2>3. ASSUME Call(Withdraw(dex, u, v)) PROVE Good(dex') /\ SamePool(dex, dex')
    BY <1>2, <2>3, WithdrawGood DEF Call
  <2>. QED BY <1>1, <2>1, <2>2, <2>3
<1>4. Worth(dex, dex')
  BY <1>2, <1>3, SamePoolWorth
<1>. QED BY <1>3, <1>4

LEMMA PairCallGood == IInv /\ PairCall => Good(dex') /\ Worth(dex, dex')
<1>1. SUFFICES ASSUME IInv, PairCall PROVE Good(dex') /\ Worth(dex, dex')
  OBVIOUS
<1>2. Good(dex) /\ Recipients \subseteq Accounts /\ Amounts \cup {0} \subseteq Nat
  BY <1>1, ConstantsAssumption DEF IInv
<1>3. ASSUME NEW to \in Recipients, Call(Mint(dex, to)) PROVE Good(dex') /\ Worth(dex, dex')
  BY <1>2, <1>3, MintGood DEF Call
<1>4. ASSUME NEW to \in Recipients, Call(Burn(dex, to)) PROVE Good(dex') /\ Worth(dex, dex')
  BY <1>2, <1>4, BurnGood DEF Call
<1>5. ASSUME NEW to \in Recipients, Call(Skim(dex, to)) PROVE Good(dex') /\ Worth(dex, dex')
  <2>1. Good(dex') /\ SamePool(dex, dex')
    BY <1>2, <1>5, SkimGood DEF Call
  <2>. QED BY <1>2, <2>1, SamePoolWorth
<1>6. ASSUME NEW to \in Recipients, NEW out0 \in Amounts \cup {0}, NEW out1 \in Amounts \cup {0},
             Call(Swap(dex, out0, out1, to))
      PROVE  Good(dex') /\ Worth(dex, dex')
  BY <1>2, <1>6, SwapGood DEF Call
<1>7. ASSUME Call(Sync(dex)) PROVE Good(dex') /\ Worth(dex, dex')
  BY <1>2, <1>7, SyncGood DEF Call
<1>. QED BY <1>1, <1>3, <1>4, <1>5, <1>6, <1>7 DEF PairCall

LEMMA FactoryCallGood == IInv /\ FactoryCall => Good(dex') /\ Worth(dex, dex')
<1>1. SUFFICES ASSUME IInv, FactoryCall PROVE Good(dex') /\ Worth(dex, dex')
  OBVIOUS
<1>2. Good(dex)
  BY <1>1 DEF IInv
<1>3. ASSUME Call(CreatePair(dex)) PROVE Good(dex') /\ Worth(dex, dex')
  <2>1. dex' = [dex EXCEPT !.created = TRUE]
    BY <1>3 DEF Call, CreatePair
  <2>2. Good(dex') /\ SamePool(dex, dex')
    BY <1>2, <2>1, CreatedGood
  <2>. QED BY <1>2, <2>2, SamePoolWorth
<1>4. ASSUME NEW a \in Users \cup {zero}, Call(SetFeeTo(dex, a))
      PROVE  Good(dex') /\ Worth(dex, dex')
  BY <1>2, <1>4, SetFeeToGood DEF Call
<1>. QED BY <1>1, <1>3, <1>4 DEF FactoryCall

LEMMA LiquidityCallGood == IInv /\ LiquidityCall => Good(dex') /\ Worth(dex, dex')
<1>1. SUFFICES ASSUME IInv, NEW u \in Users, NEW to \in Users, NEW a \in Amounts, NEW b \in Amounts,
                      NEW min0 \in Limits, NEW min1 \in Limits,
                      \/ \E tokenA \in {token0, token1} :
                           Call(AddLiquidity(dex, u, tokenA, a, b, min0, min1, to))
                      \/ Call(RemoveLiquidity(dex, u, a, min0, min1, to))
                      \/ Call(RemoveLiquidityNative(dex, u, a, min0, min1, to))
               PROVE  Good(dex') /\ Worth(dex, dex')
  BY DEF LiquidityCall
<1>2. /\ to \in Accounts /\ a \in Nat /\ b \in Nat /\ min0 \in Nat /\ min1 \in Nat /\ Good(dex)
  BY <1>1, Addresses, ConstantsAssumption DEF IInv
<1>3. ASSUME NEW t \in {token0, token1}, Call(AddLiquidity(dex, u, t, a, b, min0, min1, to))
      PROVE  Good(dex') /\ Worth(dex, dex')
  BY <1>2, <1>3, AddLiquidityGood DEF Call
<1>4. ASSUME Call(RemoveLiquidity(dex, u, a, min0, min1, to))
      PROVE  Good(dex') /\ Worth(dex, dex')
  BY <1>2, <1>4, RemoveLiquidityGood DEF Call
<1>5. ASSUME Call(RemoveLiquidityNative(dex, u, a, min0, min1, to))
      PROVE  Good(dex') /\ Worth(dex, dex')
  BY <1>2, <1>5, RemoveLiquidityNativeGood DEF Call
<1>. QED BY <1>1, <1>3, <1>4, <1>5

LEMMA NativeLiquidityCallGood == IInv /\ NativeLiquidityCall => Good(dex') /\ Worth(dex, dex')
<1>1. SUFFICES ASSUME IInv, NEW u \in Users, NEW to \in Users, NEW a \in Amounts,
                      NEW nativeMin \in Amounts, NEW value \in Amounts, NEW min \in Limits,
                      Call(AddLiquidityNative(dex, u, value, a, min, nativeMin, to))
               PROVE  Good(dex') /\ Worth(dex, dex')
  BY DEF NativeLiquidityCall
<1>2. /\ to \in Accounts /\ a \in Nat /\ nativeMin \in Nat /\ value \in Nat /\ min \in Nat
      /\ Good(dex)
  BY <1>1, Addresses, ConstantsAssumption DEF IInv
<1>. QED BY <1>1, <1>2, AddLiquidityNativeGood DEF Call

LEMMA SwapCallGood == IInv /\ SwapCall => Good(dex') /\ Worth(dex, dex')
<1>1. SUFFICES ASSUME IInv, NEW u \in Users, NEW to \in Users, NEW a \in Amounts, NEW b \in Limits,
                      \/ \E tokenIn \in {token0, token1} :
                           \/ Call(SwapExactTokensForTokens(dex, u, tokenIn, a, b, to))
                           \/ Call(SwapTokensForExactTokens(dex, u, tokenIn, a, b, to))
                      \/ Call(SwapExactNativeForTokens(dex, u, a, b, to))
                      \/ Call(SwapExactTokensForNative(dex, u, a, b, to))
                      \/ Call(SwapTokensForExactNative(dex, u, a, b, to))
                      \/ \E value \in Amounts :
                           Call(SwapNativeForExactTokens(dex, u, value, a, b, to))
               PROVE  Good(dex') /\ Worth(dex, dex')
  BY DEF SwapCall
<1>2. /\ to \in Accounts /\ a \in Nat /\ Good(dex) /\ Amounts \subseteq Nat
      /\ Other(wrapped) \in {token0, token1} /\ router \in Accounts
  BY <1>1, Addresses, ConstantsAssumption DEF IInv
<1>3. AmountsOut(dex, a) \subseteq Nat /\ AmountsIn(dex, a) \subseteq Nat
  BY <1>2, AmountsType DEF Good
<1>4. ASSUME NEW t \in {token0, token1}, Call(SwapExactTokensForTokens(dex, u, t, a, b, to))
      PROVE  Good(dex') /\ Worth(dex, dex')
  <2>1. PICK out \in AmountsOut(dex, a) : dex' \in SwapTokens(dex, u, t, a, out, to)
    BY <1>4 DEF Call, SwapExactTokensForTokens
  <2>. QED BY <1>2, <1>3, <2>1, SwapTokensGood
<1>5. ASSUME NEW t \in {token0, token1}, Call(SwapTokensForExactTokens(dex, u, t, a, b, to))
      PROVE  Good(dex') /\ Worth(dex, dex')
  <2>1. PICK in \in AmountsIn(dex, a) : dex' \in SwapTokens(dex, u, t, in, a, to)
    BY <1>5 DEF Call, SwapTokensForExactTokens
  <2>. QED BY <1>2, <1>3, <2>1, SwapTokensGood
<1>6. ASSUME Call(SwapExactNativeForTokens(dex, u, a, b, to))
      PROVE  Good(dex') /\ Worth(dex, dex')
  <2>1. PICK out \in AmountsOut(dex, a) : dex' \in SwapNative(dex, u, a, a, out, to)
    BY <1>6 DEF Call, SwapExactNativeForTokens
  <2>. QED BY <1>2, <1>3, <2>1, SwapNativeGood
<1>7. ASSUME Call(SwapExactTokensForNative(dex, u, a, b, to))
      PROVE  Good(dex') /\ Worth(dex, dex')
  <2>1. PICK out \in AmountsOut(dex, a) :
          dex' \in Unwrap(SwapTokens(dex, u, Other(wrapped), a, out, router), out, to)
    BY <1>7 DEF Call, SwapExactTokensForNative
  <2>. QED BY <1>2, <1>3, <2>1, UnwrapGood
<1>8. ASSUME Call(SwapTokensForExactNative(dex, u, a, b, to))
      PROVE  Good(dex') /\ Worth(dex, dex')
  <2>1. PICK in \in AmountsIn(dex, a) :
          dex' \in Unwrap(SwapTokens(dex, u, Other(wrapped), in, a, router), a, to)
    BY <1>8 DEF Call, SwapTokensForExactNative
  <2>. QED BY <1>2, <1>3, <2>1, UnwrapGood
<1>9. ASSUME NEW value \in Amounts, Call(SwapNativeForExactTokens(dex, u, value, a, b, to))
      PROVE  Good(dex') /\ Worth(dex, dex')
  <2>1. PICK in \in AmountsIn(dex, a) : dex' \in SwapNative(dex, u, value, in, a, to)
    BY <1>9 DEF Call, SwapNativeForExactTokens
  <2>. QED BY <1>2, <1>3, <2>1, SwapNativeGood
<1>. QED BY <1>1, <1>4, <1>5, <1>6, <1>7, <1>8, <1>9

LEMMA NextGood == IInv /\ Next => IInv' /\ Worth(dex, dex')
<1>. SUFFICES ASSUME IInv, Next PROVE IInv' /\ Worth(dex, dex')
  OBVIOUS
<1>1. Good(dex') /\ Worth(dex, dex')
  BY TokenCallGood, FactoryCallGood, PairCallGood, LiquidityCallGood, NativeLiquidityCallGood,
     SwapCallGood DEF Next
<1>2. calls < MaxCalls /\ calls' = calls + 1
  BY DEF Next, TokenCall, FactoryCall, PairCall, LiquidityCall, NativeLiquidityCall, SwapCall, Call
<1>3. calls' \in 0..MaxCalls
  BY <1>2, ConstantsAssumption DEF IInv
<1>. QED BY <1>1, <1>3 DEF IInv, Good, Covered, Backed, Based, Live, Counted, Booked, Locked

\* Every field has its type, the reserves and the wrapped tokens are covered, kLast_ is
\* not above K, only a created pair has reserves, and the supplies are the sums of the
\* balances, whatever calls come in what order.
THEOREM Invariance == Spec => []IInv
<1>1. IInv /\ [Next]_vars => IInv'
  <2>1. ASSUME IInv, UNCHANGED vars PROVE IInv'
    BY <2>1 DEF vars, IInv, Good, Covered, Backed, Based, Live, Counted, Booked, Locked
  <2>. QED BY <2>1, NextGood
<1>. QED BY <1>1, InitGood, PTL DEF Spec

\* No call, of those that the checked subtractions let through, takes a balance, a
\* supply or a reserve below zero, or a reserve above what 112 bits hold.
THEOREM TypeCorrect == Spec => []TypeOK
<1>1. IInv => TypeOK
  BY DEF IInv, Good, States, Reserves, TypeOK
<1>. QED BY <1>1, Invariance, PTL

\* The pair always holds its reserves and the wrapper the native tokens it has wrapped.
THEOREM Solvency == Spec => []Solvent
<1>1. IInv => Solvent
  <2>1. SUFFICES ASSUME IInv PROVE Solvent
    OBVIOUS
  <2>2. Covered(dex) /\ Backed(dex)
    BY <2>1 DEF IInv, Good
  <2>3. dex.reserve[1] <= Held(dex, 1) /\ dex.reserve[2] <= Held(dex, 2)
    BY <2>2, HeldIs DEF Covered
  <2>4. \A i \in 1..2 : dex.reserve[i] <= Held(dex, i)
    <3>1. \A i \in 1..2 : i = 1 \/ i = 2
      OBVIOUS
    <3>. QED BY <2>3, <3>1
  <2>. QED BY <2>2, <2>4 DEF Solvent, Backed
<1>. QED BY <1>1, Invariance, PTL

\* totalSupply() of every token is the sum of its balances after any sequence of calls
\* (mintValue_, burnValue_ and the transfers are the only writers of balances_), and the
\* shares that the first mint sends to the zero address stay there.
THEOREM SuppliesAdd == Spec => []Supplies
<1>1. IInv => Supplies
  BY DEF IInv, Good, Counted, Booked, Locked, Supplies
<1>. QED BY <1>1, Invariance, PTL

\* _mintFee never measures the growth of K from above K, however the fee is switched.
THEOREM FeeIsOfGrowth == Spec => []FeeBase
<1>1. IInv => FeeBase
  BY DEF IInv, Good, Based, FeeBase, K
<1>. QED BY <1>1, Invariance, PTL

\* No call lowers what a share of the pool is worth, the protocol fee aside.
THEOREM SharesKeepWorth == Spec => ShareKept
<1>1. IInv /\ [Next]_vars =>
        [LET supply == dex.supply[pair]
             withFee == supply + FeeOwed(dex)
         IN supply > 0 =>
              K(dex') * withFee * withFee >= K(dex) * dex'.supply[pair] * dex'.supply[pair]]_vars
  BY NextGood DEF Worth
<1>. QED BY <1>1, Invariance, PTL DEF Spec, ShareKept

-----------------------------------------------------------------------------
(* What the library quotes *)

\* K is kept by an input of 997 parts in 1000 of "in" and an output of "out".
Priced(r1, r2, in, out) == (r1 * 1000 + in * 997) * (r2 - out) >= r1 * r2 * 1000

LEMMA TransferExists ==
  ASSUME NEW s, NEW t, NEW from, NEW to, NEW v, v <= s.bal[t][from]
  PROVE  \E y : y \in Transfer(s, t, from, to, v)
BY DEF Transfer

\* swap accepts an input of token0, which may come on top of a surplus, for an output
\* that keeps K without the surplus.
LEMMA QuotedSwap ==
  ASSUME NEW s, Good(s), NEW u \in Users, NEW in \in Nat, NEW out \in Nat, in > 0, out > 0,
         NEW r1 \in Nat, NEW r2 \in Nat, r1 = s.reserve[1], r2 = s.reserve[2],
         r1 > 0, out <= r2, Held(s, 2) = r2, in <= s.bal[token0][u],
         Held(s, 1) + in <= MaxReserve, Priced(r1, r2, in, out)
  PROVE  SwapTokens(s, u, token0, in, out, u) # {}
<1>1. s \in States /\ Covered(s) /\ Live(s)
  BY DEF Good
<1>2. /\ u \in Accounts /\ pair \in Accounts /\ token0 \in Tokens /\ token1 \in Tokens
      /\ u # pair /\ u # token0 /\ u # token1 /\ token0 # token1
  BY Addresses
<1>3. PICK h \in Nat : h = s.bal[token0][pair] /\ r1 <= h
  <2>1. s.bal[token0][pair] \in Nat /\ r1 <= s.bal[token0][pair]
    BY <1>1, <1>2 DEF States, Covered
  <2>. QED BY <2>1, Zenon
<1>4. s.bal[token1][pair] = r2
  BY HeldIs
<1>5. PICK x : x \in Transfer(s, token0, u, pair, in)
  BY TransferExists
<1>6. /\ x \in States /\ SameBut(s, x)
      /\ \A p \in Tokens, a \in Accounts :
           x.bal[p][a] = s.bal[p][a] + (IF p = token0 /\ a = pair THEN in ELSE 0)
                                     - (IF p = token0 /\ a = u THEN in ELSE 0)
  BY <1>1, <1>2, <1>5, TransferEffect
<1>7. x.bal[token0][pair] = h + in /\ x.bal[token1][pair] = r2
  <2>1. x.bal[token0][pair] = h + in - 0 /\ x.bal[token1][pair] = r2 + 0 - 0
    BY <1>2, <1>3, <1>4, <1>6
  <2>. QED BY <2>1
<1>8. PICK w : w \in Transfer(x, token0, pair, u, 0)
  <2>1. 0 <= x.bal[token0][pair]
    BY <1>7
  <2>. QED BY <2>1, TransferExists
<1>9. Paid(x, token0, u, 0, w)
  <2>1. 0 \in Nat
    OBVIOUS
  <2>. QED BY <1>2, <1>6, <1>8, <2>1, PairPays
<1>10. w \in States /\ SameBut(x, w) /\ w.bal[token0][pair] = h + in /\ w.bal[token1][pair] = r2
  <2>1. w.bal[token0][pair] = x.bal[token0][pair] - 0 /\ w.bal[token1][pair] = x.bal[token1][pair]
    BY <1>2, <1>9 DEF Paid
  <2>. QED BY <1>7, <1>9, <2>1 DEF Paid
<1>11. PICK z : z \in Transfer(w, token1, pair, u, out)
  BY <1>10, TransferExists
<1>12. Paid(w, token1, u, out, z)
  BY <1>2, <1>10, <1>11, PairPays
<1>13. /\ z.reserve = s.reserve /\ z.bal[token0][pair] = h + in /\ z.bal[token1][pair] = r2 - out
  <2>1. z.bal[token1][pair] = w.bal[token1][pair] - out /\ z.bal[token0][pair] = w.bal[token0][pair]
    BY <1>2, <1>12 DEF Paid
  <2>. QED BY <1>6, <1>10, <1>12, <2>1 DEF Paid, SameBut
<1>14. Held(z, 1) = h + in /\ Held(z, 2) = r2 - out /\ z.reserve[1] = r1 /\ z.reserve[2] = r2
  BY <1>13, HeldIs
<1>15. ~InThrows(z, 0, 1) /\ ~InThrows(z, out, 2)
  BY <1>3, <1>14 DEF InThrows
<1>16. AmountIn(z, 0, 1) = h + in - r1 /\ AmountIn(z, out, 2) = 0
  BY <1>3, <1>14 DEF AmountIn
<1>17. AmountIn(z, 0, 1) > 0
  BY <1>3, <1>16
<1>18. KKept(z, AmountIn(z, 0, 1), AmountIn(z, out, 2))
  <2>1. PICK e \in Nat : e = h - r1
    BY <1>3
  <2>2. PICK d, m : d = r1 * 1000 + in * 997 /\ m = r2 - out
    OBVIOUS
  <2>3. d \in Nat /\ m \in Nat
    BY <2>2
  <2>4. (h + in) * 1000 - (h + in - r1) * 3 = d + e * 997
    BY <2>1, <2>2
  <2>5. d * m <= (d + e * 997) * m
    BY <2>3, Multiply
  <2>6. PICK k \in Nat : k = r1 * r2
    OBVIOUS
  <2>7. d * m >= k * 1000
    BY <2>2, <2>6 DEF Priced
  <2>8. PICK q \in Nat : q = (d + e * 997) * m
    BY <2>3
  <2>9. q >= k * 1000
    <3>1. d * m \in Nat
      BY <2>3
    <3>. QED BY <2>5, <2>7, <2>8, <3>1
  <2>10. (d + e * 997) * ((r2 - out) * 1000 - 0 * 3) = q * 1000
    BY <2>2, <2>3, <2>8
  <2>11. q * 1000 >= k * 1000 * 1000
    BY <2>9
  <2>12. K(z) = k
    BY <1>14, <2>6 DEF K
  <2>. QED BY <1>14, <1>16, <2>4, <2>10, <2>11, <2>12 DEF KKept
<1>19. s.created /\ x.created = s.created
  <2>1. s.reserve # <<0, 0>>
    OBVIOUS
  <2>. QED BY <1>1, <1>6, <2>1 DEF Live, SameBut
<1>20. x.reserve[1] > 0
  BY <1>6 DEF SameBut
<1>21. PICK y : y \in Update(z)
  <2>1. h + in <= MaxReserve
    BY <1>3, HeldIs
  <2>2. r2 <= MaxReserve
    BY <1>1 DEF States, Reserves
  <2>3. Held(z, 1) <= MaxReserve /\ Held(z, 2) <= MaxReserve
    BY <1>14, <2>1, <2>2, ConstantsAssumption
  <2>. QED BY <2>3 DEF Update
<1>22. y \in Swap(x, 0, out, u)
  <2>1. z \in Then(Transfer(x, token0, pair, u, 0), LAMBDA v : Transfer(v, token1, pair, u, out))
    BY <1>8, <1>11 DEF Then
  <2>. QED BY <1>2, <1>15, <1>17, <1>18, <1>19, <1>20, <1>21, <2>1 DEF Swap
<1>23. y \in SwapTokens(s, u, token0, in, out, u)
  BY <1>5, <1>22 DEF SwapTokens, SwapPath, Then
<1>. QED BY <1>23

\* getAmountOut rounds what the pair pays down.
LEMMA OutQuoted ==
  ASSUME NEW in \in Nat, NEW r1 \in Nat, NEW r2 \in Nat, NEW out, in > 0, r1 > 0,
         out = getAmountOut(in, r1, r2)
  PROVE  out \in Nat /\ out <= r2 /\ Priced(r1, r2, in, out)
<1>1. PICK d, n : d = r1 * 1000 + in * 997 /\ n = in * 997 * r2
  OBVIOUS
<1>2. d \in Nat /\ d > 0 /\ n \in Nat
  BY <1>1
<1>3. out \in Nat /\ out * d <= n
  BY <1>1, <1>2, Divide DEF getAmountOut
<1>4. d * r2 = r1 * r2 * 1000 + n
  BY <1>1
<1>5. out <= r2
  <2>1. SUFFICES ASSUME r2 + 1 <= out PROVE FALSE
    BY <1>3
  <2>2. (r2 + 1) * d <= out * d
    BY <1>2, <1>3, <2>1, Multiply
  <2>3. (r2 + 1) * d = d * r2 + d
    BY <1>2
  <2>. QED BY <1>2, <1>3, <1>4, <2>2, <2>3
<1>6. d * (r2 - out) = d * r2 - out * d
  BY <1>2, <1>3
<1>. QED BY <1>1, <1>2, <1>3, <1>4, <1>5, <1>6 DEF Priced

\* getAmountIn rounds what the pair takes up.
LEMMA InQuoted ==
  ASSUME NEW out \in Nat, NEW r1 \in Nat, NEW r2 \in Nat, NEW in, out < r2,
         in = getAmountIn(out, r1, r2)
  PROVE  in \in Nat /\ in > 0 /\ Priced(r1, r2, in, out)
<1>1. PICK m \in Nat : m = r2 - out
  OBVIOUS
<1>2. PICK d, n : d = m * 997 /\ n = r1 * out * 1000
  OBVIOUS
<1>3. d \in Nat /\ d > 0 /\ n \in Nat
  BY <1>1, <1>2
<1>4. PICK q \in Nat : q = n \div d /\ n < (q + 1) * d
  BY <1>3, Divide
<1>5. in = q + 1 /\ in \in Nat
  BY <1>1, <1>2, <1>4 DEF getAmountIn
<1>6. (r1 * 1000 + in * 997) * m = r1 * m * 1000 + in * d
  <2>1. (r1 * 1000 + in * 997) * m = r1 * m * 1000 + in * (m * 997)
    BY <1>5
  <2>. QED BY <1>2, <2>1
<1>7. r1 * m * 1000 = r1 * r2 * 1000 - n
  BY <1>1, <1>2
<1>8. in * d >= n /\ in * d \in Nat
  BY <1>3, <1>4, <1>5
<1>9. (r1 * 1000 + in * 997) * m >= r1 * r2 * 1000
  <2>1. PICK k \in Nat : k = r1 * r2 * 1000
    OBVIOUS
  <2>. QED BY <1>3, <1>6, <1>7, <1>8, <2>1
<1>. QED BY <1>1, <1>5, <1>9 DEF Priced

\* The amounts that DEXV2Library computes for a path pass the check of K in
\* DEXV2Pair::swap, in both directions of rounding and whatever surplus of the input
\* token the pair holds, as long as its new balance fits the 112 bits of a reserve.
THEOREM QuotesHonoured == Spec => []QuoteHonoured
<1>1. ASSUME IInv, NEW u \in Users, NEW a \in Amounts, Held(dex, 2) = dex.reserve[2]
      PROVE  /\ \A out \in AmountsOut(dex, a) :
                  out > 0 /\ a <= dex.bal[token0][u] /\ Held(dex, 1) + a <= MaxReserve =>
                    SwapTokens(dex, u, token0, a, out, u) # {}
             /\ \A in \in AmountsIn(dex, a) :
                  in <= dex.bal[token0][u] /\ Held(dex, 1) + in <= MaxReserve =>
                    SwapTokens(dex, u, token0, in, a, u) # {}
  <2>1. Good(dex) /\ dex \in States /\ a \in Nat
    BY <1>1, ConstantsAssumption DEF IInv, Good
  <2>2. PICK r1 \in Nat, r2 \in Nat : r1 = dex.reserve[1] /\ r2 = dex.reserve[2]
    <3>1. dex.reserve[1] \in Nat /\ dex.reserve[2] \in Nat
      BY <2>1 DEF States, Reserves
    <3>. QED BY <3>1, Zenon
  <2>3. ASSUME NEW out \in AmountsOut(dex, a), out > 0, a <= dex.bal[token0][u],
               Held(dex, 1) + a <= MaxReserve
        PROVE  SwapTokens(dex, u, token0, a, out, u) # {}
    <3>1. /\ a > 0 /\ K(dex) > 0
          /\ out = getAmountOut(a, r1, r2)
      BY <2>2, <2>3 DEF AmountsOut
    <3>2. r1 > 0
      BY <2>2, <3>1 DEF K
    <3>3. out \in Nat /\ out <= r2 /\ Priced(r1, r2, a, out)
      BY <2>1, <3>1, <3>2, OutQuoted
    <3>. QED BY <1>1, <2>1, <2>2, <2>3, <3>1, <3>2, <3>3, QuotedSwap
  <2>4. ASSUME NEW in \in AmountsIn(dex, a), in <= dex.bal[token0][u],
               Held(dex, 1) + in <= MaxReserve
        PROVE  SwapTokens(dex, u, token0, in, a, u) # {}
    <3>1. /\ a > 0 /\ a < r2 /\ r1 > 0
          /\ in = getAmountIn(a, r1, r2)
      BY <2>2, <2>4 DEF AmountsIn
    <3>2. in \in Nat /\ in > 0 /\ Priced(r1, r2, in, a)
      BY <2>1, <3>1, InQuoted
    <3>3. a <= r2
      BY <2>1, <3>1
    <3>. QED BY <1>1, <2>1, <2>2, <2>4, <3>1, <3>2, <3>3, QuotedSwap
  <2>. QED BY <2>3, <2>4
<1>2. IInv => QuoteHonoured
  BY <1>1 DEF QuoteHonoured
<1>. QED BY <1>2, Invariance, PTL
=============================================================================
