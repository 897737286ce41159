-------------------------- MODULE ERC721MintProofs --------------------------
(***************************************************************************)
(* Theorems about ERC721Mint, for any users and any maximum supply.        *)
(***************************************************************************)
EXTENDS ERC721Mint, FiniteSetTheorems, TLAPS

\* Memory and database never name two users for one token, and what the database has
\* as pre-burned is pre-burned or burned in memory: a restart brings back no more.
OneClaim ==
  \A id \in Ids :
    /\ preBurned[id] # Zero /\ burned[id] # Zero => preBurned[id] = burned[id]
    /\ dbPreBurned[id] # Zero =>
         /\ preBurned[id] # Zero => dbPreBurned[id] = preBurned[id]
         /\ burned[id] # Zero => dbPreBurned[id] = burned[id]
         /\ preBurned[id] # Zero \/ burned[id] # Zero

\* The inductive invariant.
IInv == TypeOK /\ LifeCycle /\ OneClaim /\ ApprovalsOfOwner /\ BalancesMatch

LEMMA IdsFinite == IsFiniteSet(Ids)
  BY ConstantsAssumption, FS_Interval DEF Ids

-----------------------------------------------------------------------------
\* Type correctness

LEMMA UpdateTypes ==
  ASSUME TypeOK, NEW to \in Addresses, NEW id \in Ids, Update(to, id)
  PROVE  /\ owners' \in [Ids -> Addresses]
         /\ balances' \in [Users -> Nat]
         /\ approvals' \in [Ids -> Addresses]
  <1>1. owners' \in [Ids -> Addresses]
    BY DEF TypeOK, Update
  <1>2. approvals' \in [Ids -> Addresses]
    BY DEF TypeOK, Update, Addresses
  <1>3. ASSUME NEW u \in Users
        PROVE  balances[u] - (IF u = owners[id] THEN 1 ELSE 0)
                 + (IF u = to THEN 1 ELSE 0) \in Nat
    <2>1. balances[u] \in Nat
      BY DEF TypeOK
    <2>2. u = owners[id] => balances[u] > 0
      BY ConstantsAssumption DEF Update
    <2> QED BY <2>1, <2>2
  <1>4. balances' = Moved(owners[id], to)
    BY DEF Update
  <1>5. balances' \in [Users -> Nat]
    BY <1>3, <1>4 DEF Moved
  <1> QED BY <1>1, <1>2, <1>5

LEMMA TypeStep == TypeOK /\ [Next]_vars => TypeOK'
  <1> SUFFICES ASSUME TypeOK, [Next]_vars PROVE TypeOK'
    OBVIOUS
  <1>1. CASE Restart
    BY <1>1 DEF Saved, Restart, TypeOK, Addresses
  <1>2. ASSUME NEW to \in Users, Mint(to) PROVE TypeOK'
    <2>1. counter \in Ids /\ counter \in Nat /\ to \in Addresses
      BY <1>2, ConstantsAssumption DEF Mint, TypeOK, Ids, Addresses
    <2>2. Update(to, counter)
      BY <1>2 DEF Mint
    <2>3. counter' \in 0..MaxSupply
      BY <1>2, ConstantsAssumption DEF Mint, TypeOK
    <2> QED BY <1>2, <2>1, <2>2, <2>3, UpdateTypes DEF Mint, TypeOK
  <1>3. ASSUME NEW caller \in Users, NEW from \in Users, NEW to \in Users, NEW id \in Ids,
               TransferFrom(caller, from, to, id)
        PROVE  TypeOK'
    <2>1. Update(to, id) /\ to \in Addresses
      BY <1>3 DEF TransferFrom, Addresses
    <2> QED BY <1>3, <2>1, UpdateTypes DEF TransferFrom, TypeOK
  <1>4. ASSUME NEW caller \in Users, NEW to \in Addresses, NEW id \in Ids,
               Approve(caller, to, id)
        PROVE  TypeOK'
    BY <1>4 DEF Approve, TypeOK
  <1>5. ASSUME NEW caller \in Users, NEW operator \in Users, NEW approved \in BOOLEAN,
               SetApprovalForAll(caller, operator, approved)
        PROVE  TypeOK'
    <2>1. operators' \subseteq Users \X Users
      BY <1>5 DEF SetApprovalForAll, TypeOK
    <2> QED BY <1>5, <2>1 DEF SetApprovalForAll, TypeOK
  <1>6. ASSUME NEW caller \in Users, NEW id \in Ids, PreBurn(caller, id) PROVE TypeOK'
    <2>1. Update(Zero, id) /\ Zero \in Addresses
      BY <1>6 DEF PreBurn, Addresses
    <2>2. byOwner' \in [Users -> Seq(Ids)]
      BY <1>6 DEF PreBurn, TypeOK
    <2>3. preBurned' \in [Ids -> Addresses]
      BY <1>6 DEF PreBurn, TypeOK, Addresses
    <2> QED BY <1>6, <2>1, <2>2, <2>3, UpdateTypes DEF PreBurn, TypeOK
  <1>7. ASSUME NEW id \in Ids, Burn(id) PROVE TypeOK'
    BY <1>7 DEF Burn, TypeOK, Addresses
  <1>8. CASE UNCHANGED vars
    BY <1>8 DEF vars, TypeOK
  <1> QED BY <1>1, <1>2, <1>3, <1>4, <1>5, <1>6, <1>7, <1>8 DEF Next

-----------------------------------------------------------------------------
\* Approvals

LEMMA UpdateApprovals ==
  ASSUME TypeOK, ApprovalsOfOwner, NEW to \in Addresses, NEW id \in Ids, Update(to, id),
         UNCHANGED grantor
  PROVE  ApprovalsOfOwner'
  BY DEF TypeOK, ApprovalsOfOwner, Update

LEMMA ApprovalsStep == TypeOK /\ ApprovalsOfOwner /\ [Next]_vars => ApprovalsOfOwner'
  <1> SUFFICES ASSUME TypeOK, ApprovalsOfOwner, [Next]_vars PROVE ApprovalsOfOwner'
    OBVIOUS
  <1>1. CASE Restart
    BY <1>1 DEF Saved, Restart, ApprovalsOfOwner
  <1>2. ASSUME NEW to \in Users, Mint(to) PROVE ApprovalsOfOwner'
    <2>1. counter \in Ids /\ to \in Addresses
      BY <1>2, ConstantsAssumption DEF Mint, TypeOK, Ids, Addresses
    <2> QED BY <1>2, <2>1, UpdateApprovals DEF Mint
  <1>3. ASSUME NEW caller \in Users, NEW from \in Users, NEW to \in Users, NEW id \in Ids,
               TransferFrom(caller, from, to, id)
        PROVE  ApprovalsOfOwner'
    BY <1>3, UpdateApprovals DEF TransferFrom, Addresses
  <1>4. ASSUME NEW caller \in Users, NEW to \in Addresses, NEW id \in Ids,
               Approve(caller, to, id)
        PROVE  ApprovalsOfOwner'
    BY <1>4 DEF Approve, TypeOK, ApprovalsOfOwner
  <1>5. ASSUME NEW caller \in Users, NEW operator \in Users, NEW approved \in BOOLEAN,
               SetApprovalForAll(caller, operator, approved)
        PROVE  ApprovalsOfOwner'
    BY <1>5 DEF SetApprovalForAll, ApprovalsOfOwner
  <1>6. ASSUME NEW caller \in Users, NEW id \in Ids, PreBurn(caller, id)
        PROVE  ApprovalsOfOwner'
    BY <1>6, UpdateApprovals DEF PreBurn, Addresses
  <1>7. ASSUME NEW id \in Ids, Burn(id) PROVE ApprovalsOfOwner'
    BY <1>7 DEF Burn, ApprovalsOfOwner
  <1>8. CASE UNCHANGED vars
    BY <1>8 DEF vars, ApprovalsOfOwner
  <1> QED BY <1>1, <1>2, <1>3, <1>4, <1>5, <1>6, <1>7, <1>8 DEF Next

-----------------------------------------------------------------------------
\* Balances

\* update_ moves one token between two users' sets, and one unit between their balances.
LEMMA UpdateBalances ==
  ASSUME TypeOK, BalancesMatch, NEW to \in Addresses, NEW id \in Ids, Update(to, id)
  PROVE  BalancesMatch'
  <1> DEFINE Own(u) == {i \in Ids : owners[i] = u}
             Own1(u) == {i \in Ids : owners'[i] = u}
  <1> SUFFICES ASSUME NEW u \in Users PROVE balances'[u] = Cardinality(Own1(u))
    BY DEF BalancesMatch
  <1>1. IsFiniteSet(Own(u))
    BY IdsFinite, FS_Subset
  <1>2. balances[u] = Cardinality(Own(u)) /\ balances[u] \in Nat
    BY DEF BalancesMatch, TypeOK
  <1>3. balances'[u] = balances[u] - (IF u = owners[id] THEN 1 ELSE 0)
                         + (IF u = to THEN 1 ELSE 0)
    BY DEF Update, Moved
  <1>4. \A i \in Ids : owners'[i] = IF i = id THEN to ELSE owners[i]
    BY DEF Update, TypeOK
  <1>5. CASE u = owners[id] /\ u = to
    <2>1. Own1(u) = Own(u)
      BY <1>4, <1>5
    <2>2. Cardinality(Own1(u)) = Cardinality(Own(u))
      BY <2>1
    <2> HIDE DEF Own, Own1
    <2> QED BY <1>2, <1>3, <1>5, <2>2
  <1>6. CASE u = owners[id] /\ u # to
    <2>1. Own1(u) = Own(u) \ {id} /\ id \in Own(u)
      BY <1>4, <1>6
    <2>2. Cardinality(Own1(u)) = Cardinality(Own(u)) - 1
      BY <1>1, <2>1, FS_RemoveElement
    <2> QED BY <1>2, <1>3, <1>6, <2>2
  <1>7. CASE u # owners[id] /\ u = to
    <2>1. Own1(u) = Own(u) \cup {id} /\ id \notin Own(u)
      BY <1>4, <1>7
    <2>2. Cardinality(Own1(u)) = Cardinality(Own(u)) + 1
      BY <1>1, <2>1, FS_AddElement
    <2> QED BY <1>2, <1>3, <1>7, <2>2
  <1>8. CASE u # owners[id] /\ u # to
    <2>1. Own1(u) = Own(u)
      BY <1>4, <1>8
    <2>2. Cardinality(Own1(u)) = Cardinality(Own(u))
      BY <2>1
    <2> HIDE DEF Own, Own1
    <2> QED BY <1>2, <1>3, <1>8, <2>2
  <1> QED BY <1>5, <1>6, <1>7, <1>8

LEMMA BalancesStep == TypeOK /\ BalancesMatch /\ [Next]_vars => BalancesMatch'
  <1> SUFFICES ASSUME TypeOK, BalancesMatch, [Next]_vars PROVE BalancesMatch'
    OBVIOUS
  <1>1. CASE UNCHANGED <<owners, balances>>
    BY <1>1 DEF BalancesMatch
  <1>2. ASSUME NEW to \in Users, Mint(to) PROVE BalancesMatch'
    <2>1. counter \in Ids /\ to \in Addresses
      BY <1>2, ConstantsAssumption DEF Mint, TypeOK, Ids, Addresses
    <2> QED BY <1>2, <2>1, UpdateBalances DEF Mint
  <1>3. ASSUME NEW caller \in Users, NEW from \in Users, NEW to \in Users, NEW id \in Ids,
               TransferFrom(caller, from, to, id)
        PROVE  BalancesMatch'
    BY <1>3, UpdateBalances DEF TransferFrom, Addresses
  <1>4. ASSUME NEW caller \in Users, NEW id \in Ids, PreBurn(caller, id)
        PROVE  BalancesMatch'
    BY <1>4, UpdateBalances DEF PreBurn, Addresses
  <1>5. CASE \/ Restart
             \/ \E caller \in Users, to \in Addresses, id \in Ids : Approve(caller, to, id)
             \/ \E caller, operator \in Users, approved \in BOOLEAN :
                  SetApprovalForAll(caller, operator, approved)
             \/ \E id \in Ids : Burn(id)
             \/ UNCHANGED vars
    BY <1>1, <1>5 DEF Saved, Restart, Approve, SetApprovalForAll, Burn, vars
  <1> QED BY <1>2, <1>3, <1>4, <1>5 DEF Next

-----------------------------------------------------------------------------
\* The life of a token

LEMMA LifeStep == TypeOK /\ LifeCycle /\ OneClaim /\ [Next]_vars => LifeCycle' /\ OneClaim'
  <1> SUFFICES ASSUME TypeOK, LifeCycle, OneClaim, [Next]_vars
               PROVE  LifeCycle' /\ OneClaim'
    OBVIOUS
  <1> DEFINE Kept == UNCHANGED <<byOwner, preBurned, burned, dbPreBurned>>
  <1>a. Kept => /\ \A id \in Ids : Claimants(id)' = Claimants(id)
                /\ \A u \in Users, id \in Ids : Listed(u, id)' = Listed(u, id)
                /\ OneClaim'
    BY DEF Claimants, Listed, OneClaim
  <1>1. CASE Restart
    <2>1. \A id \in Ids : Claimants(id)' = Claimants(id)
      BY <1>1 DEF Saved, Restart, OneClaim, Claimants, TypeOK
    <2>2. \A u \in Users, id \in Ids : Listed(u, id)' = Listed(u, id)
      BY <1>1 DEF Saved, Restart, Listed
    <2>3. LifeCycle'
      BY <1>1, <2>1, <2>2 DEF Saved, Restart, LifeCycle
    <2>4. OneClaim'
      BY <1>1 DEF Saved, Restart, OneClaim, TypeOK
    <2> QED BY <2>3, <2>4
  <1>2. ASSUME NEW to \in Users, Mint(to) PROVE LifeCycle' /\ OneClaim'
    <2>1. counter \in Ids /\ counter \in Nat /\ to # Zero
      BY <1>2, ConstantsAssumption DEF Mint, TypeOK, Ids
    <2>2. owners[counter] = Zero /\ Claimants(counter) = {}
      BY <2>1 DEF LifeCycle
    <2>3. \A id \in Ids : owners'[id] = IF id = counter THEN to ELSE owners[id]
      BY <1>2 DEF Mint, Update, TypeOK
    <2>4. \A id \in Ids : id < counter' <=> id < counter \/ id = counter
      BY <1>2, <2>1 DEF Mint, Ids
    <2>5. Kept
      BY <1>2 DEF Mint
    <2>6. ASSUME NEW id \in Ids
          PROVE  /\ id < counter' <=> (owners'[id] # Zero \/ Claimants(id)' # {})
                 /\ owners'[id] # Zero => Claimants(id)' = {}
      <3>1. Claimants(id)' = Claimants(id)
        BY <1>a, <2>5
      <3>2. CASE id = counter
        BY <2>1, <2>2, <2>3, <2>4, <3>1, <3>2
      <3>3. CASE id # counter
        BY <2>3, <2>4, <3>1, <3>3 DEF LifeCycle
      <3> QED BY <3>2, <3>3
    <2>7. LifeCycle'
      BY <1>a, <2>5, <2>6 DEF LifeCycle
    <2> QED BY <1>a, <2>5, <2>7
  <1>3. ASSUME NEW caller \in Users, NEW from \in Users, NEW to \in Users, NEW id \in Ids,
               TransferFrom(caller, from, to, id)
        PROVE  LifeCycle' /\ OneClaim'
    <2>1. Kept /\ counter' = counter
      BY <1>3 DEF TransferFrom
    <2>2. \A i \in Ids : owners'[i] # Zero <=> owners[i] # Zero
      BY <1>3, ConstantsAssumption DEF TransferFrom, Update, TypeOK
    <2>3. LifeCycle'
      BY <1>a, <2>1, <2>2 DEF LifeCycle
    <2> QED BY <1>a, <2>1, <2>3
  <1>4. ASSUME NEW caller \in Users, NEW id \in Ids, PreBurn(caller, id)
        PROVE  LifeCycle' /\ OneClaim'
    <2>1. owners[id] = caller /\ caller # Zero
      BY <1>4, ConstantsAssumption DEF PreBurn
    <2>2. Claimants(id) = {} /\ id < counter
      BY <2>1 DEF LifeCycle
    <2>3. preBurned[id] = Zero /\ burned[id] = Zero /\ dbPreBurned[id] = Zero
      BY <2>2 DEF Claimants, OneClaim
    <2>4. \A i \in Ids : /\ owners'[i] = IF i = id THEN Zero ELSE owners[i]
                         /\ preBurned'[i] = IF i = id THEN caller ELSE preBurned[i]
                         /\ burned'[i] = burned[i] /\ dbPreBurned'[i] = dbPreBurned[i]
      BY <1>4 DEF PreBurn, Update, TypeOK
    <2>5. OneClaim'
      BY <2>1, <2>3, <2>4 DEF OneClaim
    <2>6. Claimants(id)' = {caller}
      BY <2>1, <2>3, <2>4 DEF Claimants
    <2>7. \A i \in Ids : i # id => Claimants(i)' = Claimants(i)
      BY <2>4 DEF Claimants
    <2>8. byOwner[caller] \in Seq(Ids) /\ byOwner \in [Users -> Seq(Ids)]
      BY DEF TypeOK
    <2>9. byOwner' = [byOwner EXCEPT ![caller] = Append(byOwner[caller], id)]
      BY <1>4 DEF PreBurn
    <2>10. \A u \in Users : u # caller => \A i \in Ids : Listed(u, i)' = Listed(u, i)
      BY <2>8, <2>9 DEF Listed
    <2>11. \A i \in Ids : i # id => Listed(caller, i)' = Listed(caller, i)
      BY <2>8, <2>9 DEF Listed
    <2>12. Listed(caller, id) = {}
      BY <2>2 DEF LifeCycle
    <2>13. /\ Listed(caller, id)' = {Len(byOwner[caller]) + 1}
           /\ Len(byOwner[caller]) + 1 \in DOMAIN byOwner'[caller]
      BY <2>8, <2>9, <2>12 DEF Listed
    <2>14. DOMAIN byOwner[caller] \subseteq DOMAIN byOwner'[caller]
           /\ \A u \in Users : u # caller => byOwner'[u] = byOwner[u]
      BY <2>8, <2>9
    <2>15. counter' = counter
      BY <1>4 DEF PreBurn
    <2>16. ASSUME NEW i \in Ids
           PROVE  /\ i < counter' <=> (owners'[i] # Zero \/ Claimants(i)' # {})
                  /\ owners'[i] # Zero => Claimants(i)' = {}
      BY <2>2, <2>4, <2>6, <2>7, <2>15 DEF LifeCycle
    <2>17. ASSUME NEW i \in Ids, NEW u \in Users
           PROVE  IF u \in Claimants(i)'
                  THEN \E k \in DOMAIN byOwner'[u] : Listed(u, i)' = {k}
                  ELSE Listed(u, i)' = {}
      <3>1. CASE i = id /\ u = caller
        BY <3>1, <2>6, <2>13
      <3>2. CASE i = id /\ u # caller
        BY <3>2, <2>2, <2>6, <2>10 DEF LifeCycle
      <3>3. CASE i # id /\ u = caller
        BY <3>3, <2>7, <2>11, <2>14 DEF LifeCycle
      <3>4. CASE i # id /\ u # caller
        BY <3>4, <2>7, <2>10, <2>14 DEF LifeCycle
      <3> QED BY <3>1, <3>2, <3>3, <3>4
    <2>18. LifeCycle'
      BY <2>16, <2>17 DEF LifeCycle
    <2> QED BY <2>5, <2>18
  <1>5. ASSUME NEW id \in Ids, Burn(id) PROVE LifeCycle' /\ OneClaim'
    <2>1. \A i \in Ids : Claimants(i)' = Claimants(i)
      BY <1>5 DEF Burn, OneClaim, Claimants, TypeOK
    <2>2. \A u \in Users, i \in Ids : Listed(u, i)' = Listed(u, i)
      BY <1>5 DEF Burn, Listed
    <2>3. LifeCycle'
      BY <1>5, <2>1, <2>2 DEF Burn, LifeCycle
    <2>4. OneClaim'
      BY <1>5 DEF Burn, OneClaim, TypeOK
    <2> QED BY <2>3, <2>4
  <1>6. CASE \/ \E caller \in Users, to \in Addresses, id \in Ids : Approve(caller, to, id)
             \/ \E caller, operator \in Users, approved \in BOOLEAN :
                  SetApprovalForAll(caller, operator, approved)
             \/ UNCHANGED vars
    <2>1. Kept /\ UNCHANGED <<owners, counter>>
      BY <1>6 DEF Approve, SetApprovalForAll, vars
    <2>2. LifeCycle'
      BY <1>a, <2>1 DEF LifeCycle
    <2> QED BY <1>a, <2>1, <2>2
  <1> QED BY <1>1, <1>2, <1>3, <1>4, <1>5, <1>6 DEF Next

-----------------------------------------------------------------------------
\* The theorems

LEMMA InitInv == Init => IInv
  <1> SUFFICES ASSUME Init PROVE IInv
    OBVIOUS
  <1>1. TypeOK
    BY ConstantsAssumption DEF Init, TypeOK, Addresses
  <1>2. \A id \in Ids : Claimants(id) = {} /\ \A u \in Users : Listed(u, id) = {}
    BY DEF Init, Claimants, Listed
  <1>3. LifeCycle
    BY <1>2, ConstantsAssumption DEF Init, LifeCycle, Ids
  <1>4. OneClaim /\ ApprovalsOfOwner
    BY DEF Init, OneClaim, ApprovalsOfOwner
  <1>5. ASSUME NEW u \in Users
        PROVE  balances[u] = Cardinality({id \in Ids : owners[id] = u})
    <2>1. {id \in Ids : owners[id] = u} = {}
      BY ConstantsAssumption DEF Init
    <2>2. Cardinality({id \in Ids : owners[id] = u}) = 0
      BY <2>1, FS_EmptySet
    <2> QED BY <2>2 DEF Init
  <1> QED BY <1>1, <1>3, <1>4, <1>5 DEF IInv, BalancesMatch

\* The conjunction of all invariants of the contract is kept by every call and by
\* a restart (erc721.cpp, erc721mint.cpp).
THEOREM Invariance == Spec => []IInv
  <1>1. IInv /\ [Next]_vars => IInv'
    BY TypeStep, ApprovalsStep, BalancesStep, LifeStep DEF IInv
  <1> QED BY InitInv, <1>1, PTL DEF Spec

\* Types; in particular no balance is lowered below zero (update_).
THEOREM TypeCorrect == Spec => []TypeOK
  BY Invariance, PTL DEF IInv

\* balanceOf() is the number of tokens that ownerOf() gives the user (update_).
THEOREM BalancesCorrect == Spec => []BalancesMatch
  BY Invariance, PTL DEF IInv

\* A token is owned or pre-burned, never both, and listed once for who pre-burned it
\* (mint, preBurn, burn and the database).
THEOREM LifeCycleCorrect == Spec => []LifeCycle
  BY Invariance, PTL DEF IInv

\* No approval outlives the ownership under which it was given (update_, approve_).
THEOREM ApprovalsCorrect == Spec => []ApprovalsOfOwner
  BY Invariance, PTL DEF IInv

\* What was burned stays burned for the same user and is owned by nobody (burn).
THEOREM BurnsFinal == Spec => BurnFinal
  <1> DEFINE Final == \A id \in Ids :
               burned[id] # Zero => burned'[id] = burned[id] /\ owners'[id] = Zero
  <1>1. IInv /\ [Next]_vars => [Final]_vars
    <2> SUFFICES ASSUME IInv, IInv', Next, NEW id \in Ids, burned[id] # Zero
                 PROVE  burned'[id] = burned[id] /\ owners'[id] = Zero
      BY TypeStep, ApprovalsStep, BalancesStep, LifeStep DEF IInv
    <2>1. burned'[id] = burned[id]
      BY DEF IInv, TypeOK, OneClaim, Next, Saved, Restart, Mint, TransferFrom, Approve,
             SetApprovalForAll, PreBurn, Burn
    <2>2. Claimants(id)' # {}
      BY <2>1 DEF Claimants
    <2> QED BY <2>1, <2>2 DEF IInv, LifeCycle
  <1> QED BY Invariance, <1>1, PTL DEF Spec, BurnFinal
=============================================================================
