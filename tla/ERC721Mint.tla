----------------------------- MODULE ERC721Mint -----------------------------
(***************************************************************************)
(* contract/templates/erc721.cpp and erc721mint.cpp: tokens that anybody   *)
(* mints, owners pass on, and that are burned in two calls: preBurn() by   *)
(* the owner, then burn() with the signature of the contract's signer.     *)
(* The contract is written to the database by its destructor and read by   *)
(* its constructor.                                                        *)
(*                                                                         *)
(* A call that throws is undone and is no step.  Zero is Address(), also   *)
(* for a key that a map does not have.                                     *)
(***************************************************************************)
EXTENDS Integers, FiniteSets, Sequences

CONSTANTS
  Users,      \* the addresses that call, own and are approved
  Zero,       \* Address()
  MaxSupply   \* maxSupply_

ASSUME ConstantsAssumption == Zero \notin Users /\ MaxSupply \in Nat

VARIABLES
  owners,        \* owners_
  balances,      \* balances_
  approvals,     \* tokenApprovals_
  operators,     \* operatorAddressApprovals_, the pairs that are true
  counter,       \* tokenIdCounter_, and totalSupply_, which only mint() changes
  byOwner,       \* preburnedTokensByOwner_
  preBurned,     \* preBurnedTokens_: the user of each entry
  burned,        \* burnedTokens_: the user of each entry
  dbPreBurned,   \* the entries of preBurnedTokens_ in the database
  grantor        \* history: who owned the token when its approval was given

vars == <<owners, balances, approvals, operators, counter, byOwner,
          preBurned, burned, dbPreBurned, grantor>>

Ids == 0..(MaxSupply - 1)

Addresses == Users \cup {Zero}

TypeOK ==
  /\ owners \in [Ids -> Addresses]
  /\ balances \in [Users -> Nat]
  /\ approvals \in [Ids -> Addresses]
  /\ operators \subseteq Users \X Users
  /\ counter \in 0..MaxSupply
  /\ byOwner \in [Users -> Seq(Ids)]
  /\ preBurned \in [Ids -> Addresses]
  /\ burned \in [Ids -> Addresses]
  /\ dbPreBurned \in [Ids -> Addresses]
  /\ grantor \in [Ids -> Addresses]

-----------------------------------------------------------------------------
IsApprovedForAll(owner, spender) == <<owner, spender>> \in operators

IsAuthorized(owner, spender, id) ==
  \/ spender = owner
  \/ IsApprovedForAll(owner, spender)
  \/ approvals[id] = spender

\* Mutant: the balance of the previous owner is lowered by transferFrom as well.
MovedTwice(from, to) ==
  [u \in Users |-> balances[u] - (IF u = from /\ u # to THEN 2 ELSE 0)
                               + (IF u = to /\ u # from THEN 1 ELSE 0)]

\* balances_ with one token less at from and one more at to, if they are addresses.
Moved(from, to) ==
  [u \in Users |-> balances[u] - (IF u = from THEN 1 ELSE 0)
                               + (IF u = to THEN 1 ELSE 0)]

\* Mutant: the balance of the previous owner is not lowered.
UpdateKeepsFrom(to, id) ==
  LET from == owners[id] IN
  /\ approvals' = IF from = Zero THEN approvals ELSE [approvals EXCEPT ![id] = Zero]
  /\ balances' = Moved(Zero, to)
  /\ owners' = [owners EXCEPT ![id] = to]

\* Mutant: the approval is kept.
UpdateKeepsApproval(to, id) ==
  /\ balances' = Moved(owners[id], to)
  /\ owners' = [owners EXCEPT ![id] = to]
  /\ UNCHANGED approvals

\* update_ after its authorization: the subtraction throws at zero.
Update(to, id) ==
  LET from == owners[id] IN
  /\ from # Zero => balances[from] > 0
  /\ approvals' = IF from = Zero THEN approvals ELSE [approvals EXCEPT ![id] = Zero]
  /\ balances' = Moved(from, to)
  /\ owners' = [owners EXCEPT ![id] = to]

-----------------------------------------------------------------------------
Init ==
  /\ owners = [id \in Ids |-> Zero]
  /\ balances = [u \in Users |-> 0]
  /\ approvals = [id \in Ids |-> Zero]
  /\ operators = {}
  /\ counter = 0
  /\ byOwner = [u \in Users |-> <<>>]
  /\ preBurned = [id \in Ids |-> Zero]
  /\ burned = [id \in Ids |-> Zero]
  /\ dbPreBurned = [id \in Ids |-> Zero]
  /\ grantor = [id \in Ids |-> Zero]

\* mint(), whose list of the tokens of a user (_ownedTokens) nothing else depends on.
Mint(to) ==
  /\ counter < MaxSupply
  /\ Update(to, counter)
  /\ counter' = counter + 1
  /\ UNCHANGED <<operators, byOwner, preBurned, burned, dbPreBurned, grantor>>

TransferFrom(caller, from, to, id) ==
  /\ IsAuthorized(owners[id], caller, id)
  /\ owners[id] = from
  /\ Update(to, id)
  /\ UNCHANGED <<operators, counter, byOwner, preBurned, burned,
                 dbPreBurned, grantor>>

\* approve(); to may be Zero, which takes the approval back.
Approve(caller, to, id) ==
  /\ owners[id] # Zero
  /\ owners[id] = caller \/ IsApprovedForAll(owners[id], caller)
  /\ approvals' = [approvals EXCEPT ![id] = to]
  /\ grantor' = [grantor EXCEPT ![id] = owners[id]]
  /\ UNCHANGED <<owners, balances, operators, counter, byOwner,
                 preBurned, burned, dbPreBurned>>

SetApprovalForAll(caller, operator, approved) ==
  /\ operators' = IF approved THEN operators \cup {<<caller, operator>>}
                  ELSE operators \ {<<caller, operator>>}
  /\ UNCHANGED <<owners, balances, approvals, counter, byOwner,
                 preBurned, burned, dbPreBurned, grantor>>

\* Mutant: the token is noted as pre-burned, and its owner keeps it.
PreBurnKeepsToken(caller, id) ==
  /\ owners[id] = caller
  /\ byOwner' = [byOwner EXCEPT ![caller] = Append(@, id)]
  /\ preBurned' = [preBurned EXCEPT ![id] = caller]
  /\ UNCHANGED <<owners, balances, approvals, operators, counter,
                 burned, dbPreBurned, grantor>>

\* burn_() of the token and the note that it is pre-burned.
PreBurn(caller, id) ==
  /\ owners[id] = caller
  /\ byOwner' = [byOwner EXCEPT ![caller] = Append(@, id)]
  /\ Update(Zero, id)
  /\ preBurned' = [preBurned EXCEPT ![id] = caller]
  /\ UNCHANGED <<operators, counter, burned, dbPreBurned, grantor>>

\* Mutant: the user is noted after the entry has been erased.
BurnAfterErase(id) ==
  /\ preBurned[id] # Zero
  /\ preBurned' = [preBurned EXCEPT ![id] = Zero]
  /\ burned' = [burned EXCEPT ![id] = preBurned'[id]]
  /\ UNCHANGED <<owners, balances, approvals, operators, counter,
                 byOwner, dbPreBurned, grantor>>

\* burn() by anybody who has the signature for the token and its user.
Burn(id) ==
  /\ preBurned[id] # Zero
  /\ burned' = [burned EXCEPT ![id] = preBurned[id]]
  /\ preBurned' = [preBurned EXCEPT ![id] = Zero]
  /\ UNCHANGED <<owners, balances, approvals, operators, counter,
                 byOwner, dbPreBurned, grantor>>

\* What the destructor leaves in the database: it puts the entries that the map holds
\* over those that are there and deletes none.
Saved == [id \in Ids |-> IF preBurned[id] # Zero THEN preBurned[id] ELSE dbPreBurned[id]]

\* Mutant: the burned tokens are read under the prefix of the pre-burned ones.
RestartSwapped ==
  /\ dbPreBurned' = Saved /\ preBurned' = Saved /\ burned' = Saved
  /\ UNCHANGED <<owners, balances, approvals, operators, counter,
                 byOwner, grantor>>

\* The destructor saves the contract and the constructor loads it.  No other map loses
\* an entry, so that all of them come back as they were.
Restart ==
  /\ dbPreBurned' = Saved /\ preBurned' = Saved
  /\ UNCHANGED <<owners, balances, approvals, operators, counter,
                 byOwner, burned, grantor>>

Next ==
  \/ Restart
  \/ \E to \in Users : Mint(to)
  \/ \E caller, from, to \in Users, id \in Ids : TransferFrom(caller, from, to, id)
  \/ \E caller \in Users, to \in Addresses, id \in Ids : Approve(caller, to, id)
  \/ \E caller, operator \in Users, approved \in BOOLEAN :
       SetApprovalForAll(caller, operator, approved)
  \/ \E caller \in Users, id \in Ids : PreBurn(caller, id)
  \/ \E id \in Ids : Burn(id)

Spec == Init /\ [][Next]_vars

-----------------------------------------------------------------------------
(* Properties *)

\* balanceOf() counts the tokens that ownerOf() gives a user, through all mints,
\* transfers (to oneself as well), pre-burns and restarts (update_).
BalancesMatch ==
  \A u \in Users : balances[u] = Cardinality({id \in Ids : owners[id] = u})

\* Who has pre-burned a token, whether it has been burned since or not.
Claimants(id) == {preBurned[id], burned[id]} \ {Zero}

\* The places of a token in getPreburnedTokensByOwner().
Listed(u, id) == {i \in DOMAIN byOwner[u] : byOwner[u][i] = id}

\* A token below the counter, and no other, is owned or has been pre-burned, never
\* both: nobody passes on a token that can be claimed elsewhere.  Who pre-burned it is
\* who burned it, and finds it once among the pre-burned tokens (mint, preBurn, burn).
LifeCycle ==
  \A id \in Ids :
    /\ id < counter <=> (owners[id] # Zero \/ Claimants(id) # {})
    /\ owners[id] # Zero => Claimants(id) = {}
    /\ \A u \in Users :
         IF u \in Claimants(id) THEN \E i \in DOMAIN byOwner[u] : Listed(u, id) = {i}
         ELSE Listed(u, id) = {}

\* An approval is one that the present owner, or an operator for it, has given: none
\* outlives a transfer or a burn, however the token comes back (update_, approve_).
ApprovalsOfOwner ==
  \A id \in Ids : approvals[id] # Zero => grantor[id] = owners[id] /\ owners[id] # Zero

\* What was burned stays burned, for the same user, and is nobody's token again.
BurnFinal ==
  [][\A id \in Ids :
       burned[id] # Zero => burned'[id] = burned[id] /\ owners'[id] = Zero]_vars
=============================================================================
