-------------------------- MODULE MCContractCalls --------------------------
(***************************************************************************)
(* One deployed contract, one that calls can create, and a user.           *)
(***************************************************************************)
EXTENDS ContractCalls

CONSTANTS token, pair, user

\* The deployed contract and the user hold one native token each.
MCGenesis == [a \in Accounts |-> IF a = pair THEN 0 ELSE 1]
=============================================================================
