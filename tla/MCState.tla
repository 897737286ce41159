------------------------------ MODULE MCState ------------------------------
(***************************************************************************)
(* Small networks of State for TLC: two nodes, two users, two addresses    *)
(* that an EVM contract may get, and one C++ contract.                     *)
(***************************************************************************)
EXTENDS State

CONSTANTS node1, node2, alice, bob, evm1, evm2, program

TwoUsers == {alice, bob}
AllAccounts == {alice, bob, evm1, evm2, program, Zero}

\* The first contract of alice is evm1; the others share an address.
MCDerive(u, k) == IF u = alice /\ k = 0 THEN evm1 ELSE evm2

MCGenesis == [a \in AllAccounts |-> CASE a = alice -> 12 [] a = bob -> 7 [] OTHER -> 0]

\* Validators take turns.
Alternating(h) == IF h % 2 = 1 THEN node1 ELSE node2

Tx(u, k, dest, v, failing) ==
  [from |-> u, nonce |-> k, to |-> dest, value |-> v, limit |-> 2, fee |-> 1,
   fails |-> failing, destructs |-> FALSE, payable |-> FALSE, payee |-> u, payout |-> 0]

Call(u, v, destroying) ==
  [from |-> u, to |-> evm1, value |-> v, limit |-> 1, destructs |-> destroying]

\* Two transactions of alice with one nonce of which she can pay only one, a
\* transfer, and a call of an EVM contract that fails.
ReplicaTxs ==
  {Tx(alice, 0, Zero, 3, FALSE), Tx(alice, 0, Zero, 10, FALSE),
   Tx(alice, 1, evm1, 6, TRUE), Tx(bob, 0, alice, 1, FALSE)}

\* Alice simulates a call of her contract that she can pay for.
AliceCalls == {Call(alice, 1, FALSE)}

\* A call of a C++ contract that fails, with value.
FailingProgram ==
  {Tx(alice, 0, program, 1, TRUE), [Tx(bob, 0, program, 1, TRUE) EXCEPT !.payable = TRUE]}

NoCalls == {}
=============================================================================
