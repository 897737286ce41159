------------------------------- MODULE Ledger -------------------------------
(***************************************************************************)
(* What the consensus promises: the nodes read prefixes of one ledger,     *)
(* which only grows at its end, one block at a time, and only by the node  *)
(* that the last block elects.                                             *)
(***************************************************************************)
EXTENDS Integers

CONSTANTS
  Nodes,      \* the nodes that read the ledger
  Genesis,    \* its first block
  Elected(_)  \* the node that a block elects as the creator of the next one

VARIABLES
  length,  \* the height of the last block
  ledger,  \* the blocks, a function of the heights 0..length
  view     \* how far each node has read

vars == <<length, ledger, view>>

Init ==
  /\ length = 0
  /\ ledger = [k \in 0..0 |-> Genesis]
  /\ view = [n \in Nodes |-> 0]

\* The elected node, which has read the whole ledger, adds a block.
Extend(n) ==
  /\ view[n] = length
  /\ n = Elected(ledger[length])
  /\ length' = length + 1
  /\ DOMAIN ledger' = 0..length'
  /\ \A k \in 0..length : ledger'[k] = ledger[k]
  /\ view' = [view EXCEPT ![n] = length']

\* A node reads the next block.
Read(n) ==
  /\ view[n] < length
  /\ view' = [view EXCEPT ![n] = @ + 1]
  /\ UNCHANGED <<length, ledger>>

Next == \E n \in Nodes : Extend(n) \/ Read(n)

Spec == Init /\ [][Next]_vars
=============================================================================
