------------------------------ MODULE MCRdPoS ------------------------------
(***************************************************************************)
(* Small networks of RdPoS for TLC.                                        *)
(***************************************************************************)
EXTENDS RdPoSInv, Sequences, Functions

CONSTANTS v1, v2, v3, Orders

\* The shuffle of the model: the sum of the seeds picks one of the orders.
MCShuffle(r) ==
  LET order == Orders[1 + (FoldFunction(+, 0, r) % Len(Orders))]
  IN  [i \in 0..(Len(order) - 1) |-> order[i + 1]]

TwoOrders == <<<<v1, v2>>, <<v2, v1>>>>

\* v2 stays the participant of the next round while its creator changes.
SwappedOrders == <<<<v1, v2, v3>>, <<v3, v2, v1>>>>

\* The creator of a block is the participant of the next round.
RotatedOrders == <<<<v1, v2, v3>>, <<v3, v1, v2>>>>

\* Two seeds of value 1 pick the third order: the creator stays and the
\* participants change places.
ParticipantOrders == <<<<v1, v2, v3>>, <<v3, v1, v2>>, <<v1, v3, v2>>>>
=============================================================================
