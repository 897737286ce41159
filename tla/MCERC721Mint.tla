---------------------------- MODULE MCERC721Mint ----------------------------
(***************************************************************************)
(* Users that can be exchanged for each other, for TLC.                    *)
(***************************************************************************)
EXTENDS ERC721Mint, TLC

Symmetry == Permutations(Users)
=============================================================================
