----------------------------- MODULE MCStorage -----------------------------
(***************************************************************************)
(* A small instance of Storage for TLC.                                    *)
(***************************************************************************)
EXTENDS Storage

CONSTANTS x, y

\* Two branches share a transaction at every height, in different places.
MCTxsOf(h, c) == IF c = x THEN << <<h, 1>>, <<h, 2>> >> ELSE << <<h, 2>> >>

MCTxs == (1..MaxHeight) \X {1, 2}
=============================================================================
