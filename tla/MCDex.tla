------------------------------- MODULE MCDex -------------------------------
(***************************************************************************)
(* One user, who also collects the protocol fee.                           *)
(***************************************************************************)
EXTENDS Dex
=============================================================================
