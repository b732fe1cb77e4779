------------------------------ MODULE MCLedger ------------------------------
(***************************************************************************)
(* Few transactions at few timestamps, each with up to three events.       *)
(***************************************************************************)
EXTENDS Ledger
=============================================================================
