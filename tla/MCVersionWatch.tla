--------------------------- MODULE MCVersionWatch ---------------------------
(***************************************************************************)
(* The watch of one escrow whose version changes up to twice, with up to   *)
(* two faults; the bounds are given in the cfg files.                      *)
(***************************************************************************)
EXTENDS VersionWatch
=============================================================================
