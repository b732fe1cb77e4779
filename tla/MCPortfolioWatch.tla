-------------------------- MODULE MCPortfolioWatch --------------------------
(***************************************************************************)
(* Two escrows, one watched from the start; the bounds are given in the    *)
(* cfg files.                                                              *)
(***************************************************************************)
EXTENDS PortfolioWatch
=============================================================================
