-------------------------------- MODULE MCSmall -------------------------------
(***************************************************************************)
(* The small modules for TLC; the constants are in Small.cfg.              *)
(***************************************************************************)
EXTENDS Small
===============================================================================
