----------------------------- MODULE MCCharDevice -----------------------------
(***************************************************************************)
(* Instances of CharDevice for TLC.                                        *)
(***************************************************************************)
EXTENDS CharDevice
=============================================================================
