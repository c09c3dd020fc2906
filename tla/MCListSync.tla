----------------------------- MODULE MCListSync ------------------------------
(***************************************************************************)
(* Instances of ListSync for TLC.                                          *)
(***************************************************************************)
EXTENDS ListSync, TLC

Symmetry == Permutations(Users) \cup Permutations(Pids) \cup Permutations(Addrs)
=============================================================================
