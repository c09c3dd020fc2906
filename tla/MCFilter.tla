-------------------------------- MODULE MCFilter ------------------------------
(***************************************************************************)
(* Instances of Filter for TLC.                                            *)
(***************************************************************************)
EXTENDS Filter, TLC

Symmetry == Permutations(Cpus) \cup Permutations(Threads)
=============================================================================
