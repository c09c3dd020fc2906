----------------------------- MODULE MCDeferred ------------------------------
(***************************************************************************)
(* Instances of Deferred for TLC.                                          *)
(***************************************************************************)
EXTENDS Deferred, TLC

Symmetry == Permutations(Cpus) \cup Permutations(Tasks) \cup Permutations(Addrs)
=============================================================================
