-------------------------------- MODULE MCKbd -------------------------------
(***************************************************************************)
(* Instances of Kbd for TLC.                                               *)
(***************************************************************************)
EXTENDS Kbd, TLC

\* Two presses that log different characters, and the release of the first.
MCScancodes == {30, 48, 158}

\* One press and its release, for the liveness run.
MCFewScancodes == {30, 158}

Symmetry == Permutations(Cpus)
=============================================================================
