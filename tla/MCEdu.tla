--------------------------------- MODULE MCEdu --------------------------------
(***************************************************************************)
(* Instances of Edu for TLC.                                               *)
(***************************************************************************)
EXTENDS Edu

MCWorkloads == {{"live"}, {"factorial", "raise"}, {"dma", "raise"}, {"mmap"}}
===============================================================================
