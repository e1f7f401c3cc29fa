------------------------------ MODULE MCCsiLink ------------------------------
(* CsiLink for TLC: one transmitter is as good as another. *)
EXTENDS CsiLink, TLC

Symmetry == Permutations(Macs)
=============================================================================
