----------------------------- MODULE MCChannel -----------------------------
(* TLC instance of Channel.                                                *)
EXTENDS Channel, TLC

Symmetry == Permutations(Pushes)
=============================================================================
