---------------------------- MODULE MCPresence ----------------------------
(* Keys and refs are interchangeable, and no liveness is checked.          *)
EXTENDS Presence, TLC

Symmetry == Permutations(Keys) \cup Permutations(Refs)
=============================================================================
