---------------------------- MODULE MCBandwidth -----------------------------
(* Two sessions of a user, so that one can log in while the other transfers. *)
EXTENDS Bandwidth, TLC

Symmetry == Permutations(Sessions)
=============================================================================
