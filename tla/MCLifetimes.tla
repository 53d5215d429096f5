---------------------------- MODULE MCLifetimes ----------------------------
(* Lifetimes with two channels, for TLC. *)
EXTENDS Lifetimes, TLC

CONSTANTS c1, c2
MCIds == {c1, c2}
MCSymmetry == Permutations(MCIds)
=============================================================================
