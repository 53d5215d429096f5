---------------------------- MODULE MCOwnership ----------------------------
(* Ownership on a small instance: objects and buffers are model values, and
   nothing tells the members of a kind apart. *)
EXTENDS Ownership, TLC

Symmetry == Permutations(Objects) \cup Permutations(Buffers)
=============================================================================
