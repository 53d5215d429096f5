----------------------------- MODULE MCChannels -----------------------------
(* Channels on a small instance: two numbers, and one variable more than that
   to move a channel into.  Nothing tells the variables apart. *)
EXTENDS Channels, TLC

MCIds == {1, 2}
HandleSymmetry == Permutations(Handles)
=============================================================================
