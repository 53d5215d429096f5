--------------------------- MODULE MCAdvConsumer ---------------------------
(* AdvConsumer on small instances. *)
EXTENDS AdvConsumer, TLC

\* threads and messages are only compared
MCSymmetry == Permutations(Threads) \cup Permutations(Messages)
=============================================================================
