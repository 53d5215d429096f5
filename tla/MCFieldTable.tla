---------------------------- MODULE MCFieldTable ----------------------------
(* FieldTable on small instances. *)
EXTENDS FieldTable, TLC

\* variables are only compared
MCSymmetry == Permutations(Entries) \cup Permutations(Tables)
=============================================================================
