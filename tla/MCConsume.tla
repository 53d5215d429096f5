----------------------------- MODULE MCConsume -----------------------------
(* Consume on small instances: values of the constants for TLC. *)
EXTENDS Consume

\* every frame a broker can send
MCAllKinds == FrameKinds
\* frames consumeEnvelope passes over, and the one it is for
MCAckAndDeliver == {"ack", "deliver"}
\* the frames that have a callback
MCContents == {"deliver", "ack", "return"}

MCZeroOrOne == {0, 1}
MCZeroOrThree == {0, 3}
MCFour == {4}

MCNoJumps == {}
MCBothWays == {-2, 2}
=============================================================================
