--------------------------- MODULE ConsumePromise ---------------------------
(***************************************************************************)
(* What one call of a Connection::consume* method promises its caller, with *)
(* the retry loop, the clocks, the two library waits and the release of the *)
(* buffers left out: the call goes through the frames of the connection in *)
(* their order of arrival, passes over those the caller did not ask for,   *)
(* hands at most one frame to the caller's callback, and returns; only     *)
(* then does the caller see the result, and "true" means the callback ran. *)
(***************************************************************************)
EXTENDS Sequences

CONSTANTS Kinds,       \* what a frame can be
          Skippable,   \* the kinds a call may pass over
          Failures,    \* the exceptions the library throws
          UserFailure  \* the exception of the caller's callback

VARIABLES wire,    \* frames the connection has for the next calls, oldest first
          phase,   \* "idle", "open", "served" (callback ran), "spoiled"
          want,    \* kinds the call in progress hands to the callback
          result   \* what the last call returned or threw

vars == <<wire, phase, want, result>>

Init == wire = <<>> /\ phase = "idle" /\ want = {} /\ result = "none"

Send(kind) == /\ wire' = Append(wire, kind)
              /\ UNCHANGED <<phase, want, result>>

Begin(kinds) == /\ phase = "idle"
                /\ phase' = "open"
                /\ want' = kinds
                /\ result' = "pending"
                /\ UNCHANGED wire

\* the next frame is not for this caller
Skip == /\ phase = "open"
        /\ wire # <<>>
        /\ Head(wire) \in Skippable \ want
        /\ wire' = Tail(wire)
        /\ UNCHANGED <<phase, want, result>>

\* the next frame is the one the caller asked for
Serve == /\ phase = "open"
         /\ wire # <<>>
         /\ Head(wire) \in want
         /\ wire' = Tail(wire)
         /\ phase' = "served"
         /\ UNCHANGED <<want, result>>

\* the next frame ends the call with an exception
Spoil == /\ phase = "open"
         /\ wire # <<>>
         /\ wire' = Tail(wire)
         /\ phase' = "spoiled"
         /\ UNCHANGED <<want, result>>

End == /\ phase # "idle"
       /\ phase' = "idle"
       /\ \/ phase = "served"  /\ result' \in {"true", UserFailure}
          \/ phase = "spoiled" /\ result' \in Failures
          \/ phase = "open"    /\ result' \in {"false"} \cup Failures
       /\ UNCHANGED <<wire, want>>

Next == \/ \E kind \in Kinds : Send(kind)
        \/ \E kinds \in SUBSET Kinds : Begin(kinds)
        \/ Skip
        \/ Serve
        \/ Spoil
        \/ End

Spec == Init /\ [][Next]_vars
=============================================================================
