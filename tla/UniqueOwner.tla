---------------------------- MODULE UniqueOwner ----------------------------
(***************************************************************************)
(* What AMQPStruct promises: a buffer the library allocated has one owner, *)
(* which may pass it to another object and finally destroys it.  An object *)
(* that gets a buffer, or is told to get one and does not, forgets the one *)
(* it had.                                                                 *)
(***************************************************************************)
CONSTANTS Objects, Buffers,
          None, Gone, Lost   \* not objects

VARIABLE owner   \* [Buffers -> an object, None before, Gone or Lost after]

Init == owner = [b \in Buffers |-> None]

Get(o, b) == /\ owner[b] = None
             /\ \A c \in Buffers : owner[c] # o
             /\ owner' = [owner EXCEPT ![b] = o]

Pass(o, b) == /\ owner[b] \in Objects \ {o}
              /\ owner' = [c \in Buffers |-> IF c = b THEN o
                                             ELSE IF owner[c] = o THEN Lost
                                             ELSE owner[c]]

\* its owner is assigned an object without a buffer, or itself
Lose(b) == owner[b] \in Objects /\ owner' = [owner EXCEPT ![b] = Lost]

Destroy(b) == owner[b] \in Objects /\ owner' = [owner EXCEPT ![b] = Gone]

Next == \E b \in Buffers : \/ Destroy(b) \/ Lose(b)
                           \/ \E o \in Objects : Get(o, b) \/ Pass(o, b)

Spec == Init /\ [][Next]_owner
=============================================================================
