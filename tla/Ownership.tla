----------------------------- MODULE Ownership -----------------------------
(***************************************************************************)
(* AMQPStruct and the classes made from it, Envelope and Message (and      *)
(* ReturnedMessage, whose moves are those of its Message).  Moving copies  *)
(* memory_ bit by bit, so that the pointers to the buffers of the library  *)
(* stay in the object moved from; only moved_ says who destroys them.      *)
(***************************************************************************)
EXTENDS Naturals, FiniteSets

CONSTANTS Objects, Buffers, NoBuffer,
          MaxAgain   \* bound: moves from objects that were moved from

ASSUME OwnershipAssumption ==
    /\ NoBuffer \notin Buffers
    /\ {"none", "gone", "lost", "shared"} \cap Objects = {}
    /\ MaxAgain \in Nat

VARIABLES
    alive,      \* objects between their constructor and destructor
    moved,      \* those whose moved_ is true
    memory,     \* memory_, as the buffer it points to
    allocated,  \* buffers that the library has allocated
    destroyed,  \* buffers that amqp_destroy_envelope or _message was called for
    again       \* history: moves so far from objects that were moved from

vars == <<alive, moved, memory, allocated, destroyed, again>>

Owners(b) == {o \in alive \ moved : memory[o] = b}

Init == /\ alive = {} /\ moved = {}
        /\ memory = [o \in Objects |-> NoBuffer]
        /\ allocated = {} /\ destroyed = {}
        /\ again = 0

-----------------------------------------------------------------------------
(* Operations *)

\* faulty: the constructor does not clear memory_
ConstructUninitialized(o) ==
    /\ o \notin alive
    /\ alive' = alive \cup {o}
    /\ moved' = moved \ {o}
    /\ \E b \in Buffers : memory' = [memory EXCEPT ![o] = b]
    /\ UNCHANGED <<allocated, destroyed, again>>

\* The default argument of the constructors: memory_ is all zero, which has
\* nothing to destroy.
Construct(o) ==
    /\ o \notin alive
    /\ alive' = alive \cup {o}
    /\ moved' = moved \ {o}
    /\ memory' = [memory EXCEPT ![o] = NoBuffer]
    /\ UNCHANGED <<allocated, destroyed, again>>

\* the constructors given a structure that the library has filled, which the
\* program gives to one object
ConstructFrom(o, b) ==
    /\ o \notin alive /\ b \notin allocated
    /\ alive' = alive \cup {o}
    /\ moved' = moved \ {o}
    /\ memory' = [memory EXCEPT ![o] = b]
    /\ allocated' = allocated \cup {b}
    /\ UNCHANGED <<destroyed, again>>

\* consumeImpl has the library fill the new object
Fill(o, b) ==
    /\ o \in alive \ moved /\ memory[o] = NoBuffer
    /\ b \notin allocated
    /\ memory' = [memory EXCEPT ![o] = b]
    /\ allocated' = allocated \cup {b}
    /\ UNCHANGED <<alive, moved, destroyed, again>>

\* moved_ of the source is not looked at
MoveFrom(from) == /\ from \in alive
                  /\ from \in moved => again < MaxAgain
                  /\ again' = IF from \in moved THEN again + 1 ELSE again

\* faulty: what is moved from is not marked
MoveConstructUnmarked(from, to) ==
    /\ MoveFrom(from) /\ to \notin alive
    /\ alive' = alive \cup {to}
    /\ moved' = moved \ {to}
    /\ memory' = [memory EXCEPT ![to] = memory[from]]
    /\ UNCHANGED <<allocated, destroyed>>

\* the move constructor
MoveConstruct(from, to) ==
    /\ MoveFrom(from) /\ to \notin alive
    /\ alive' = alive \cup {to}
    /\ moved' = (moved \ {to}) \cup {from}
    /\ memory' = [memory EXCEPT ![to] = memory[from]]
    /\ UNCHANGED <<allocated, destroyed>>

\* faulty: an object moved from stays so
MoveAssignStaysMoved(from, to) ==
    /\ MoveFrom(from) /\ to \in alive
    /\ moved' = moved \cup {from}
    /\ memory' = [memory EXCEPT ![to] = memory[from]]
    /\ UNCHANGED <<alive, allocated, destroyed>>

\* faulty: what is assigned from is not marked
MoveAssignKeepsSource(from, to) ==
    /\ MoveFrom(from) /\ to \in alive
    /\ moved' = moved \ {to}
    /\ memory' = [memory EXCEPT ![to] = memory[from]]
    /\ UNCHANGED <<alive, allocated, destroyed>>

\* Move assignment, to an object that owns a buffer and to the same object too:
\* moved_ of the source is set last.
MoveAssign(from, to) ==
    /\ MoveFrom(from) /\ to \in alive
    /\ moved' = (moved \ {to}) \cup {from}
    /\ memory' = [memory EXCEPT ![to] = memory[from]]
    /\ UNCHANGED <<alive, allocated, destroyed>>

\* faulty: moved_ is not looked at
DestroyAlways(o) ==
    /\ o \in alive
    /\ alive' = alive \ {o}
    /\ destroyed' = IF memory[o] = NoBuffer THEN destroyed ELSE destroyed \cup {memory[o]}
    /\ UNCHANGED <<moved, memory, allocated, again>>

\* ~Envelope and ~Message
Destroy(o) ==
    /\ o \in alive
    /\ alive' = alive \ {o}
    /\ destroyed' = IF o \in moved \/ memory[o] = NoBuffer THEN destroyed
                    ELSE destroyed \cup {memory[o]}
    /\ UNCHANGED <<moved, memory, allocated, again>>

Next == \/ \E o \in Objects : \/ Construct(o) \/ Destroy(o)
                              \/ \E b \in Buffers : ConstructFrom(o, b) \/ Fill(o, b)
        \/ \E from, to \in Objects : MoveConstruct(from, to) \/ MoveAssign(from, to)

Spec == Init /\ [][Next]_vars

-----------------------------------------------------------------------------
(* Properties *)

\* The type invariant of AMQPStruct.  Only buffers of the library are pointed to.
TypeOK == /\ alive \subseteq Objects /\ moved \subseteq Objects
          /\ memory \in [Objects -> allocated \cup {NoBuffer}]
          /\ allocated \subseteq Buffers /\ destroyed \subseteq allocated
          /\ again \in 0..MaxAgain

\* moved_ "tells us if the underlying object has been moved": a buffer has at most
\* one object without it, which will destroy it, however often the buffer is moved,
\* assigned over or assigned to itself, and one more for each move from an object
\* that was moved from.
OwnersAreFew == \A b \in Buffers : Cardinality(Owners(b)) <= 1 + again

\* An object that has not been moved from points to a buffer that is still
\* there, unless a program moved from one twice: no buffer is destroyed twice, and
\* none is read after that through its owner.
OwnersHaveTheirBuffer == again = 0 => \A b \in destroyed : Owners(b) = {}

\* A buffer is left without an owner, and never destroyed, only where an object
\* that owns it is assigned to; every other move hands it on.
LeaksAreOverwrites ==
    [][\A b \in allocated' \ destroyed' :
         (b \in allocated => Owners(b) # {}) /\ Owners(b)' = {}
           => \E from \in Objects, to \in Owners(b) : MoveAssign(from, to)]_vars

None == "none"
Gone == "gone"
Lost == "lost"

owner == [b \in Buffers |->
            IF b \notin allocated THEN None
            ELSE IF b \in destroyed THEN Gone
            ELSE IF Owners(b) = {} THEN Lost
            ELSE IF \E o \in Objects : Owners(b) = {o}
                 THEN CHOOSE o \in Objects : Owners(b) = {o}
            ELSE "shared"]

Unique == INSTANCE UniqueOwner

\* As long as a program does not move from an object twice, moves, assignments and
\* destructors do what UniqueOwner says: a buffer is handed to the target, lost
\* with an owner assigned to, or destroyed by its owner, and that is final.
ImplementsUniqueOwner ==
    Unique!Init /\ [][again' = 0 => Unique!Next \/ UNCHANGED owner]_vars
=============================================================================
