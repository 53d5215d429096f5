-------------------------- MODULE OwnershipProofs --------------------------
(***************************************************************************)
(* Proofs about Ownership, for all sets of objects and of buffers, and     *)
(* whatever the program moves and assigns.                                 *)
(***************************************************************************)
EXTENDS Ownership, FiniteSetTheorems, TLAPS

-----------------------------------------------------------------------------
(* Types *)

\* Every operation keeps the types, whatever the program moves and assigns.
LEMMA TypeStep == TypeOK /\ [Next]_vars => TypeOK'
<1> SUFFICES ASSUME TypeOK, [Next]_vars PROVE TypeOK'
  OBVIOUS
<1> USE DEF TypeOK
<1>1. ASSUME NEW o \in Objects, Construct(o) PROVE TypeOK'
  BY <1>1 DEF Construct
<1>2. ASSUME NEW o \in Objects, NEW b \in Buffers, ConstructFrom(o, b) \/ Fill(o, b)
      PROVE  TypeOK'
  BY <1>2 DEF ConstructFrom, Fill
<1>3. ASSUME NEW o \in Objects, Destroy(o) PROVE TypeOK'
  BY <1>3 DEF Destroy
<1>4. ASSUME NEW from \in Objects, NEW to \in Objects,
             MoveConstruct(from, to) \/ MoveAssign(from, to)
      PROVE  TypeOK'
  <2>1. again' \in 0..MaxAgain
    BY <1>4, OwnershipAssumption DEF MoveConstruct, MoveAssign, MoveFrom
  <2> QED BY <1>4, <2>1 DEF MoveConstruct, MoveAssign
<1>5. CASE UNCHANGED vars
  BY <1>5 DEF vars
<1> QED BY <1>1, <1>2, <1>3, <1>4, <1>5 DEF Next

\* AMQPStruct keeps its types: objects point to buffers of the library only.
THEOREM TypeCorrect == Spec => []TypeOK
<1>1. Init => TypeOK
  BY OwnershipAssumption DEF Init, TypeOK
<1> QED BY <1>1, TypeStep, PTL DEF Spec

-----------------------------------------------------------------------------
(* What the operations do to the owners of a buffer *)

\* A buffer that is new has the object it is given to; the other constructors
\* concern no buffer.
LEMMA NewOwners ==
    ASSUME TypeOK, NEW o \in Objects
    PROVE  /\ Construct(o) => \A b \in Buffers : Owners(b)' = Owners(b)
           /\ \A b \in Buffers :
                ConstructFrom(o, b) \/ Fill(o, b)
                  => \A c \in Buffers : Owners(c)' = IF c = b THEN {o} ELSE Owners(c)
<1>1. ASSUME Construct(o), NEW b \in Buffers PROVE Owners(b)' = Owners(b)
  BY <1>1, OwnershipAssumption DEF Construct, Owners, TypeOK
<1>2. ASSUME NEW b \in Buffers, ConstructFrom(o, b) \/ Fill(o, b), NEW c \in Buffers
      PROVE  Owners(c)' = IF c = b THEN {o} ELSE Owners(c)
  <2>1. \A p \in Objects : memory[p] # b
    BY <1>2, OwnershipAssumption DEF ConstructFrom, Fill, TypeOK
  <2>2. CASE ConstructFrom(o, b)
    BY <2>1, <2>2 DEF ConstructFrom, Owners, TypeOK
  <2>3. CASE Fill(o, b)
    BY <2>1, <2>3, OwnershipAssumption DEF Fill, Owners, TypeOK
  <2> QED BY <1>2, <2>2, <2>3
<1> QED BY <1>1, <1>2

\* A destructor takes its object away.
LEMMA DestroyOwners ==
    ASSUME NEW o \in Objects, Destroy(o), NEW b \in Buffers
    PROVE  Owners(b)' = Owners(b) \ {o}
BY DEF Destroy, Owners

\* A move takes a buffer from an object to another, which forgets what it had; one
\* to the same object leaves it with nothing.
LEMMA MoveOwners ==
    ASSUME TypeOK, NEW from \in Objects, NEW to \in Objects,
           MoveConstruct(from, to) \/ MoveAssign(from, to)
    PROVE  /\ from \in alive
           /\ allocated' = allocated /\ destroyed' = destroyed
           /\ again' = IF from \in moved THEN again + 1 ELSE again
           /\ \A b \in Buffers :
                Owners(b)' = IF from # to /\ memory[from] = b
                             THEN (Owners(b) \ {from}) \cup {to}
                             ELSE Owners(b) \ {from, to}
<1>1. /\ memory' = [memory EXCEPT ![to] = memory[from]]
      /\ moved' = (moved \ {to}) \cup {from}
      /\ alive' = alive \cup {to}
      /\ allocated' = allocated /\ destroyed' = destroyed
      /\ from \in alive
      /\ again' = IF from \in moved THEN again + 1 ELSE again
  BY DEF MoveConstruct, MoveAssign, MoveFrom, TypeOK
<1>2. ASSUME NEW b \in Buffers
      PROVE  Owners(b)' = IF from # to /\ memory[from] = b
                          THEN (Owners(b) \ {from}) \cup {to}
                          ELSE Owners(b) \ {from, to}
  BY <1>1 DEF Owners, TypeOK
<1> QED BY <1>1, <1>2

-----------------------------------------------------------------------------
(* The number of owners *)

Few(b) == IsFiniteSet(Owners(b)) /\ Cardinality(Owners(b)) <= 1 + again

\* A buffer that gets no owner keeps few.
LEMMA FewerOwners ==
    ASSUME TypeOK, TypeOK', NEW b \in Buffers, Few(b),
           Owners(b)' \subseteq Owners(b), again <= again'
    PROVE  Few(b)'
<1> DEFINE S == Owners(b)
           T == Owners(b)'
<1>1. IsFiniteSet(S) /\ T \in SUBSET S /\ Cardinality(S) <= 1 + again
  BY DEF Few
<1> HIDE DEF S, T
<1>2. IsFiniteSet(T) /\ Cardinality(T) <= Cardinality(S)
  BY <1>1, FS_Subset
<1>3. Cardinality(T) \in Nat /\ Cardinality(S) \in Nat /\ again \in Nat /\ again' \in Nat
  BY <1>1, <1>2, FS_CardinalityType DEF TypeOK
<1>4. Cardinality(T) <= 1 + again'
  BY <1>1, <1>2, <1>3
<1> QED BY <1>2, <1>4 DEF Few, T

\* The target of a move takes the place of a source that owned the buffer; where
\* the source did not, because it had been moved from, the move is counted.
LEMMA MoveKeepsFew ==
    ASSUME TypeOK, TypeOK', NEW from \in Objects, NEW to \in Objects,
           MoveConstruct(from, to) \/ MoveAssign(from, to),
           NEW b \in Buffers, Few(b)
    PROVE  Few(b)'
<1>1. /\ from \in alive
      /\ again' = IF from \in moved THEN again + 1 ELSE again
      /\ Owners(b)' = IF from # to /\ memory[from] = b
                      THEN (Owners(b) \ {from}) \cup {to}
                      ELSE Owners(b) \ {from, to}
  BY MoveOwners
<1>2. again \in Nat /\ again' \in Nat /\ again <= again'
  BY <1>1 DEF TypeOK
<1>3. CASE ~(from # to /\ memory[from] = b)
  BY <1>1, <1>2, <1>3, FewerOwners
<1>4. CASE from # to /\ memory[from] = b
  <2> DEFINE S == Owners(b)
             R == S \ {from}
             T == R \cup {to}
  <2>1. IsFiniteSet(S) /\ Cardinality(S) <= 1 + again
    BY DEF Few
  <2>2. Owners(b)' = T
    BY <1>1, <1>4
  <2>3. from \notin S => from \in moved
    BY <1>1, <1>4 DEF Owners
  <2> HIDE DEF S
  <2>4. /\ IsFiniteSet(R)
        /\ Cardinality(R) = IF from \in S THEN Cardinality(S) - 1 ELSE Cardinality(S)
    BY <2>1, FS_RemoveElement
  <2> HIDE DEF R
  <2>5. /\ IsFiniteSet(T)
        /\ Cardinality(T) = IF to \in R THEN Cardinality(R) ELSE Cardinality(R) + 1
    BY <2>4, FS_AddElement
  <2> HIDE DEF T
  <2>6. Cardinality(S) \in Nat /\ Cardinality(R) \in Nat
    BY <2>1, <2>4, FS_CardinalityType
  <2>7. Cardinality(T) <= 1 + again'
    BY <1>1, <1>2, <2>1, <2>3, <2>4, <2>5, <2>6
  <2> QED BY <2>2, <2>5, <2>7 DEF Few
<1> QED BY <1>3, <1>4

\* The invariant: the type, and few owners of every buffer.
FewInv == TypeOK /\ \A b \in Buffers : Few(b)

\* Every operation keeps owners few.
LEMMA FewStep == FewInv /\ [Next]_vars => FewInv'
<1> SUFFICES ASSUME FewInv, [Next]_vars PROVE FewInv'
  OBVIOUS
<1>0. TypeOK /\ TypeOK' /\ again \in Nat
  BY TypeStep DEF FewInv, TypeOK
<1>1. ASSUME again' = again, \A b \in Buffers : Owners(b)' \subseteq Owners(b)
      PROVE  FewInv'
  BY <1>0, <1>1, FewerOwners DEF FewInv
<1>2. ASSUME NEW o \in Objects, Construct(o) PROVE FewInv'
  BY <1>0, <1>1, <1>2, NewOwners DEF Construct
<1>3. ASSUME NEW o \in Objects, NEW b \in Buffers, ConstructFrom(o, b) \/ Fill(o, b)
      PROVE  FewInv'
  <2>1. \A c \in Buffers : Owners(c)' = IF c = b THEN {o} ELSE Owners(c)
    BY <1>0, <1>3, NewOwners
  <2>2. again' = again
    BY <1>3 DEF ConstructFrom, Fill
  <2>3. IsFiniteSet({o}) /\ Cardinality({o}) = 1
    BY FS_Singleton
  <2>4. Few(b)'
    BY <1>0, <2>1, <2>2, <2>3 DEF Few
  <2>5. \A c \in Buffers \ {b} : Few(c)'
    BY <1>0, <2>1, <2>2, FewerOwners DEF FewInv
  <2> QED BY <1>0, <2>4, <2>5 DEF FewInv
<1>4. ASSUME NEW o \in Objects, Destroy(o) PROVE FewInv'
  BY <1>1, <1>4, DestroyOwners DEF Destroy
<1>5. ASSUME NEW from \in Objects, NEW to \in Objects,
             MoveConstruct(from, to) \/ MoveAssign(from, to)
      PROVE  FewInv'
  BY <1>0, <1>5, MoveKeepsFew DEF FewInv
<1>6. CASE UNCHANGED vars
  BY <1>1, <1>6 DEF vars, Owners
<1> QED BY <1>2, <1>3, <1>4, <1>5, <1>6 DEF Next

\* nothing is owned at first
LEMMA FewInit == Init => FewInv
<1> SUFFICES ASSUME Init PROVE FewInv
  OBVIOUS
<1>1. TypeOK
  BY OwnershipAssumption DEF Init, TypeOK
<1>2. \A b \in Buffers : Owners(b) = {}
  BY DEF Init, Owners
<1> QED BY <1>1, <1>2, FS_EmptySet DEF Init, FewInv, Few

\* Through any moves and assignments, to objects that own a buffer and to
\* themselves too, a buffer has one owner, and one more at most for each move from
\* an object that was moved from.
THEOREM OwnersStayFew == Spec => []OwnersAreFew
<1>1. FewInv => OwnersAreFew
  BY DEF FewInv, Few, OwnersAreFew
<1> QED BY <1>1, FewInit, FewStep, PTL DEF Spec

-----------------------------------------------------------------------------
(* Owners and what they own *)

\* The invariant of a program that has not moved from an object twice: besides,
\* the owner's buffer is there.
Owned == FewInv /\ OwnersHaveTheirBuffer

\* the owner is unique
LEMMA OwnerUnique ==
    ASSUME FewInv, again = 0, NEW b \in Buffers, NEW o \in Owners(b)
    PROVE  Owners(b) = {o}
<1>1. IsFiniteSet(Owners(b)) /\ Cardinality(Owners(b)) <= 1
  BY DEF FewInv, Few
<1>2. Cardinality(Owners(b)) \in Nat
  BY <1>1, FS_CardinalityType
<1>3. Cardinality(Owners(b)) # 0
  BY <1>1, FS_EmptySet
<1>4. Cardinality(Owners(b)) = 1
  BY <1>1, <1>2, <1>3
<1>5. \E x : Owners(b) = {x}
  BY <1>1, <1>4, FS_Singleton
<1> QED BY <1>5

\* Every operation leaves owners their buffers.
LEMMA OwnedStep == Owned /\ [Next]_vars => Owned'
<1> SUFFICES ASSUME Owned, [Next]_vars, again' = 0,
                    NEW b \in destroyed', NEW p \in Owners(b)'
             PROVE  FALSE
  BY FewStep DEF Owned, OwnersHaveTheirBuffer
<1>0. TypeOK /\ TypeOK' /\ FewInv /\ b \in Buffers
  BY FewStep DEF Owned, FewInv, TypeOK
<1>1. again = 0 => (b \in destroyed => Owners(b) = {})
  BY DEF Owned, OwnersHaveTheirBuffer
<1>2. ASSUME NEW o \in Objects, Construct(o) PROVE FALSE
  BY <1>0, <1>1, <1>2, NewOwners DEF Construct
<1>3. ASSUME NEW o \in Objects, NEW c \in Buffers, ConstructFrom(o, c) \/ Fill(o, c)
      PROVE  FALSE
  <2>1. Owners(b)' = IF b = c THEN {o} ELSE Owners(b)
    BY <1>0, <1>3, NewOwners
  <2>2. c \notin destroyed /\ destroyed' = destroyed /\ again' = again
    BY <1>0, <1>3 DEF ConstructFrom, Fill, TypeOK
  <2> QED BY <1>1, <2>1, <2>2
<1>4. ASSUME NEW o \in Objects, Destroy(o) PROVE FALSE
  <2>1. p \in Owners(b) /\ p # o /\ again = 0
    BY <1>0, <1>4, DestroyOwners DEF Destroy
  <2>2. o \in Owners(b)
    BY <1>1, <1>4, <2>1 DEF Destroy, Owners
  <2> QED BY <1>0, <2>1, <2>2, OwnerUnique
<1>5. ASSUME NEW from \in Objects, NEW to \in Objects,
             MoveConstruct(from, to) \/ MoveAssign(from, to)
      PROVE  FALSE
  <2>1. /\ from \in alive /\ destroyed' = destroyed
        /\ again' = IF from \in moved THEN again + 1 ELSE again
        /\ Owners(b)' = IF from # to /\ memory[from] = b
                        THEN (Owners(b) \ {from}) \cup {to}
                        ELSE Owners(b) \ {from, to}
    BY <1>0, <1>5, MoveOwners
  <2>2. again = 0 /\ from \notin moved
    BY <1>0, <2>1 DEF TypeOK
  <2>3. Owners(b) # {}
    BY <2>1, <2>2 DEF Owners
  <2> QED BY <1>1, <2>1, <2>2, <2>3
<1>6. CASE UNCHANGED vars
  BY <1>1, <1>6 DEF vars, Owners
<1> QED BY <1>2, <1>3, <1>4, <1>5, <1>6 DEF Next

\* nothing is destroyed at first
LEMMA OwnedInit == Init => Owned
BY FewInit DEF Init, Owned, OwnersHaveTheirBuffer

\* No buffer is destroyed twice, nor used by its owner after that, as long as the
\* program moves from no object twice.
THEOREM BuffersOutliveOwners == Spec => []OwnersHaveTheirBuffer
<1>1. Owned => OwnersHaveTheirBuffer
  BY DEF Owned
<1> QED BY <1>1, OwnedInit, OwnedStep, PTL DEF Spec

\* A buffer that is not destroyed loses its last owner to an assignment over it
\* only: constructors, destructors and all other moves leave it with one.
THEOREM OnlyOverwritesLeak == Spec => LeaksAreOverwrites
<1>1. ASSUME TypeOK, [Next]_vars, NEW b \in allocated' \ destroyed',
             b \in allocated => Owners(b) # {}, Owners(b)' = {}
      PROVE  \E from \in Objects, to \in Owners(b) : MoveAssign(from, to)
  <2>0. TypeOK' /\ b \in Buffers
    BY <1>1, TypeStep DEF TypeOK
  <2>1. ASSUME NEW o \in Objects, Construct(o) PROVE FALSE
    BY <1>1, <2>0, <2>1, NewOwners DEF Construct
  <2>2. ASSUME NEW o \in Objects, NEW c \in Buffers, ConstructFrom(o, c) \/ Fill(o, c)
        PROVE  FALSE
    <3>1. Owners(b)' = IF b = c THEN {o} ELSE Owners(b)
      BY <1>1, <2>0, <2>2, NewOwners
    <3>2. allocated' = allocated \cup {c}
      BY <2>2 DEF ConstructFrom, Fill
    <3> QED BY <1>1, <3>1, <3>2
  <2>3. ASSUME NEW o \in Objects, Destroy(o) PROVE FALSE
    <3>1. Owners(b)' = Owners(b) \ {o} /\ b \in allocated
      BY <1>1, <2>0, <2>3, DestroyOwners DEF Destroy
    <3>2. o \in Owners(b)
      BY <1>1, <3>1
    <3>3. b \in destroyed'
      BY <2>0, <2>3, <3>2, OwnershipAssumption DEF Destroy, Owners
    <3> QED BY <1>1, <3>3
  <2>4. ASSUME NEW from \in Objects, NEW to \in Objects,
               MoveConstruct(from, to) \/ MoveAssign(from, to)
        PROVE  to \in Owners(b) /\ MoveAssign(from, to)
    <3>1. /\ allocated' = allocated
          /\ Owners(b)' = IF from # to /\ memory[from] = b
                          THEN (Owners(b) \ {from}) \cup {to}
                          ELSE Owners(b) \ {from, to}
      BY <1>1, <2>0, <2>4, MoveOwners
    <3>2. PICK o \in Owners(b) : o = to \/ (o = from /\ memory[from] # b)
      BY <1>1, <3>1
    <3>3. o = to
      BY <3>2 DEF Owners
    <3>4. ~MoveConstruct(from, to)
      BY <3>2, <3>3 DEF MoveConstruct, Owners
    <3> QED BY <2>4, <3>2, <3>3, <3>4
  <2>5. CASE UNCHANGED vars
    BY <1>1, <2>5 DEF vars, Owners
  <2> QED BY <1>1, <2>1, <2>2, <2>3, <2>4, <2>5 DEF Next
<1>2. TypeOK /\ [Next]_vars =>
        [\A b \in allocated' \ destroyed' :
           (b \in allocated => Owners(b) # {}) /\ Owners(b)' = {}
             => \E from \in Objects, to \in Owners(b) : MoveAssign(from, to)]_vars
  BY <1>1
<1> QED BY <1>2, TypeCorrect, PTL DEF Spec, LeaksAreOverwrites

-----------------------------------------------------------------------------
(* Ownership implements UniqueOwner *)

\* who owns what, from the owners of the buffers
OwnerTold ==
    again = 0 =>
      \A b \in Buffers :
        /\ b \notin allocated => owner[b] = None
        /\ b \in destroyed => owner[b] = Gone
        /\ b \in allocated \ destroyed /\ Owners(b) = {} => owner[b] = Lost
        /\ \A o \in Objects : owner[b] = o <=> o \in Owners(b)

LEMMA OwnerIs == Owned => OwnerTold
<1> SUFFICES ASSUME Owned, again = 0, NEW b \in Buffers
             PROVE  /\ b \notin allocated => owner[b] = None
                    /\ b \in destroyed => owner[b] = Gone
                    /\ b \in allocated \ destroyed /\ Owners(b) = {} => owner[b] = Lost
                    /\ \A o \in Objects : owner[b] = o <=> o \in Owners(b)
  BY DEF OwnerTold
<1>1. owner[b] = IF b \notin allocated THEN None
                 ELSE IF b \in destroyed THEN Gone
                 ELSE IF Owners(b) = {} THEN Lost
                 ELSE IF \E o \in Objects : Owners(b) = {o}
                      THEN CHOOSE o \in Objects : Owners(b) = {o}
                 ELSE "shared"
  BY DEF owner
<1>2. FewInv /\ TypeOK /\ destroyed \subseteq allocated
  BY DEF Owned, FewInv, TypeOK
<1>3. Owners(b) \subseteq Objects
  BY <1>2 DEF Owners, TypeOK
<1>4. Owners(b) # {} => b \in allocated /\ b \notin destroyed
  BY <1>2, OwnershipAssumption DEF Owned, OwnersHaveTheirBuffer, Owners, TypeOK
<1>5. None \notin Objects /\ Gone \notin Objects /\ Lost \notin Objects
  BY OwnershipAssumption DEF None, Gone, Lost
<1>6. CASE Owners(b) = {}
  BY <1>1, <1>2, <1>5, <1>6
<1>7. ASSUME NEW o \in Owners(b)
      PROVE  owner[b] = o
  <2>1. Owners(b) = {o}
    BY <1>2, OwnerUnique
  <2>2. owner[b] = CHOOSE p \in Objects : Owners(b) = {p}
    BY <1>1, <1>3, <1>4, <2>1
  <2> QED BY <1>3, <2>1, <2>2
<1>8. CASE Owners(b) # {}
  <2>1. PICK o \in Owners(b) : Owners(b) = {o}
    BY <1>2, <1>8, OwnerUnique
  <2> QED BY <1>3, <1>4, <1>7, <2>1
<1> QED BY <1>6, <1>8

\* the same after a step
LEMMA OwnerIsNext == Owned' => OwnerTold'
BY OwnerIs, PTL

\* A step passes buffers on, gets new ones, or destroys or loses one.
LEMMA UniqueStep ==
    ASSUME Owned, [Next]_vars, again' = 0
    PROVE  Unique!Next \/ UNCHANGED owner
<1>0. TypeOK /\ FewInv /\ Owned' /\ TypeOK'
  BY OwnedStep DEF Owned, FewInv
<1>1. again = 0
  BY <1>0 DEF Next, Construct, ConstructFrom, Fill, Destroy, MoveConstruct, MoveAssign,
              MoveFrom, TypeOK, vars
<1>2. /\ \A b \in Buffers : b \notin allocated => owner[b] = None
      /\ \A b \in Buffers, o \in Objects : owner[b] = o <=> o \in Owners(b)
  BY <1>0, <1>1, OwnerIs DEF OwnerTold
<1>3. /\ \A b \in Buffers : b \in destroyed' => owner'[b] = Gone
      /\ \A b \in Buffers : b \in allocated' \ destroyed' /\ Owners(b)' = {}
                              => owner'[b] = Lost
      /\ \A b \in Buffers, o \in Objects : owner'[b] = o <=> o \in Owners(b)'
  BY <1>0, OwnerIsNext DEF OwnerTold
<1>4. ASSUME NEW b \in Buffers,
             b \in allocated <=> b \in allocated',
             b \in destroyed <=> b \in destroyed',
             Owners(b)' = Owners(b)
      PROVE  owner'[b] = owner[b]
  BY <1>4 DEF owner
<1>5. ASSUME allocated' = allocated, destroyed' = destroyed,
             \A b \in Buffers : Owners(b)' = Owners(b)
      PROVE  UNCHANGED owner
  BY <1>4, <1>5 DEF owner
<1>6. owner = [b \in Buffers |-> owner[b]] /\ owner' = [b \in Buffers |-> owner'[b]]
  BY DEF owner
<1>7. \A b \in Buffers : \A o \in Owners(b) :
         /\ b \in allocated \ destroyed /\ o \in Objects
         /\ Owners(b) = {o} /\ owner[b] = o
  BY <1>0, <1>1, <1>2, OwnerUnique, OwnershipAssumption
     DEF Owned, OwnersHaveTheirBuffer, Owners, TypeOK
<1> HIDE DEF owner
<1>8. ASSUME NEW o \in Objects, Construct(o) PROVE UNCHANGED owner
  BY <1>0, <1>5, <1>8, NewOwners DEF Construct
<1>9. ASSUME NEW o \in Objects, NEW b \in Buffers, ConstructFrom(o, b) \/ Fill(o, b)
      PROVE  Unique!Next
  <2>1. /\ b \notin allocated /\ allocated' = allocated \cup {b}
        /\ destroyed' = destroyed
    BY <1>9 DEF ConstructFrom, Fill
  <2>2. \A c \in Buffers : Owners(c)' = IF c = b THEN {o} ELSE Owners(c)
    BY <1>0, <1>9, NewOwners
  <2>3. \A c \in Buffers : owner'[c] = IF c = b THEN o ELSE owner[c]
    BY <1>3, <1>4, <2>1, <2>2
  <2>4. owner' = [owner EXCEPT ![b] = o]
    BY <1>6, <2>3
  <2>5. \A c \in Buffers : o \notin Owners(c)
    BY <1>9, OwnershipAssumption DEF ConstructFrom, Fill, Owners
  <2>6. Unique!Get(o, b)
    BY <1>2, <2>1, <2>4, <2>5 DEF Unique!Get
  <2> QED BY <2>6 DEF Unique!Next
<1>10. ASSUME NEW o \in Objects, Destroy(o) PROVE Unique!Next \/ UNCHANGED owner
  <2>1. /\ \A b \in Buffers : Owners(b)' = Owners(b) \ {o}
        /\ allocated' = allocated
    BY <1>10, DestroyOwners DEF Destroy
  <2>2. CASE o \in moved \/ memory[o] = NoBuffer
    <3>1. \A b \in Buffers : o \notin Owners(b)
      BY <2>2, OwnershipAssumption DEF Owners
    <3> QED BY <1>5, <1>10, <2>1, <2>2, <3>1 DEF Destroy
  <2>3. CASE ~(o \in moved \/ memory[o] = NoBuffer)
    <3>1. PICK b \in Buffers : o \in Owners(b) /\ destroyed' = destroyed \cup {b}
      BY <1>0, <1>10, <2>3 DEF Destroy, Owners, TypeOK
    <3>2. \A c \in Buffers \ {b} : Owners(c)' = Owners(c)
      BY <2>1, <3>1 DEF Owners
    <3>3. \A c \in Buffers : owner'[c] = IF c = b THEN Gone ELSE owner[c]
      BY <1>3, <1>4, <2>1, <3>1, <3>2
    <3>4. owner' = [owner EXCEPT ![b] = Gone]
      BY <1>6, <3>3
    <3>5. Unique!Destroy(b)
      BY <1>7, <3>1, <3>4 DEF Unique!Destroy
    <3> QED BY <3>5 DEF Unique!Next
  <2> QED BY <2>2, <2>3
<1>11. ASSUME NEW from \in Objects, NEW to \in Objects,
              MoveConstruct(from, to) \/ MoveAssign(from, to)
       PROVE  Unique!Next \/ UNCHANGED owner
  <2>1. /\ from \in alive
        /\ allocated' = allocated /\ destroyed' = destroyed
        /\ again' = IF from \in moved THEN again + 1 ELSE again
        /\ \A b \in Buffers :
             Owners(b)' = IF from # to /\ memory[from] = b
                          THEN (Owners(b) \ {from}) \cup {to}
                          ELSE Owners(b) \ {from, to}
    BY <1>0, <1>11, MoveOwners
  <2>2. from \notin moved
    BY <1>1, <2>1
  <2>3. \A b \in Buffers : from \in Owners(b) <=> memory[from] = b
    BY <2>1, <2>2 DEF Owners
  <2>4. ASSUME NEW c \in Buffers, Owners(c)' = Owners(c) \ {to}
        PROVE  owner'[c] = IF to \in Owners(c) THEN Lost ELSE owner[c]
    <3>1. CASE to \in Owners(c)
      BY <1>3, <1>7, <2>1, <2>4, <3>1
    <3>2. CASE to \notin Owners(c)
      BY <1>4, <2>1, <2>4, <3>2
    <3> QED BY <3>1, <3>2
  <2>5. CASE from = to \/ memory[from] = NoBuffer
    <3>1. \A c \in Buffers : Owners(c)' = Owners(c) \ {to}
      BY <2>1, <2>3, <2>5, OwnershipAssumption
    <3>2. CASE \A c \in Buffers : to \notin Owners(c)
      BY <1>5, <2>1, <3>1, <3>2
    <3>3. ASSUME NEW b \in Buffers, to \in Owners(b) PROVE Unique!Next
      <4>1. \A c \in Buffers : to \in Owners(c) <=> c = b
        BY <3>3 DEF Owners
      <4>2. \A c \in Buffers : owner'[c] = IF c = b THEN Lost ELSE owner[c]
        BY <2>4, <3>1, <4>1
      <4>3. owner' = [owner EXCEPT ![b] = Lost]
        BY <1>6, <4>2
      <4>4. Unique!Lose(b)
        BY <1>7, <3>3, <4>3 DEF Unique!Lose
      <4> QED BY <4>4 DEF Unique!Next
    <3> QED BY <3>2, <3>3
  <2>6. CASE from # to /\ memory[from] # NoBuffer
    <3>1. PICK b \in Buffers : from \in Owners(b)
      BY <1>0, <2>3, <2>6 DEF TypeOK
    <3>2. owner[b] \in Objects \ {to} /\ to \in Owners(b)'
      BY <1>7, <2>1, <2>3, <2>6, <3>1
    <3>3. owner'[b] = to
      BY <1>3, <3>2
    <3>4. \A c \in Buffers \ {b} : Owners(c)' = Owners(c) \ {to}
      BY <2>1, <2>3, <3>1
    <3>5. \A c \in Buffers : owner'[c] = IF c = b THEN to
                                         ELSE IF owner[c] = to THEN Lost
                                         ELSE owner[c]
      BY <1>2, <2>4, <3>3, <3>4
    <3>6. owner' = [c \in Buffers |-> IF c = b THEN to
                                      ELSE IF owner[c] = to THEN Lost
                                      ELSE owner[c]]
      BY <1>6, <3>5
    <3>7. Unique!Pass(to, b)
      BY <3>2, <3>6 DEF Unique!Pass
    <3> QED BY <3>7 DEF Unique!Next
  <2> QED BY <2>5, <2>6
<1>12. CASE UNCHANGED vars
  BY <1>5, <1>12 DEF vars, Owners
<1> QED BY <1>8, <1>9, <1>10, <1>11, <1>12 DEF Next

\* As long as a program moves from no object twice, AMQPStruct is the unique owner
\* it promises to be, and forgets a buffer only when its owner is assigned to.
THEOREM OwnershipKept == Spec => ImplementsUniqueOwner
<1>1. Init => Unique!Init
  BY DEF Init, owner, Unique!Init
<1>2. Owned /\ [Next]_vars =>
        [again' = 0 => Unique!Next \/ UNCHANGED owner]_vars
  BY UniqueStep
<1> QED BY <1>1, <1>2, OwnedInit, OwnedStep, PTL DEF Spec, ImplementsUniqueOwner
=============================================================================
