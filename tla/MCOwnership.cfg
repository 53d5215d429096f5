SPECIFICATION Spec
CONSTANTS
    Objects = {o1, o2, o3, o4}
    Buffers = {b1, b2, b3}
    NoBuffer = NoBuffer
    MaxAgain = 2
SYMMETRY Symmetry
INVARIANTS
    TypeOK
    OwnersAreFew
    OwnersHaveTheirBuffer
PROPERTIES
    LeaksAreOverwrites
    ImplementsUniqueOwner
