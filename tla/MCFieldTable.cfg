SPECIFICATION Spec
CONSTANTS
    Sources = {s}
    Entries = {e, f}
    Tables = {t, u}
    MaxBlocks = 5
INVARIANTS
    TypeOK
    TablesFollowTheirParts
