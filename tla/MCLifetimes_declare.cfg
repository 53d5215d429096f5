SPECIFICATION Spec
CONSTANTS
  c1 = c1
  c2 = c2
  Ids <- MCIds
  MaxReplies = 5
SYMMETRY MCSymmetry
INVARIANTS
  DeclareResultStays
