SPECIFICATION Spec
CONSTANTS
  Views = {x, y, z}
  Texts = {1, 2, 3}
SYMMETRY Symmetry
INVARIANTS
  TagMatches
  HoldsAssigned
  LeakOnlyByBlank
  OrderConsistent
