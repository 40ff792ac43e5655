CONSTANTS
  Pages = {hasty}
  Careful = {}
  Slots = {s1, s2}
  MaxRevision = 3
SPECIFICATION Spec
SYMMETRY Symmetry
PROPERTIES StaleWritersRefused
