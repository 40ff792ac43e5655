CONSTANTS
  Pages = {careful, hasty}
  Careful = {careful}
  Slots = {s1, s2}
  MaxRevision = 3
SPECIFICATION Spec
SYMMETRY Symmetry
PROPERTIES CarefulOverwritesNothing
