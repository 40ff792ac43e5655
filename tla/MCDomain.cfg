CONSTANTS
  ProjectIds = {p, q}
  ReferenceIds = {r1, r2}
  AssetIds = {a1, a2}
  TargetIds = {t1, t2}
  MomentIds = {m1, m2}
  SelectionIds = {s1, s2}
  BoardIds = {b1, b2}
  NoId = NoId
  EmptyId = EmptyId
SPECIFICATION Spec
SYMMETRY Symmetry
INVARIANTS Valid RowsFaithful ExportsStayInProject
PROPERTIES OnlyOwnedRemoved
