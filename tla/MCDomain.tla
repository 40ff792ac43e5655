------------------------------ MODULE MCDomain ------------------------------
EXTENDS Domain, TLC

Symmetry == Permutations(ProjectIds) \cup Permutations(ReferenceIds)
              \cup Permutations(AssetIds) \cup Permutations(TargetIds)
              \cup Permutations(MomentIds) \cup Permutations(SelectionIds) \cup Permutations(BoardIds)
=============================================================================
