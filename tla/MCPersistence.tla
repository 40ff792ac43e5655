--------------------------- MODULE MCPersistence ---------------------------
(***************************************************************************)
(* Small instances of Persistence for TLC.                                 *)
(***************************************************************************)
EXTENDS Persistence, TLC

CONSTANTS r1

\* Empty, and each set of one Reference with its media: enough to add, retain, replace
\* and drop media, and to create and delete the Reference.
MCWorkspaces ==
    {EmptyWorkspace} \cup {[references |-> {r1}, media |-> s] : s \in SUBSET Media \ {{}}}

MCSymmetry == Permutations(Callers) \cup Permutations(Contents)

=============================================================================
