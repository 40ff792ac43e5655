-------------------------- MODULE MCServerLifecycle --------------------------
(***************************************************************************)
(* A small instance of ServerLifecycle for TLC.                            *)
(***************************************************************************)
EXTENDS ServerLifecycle

CONSTANTS web, mcp

\* Two releases that agree on the first version only: whoever migrates second skips
\* one version and meets another checksum at the next, unless the first stopped there.
MCRelease == [p \in Processes |-> IF p = web THEN <<"a", "b">> ELSE <<"a", "c">>]

=============================================================================
