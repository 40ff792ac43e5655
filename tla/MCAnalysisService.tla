--------------------------- MODULE MCAnalysisService ---------------------------
EXTENDS AnalysisService, TLC

CONSTANTS q1, q2, server, mcp, preserve, adapt

TwoProcess == (q1 :> server) @@ (q2 :> mcp)
OneIntent == (q1 :> preserve) @@ (q2 :> preserve)

=============================================================================
