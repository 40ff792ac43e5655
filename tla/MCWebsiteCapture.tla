--------------------------- MODULE MCWebsiteCapture ---------------------------
EXTENDS WebsiteCapture, TLC

CONSTANTS c1, c2, server, mcp

TwoProcesses == (c1 :> server) @@ (c2 :> mcp)

=============================================================================
