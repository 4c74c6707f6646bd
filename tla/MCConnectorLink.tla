-------------------------- MODULE MCConnectorLink --------------------------
EXTENDS ConnectorLink

CONSTANTS r1, r2, p1, w1, w2

MCPasses == {r1, r2}
MCPulls == {p1}
MCRequests == {w1, w2}
=============================================================================
