---------------------------- MODULE MCMcpServer ----------------------------
\* Two calls of two sessions and a listing.
EXTENDS McpServer
CONSTANTS c1, c2, l1, s1, s2
OwnSessions == [c \in Calls |-> IF c = c1 THEN s1 ELSE s2]
=============================================================================
