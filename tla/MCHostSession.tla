---------------------------- MODULE MCHostSession ----------------------------
\* Two nodes in two sources; one can be read in two windows.
EXTENDS HostSession, TLC

CONSTANTS n1, n2

MCNodes == {n1, n2}
MCParts == (n1 :> {1, 2}) @@ (n2 :> {1})
==============================================================================
