---------------------------- MODULE MCClientQueue ----------------------------
EXTENDS ClientQueue, TLC

CONSTANTS high, normal, low1, low2

MCPriority == (high :> 0) @@ (normal :> 1) @@ (low1 :> 2) @@ (low2 :> 2)
=============================================================================
