--------------------------- MODULE MCQProjProfile ---------------------------
EXTENDS QProjProfile

CONSTANTS p1, p2, a1, a2

\* The two profiles want the same adapters in opposite orders.
MCPaths == p1 :> <<a1, a2>> @@ p2 :> <<a2, a1>>
=============================================================================
