--------------------------- MODULE MCDispatcher ---------------------------
(* The dispatcher on small instances.                                        *)
EXTENDS DispatcherProperties

CONSTANTS r1, r2, r3, p1, p2, p3

\* Two normal requests, one of them delayed, and an urgent one.
MCPriority == [r \in Requests |-> IF r = r3 THEN 0 ELSE 1]
MCDelayMs == [r \in Requests |-> IF r = r2 THEN 2 ELSE 0]
MCEstimate == [r \in Requests |-> IF r = r2 THEN 3 ELSE 1]
MCSentAsFlood == [r \in Requests |-> r = r1]

\* Two weak floods, the second weaker than the longest delay, and a direct frame.
MCHeardAsFlood == [p \in Packets |-> p # p3]
MCRawDelayMs == [p \in Packets |-> IF p = p1 THEN 2 ELSE 6]
=============================================================================
