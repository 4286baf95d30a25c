----------------------------- MODULE MCWebTasks -----------------------------
EXTENDS WebTasks

CONSTANTS t1, t2

\* The second task goes first.
MCPriority == [t \in Tasks |-> IF t = t1 THEN 2 ELSE 1]
=============================================================================
