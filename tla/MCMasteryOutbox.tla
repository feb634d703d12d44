-------------------------- MODULE MCMasteryOutbox --------------------------
EXTENDS MasteryOutbox

CONSTANTS e1, e2

\* One answer and its rewrite.
Found == [i \in Issues |-> e1]
Rewritten == [i \in Issues |-> e2]
=============================================================================
