--------------------------- MODULE MCOfflineSync ---------------------------
EXTENDS OfflineSync

\* The lock comes last; there is at most one other flag in these instances.
MCRank == [f \in Flag |-> IF f = Lock THEN 1 ELSE 0]
=============================================================================
