------------------------------ MODULE MCGraph ------------------------------
EXTENDS Graph

Loopless == {e \in Ids \X Ids : e[1] # e[2]}
WithLoops == Ids \X Ids
=============================================================================
