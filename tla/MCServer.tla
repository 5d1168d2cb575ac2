------------------------------ MODULE MCServer ------------------------------
EXTENDS Server

\* Where a signal does not interrupt start() half-way or a coutMutex section.
QuietLabels ==
  (MainLabels \cup StopLabels)
    \ (PrintLabels \cup {"startPipeline", "spawnAccept"})
HalfStarted == {"startPipeline", "spawnAccept"}
=============================================================================
