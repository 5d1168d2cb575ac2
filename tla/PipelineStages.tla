--------------------------- MODULE PipelineStages ---------------------------
(***************************************************************************)
(* The composition of Pipeline and ActiveObject: every stage of the        *)
(* pipeline behaves as one ActiveObject.                                   *)
(***************************************************************************)
EXTENDS Pipeline

\* The task of stage s calls the callback, or enqueue() of the next stage.
WorkerOf(s) ==
  IF worker[s] = "notifying" THEN "awake"
  ELSE IF worker[s] = "blocked" THEN "executing"
  ELSE worker[s]

OwnerOf(s) ==
  IF at = s /\ owner = "spawning" THEN "starting"
  ELSE IF at = s /\ owner = "joining" THEN "joining"
  ELSE "idle"

\* The callers of a stage are the handlers for stage 0, and the worker of
\* the previous stage for the others.
NotifyingOf(s) ==
  IF s = 0 THEN notifying ELSE {r \in {s - 1} : worker[r] = "notifying"}

StopMarkOf(s) == IF StopRequested(s) THEN Len(log[s]) ELSE 0

\* Each stage is an active object.
Stage(s) == INSTANCE ActiveObject WITH
  Callers <- Handlers \cup Stages,
  Tasks <- Jobs,
  NoTask <- NoJob,
  queue <- queue[s],
  running <- running[s],
  worker <- WorkerOf(s),
  current <- current[s],
  owner <- OwnerOf(s),
  notifying <- NotifyingOf(s),
  pushed <- log[s],
  executed <- log[s + 1],
  stopMark <- StopMarkOf(s)

StagesAreActiveObjects ==
  /\ \A s \in Stages : Stage(s)!Init
  /\ [][\A s \in Stages : Stage(s)!Next \/ UNCHANGED Stage(s)!vars]_vars
=============================================================================
