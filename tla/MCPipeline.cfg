\* Three jobs, one of them with an empty MST, so that two can be in flight
\* behind or ahead of it.  Deadlock is not an error here: that job stops
\* stage 0 for good (Pipeline.cpp:63-65).  No symmetry, because of the
\* temporal properties.
CONSTANTS
  NumStages = 5
  Handlers = {h1, h2}
  Jobs = {j1, j2, j3}
  EmptyMstJobs = {j3}
  NoJob = NoJob
SPECIFICATION Spec
INVARIANTS
  TypeOK
  StageFifo
  NoLostWakeup
  StopDrainsInOrder
  NoTaskAfterStop
PROPERTIES
  ImplementsService
  StagesAreActiveObjects
  AnsweredUnlessBlocked
  StopReturns
CHECK_DEADLOCK FALSE
